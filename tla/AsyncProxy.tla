------------------------------ MODULE AsyncProxy ------------------------------
(***************************************************************************)
(* _AsyncProxyBase of asyncio_session.py, with the `async with` protocol   *)
(* that its three proxies repeat: coroutines on one event loop submit      *)
(* every call on the inner object to a pool of one worker thread.  A       *)
(* proxy's module EXTENDS this one and adds what the worker runs.          *)
(*                                                                         *)
(* The loop runs one coroutine at a time, up to its next await; aclose     *)
(* blocks the loop's thread.  One task, Owner, runs the `async with`; the  *)
(* others use the proxy it has opened, and any of them may be cancelled.   *)
(*                                                                         *)
(* External: asyncio and ThreadPoolExecutor (first in first out; a future  *)
(* cancelled before it runs never does; shutdown runs what is queued and   *)
(* refuses more).                                                          *)
(***************************************************************************)
EXTENDS Integers, Sequences, FiniteSets, SequencesExt

CONSTANTS
  Tasks, Owner,  \* coroutines, and the one that runs the `async with`
  Calls,         \* Calls[t]: the kinds of job task t may submit; "aclose" is none
  MaxCalls,      \* bound: MaxCalls[t] jobs of task t, the Owner's enter and exit included
  Cancellable,   \* tasks that may be cancelled while they await
  NoTask, NoJob

Ids == UNION {{t} \X (1..MaxCalls[t]) : t \in Tasks}

ASSUME ProxyAssumption ==
  /\ Owner \in Tasks /\ MaxCalls \in [Tasks -> Nat] /\ Cancellable \subseteq Tasks
  /\ NoTask \notin Tasks /\ NoJob \notin Ids

VARIABLES
  proxy,    \* the proxy: whether it has its inner object, whether it is closed
  queue,    \* the pool's queue
  worker,   \* the pool's thread: the job it runs, and where it is
  done,     \* futures that have an outcome nobody has taken yet
  loop,     \* the task that keeps the loop's thread between two awaits
  pc, n     \* where each task is, and how many jobs it has submitted

poolVars == <<worker, done>>
taskVars == <<proxy, queue, loop, pc, n>>
proxyVars == <<poolVars, taskVars>>

ProxyTypeOK(jobKinds, taskLabels, workerLabels) ==
  /\ proxy \in [inner : BOOLEAN, closed : BOOLEAN]
  /\ queue \in Seq([id : Ids, kind : jobKinds])
  /\ worker \in [at : workerLabels \cup {"idle"}, job : Ids \cup {NoJob}, kind : jobKinds]
  /\ done \subseteq [id : Ids, kind : jobKinds, ok : BOOLEAN]
  /\ loop \in Tasks \cup {NoTask}
  /\ pc \in [Tasks -> taskLabels \cup {"outside", "entering", "ready", "awaiting", "in_aclose",
                                       "exiting", "in_exit_aclose", "exited", "raised"}]
  /\ DOMAIN n = Tasks /\ \A t \in Tasks : n[t] \in 0..MaxCalls[t]

ProxyInit ==
  /\ proxy = [inner |-> FALSE, closed |-> FALSE]
  /\ queue = <<>>
  /\ worker = [at |-> "idle", job |-> NoJob, kind |-> "close"]
  /\ done = {}
  /\ loop = NoTask
  /\ pc = [t \in Tasks |-> IF t = Owner THEN "outside" ELSE "ready"]
  /\ n = [t \in Tasks |-> 0]

-----------------------------------------------------------------------------
At(t, label) == pc[t] = label
Goto(t, label) == pc' = [pc EXCEPT ![t] = label]
Running(t) == loop \in {NoTask, t}            \* t's code can run on the loop's thread
Me(t) == <<t, n[t]>>

(* A task awaits the outcome of the job, and no exception has taken it off. *)
Awaited(id) == pc[id[1]] \in {"entering", "awaiting", "exiting"} /\ n[id[1]] = id[2]

(* _call: run_in_executor, which raises once the pool is shut down *)
Submit(t, kind, awaiting, raised) ==
  /\ Running(t) /\ n[t] < MaxCalls[t]
  /\ n' = [n EXCEPT ![t] = @ + 1]
  /\ IF proxy.closed THEN Goto(t, raised) /\ UNCHANGED queue
     ELSE Goto(t, awaiting) /\ queue' = Append(queue, [id |-> <<t, n[t] + 1>>, kind |-> kind])
  /\ UNCHANGED <<poolVars, proxy, loop>>

(* __aenter__ *)
Enter(t) == t = Owner /\ At(t, "outside") /\ Submit(t, "create", "entering", "raised")

(* A coroutine of the proxy; the Owner keeps a job for its exit. *)
Call(t) ==
  /\ At(t, "ready") /\ proxy.inner /\ (t = Owner => n[t] + 1 < MaxCalls[t])
  /\ \E kind \in Calls[t] \ {"aclose"} : Submit(t, kind, "awaiting", "ready")

(* __aexit__ closes the inner object in the pool, then the pool. *)
Exit(t) == t = Owner /\ At(t, "ready") /\ Submit(t, "close", "exiting", "raised")

(* A job's outcome reaches the task that awaits it. *)
Resume(t) ==
  /\ loop = NoTask /\ Awaited(Me(t))
  /\ \E o \in done :
       /\ o.id = Me(t) /\ done' = done \ {o}
       /\ CASE At(t, "entering") -> /\ Goto(t, IF o.ok THEN "ready" ELSE "raised")
                                    /\ proxy' = [proxy EXCEPT !.inner = o.ok]
                                    /\ UNCHANGED loop
            [] At(t, "awaiting") -> Goto(t, "ready") /\ UNCHANGED <<loop, proxy>>
            [] At(t, "exiting") -> /\ proxy' = [proxy EXCEPT !.closed = TRUE]
                                   /\ IF proxy.closed THEN Goto(t, "exited") /\ UNCHANGED loop
                                      ELSE Goto(t, "in_exit_aclose") /\ loop' = t
  /\ UNCHANGED <<queue, worker, n>>

(* aclose() inside the block: the flag, then shutdown(wait=True) *)
Aclose(t) ==
  /\ At(t, "ready") /\ "aclose" \in Calls[t] /\ Running(t) /\ ~proxy.closed
  /\ proxy' = [proxy EXCEPT !.closed = TRUE]
  /\ Goto(t, "in_aclose") /\ loop' = t
  /\ UNCHANGED <<poolVars, queue, n>>

PoolQuiet == queue = <<>> /\ worker.at = "idle"
AfterAclose(t) == IF At(t, "in_aclose") THEN "ready" ELSE "exited"

(* MUTANTS of AcloseReturn: shutdown(wait=False); a wait, on the loop's    *)
(* thread, for the calls of all the other tasks to be over                 *)
AcloseReturnAtOnce(t) ==
  /\ pc[t] \in {"in_aclose", "in_exit_aclose"}
  /\ Goto(t, AfterAclose(t)) /\ loop' = NoTask
  /\ UNCHANGED <<poolVars, proxy, queue, n>>
AcloseReturnGathered(t) ==
  /\ pc[t] \in {"in_aclose", "in_exit_aclose"} /\ \A u \in Tasks : ~At(u, "awaiting")
  /\ Goto(t, AfterAclose(t)) /\ loop' = NoTask
  /\ UNCHANGED <<poolVars, proxy, queue, n>>

AcloseReturn(t) ==
  /\ pc[t] \in {"in_aclose", "in_exit_aclose"} /\ PoolQuiet
  /\ Goto(t, AfterAclose(t)) /\ loop' = NoTask
  /\ UNCHANGED <<poolVars, proxy, queue, n>>

(* A task is cancelled at its await: a job that has not begun never will.  *)
Cancel(t) ==
  /\ t \in Cancellable /\ loop = NoTask /\ Awaited(Me(t))
  /\ Goto(t, IF At(t, "awaiting") THEN "ready" ELSE "raised")
  /\ \/ \E i \in DOMAIN queue : queue[i].id = Me(t) /\ queue' = RemoveAt(queue, i)
     \/ (\A i \in DOMAIN queue : queue[i].id # Me(t)) /\ UNCHANGED queue
  /\ UNCHANGED <<poolVars, proxy, loop, n>>

(* The worker's thread takes the next job, *)
Take ==
  /\ worker.at = "idle" /\ queue # <<>> /\ queue' = Tail(queue)
  /\ LET job == Head(queue) IN
       worker' = [at |-> "start", job |-> job.id, kind |-> job.kind]
  /\ UNCHANGED <<proxy, done, loop, pc, n>>

(* goes on with it, *)
To(label) == worker' = [worker EXCEPT !.at = label] /\ UNCHANGED done

(* and ends it. *)
Return(ok) ==
  /\ worker' = [worker EXCEPT !.at = "idle", !.job = NoJob]
  /\ done' = done \cup {[id |-> worker.job, kind |-> worker.kind, ok |-> ok]}

(* Every awaited call comes to an end, although aclose blocks the loop: the *)
(* worker never needs the loop to finish what is queued.                    *)
EveryCallResolves ==
  \A t \in Tasks : pc[t] \in {"entering", "awaiting", "exiting", "in_aclose", "in_exit_aclose"} ~>
                     pc[t] \in {"ready", "exited", "raised"}
================================================================================
