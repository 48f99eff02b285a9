----------------------------- MODULE AsyncSession -----------------------------
(***************************************************************************)
(* Session (session.py) behind the AsyncSession proxy: what the worker of  *)
(* AsyncProxy runs on a Session and on the Program it borrows, and who     *)
(* keeps the two alive when tasks are cancelled, when the pool is closed   *)
(* inside the block, and when everybody has let go of the proxy.           *)
(*                                                                         *)
(* The Session takes no part of its lock here: one thread calls it.        *)
(*                                                                         *)
(* External: the engine, and reference counting, which finalises an object *)
(* the moment nobody refers to it.                                         *)
(***************************************************************************)
EXTENDS AsyncProxy

CONSTANT Blocks   \* what the Owner's `async with` may stand in (see block)

Kinds == {"insert", "step", "snapshot", "preview_inline_facts", "aclose"}
JobKinds == {"create", "insert", "step", "snapshot", "preview_inline_facts", "close"}

ASSUME ConstantsAssumption == 
  /\ Calls \in [Tasks -> SUBSET Kinds]
  /\ Blocks \subseteq {"none", "orderly", "any"}

VARIABLES
  \* what the `async with` stands in: no `with Program.from_string(...)`; one, and
  \* the Owner is not cancelled nor the pool closed inside; one, whatever happens
  block,
  engine,     \* external: the program and the session of libwirelog
  inner,      \* the Session object
  drained,    \* rows each step's drain() has taken from the slot's queue
  history     \* jobs whose rows a task got, jobs whose await was cancelled

vars == <<proxyVars, block, engine, inner, drained, history>>

TaskLabels == {"gone"}
WorkerLabels == {"start", "in_create", "in_iud", "in_set_cb", "in_step", "drain", "in_snapshot",
                 "in_facts", "in_clear_cb", "in_destroy"}

TypeOK ==
  /\ ProxyTypeOK(JobKinds, TaskLabels, WorkerLabels)
  /\ block \in Blocks
  /\ engine \in [program : {"open", "freed"}, session : {"none", "open", "freed"},
                 staged : SUBSET Ids, evaluated : SUBSET Ids]
  /\ inner \in [object : {"none", "live", "finalising", "gone"}, handle : BOOLEAN,
                mode : {"UNSET", "INCREMENTAL", "QUERY"}, deltaCb : BOOLEAN, queue : SUBSET Ids]
  /\ drained \in [Ids -> SUBSET Ids]
  /\ history \in [delivered : SUBSET Ids, cancelled : SUBSET Ids]

Init ==
  /\ ProxyInit
  /\ block \in Blocks
  /\ engine = [program |-> "open", session |-> "none", staged |-> {}, evaluated |-> {}]
  /\ inner = [object |-> "none", handle |-> FALSE, mode |-> "UNSET", deltaCb |-> FALSE, queue |-> {}]
  /\ drained = [id \in Ids |-> {}]
  /\ history = [delivered |-> {}, cancelled |-> {}]

-----------------------------------------------------------------------------
sessionVars == <<block, engine, inner, drained>>

Resumed(t) ==
  /\ Resume(t)
  /\ history' = IF drained[Me(t)] = {} THEN history
                ELSE [history EXCEPT !.delivered = @ \cup {Me(t)}]
  /\ UNCHANGED sessionVars

Cancelled(t) ==
  /\ Cancel(t) /\ (block = "orderly" => t # Owner)
  /\ history' = [history EXCEPT !.cancelled = @ \cup {Me(t)}]
  /\ UNCHANGED sessionVars

Proxy(t) ==
  /\ Enter(t) \/ Call(t) \/ Exit(t) \/ (Aclose(t) /\ block # "orderly")
  /\ UNCHANGED <<sessionVars, history>>

(* A task has no further use for the proxy; the Owner not before its block *)
(* is over.                                                                *)
Forget(t) ==
  /\ Running(t)
  /\ At(t, IF t = Owner THEN "exited" ELSE "ready") \/ At(t, "raised")
  /\ Goto(t, "gone")
  /\ UNCHANGED <<poolVars, proxy, queue, loop, n, sessionVars, history>>

(* Program.close at the end of the Owner's `with Program` *)
ProgramExit ==
  /\ block # "none" /\ Running(Owner) /\ pc[Owner] \in {"exited", "raised", "gone"}
  /\ engine.program = "open" /\ engine' = [engine EXCEPT !.program = "freed"]
  /\ UNCHANGED <<proxyVars, block, inner, drained, history>>

-----------------------------------------------------------------------------
(* The worker's thread *)
TakeJob == Take /\ UNCHANGED <<sessionVars, history>>
outsidePool == <<taskVars, block, history>>

Wanted == IF worker.kind = "snapshot" THEN "QUERY" ELSE "INCREMENTAL"
Refused == inner.mode \notin {"UNSET", Wanted}
Committed == [inner EXCEPT !.mode = Wanted]       \* _require_mode

(* A session entry point; the engine refuses the NULL handle close() leaves. *)
EnterEngine(label) == IF inner.handle THEN To(label) ELSE Return(FALSE)

(* Session.__init__, on the program's handle *)
StartCreate ==
  /\ worker.at = "start" /\ worker.kind = "create"
  /\ IF engine.program = "open" THEN To("in_create") ELSE Return(FALSE)
  /\ UNCHANGED <<sessionVars, outsidePool>>

Created ==
  /\ worker.at = "in_create"
  /\ \/ /\ Return(TRUE)
        /\ engine' = [engine EXCEPT !.session = "open"]
        /\ inner' = [inner EXCEPT !.object = "live", !.handle = TRUE]
     \/ Return(FALSE) /\ UNCHANGED <<engine, inner>>
  /\ UNCHANGED <<drained, outsidePool>>

(* insert, remove and their batched forms; snapshot *)
StartRows ==
  /\ worker.at = "start" /\ worker.kind \in {"insert", "snapshot"}
  /\ IF Refused THEN Return(FALSE) /\ UNCHANGED inner
     ELSE /\ inner' = Committed
          /\ EnterEngine(IF worker.kind = "insert" THEN "in_iud" ELSE "in_snapshot")
  /\ UNCHANGED <<engine, drained, outsidePool>>

Inserted ==
  /\ worker.at = "in_iud"
  /\ \/ Return(TRUE) /\ engine' = [engine EXCEPT !.staged = @ \cup {worker.job}]
     \/ Return(FALSE) /\ UNCHANGED engine
  /\ UNCHANGED <<inner, drained, outsidePool>>

(* step: the callback is registered by the first one. *)
StartStep ==
  /\ worker.at = "start" /\ worker.kind = "step"
  /\ IF Refused THEN Return(FALSE) /\ UNCHANGED inner
     ELSE /\ inner' = [Committed EXCEPT !.deltaCb = TRUE]
          /\ EnterEngine(IF inner.deltaCb THEN "in_step" ELSE "in_set_cb")
  /\ UNCHANGED <<engine, drained, outsidePool>>

CbSet == worker.at = "in_set_cb" /\ To("in_step") /\ UNCHANGED <<sessionVars, outsidePool>>

Evaluated == [engine EXCEPT !.staged = {}, !.evaluated = @ \cup engine.staged]

Stepped ==
  /\ worker.at = "in_step"
  /\ \/ /\ To("drain") /\ engine' = Evaluated
        /\ inner' = [inner EXCEPT !.queue = @ \cup engine.staged]
     \/ Return(FALSE) /\ UNCHANGED <<engine, inner>>
  /\ UNCHANGED <<drained, outsidePool>>

(* MUTANT of Drained: the queue is copied and not cleared *)
DrainedKeeps ==
  /\ worker.at = "drain" /\ Return(TRUE)
  /\ drained' = [drained EXCEPT ![worker.job] = inner.queue]
  /\ UNCHANGED <<engine, inner, outsidePool>>

Drained ==
  /\ worker.at = "drain" /\ Return(TRUE)
  /\ drained' = [drained EXCEPT ![worker.job] = inner.queue]
  /\ inner' = [inner EXCEPT !.queue = {}]
  /\ UNCHANGED <<engine, outsidePool>>

(* snapshot has a slot of its own, and nothing staged to evaluate. *)
Snapshotted ==
  /\ worker.at = "in_snapshot" /\ (Return(TRUE) \/ Return(FALSE))
  /\ UNCHANGED <<sessionVars, outsidePool>>

(* preview_inline_facts reads the program and not the session; a closed    *)
(* program's NULL handle is an ExecError, and so an empty list.            *)
StartPreview ==
  /\ worker.at = "start" /\ worker.kind = "preview_inline_facts"
  /\ IF engine.program = "open" THEN To("in_facts") ELSE Return(TRUE)
  /\ UNCHANGED <<sessionVars, outsidePool>>

Previewed == worker.at = "in_facts" /\ Return(TRUE) /\ UNCHANGED <<sessionVars, outsidePool>>

(* Session.close: the callback, then the session, then the NULL handle *)
StartClose ==
  /\ worker.at = "start" /\ worker.kind = "close"
  /\ IF ~inner.handle THEN Return(TRUE)
     ELSE To(IF inner.deltaCb THEN "in_clear_cb" ELSE "in_destroy")
  /\ UNCHANGED <<sessionVars, outsidePool>>

CbCleared ==
  /\ worker.at = "in_clear_cb" /\ To("in_destroy")
  /\ inner' = [inner EXCEPT !.deltaCb = FALSE, !.queue = {}]
  /\ UNCHANGED <<engine, drained, outsidePool>>

Destroyed ==
  /\ worker.at = "in_destroy" /\ Return(TRUE)
  /\ engine' = [engine EXCEPT !.session = "freed", !.staged = {}]
  /\ inner' = [inner EXCEPT !.handle = FALSE]
  /\ UNCHANGED <<drained, outsidePool>>

(* Nobody awaits the job any more: its outcome goes with the future. *)
Drop ==
  /\ \E o \in done : ~Awaited(o.id) /\ done' = done \ {o}
  /\ UNCHANGED <<worker, sessionVars, outsidePool>>

-----------------------------------------------------------------------------
(* Who refers to what.  The proxy refers to the Program, and to the Session *)
(* once an __aenter__ has got it; a job that is queued or runs to what it   *)
(* calls; the outcome of a "create" to its Session; a Session to its        *)
(* Program.                                                                 *)
ProxyReferred == \E t \in Tasks : ~At(t, "gone")
SessionReferred ==
  \/ proxy.inner /\ ProxyReferred
  \/ ~PoolQuiet
  \/ \E o \in done : o.kind = "create"
SessionExists == inner.object \in {"live", "finalising"}

(* MUTANTS of ProgramReferred and SessionDel: the Session keeps no reference *)
(* to its Program; Session has no __del__.                                  *)
ProgramReferredByProxy == ProxyReferred \/ ~PoolQuiet
SessionDelNot ==
  /\ inner.object = "live" /\ ~SessionReferred
  /\ inner' = [inner EXCEPT !.object = "gone"]
  /\ UNCHANGED <<proxyVars, block, engine, drained, history>>

ProgramReferred == ProxyReferred \/ ~PoolQuiet \/ SessionExists

(* Session.__del__: close(), for a session nobody has closed *)
SessionDel ==
  /\ inner.object = "live" /\ ~SessionReferred
  /\ inner' = [inner EXCEPT !.object = IF inner.handle THEN "finalising" ELSE "gone"]
  /\ UNCHANGED <<proxyVars, block, engine, drained, history>>

SessionDelDone ==
  /\ inner.object = "finalising"
  /\ inner' = [inner EXCEPT !.object = "gone", !.handle = FALSE, !.deltaCb = FALSE, !.queue = {}]
  /\ engine' = [engine EXCEPT !.session = "freed", !.staged = {}]
  /\ UNCHANGED <<proxyVars, block, drained, history>>

(* Program.__del__ *)
ProgramDel ==
  /\ engine.program = "open" /\ block = "none" /\ ~ProgramReferred
  /\ engine' = [engine EXCEPT !.program = "freed"]
  /\ UNCHANGED <<proxyVars, block, inner, drained, history>>

-----------------------------------------------------------------------------
Work ==
  \/ TakeJob \/ StartCreate \/ Created \/ StartRows \/ Inserted \/ StartStep \/ CbSet \/ Stepped
  \/ Drained \/ Snapshotted \/ StartPreview \/ Previewed \/ StartClose \/ CbCleared \/ Destroyed
Finalise == SessionDel \/ SessionDelDone \/ ProgramDel
Continue(t) == Resumed(t) \/ (AcloseReturn(t) /\ UNCHANGED <<sessionVars, history>>)

(* Nobody has anything left to do. *)
Finished == ~ProxyReferred /\ PoolQuiet /\ done = {} /\ ~SessionExists /\ UNCHANGED vars

Next ==
  \/ Work \/ Drop \/ Finalise \/ ProgramExit
  \/ \E t \in Tasks : Continue(t) \/ Proxy(t) \/ Cancelled(t) \/ Forget(t)
  \/ Finished

Spec == Init /\ [][Next]_vars

(* The worker goes on with what it has begun, the loop with what is ready,  *)
(* a `with` is left, and an object nobody refers to is finalised.           *)
FairSpec ==
  /\ Spec /\ WF_vars(Work) /\ WF_vars(Drop) /\ WF_vars(Finalise) /\ WF_vars(ProgramExit)
  /\ \A t \in Tasks : WF_vars(Continue(t)) /\ SF_vars(Resumed(t))

-----------------------------------------------------------------------------
(* PROPERTIES *)

(* Session: it "keeps a strong reference so the program stays alive while   *)
(* the session is open".  The program is freed under no open session, under *)
(* no session that is being created or destroyed, and under no preview,     *)
(* whoever is cancelled and wherever the pool is closed.                    *)
SessionOnOpenProgram ==
  engine.program = "freed" =>
    /\ engine.session # "open" /\ inner.object # "finalising"
    /\ worker.at \notin {"in_create", "in_facts"}

Pending(id) == worker.job = id \/ \E o \in done : o.id = id

(* Every row a step() has made the engine evaluate goes to exactly one      *)
(* step(), and reaches the task that awaits it: only the cancellation of    *)
(* that very await can lose it.                                             *)
DeltasReachOneTask ==
  \A r \in engine.evaluated :
    LET takers == {id \in Ids : r \in drained[id]} IN
      \/ takers = {} /\ r \in inner.queue
      \/ \E id \in Ids : /\ takers = {id} /\ r \notin inner.queue
                         /\ id \in history.delivered \cup history.cancelled \/ Pending(id)

(* An `async with` that ends without raising has destroyed its session, and *)
(* nothing of it runs on in the pool.                                       *)
ExitClosesInner == At(Owner, "exited") => engine.session = "freed" /\ PoolQuiet

(* When every task has let go of the proxy the session comes to be          *)
(* destroyed and its program freed, also when __aexit__ has raised before   *)
(* it could close the session, or __aenter__ was cancelled before it had it.*)
AbandonedSessionFreed ==
  ~ProxyReferred ~> (engine.session # "open" /\ engine.program = "freed")
================================================================================
