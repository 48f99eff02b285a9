------------------------------ MODULE AsyncBatch ------------------------------
(***************************************************************************)
(* BatchProgram and Result (batch.py) behind AsyncBatchProgram: what the   *)
(* worker of AsyncProxy runs, and what the tasks do with the results.  A   *)
(* Result is a plain object whose methods run on the loop's thread.        *)
(*                                                                         *)
(* External: the engine, and reference counting, which finalises an object *)
(* the moment nobody refers to it.                                         *)
(***************************************************************************)
EXTENDS AsyncProxy

Kinds == {"optimize", "load", "evaluate", "aclose"}
JobKinds == {"create", "optimize", "load", "evaluate", "close"}

ASSUME ConstantsAssumption == Calls \in [Tasks -> SUBSET Kinds]

VARIABLES
  engine,   \* external: the program, executors and results of libwirelog
  batch,    \* the BatchProgram
  held      \* the Result objects each task refers to

vars == <<proxyVars, engine, batch, held>>

TaskLabels == {"in_schema", "in_csv"}
WorkerLabels == {"start", "in_create", "in_run", "in_executor_free", "in_program_free"}

TypeOK ==
  /\ ProxyTypeOK(JobKinds, TaskLabels, WorkerLabels)
  /\ engine \in [program : {"none", "open", "freed"}, executors : SUBSET Ids, results : SUBSET Ids]
  /\ batch \in [closed : BOOLEAN, executor : Ids \cup {NoJob}]
  /\ held \in [Tasks -> SUBSET Ids]

Init ==
  /\ ProxyInit
  /\ engine = [program |-> "none", executors |-> {}, results |-> {}]
  /\ batch = [closed |-> FALSE, executor |-> NoJob]
  /\ held = [t \in Tasks |-> {}]

-----------------------------------------------------------------------------
(* The Result of an awaited evaluate() is the task's. *)
Resumed(t) ==
  /\ Resume(t)
  /\ held' = IF At(t, "awaiting") THEN [held EXCEPT ![t] = @ \cup ({Me(t)} \cap engine.results)]
             ELSE held
  /\ UNCHANGED <<engine, batch>>

(* Steps of the proxy that touch neither the engine nor its objects. *)
Proxy(t) ==
  /\ Enter(t) \/ Call(t) \/ Exit(t) \/ Aclose(t) \/ Cancel(t)
  /\ UNCHANGED <<engine, batch, held>>

-----------------------------------------------------------------------------
(* Result, on the loop's thread.  relation(): the schema from the program, *)
(* whose handle BatchProgram.close may have replaced by NULL; then the     *)
(* engine writes a CSV file.                                               *)
Relation(t) ==
  /\ At(t, "ready") /\ Running(t) /\ held[t] # {} /\ loop' = t
  /\ Goto(t, IF engine.program = "open" THEN "in_schema" ELSE "in_csv")
  /\ UNCHANGED <<poolVars, proxy, queue, n, engine, batch, held>>

SchemaReturn(t) ==
  /\ At(t, "in_schema") /\ Goto(t, "in_csv")
  /\ UNCHANGED <<poolVars, proxy, queue, loop, n, engine, batch, held>>

CsvReturn(t) ==
  /\ At(t, "in_csv") /\ Goto(t, "ready") /\ loop' = NoTask
  /\ UNCHANGED <<poolVars, proxy, queue, n, engine, batch, held>>

(* close(), or __del__ *)
ResultClose(t) ==
  /\ pc[t] \in {"ready", "exited", "raised"} /\ Running(t)
  /\ \E r \in held[t] :
       /\ held' = [held EXCEPT ![t] = @ \ {r}]
       /\ engine' = [engine EXCEPT !.results = @ \ {r}]
  /\ UNCHANGED <<proxyVars, batch>>

-----------------------------------------------------------------------------
(* The worker's thread *)
TakeJob == Take /\ UNCHANGED <<engine, batch, held>>
outsidePool == <<taskVars, held>>

(* BatchProgram.from_string / from_file *)
Parsed ==
  /\ worker.at = "start" /\ worker.kind = "create"
  /\ \/ /\ engine' = [engine EXCEPT !.program = "open"]
        /\ Return(TRUE)
     \/ Return(FALSE) /\ UNCHANGED engine
  /\ UNCHANGED <<batch, outsidePool>>

(* MUTANTS of Start: without _check_open; an executor for every call. *)
StartUnchecked ==
  /\ worker.at = "start" /\ worker.kind # "create"
  /\ IF batch.closed /\ worker.kind = "close" THEN Return(TRUE)
     ELSE To(CASE worker.kind = "optimize" -> "in_run"
               [] worker.kind = "close" ->
                    IF batch.executor = NoJob THEN "in_program_free" ELSE "in_executor_free"
               [] OTHER -> IF batch.executor = NoJob THEN "in_create" ELSE "in_run")
  /\ UNCHANGED <<engine, batch, outsidePool>>
StartFresh ==
  /\ worker.at = "start" /\ worker.kind # "create"
  /\ IF batch.closed THEN Return(worker.kind = "close")
     ELSE To(CASE worker.kind = "optimize" -> "in_run"
               [] worker.kind = "close" ->
                    IF batch.executor = NoJob THEN "in_program_free" ELSE "in_executor_free"
               [] OTHER -> "in_create")
  /\ UNCHANGED <<engine, batch, outsidePool>>

(* _check_open, then _ensure_executor; close returns when it is closed.    *)
Start ==
  /\ worker.at = "start" /\ worker.kind # "create"
  /\ IF batch.closed THEN Return(worker.kind = "close")
     ELSE To(CASE worker.kind = "optimize" -> "in_run"
               [] worker.kind = "close" ->
                    IF batch.executor = NoJob THEN "in_program_free" ELSE "in_executor_free"
               [] OTHER -> IF batch.executor = NoJob THEN "in_create" ELSE "in_run")
  /\ UNCHANGED <<engine, batch, outsidePool>>

(* wirelog_executor_create *)
Created ==
  /\ worker.at = "in_create"
  /\ \/ /\ To("in_run")
        /\ engine' = [engine EXCEPT !.executors = @ \cup {worker.job}]
        /\ batch' = [batch EXCEPT !.executor = worker.job]
     \/ Return(FALSE) /\ UNCHANGED <<engine, batch>>
  /\ UNCHANGED outsidePool

(* wirelog_optimize, wirelog_load_*, wirelog_evaluate *)
Ran ==
  /\ worker.at = "in_run"
  /\ \E ok \in BOOLEAN :
       /\ Return(ok)
       /\ engine' = IF ok /\ worker.kind = "evaluate"
                      THEN [engine EXCEPT !.results = @ \cup {worker.job}] ELSE engine
  /\ UNCHANGED <<batch, outsidePool>>

(* BatchProgram.close: the executor, then the program *)
ExecutorFreed ==
  /\ worker.at = "in_executor_free" /\ To("in_program_free")
  /\ engine' = [engine EXCEPT !.executors = @ \ {batch.executor}]
  /\ batch' = [batch EXCEPT !.executor = NoJob]
  /\ UNCHANGED outsidePool

ProgramFreed ==
  /\ worker.at = "in_program_free" /\ Return(TRUE)
  /\ engine' = [engine EXCEPT !.program = "freed"]
  /\ batch' = [batch EXCEPT !.closed = TRUE]
  /\ UNCHANGED outsidePool

(* MUTANT of Drop: Result has no __del__ *)
DropProgram ==
  /\ \E o \in done :
       /\ ~Awaited(o.id) /\ done' = done \ {o}
       /\ IF o.kind = "create" /\ o.ok
            THEN /\ engine' = [engine EXCEPT !.program = "freed"]
                 /\ batch' = [batch EXCEPT !.closed = TRUE]
            ELSE UNCHANGED <<engine, batch>>
  /\ UNCHANGED <<worker, outsidePool>>

(* Nobody awaits the job any more: __del__ closes what it has made. *)
Drop ==
  /\ \E o \in done :
       /\ ~Awaited(o.id) /\ done' = done \ {o}
       /\ IF o.kind = "create" /\ o.ok
            THEN /\ engine' = [engine EXCEPT !.program = "freed"]
                 /\ batch' = [batch EXCEPT !.closed = TRUE]
            ELSE engine' = [engine EXCEPT !.results = @ \ {o.id}] /\ UNCHANGED batch
  /\ UNCHANGED <<worker, outsidePool>>

-----------------------------------------------------------------------------
Work == TakeJob \/ Parsed \/ Start \/ Created \/ Ran \/ ExecutorFreed \/ ProgramFreed
Continue(t) ==
  Resumed(t) \/ (AcloseReturn(t) /\ UNCHANGED <<engine, batch, held>>) \/ SchemaReturn(t) \/ CsvReturn(t)
User(t) == Proxy(t) \/ Relation(t) \/ ResultClose(t)

(* Nobody has anything left to do. *)
Finished ==
  /\ PoolQuiet /\ done = {} /\ loop = NoTask
  /\ pc[Owner] \in {"ready", "exited", "raised"}
  /\ \A t \in Tasks : pc[t] \in {"ready", "exited", "raised"} /\ held[t] = {}
  /\ UNCHANGED vars

Next == Work \/ Drop \/ (\E t \in Tasks : Continue(t) \/ User(t)) \/ Finished

Spec == Init /\ [][Next]_vars

(* The worker goes on with what it has begun, and so does the loop, which  *)
(* takes up what is ready in turn: no task starves another one's Resume.   *)
FairSpec ==
  /\ Spec /\ WF_vars(Work)
  /\ \A t \in Tasks : WF_vars(Continue(t)) /\ SF_vars(Resumed(t))

-----------------------------------------------------------------------------
(* PROPERTIES *)

(* No job reaches the engine with the NULL handle that close() leaves: not *)
(* one that was queued behind the Owner's close, nor one that races exit.  *)
JobsSeeOpenProgram ==
  /\ worker.at \in {"in_create", "in_run", "in_executor_free", "in_program_free"} =>
       engine.program = "open"
  /\ worker.at = "in_run" /\ worker.kind # "optimize" => batch.executor \in engine.executors

(* The executor the BatchProgram refers to is the only one there is: none  *)
(* is lost when calls create it lazily, and none survives close().         *)
NoExecutorLost ==
  engine.executors \subseteq {batch.executor} /\ (batch.closed => engine.executors = {})

(* Every result the engine has made belongs to a task or to a call that is *)
(* still awaited: a cancelled evaluate() leaves none behind.               *)
ResultsOwned ==
  \A r \in engine.results :
    \/ \E t \in Tasks : r \in held[t]
    \/ \E o \in done : o.id = r

(* docs/semantics/threading.md: "All FFI calls for one async session       *)
(* originate from the same OS thread".  No Result method is inside the     *)
(* engine on the loop's thread while the worker is.                        *)
OneThreadInEngine ==
  worker.at \in {"in_create", "in_run", "in_executor_free", "in_program_free"} =>
    \A t \in Tasks : pc[t] \notin {"in_schema", "in_csv"}

(* batch.py: "the executor is freed before the program, the result before  *)
(* the executor."  No result is left when BatchProgram.close is over.      *)
ResultsFreedFirst == batch.closed => engine.results = {}
================================================================================
