--------------------------- MODULE AsyncBatch_proofs ---------------------------
(***************************************************************************)
(* What holds of AsyncBatch for every number of tasks, whatever they       *)
(* submit and whoever is cancelled.                                        *)
(***************************************************************************)
EXTENDS AsyncBatch, AsyncProxy_proofs

AtEngine == {"in_create", "in_run", "in_executor_free", "in_program_free"}

(* The BatchProgram and the program of the engine it stands for *)
ProgramOK ==
  /\ batch.closed <=> engine.program = "freed"
  /\ At(Owner, "outside") => engine.program = "none"
  /\ proxy.inner => engine.program # "none"
  /\ \A id : InQueue(id, "create") \/ AtWork(id, "create") => engine.program = "none"
  /\ \A o \in done : o.kind = "create" /\ o.ok => engine.program = "open"

(* its executor, made by the job that needs it first and freed by close() *)
ExecutorOK ==
  /\ engine.executors = IF batch.executor = NoJob THEN {} ELSE {batch.executor}
  /\ batch.closed \/ ~proxy.inner => batch.executor = NoJob

(* what the worker is at, given these two *)
WorkerOK ==
  /\ worker.kind = "create" => worker.at \in {"idle", "start"}
  /\ worker.at \in AtEngine => engine.program = "open"
  /\ worker.at \in {"in_create", "in_program_free"} => batch.executor = NoJob
  /\ worker.at = "in_run" /\ worker.kind # "optimize" => batch.executor # NoJob

(* The results of evaluate(), each of a job that is over *)
ResultsOK ==
  /\ ~proxy.inner => engine.results = {}
  /\ \A r \in engine.results :
       /\ r[2] <= n[r[1]]
       /\ \A kind : ~InQueue(r, kind) /\ ~AtWork(r, kind)
       /\ \A o \in done : o.id = r => o.kind = "evaluate"
  /\ ResultsOwned

(* A Result's method keeps the loop's thread. *)
LoopOK == \A t \in Tasks : pc[t] \in TaskLabels => loop = t

Inv ==
  /\ ProxyInv(JobKinds, TaskLabels, WorkerLabels) /\ TypeOK
  /\ ProgramOK /\ ExecutorOK /\ WorkerOK /\ ResultsOK /\ LoopOK

-----------------------------------------------------------------------------
LEMMA Kinds_OK == KindsOK(JobKinds, TaskLabels)
BY ConstantsAssumption DEF KindsOK, JobKinds, Kinds, TaskLabels, ProxyLabels

LEMMA ResultIds ==
  ASSUME Inv
  PROVE  \A r \in engine.results : /\ r \in Ids /\ r = <<r[1], r[2]>> /\ r[1] \in Tasks
                                    /\ r[2] \in Nat /\ n[r[1]] \in Nat /\ r[2] <= n[r[1]]
<1>1. \A r \in engine.results : r \in Ids /\ r[2] <= n[r[1]]
  BY DEF Inv, TypeOK, ResultsOK
<1>2. \A r \in Ids : r = <<r[1], r[2]>> /\ r[1] \in Tasks /\ r[2] \in Nat
  BY IdsMembers, ProxyAssumption
<1>3. \A t \in Tasks : n[t] \in Nat
  BY InvTypes, Numbers DEF Inv
<1> QED
  BY <1>1, <1>2, <1>3

(* The proxy's steps outside the worker leave the BatchProgram alone. *)
LEMMA OutsideWorker ==
  ASSUME Inv, ProxyInv(JobKinds, TaskLabels, WorkerLabels)',
         UNCHANGED <<worker, done, engine, batch, held>>, proxy'.inner = proxy.inner,
         \A u \in Tasks : n[u] \in Nat /\ n'[u] \in Nat /\ n[u] <= n'[u],
         pc'[Owner] = "outside" => At(Owner, "outside"),
         \A id, kind : InQueue(id, kind)' =>
           \/ InQueue(id, kind)
           \/ /\ kind = "create" => At(Owner, "outside")
              /\ \E u \in Tasks : id = <<u, n[u] + 1>>,
         LoopOK'
  PROVE  Inv'
<1>1. TypeOK'
  BY DEF Inv, TypeOK, ProxyInv
<1>2. ProgramOK'
  <2>1. \A id : InQueue(id, "create")' \/ AtWork(id, "create")' => engine'.program = "none"
    BY DEF Inv, ProgramOK, AtWork
  <2> QED
    BY <2>1 DEF Inv, ProgramOK, At
<1>3. ExecutorOK' /\ WorkerOK'
  BY DEF Inv, ExecutorOK, WorkerOK
<1>4. ResultsOK'
  <2>1. ASSUME NEW r \in engine.results
        PROVE  r[2] <= n'[r[1]] /\ \A kind : ~InQueue(r, kind)' /\ ~AtWork(r, kind)'
    <3>1. /\ r = <<r[1], r[2]>> /\ r[1] \in Tasks /\ r[2] \in Nat
          /\ n[r[1]] \in Nat /\ r[2] <= n[r[1]] /\ n'[r[1]] \in Nat /\ n[r[1]] <= n'[r[1]]
      BY ResultIds
    <3>2. \A u \in Tasks : r # <<u, n[u] + 1>>
      <4>1. ASSUME NEW u \in Tasks, r = <<u, n[u] + 1>>
            PROVE  FALSE
        <5>1. r[1] = u /\ r[2] = n[u] + 1
          BY <4>1
        <5> QED
          BY <3>1, <5>1
      <4> QED
        BY <4>1
    <3>3. \A kind : ~InQueue(r, kind)'
      BY <3>2 DEF Inv, ResultsOK
    <3>4. \A kind : ~AtWork(r, kind)'
      BY DEF Inv, ResultsOK, AtWork
    <3> QED
      BY <3>1, <3>3, <3>4
  <2>2. ResultsOwned'
    BY DEF Inv, ResultsOK, ResultsOwned
  <2> QED
    BY <2>1, <2>2 DEF Inv, ResultsOK
<1> QED
  BY <1>1, <1>2, <1>3, <1>4 DEF Inv

LEMMA ProxyStep ==
  ASSUME Inv, NEW t \in Tasks, Proxy(t)
  PROVE  Inv'
<1> DEFINE PInv == ProxyInv(JobKinds, TaskLabels, WorkerLabels)
<1>1. PInv /\ KindsOK(JobKinds, TaskLabels) /\ UNCHANGED <<engine, batch, held>>
  BY Kinds_OK DEF Inv, Proxy
<1>2. /\ pc \in [Tasks -> TaskLabels \cup ProxyLabels] /\ \A u \in Tasks : n[u] \in Nat
      /\ proxy \in [inner : BOOLEAN, closed : BOOLEAN] /\ Owner \in Tasks
  BY <1>1, InvTypes, Numbers, ProxyAssumption
<1>3. \A u \in Tasks : pc[u] \in TaskLabels => loop = u
  BY DEF Inv, LoopOK
<1>4. CASE Enter(t)
  <2>1. t = Owner /\ Enter(Owner)
    BY <1>4 DEF Enter
  <2> HIDE DEF PInv
  <2>2. /\ PInv' /\ UNCHANGED <<worker, done, proxy, loop>> /\ At(Owner, "outside")
        /\ n'[Owner] = n[Owner] + 1 /\ pc'[Owner] \in {"raised", "entering"}
        /\ \A u \in Tasks \ {Owner} : pc'[u] = pc[u] /\ n'[u] = n[u]
        /\ \A u \in Tasks : n[u] \in Nat /\ n[u] <= n'[u]
        /\ \A id, kind : InQueue(id, kind)' =>
                            InQueue(id, kind) \/ (kind = "create" /\ id = <<Owner, n[Owner] + 1>>)
    BY <1>1, <2>1, EnterInv DEF PInv
  <2>3. \A u \in Tasks : n'[u] \in Nat
    BY <1>2, <2>2
  <2>4. LoopOK'
    BY <1>3, <2>2 DEF LoopOK, TaskLabels
  <2> QED
    BY <1>1, <1>2, <2>2, <2>3, <2>4, OutsideWorker DEF PInv
<1>5. CASE Call(t)
  <2> HIDE DEF PInv
  <2>2. /\ PInv' /\ UNCHANGED <<worker, done, proxy, loop>>
        /\ At(t, "ready") /\ n'[t] = n[t] + 1 /\ pc'[t] \in {"ready", "awaiting"}
        /\ \A u \in Tasks \ {t} : pc'[u] = pc[u] /\ n'[u] = n[u]
        /\ \A u \in Tasks : n[u] \in Nat /\ n[u] <= n'[u]
        /\ \A id, kind : InQueue(id, kind)' =>
                            \/ InQueue(id, kind)
                            \/ kind \notin {"create", "close"} /\ id = <<t, n[t] + 1>>
    BY <1>1, <1>5, CallInv DEF PInv
  <2>3. \A u \in Tasks : n'[u] \in Nat
    BY <1>2, <2>2
  <2>4. LoopOK'
    BY <1>3, <2>2 DEF LoopOK, TaskLabels
  <2>5. pc'[Owner] = "outside" => At(Owner, "outside")
    BY <1>2, <2>2 DEF At
  <2> QED
    BY <1>1, <2>2, <2>3, <2>4, <2>5, OutsideWorker DEF PInv
<1>6. CASE Exit(t)
  <2>1. t = Owner /\ Exit(Owner)
    BY <1>6 DEF Exit
  <2> HIDE DEF PInv
  <2>2. /\ PInv' /\ UNCHANGED <<worker, done, proxy, loop>>
        /\ n'[Owner] = n[Owner] + 1 /\ pc'[Owner] \in {"raised", "exiting"}
        /\ \A u \in Tasks \ {Owner} : pc'[u] = pc[u] /\ n'[u] = n[u]
        /\ \A u \in Tasks : n[u] \in Nat /\ n[u] <= n'[u]
        /\ \A id, kind : InQueue(id, kind)' =>
                            InQueue(id, kind) \/ (kind = "close" /\ id = <<Owner, n[Owner] + 1>>)
    BY <1>1, <2>1, ExitInv DEF PInv
  <2>3. \A u \in Tasks : n'[u] \in Nat
    BY <1>2, <2>2
  <2>4. LoopOK'
    BY <1>3, <2>2 DEF LoopOK, TaskLabels
  <2> QED
    BY <1>1, <1>2, <2>2, <2>3, <2>4, OutsideWorker DEF PInv
<1>7. CASE Aclose(t)
  <2> HIDE DEF PInv
  <2>1. /\ PInv' /\ UNCHANGED <<worker, done, queue, n>>
        /\ proxy' = [proxy EXCEPT !.closed = TRUE]
        /\ At(t, "ready") /\ pc' = [pc EXCEPT ![t] = "in_aclose"] /\ loop' = t
    BY <1>1, <1>7, AcloseInv DEF PInv
  <2>2. /\ proxy'.inner = proxy.inner /\ pc'[t] = "in_aclose"
        /\ \A u \in Tasks \ {t} : pc'[u] = pc[u]
    BY <1>2, <2>1
  <2>3. LoopOK'
    <3>1. loop \in {NoTask, t} /\ pc[t] = "ready"
      BY <1>7 DEF Aclose, Running, At
    <3>2. \A u \in Tasks : pc'[u] \in TaskLabels => u # t /\ loop = u
      BY <1>3, <2>2 DEF TaskLabels
    <3> QED
      BY <3>1, <3>2, ProxyAssumption DEF LoopOK
  <2>4. \A u \in Tasks : n[u] \in Nat /\ n'[u] \in Nat /\ n[u] <= n'[u]
    BY <1>2, <2>1
  <2>5. \A id, kind : InQueue(id, kind)' => InQueue(id, kind)
    BY <2>1 DEF InQueue
  <2>6. pc'[Owner] = "outside" => At(Owner, "outside")
    BY <1>2, <2>2 DEF At
  <2> QED
    BY <1>1, <2>1, <2>2, <2>3, <2>4, <2>5, <2>6, OutsideWorker DEF PInv
<1>8. CASE Cancel(t)
  <2> HIDE DEF PInv
  <2>1. /\ PInv' /\ UNCHANGED <<worker, done, n, proxy, loop>>
        /\ pc' = [pc EXCEPT ![t] = IF At(t, "awaiting") THEN "ready" ELSE "raised"]
        /\ \A id, k : InQueue(id, k)' => InQueue(id, k)
    BY <1>1, <1>8, CancelInv DEF PInv
  <2>2. pc'[t] \in {"ready", "raised"} /\ \A u \in Tasks \ {t} : pc'[u] = pc[u]
    BY <1>2, <2>1
  <2>3. LoopOK'
    BY <1>3, <2>1, <2>2 DEF LoopOK, TaskLabels
  <2>4. \A u \in Tasks : n[u] \in Nat /\ n'[u] \in Nat /\ n[u] <= n'[u]
    BY <1>2, <2>1
  <2>5. pc'[Owner] = "outside" => At(Owner, "outside")
    BY <1>2, <2>2 DEF At
  <2> QED
    BY <1>1, <2>1, <2>3, <2>4, <2>5, OutsideWorker DEF PInv
<1> QED
  BY <1>4, <1>5, <1>6, <1>7, <1>8 DEF Proxy

LEMMA AcloseReturnStep ==
  ASSUME Inv, NEW t \in Tasks, AcloseReturn(t), UNCHANGED <<engine, batch, held>>
  PROVE  Inv'
<1>1. /\ ProxyInv(JobKinds, TaskLabels, WorkerLabels)' /\ UNCHANGED <<worker, done, queue, n, proxy>>
      /\ pc[t] \in {"in_aclose", "in_exit_aclose"}
      /\ pc' = [pc EXCEPT ![t] = AfterAclose(t)]
  BY AcloseReturnInv DEF Inv
<1>2. /\ pc \in [Tasks -> TaskLabels \cup ProxyLabels] /\ \A u \in Tasks : n[u] \in Nat
  BY InvTypes, Numbers DEF Inv
<1>3. /\ pc'[t] \in {"ready", "exited"} /\ \A u \in Tasks \ {t} : pc'[u] = pc[u]
  BY <1>1, <1>2 DEF AfterAclose
<1>4. LoopOK'
  <2>1. loop = t
    BY <1>1 DEF Inv, ProxyInv, Closing
  <2>2. \A u \in Tasks : pc'[u] \notin TaskLabels
    BY <1>3, <2>1 DEF Inv, LoopOK, TaskLabels
  <2> QED
    BY <2>2 DEF LoopOK
<1>5. \A u \in Tasks : n[u] \in Nat /\ n'[u] \in Nat /\ n[u] <= n'[u]
  BY <1>1, <1>2
<1>6. \A id, kind : InQueue(id, kind)' => InQueue(id, kind)
  BY <1>1 DEF InQueue
<1>7. pc'[Owner] = "outside" => At(Owner, "outside")
  BY <1>3, ProxyAssumption DEF At
<1> QED
  BY <1>1, <1>4, <1>5, <1>6, <1>7, OutsideWorker

LEMMA ResultStep ==
  ASSUME Inv, NEW t \in Tasks, Relation(t) \/ SchemaReturn(t) \/ CsvReturn(t)
  PROVE  Inv'
<1> DEFINE label == CHOOSE l \in TaskLabels \cup {"ready"} : pc' = [pc EXCEPT ![t] = l]
<1>1. /\ UNCHANGED <<worker, done, proxy, queue, n, engine, batch, held>>
      /\ \E l \in TaskLabels \cup {"ready"} : pc' = [pc EXCEPT ![t] = l]
  BY DEF Relation, SchemaReturn, CsvReturn, poolVars, Goto, TaskLabels
<1>2. label \in TaskLabels \cup {"ready"} /\ pc' = [pc EXCEPT ![t] = label]
  BY <1>1
<1> HIDE DEF label
<1>3. /\ pc \in [Tasks -> TaskLabels \cup ProxyLabels] /\ \A u \in Tasks : n[u] \in Nat
      /\ loop \in Tasks \cup {NoTask}
  BY InvTypes, Numbers DEF Inv
<1>4. pc'[t] = label /\ \A u \in Tasks \ {t} : pc'[u] = pc[u]
  BY <1>2, <1>3
<1>5. /\ pc[t] \in TaskLabels \cup {"ready"} /\ pc[t] # "gone" /\ label # "gone"
      /\ loop \in {NoTask, t} /\ loop' \in {NoTask, t, loop}
  BY <1>2 DEF Relation, SchemaReturn, CsvReturn, TaskLabels, At, Running, Inv, LoopOK
<1>6. \A u \in Tasks : pc[u] \notin {"in_aclose", "in_exit_aclose"}
  <2>1. pc[t] \notin {"in_aclose", "in_exit_aclose"}
    BY <1>5 DEF TaskLabels
  <2> QED
    BY <1>5, <2>1, ProxyAssumption DEF Inv, ProxyInv, Closing
<1>7. ProxyInv(JobKinds, TaskLabels, WorkerLabels)'
  <2>1. loop' \in Tasks \cup {NoTask}
    BY <1>3, <1>5
  <2>2. KindsOK(JobKinds, TaskLabels) /\ ProxyInv(JobKinds, TaskLabels, WorkerLabels)
    BY Kinds_OK DEF Inv
  <2>3. UNCHANGED <<worker, done, proxy, queue, n>>
    BY <1>1
  <2> QED
    BY <1>2, <1>5, <1>6, <2>1, <2>2, <2>3, RelabelInv
<1>8. LoopOK'
  <2>1. \A u \in Tasks \ {t} : pc[u] \notin TaskLabels
    BY <1>5, ProxyAssumption DEF Inv, LoopOK
  <2>2. pc'[t] \in TaskLabels => loop' = t
    <3>1. CASE Relation(t)
      BY <3>1 DEF Relation
    <3>2. CASE SchemaReturn(t)
      BY <3>2 DEF SchemaReturn, Inv, LoopOK, TaskLabels, At
    <3>3. CASE CsvReturn(t)
      BY <1>3, <3>3 DEF CsvReturn, Goto, TaskLabels
    <3> QED
      BY <3>1, <3>2, <3>3
  <2> QED
    BY <1>4, <2>1, <2>2 DEF LoopOK
<1>9. \A u \in Tasks : n[u] \in Nat /\ n'[u] \in Nat /\ n[u] <= n'[u]
  BY <1>1, <1>3
<1>10. \A id, kind : InQueue(id, kind)' => InQueue(id, kind)
  BY <1>1 DEF InQueue
<1>11. pc'[Owner] = "outside" => At(Owner, "outside")
  BY <1>2, <1>4, ProxyAssumption DEF At, TaskLabels
<1> QED
  BY <1>1, <1>7, <1>8, <1>9, <1>10, <1>11, OutsideWorker

LEMMA ResumedStep ==
  ASSUME Inv, NEW t \in Tasks, Resumed(t)
  PROVE  Inv'
<1>1. /\ Resume(t) /\ UNCHANGED <<engine, batch>>
      /\ held' = IF At(t, "awaiting") THEN [held EXCEPT ![t] = @ \cup ({Me(t)} \cap engine.results)]
                 ELSE held
  BY DEF Resumed
<1>2. PICK o \in done :
        /\ o.id = <<t, n[t]>> /\ done' = done \ {o} /\ UNCHANGED <<queue, worker, n>>
        /\ loop = NoTask
        /\ Entered(t, o) \/ Answered(t, o) \/ Exited(t, o)
  BY <1>1, ResumeCases DEF Inv
<1>3. /\ ProxyInv(JobKinds, TaskLabels, WorkerLabels)' /\ pc' \in [Tasks -> TaskLabels \cup ProxyLabels]
  BY <1>2, ResumeInv DEF Inv
<1>4. /\ pc \in [Tasks -> TaskLabels \cup ProxyLabels]
      /\ proxy \in [inner : BOOLEAN, closed : BOOLEAN]
      /\ o \in OutcomeType(JobKinds) /\ Somewhere(o.id, o.kind)
  BY InvTypes, Places DEF Inv
<1>5. /\ pc'[t] \in {"ready", "raised", "exited", "in_exit_aclose"}
      /\ \A u \in Tasks \ {t} : pc'[u] = pc[u]
      /\ \/ o.kind = "create" /\ pc[t] = "entering" /\ t = Owner /\ proxy'.inner = o.ok
         \/ o.kind # "create" /\ proxy'.inner = proxy.inner
  BY <1>2, <1>4 DEF Entered, Answered, Exited, At
<1>6. o.kind = "create" => ~proxy.inner
  BY <1>4 DEF Inv, ProxyInv, Opening
<1>7. held' \in [Tasks -> SUBSET Ids] /\ \A u \in Tasks : held[u] \subseteq held'[u]
  BY <1>1 DEF Inv, TypeOK
<1>8. TypeOK'
  BY <1>1, <1>3, <1>7 DEF Inv, TypeOK, ProxyInv
<1>9. ProgramOK'
  <2>1. pc'[Owner] # "outside" \/ pc[Owner] = "outside"
    BY <1>5, ProxyAssumption
  <2>2. proxy'.inner => engine.program # "none"
    BY <1>5 DEF Inv, ProgramOK
  <2>3. \A id : InQueue(id, "create")' \/ AtWork(id, "create")' => engine.program = "none"
    BY <1>2 DEF Inv, ProgramOK, InQueue, AtWork
  <2> QED
    BY <1>1, <1>2, <2>1, <2>2, <2>3 DEF Inv, ProgramOK, At
<1>10. ExecutorOK' /\ WorkerOK'
  <2>1. ~proxy'.inner => ~proxy.inner
    BY <1>5, <1>6
  <2> QED
    BY <1>1, <1>2, <2>1 DEF Inv, ExecutorOK, WorkerOK
<1>11. ResultsOK'
  <2>1. ~proxy'.inner => engine.results = {}
    BY <1>5, <1>6 DEF Inv, ResultsOK
  <2>2. \A r \in engine.results :
          r[2] <= n[r[1]] /\ \A kind : ~InQueue(r, kind)' /\ ~AtWork(r, kind)'
    BY <1>2 DEF Inv, ResultsOK, InQueue, AtWork
  <2>3. \A r \in engine.results : \A p \in done' : p.id = r => p.kind = "evaluate"
    BY <1>2 DEF Inv, ResultsOK
  <2>4. ASSUME NEW r \in engine.results
        PROVE  (\E u \in Tasks : r \in held'[u]) \/ (\E p \in done' : p.id = r)
    <3>1. CASE o.id = r
      <4>1. o.kind = "evaluate"
        BY <3>1 DEF Inv, ResultsOK
      <4>2. At(t, "awaiting")
        BY <1>2, <4>1 DEF Entered, Answered, Exited
      <4>3. r \in held'[t]
        BY <1>1, <1>2, <3>1, <4>2 DEF Inv, TypeOK, Me
      <4> QED
        BY <4>3
    <3>2. CASE o.id # r
      BY <1>2, <1>7, <3>2 DEF Inv, ResultsOK, ResultsOwned
    <3> QED
      BY <3>1, <3>2
  <2> QED
    BY <1>1, <1>2, <2>1, <2>2, <2>3, <2>4 DEF ResultsOK, ResultsOwned
<1>12. LoopOK'
  BY <1>2, <1>5, ProxyAssumption DEF Inv, LoopOK, TaskLabels
<1> QED
  BY <1>3, <1>8, <1>9, <1>10, <1>11, <1>12 DEF Inv

LEMMA ResultCloseStep ==
  ASSUME Inv, NEW t \in Tasks, ResultClose(t)
  PROVE  Inv'
<1>1. PICK r \in held[t] :
        /\ held' = [held EXCEPT ![t] = @ \ {r}]
        /\ engine' = [engine EXCEPT !.results = @ \ {r}]
  BY DEF ResultClose
<1>2. /\ UNCHANGED <<worker, done, proxy, queue, loop, pc, n, batch>>
      /\ ProxyInv(JobKinds, TaskLabels, WorkerLabels)'
  BY StutterInv DEF ResultClose, Inv, proxyVars, poolVars, taskVars
<1>3. /\ engine'.program = engine.program /\ engine'.executors = engine.executors
      /\ engine'.results = engine.results \ {r} /\ TypeOK'
      /\ \A u \in Tasks : held'[u] = IF u = t THEN held[u] \ {r} ELSE held[u]
  BY <1>1, <1>2 DEF Inv, TypeOK, ProxyInv
<1>4. ProgramOK' /\ ExecutorOK' /\ WorkerOK' /\ LoopOK'
  BY <1>2, <1>3 DEF Inv, ProgramOK, ExecutorOK, WorkerOK, LoopOK, At, InQueue, AtWork
<1>5. ResultsOK'
  <2>1. ResultsOwned'
    BY <1>2, <1>3 DEF Inv, ResultsOK, ResultsOwned
  <2>2. \A s \in engine'.results : \A kind : ~InQueue(s, kind)' /\ ~AtWork(s, kind)'
    BY <1>2, <1>3 DEF Inv, ResultsOK, InQueue, AtWork
  <2> QED
    BY <1>2, <1>3, <2>1, <2>2 DEF Inv, ResultsOK
<1> QED
  BY <1>2, <1>3, <1>4, <1>5 DEF Inv

(* A job of "create" has been submitted by an Owner that is not outside. *)
LEMMA CreateFacts ==
  ASSUME Inv, NEW id, Somewhere(id, "create")
  PROVE  /\ ~proxy.inner /\ ~At(Owner, "outside")
         /\ engine.results = {} /\ batch.executor = NoJob
         /\ \A id2, kind : Somewhere(id2, kind) => id2 = id /\ kind = "create"
<1>1. /\ ~proxy.inner /\ id = <<Owner, 1>>
      /\ \A id2, kind : Somewhere(id2, kind) => id2 = id /\ kind = "create"
  BY DEF Inv, ProxyInv, Opening
<1>2. id \in Ids /\ "create" \in JobKinds
  BY InvTypes, Places DEF Inv
<1>3. 1 <= n[Owner]
  <2>1. id[1] = Owner /\ id[2] = 1
    BY <1>1
  <2> QED
    BY <1>2, <2>1 DEF Inv, ProxyInv, Submitted
<1>4. ~At(Owner, "outside")
  BY <1>3 DEF Inv, ProxyInv, Opening
<1> QED
  BY <1>1, <1>4 DEF Inv, ExecutorOK, ResultsOK

LEMMA DropStep ==
  ASSUME Inv, Drop
  PROVE  Inv'
<1>1. PICK o \in done :
        /\ done' = done \ {o}
        /\ IF o.kind = "create" /\ o.ok
             THEN /\ engine' = [engine EXCEPT !.program = "freed"]
                  /\ batch' = [batch EXCEPT !.closed = TRUE]
             ELSE engine' = [engine EXCEPT !.results = @ \ {o.id}] /\ UNCHANGED batch
  BY DEF Drop
<1>2. UNCHANGED <<worker, proxy, queue, loop, pc, n, held>>
  BY DEF Drop, outsidePool, taskVars
<1>3. /\ ProxyInv(JobKinds, TaskLabels, WorkerLabels)'
      /\ \A id, k : Somewhere(id, k)' => Somewhere(id, k) /\ id # o.id
  <2>1. UNCHANGED <<worker, taskVars>>
    BY <1>2 DEF taskVars
  <2> QED
    BY <1>1, <2>1, DroppedInv DEF Inv
<1>4. Somewhere(o.id, o.kind)
  BY InvTypes, Places DEF Inv
<1>5. LoopOK'
  BY <1>2 DEF Inv, LoopOK
<1>6. CASE o.kind = "create" /\ o.ok
  <2>1. /\ engine'.program = "freed" /\ engine'.executors = engine.executors
        /\ engine'.results = engine.results /\ batch'.closed /\ batch'.executor = batch.executor
        /\ TypeOK'
    BY <1>1, <1>2, <1>3, <1>6 DEF Inv, TypeOK, ProxyInv
  <2>2. /\ ~proxy.inner /\ ~At(Owner, "outside") /\ engine.results = {} /\ batch.executor = NoJob
        /\ \A id, kind : Somewhere(id, kind) => id = o.id /\ kind = "create"
    BY <1>4, <1>6, CreateFacts
  <2>3. \A id, kind : ~Somewhere(id, kind)'
    BY <1>3, <2>2
  <2>4. \A id : ~InQueue(id, "create")' /\ ~AtWork(id, "create")' /\ ~AsOutcome(id, "create")'
    BY <2>3 DEF Somewhere
  <2>5. ProgramOK'
    BY <1>2, <2>1, <2>2, <2>4 DEF ProgramOK, At, AsOutcome
  <2>6. ExecutorOK'
    BY <2>1, <2>2 DEF Inv, ExecutorOK
  <2>7. WorkerOK'
    <3>1. worker.at = "idle"
      BY <1>2, <2>3 DEF Somewhere, AtWork
    <3> QED
      BY <1>2, <3>1 DEF WorkerOK, AtEngine
  <2>8. ResultsOK'
    BY <2>1, <2>2 DEF ResultsOK, ResultsOwned
  <2> QED
    BY <1>3, <1>5, <2>1, <2>5, <2>6, <2>7, <2>8 DEF Inv
<1>7. CASE ~(o.kind = "create" /\ o.ok)
  <2>1. /\ engine'.program = engine.program /\ engine'.executors = engine.executors
        /\ engine'.results = engine.results \ {o.id} /\ batch' = batch /\ TypeOK'
    BY <1>1, <1>2, <1>3, <1>7 DEF Inv, TypeOK, ProxyInv
  <2>2. \A id, k : (InQueue(id, k)' <=> InQueue(id, k)) /\ (AtWork(id, k)' <=> AtWork(id, k))
    BY <1>2 DEF InQueue, AtWork
  <2>3. ProgramOK' /\ ExecutorOK' /\ WorkerOK'
    BY <1>1, <1>2, <2>1, <2>2 DEF Inv, ProgramOK, ExecutorOK, WorkerOK, At
  <2>4. ResultsOwned'
    BY <1>1, <1>2, <2>1 DEF Inv, ResultsOK, ResultsOwned
  <2>5. ResultsOK'
    BY <1>1, <1>2, <2>1, <2>2, <2>4 DEF Inv, ResultsOK
  <2> QED
    BY <1>3, <1>5, <2>1, <2>3, <2>5 DEF Inv
<1> QED
  BY <1>6, <1>7

-----------------------------------------------------------------------------
(* The worker, which is at a job. *)
LEMMA BusyFacts ==
  ASSUME Inv, worker.at # "idle"
  PROVE  /\ worker.job \in Ids /\ worker.kind \in JobKinds /\ AtWork(worker.job, worker.kind)
         /\ Somewhere(worker.job, worker.kind) /\ worker.job[2] <= n[worker.job[1]]
         /\ worker.job \notin engine.results
         /\ \A kind : ~InQueue(worker.job, kind)
         /\ \A o \in done : o.id # worker.job
         /\ worker.kind # "create" =>
              /\ proxy.inner
              /\ \A id : ~Somewhere(id, "create")
<1>1. /\ worker.job \in Ids /\ worker.kind \in JobKinds /\ AtWork(worker.job, worker.kind)
      /\ Somewhere(worker.job, worker.kind)
  BY InvTypes, Places DEF Inv, WorkerType, AtWork
<1>2. worker.job[2] <= n[worker.job[1]]
  BY <1>1 DEF Inv, ProxyInv, Submitted
<1>3. worker.job \notin engine.results
  BY <1>1 DEF Inv, ResultsOK
<1>4. (\A kind : ~InQueue(worker.job, kind)) /\ \A o \in done : o.id # worker.job
  BY DEF Inv, ProxyInv, OnceEach, InQueue
<1>5. worker.kind # "create" => proxy.inner /\ \A id : ~Somewhere(id, "create")
  BY <1>1 DEF Inv, ProxyInv, Opening
<1> QED
  BY <1>1, <1>2, <1>3, <1>4, <1>5

LEMMA TakeJobStep ==
  ASSUME Inv, TakeJob
  PROVE  Inv'
<1>1. Take /\ UNCHANGED <<engine, batch, held>> /\ "start" \in WorkerLabels
  BY DEF TakeJob, WorkerLabels
<1>2. /\ ProxyInv(JobKinds, TaskLabels, WorkerLabels)' /\ UNCHANGED <<proxy, done, loop, pc, n>>
      /\ worker'.at = "start"
      /\ \A id, k : InQueue(id, k)' => InQueue(id, k)
      /\ \A id, k : AtWork(id, k)' => InQueue(id, k)
  BY <1>1, TakeInv DEF Inv
<1>3. TypeOK'
  BY <1>1, <1>2 DEF Inv, TypeOK, ProxyInv
<1>4. ProgramOK'
  <2>1. \A id : InQueue(id, "create")' \/ AtWork(id, "create")' => engine.program = "none"
    BY <1>2 DEF Inv, ProgramOK
  <2> QED
    BY <1>1, <1>2, <2>1 DEF Inv, ProgramOK, At
<1>5. ExecutorOK' /\ WorkerOK' /\ LoopOK'
  BY <1>1, <1>2 DEF Inv, ExecutorOK, WorkerOK, LoopOK, AtEngine
<1>6. ResultsOK'
  <2>1. \A r \in engine.results : \A kind : ~InQueue(r, kind)' /\ ~AtWork(r, kind)'
    BY <1>2 DEF Inv, ResultsOK
  <2> QED
    BY <1>1, <1>2, <2>1 DEF Inv, ResultsOK, ResultsOwned
<1> QED
  BY <1>2, <1>3, <1>4, <1>5, <1>6 DEF Inv

(* It goes on to the engine, *)
LEMMA WorkerTo ==
  ASSUME Inv, worker.at # "idle", worker.kind # "create", NEW label \in WorkerLabels, To(label),
         UNCHANGED outsidePool
  PROVE  /\ ProxyInv(JobKinds, TaskLabels, WorkerLabels)'
         /\ UNCHANGED <<done, proxy, queue, loop, pc, n, held>> /\ LoopOK'
         /\ worker'.at = label /\ worker'.job = worker.job /\ worker'.kind = worker.kind
         /\ \A id : ~InQueue(id, "create")' /\ ~AtWork(id, "create")'
         /\ \A r \in engine.results : \A kind : ~InQueue(r, kind)' /\ ~AtWork(r, kind)'
<1>1. UNCHANGED <<taskVars, held>>
  BY DEF outsidePool
<1>2. /\ ProxyInv(JobKinds, TaskLabels, WorkerLabels)' /\ UNCHANGED <<done, proxy, queue, loop, pc, n>>
      /\ worker'.at = label /\ worker'.job = worker.job /\ worker'.kind = worker.kind
  BY <1>1, ToInv DEF Inv
<1>3. /\ \A id, k : InQueue(id, k)' <=> InQueue(id, k)
      /\ \A id, k : AtWork(id, k)' => AtWork(id, k)
  BY <1>2 DEF InQueue, AtWork
<1>4. \A id : ~InQueue(id, "create") /\ ~AtWork(id, "create")
  BY BusyFacts DEF Somewhere
<1>5. \A r \in engine.results : \A kind : ~InQueue(r, kind)' /\ ~AtWork(r, kind)'
  BY <1>3 DEF Inv, ResultsOK
<1>6. LoopOK'
  BY <1>2 DEF Inv, LoopOK
<1> QED
  BY <1>1, <1>2, <1>3, <1>4, <1>5, <1>6

(* or ends the job. *)
LEMMA WorkerReturn ==
  ASSUME Inv, worker.at # "idle", NEW ok \in BOOLEAN, Return(ok), UNCHANGED outsidePool
  PROVE  /\ ProxyInv(JobKinds, TaskLabels, WorkerLabels)'
         /\ UNCHANGED <<proxy, queue, loop, pc, n, held>> /\ LoopOK'
         /\ worker'.at = "idle" /\ \A id, kind : ~AtWork(id, kind)'
         /\ \A id, kind : InQueue(id, kind)' => InQueue(id, kind)
         /\ done \subseteq done'
         /\ \E o \in done' : /\ o.id = worker.job /\ o.kind = worker.kind /\ o.ok = ok
                             /\ \A p \in done' : p \in done \/ p = o
<1>1. UNCHANGED <<taskVars, held>>
  BY DEF outsidePool
<1>2. /\ ProxyInv(JobKinds, TaskLabels, WorkerLabels)' /\ UNCHANGED <<proxy, queue, loop, pc, n>>
      /\ worker'.at = "idle"
      /\ done' = done \cup {[id |-> worker.job, kind |-> worker.kind, ok |-> ok]}
  BY <1>1, ReturnInv DEF Inv
<1>3. /\ \A id, k : InQueue(id, k)' => InQueue(id, k)
      /\ \A id, k : ~AtWork(id, k)'
  BY <1>2 DEF InQueue, AtWork
<1>4. LoopOK'
  BY <1>2 DEF Inv, LoopOK
<1> QED
  BY <1>1, <1>2, <1>3, <1>4

LEMMA ParsedStep ==
  ASSUME Inv, Parsed
  PROVE  Inv'
<1>1. PICK ok \in BOOLEAN :
        /\ Return(ok)
        /\ engine' = IF ok THEN [engine EXCEPT !.program = "open"] ELSE engine
  BY DEF Parsed
<1>2. worker.at = "start" /\ worker.kind = "create" /\ batch' = batch /\ UNCHANGED outsidePool
  BY DEF Parsed
<1>3. /\ ProxyInv(JobKinds, TaskLabels, WorkerLabels)'
      /\ UNCHANGED <<proxy, queue, loop, pc, n, held>> /\ LoopOK'
      /\ worker'.at = "idle" /\ \A id, kind : ~AtWork(id, kind)'
      /\ \A id, kind : InQueue(id, kind)' => InQueue(id, kind)
      /\ done \subseteq done'
  BY <1>1, <1>2, WorkerReturn
<1>4. PICK o \in done' : /\ o.id = worker.job /\ o.kind = worker.kind /\ o.ok = ok
                         /\ \A p \in done' : p \in done \/ p = o
  BY <1>1, <1>2, WorkerReturn
<1>5. /\ AtWork(worker.job, "create") /\ Somewhere(worker.job, "create")
      /\ \A kind : ~InQueue(worker.job, kind)
      /\ \A p \in done : p.id # worker.job
  BY <1>2, BusyFacts
<1>6. /\ ~proxy.inner /\ ~At(Owner, "outside") /\ engine.results = {} /\ batch.executor = NoJob
      /\ \A id, kind : Somewhere(id, kind) => id = worker.job
  BY <1>5, CreateFacts
<1>7. engine.program = "none" /\ ~batch.closed
  BY <1>5 DEF Inv, ProgramOK
<1>8. /\ engine'.program = (IF ok THEN "open" ELSE "none")
      /\ engine'.executors = engine.executors /\ engine'.results = engine.results /\ TypeOK'
  BY <1>1, <1>2, <1>3, <1>7 DEF Inv, TypeOK, ProxyInv
<1>9. ProgramOK'
  <2>1. \A id : ~InQueue(id, "create")'
    BY <1>3, <1>5, <1>6 DEF Somewhere
  <2>2. \A p \in done' : p.kind = "create" /\ p.ok => engine'.program = "open"
    <3>1. \A p \in done : p.kind = "create" /\ p.ok => engine.program = "open"
      BY DEF Inv, ProgramOK
    <3> QED
      BY <1>4, <1>7, <1>8, <3>1
  <2> QED
    BY <1>2, <1>3, <1>6, <1>7, <1>8, <2>1, <2>2 DEF ProgramOK, At
<1>10. ExecutorOK' /\ WorkerOK'
  BY <1>2, <1>3, <1>6, <1>8 DEF Inv, ExecutorOK, WorkerOK, AtEngine
<1>11. ResultsOK'
  BY <1>6, <1>8 DEF ResultsOK, ResultsOwned
<1> QED
  BY <1>3, <1>8, <1>9, <1>10, <1>11 DEF Inv

(* A job that fails, or that leaves the engine as it was *)
LEMMA QuietReturn ==
  ASSUME Inv, worker.at # "idle", worker.kind # "create", NEW ok \in BOOLEAN, Return(ok),
         UNCHANGED outsidePool, UNCHANGED <<engine, batch>>
  PROVE  Inv'
<1>1. /\ ProxyInv(JobKinds, TaskLabels, WorkerLabels)'
      /\ UNCHANGED <<proxy, queue, loop, pc, n, held>> /\ LoopOK'
      /\ worker'.at = "idle" /\ \A id, kind : ~AtWork(id, kind)'
      /\ \A id, kind : InQueue(id, kind)' => InQueue(id, kind)
      /\ done \subseteq done'
  BY WorkerReturn
<1>2. PICK o \in done' : /\ o.id = worker.job /\ o.kind = worker.kind /\ o.ok = ok
                         /\ \A p \in done' : p \in done \/ p = o
  BY WorkerReturn
<1>3. worker.job \notin engine.results
  BY BusyFacts
<1>4. TypeOK'
  BY <1>1 DEF Inv, TypeOK, ProxyInv
<1>5. ProgramOK'
  <2>1. \A p \in done' : p.kind = "create" /\ p.ok => engine.program = "open"
    BY <1>2 DEF Inv, ProgramOK
  <2>2. \A id : InQueue(id, "create")' \/ AtWork(id, "create")' => engine.program = "none"
    BY <1>1 DEF Inv, ProgramOK
  <2> QED
    BY <1>1, <2>1, <2>2 DEF Inv, ProgramOK, At
<1>6. ExecutorOK' /\ WorkerOK'
  BY <1>1 DEF Inv, ExecutorOK, WorkerOK, AtEngine
<1>7. ResultsOK'
  <2>1. ResultsOwned'
    BY <1>1 DEF Inv, ResultsOK, ResultsOwned
  <2>2. \A r \in engine.results : \A p \in done' : p.id = r => p.kind = "evaluate"
    BY <1>2, <1>3 DEF Inv, ResultsOK
  <2>3. \A r \in engine.results : \A kind : ~InQueue(r, kind)' /\ ~AtWork(r, kind)'
    BY <1>1 DEF Inv, ResultsOK
  <2> QED
    BY <1>1, <2>1, <2>2, <2>3 DEF Inv, ResultsOK
<1> QED
  BY <1>1, <1>4, <1>5, <1>6, <1>7 DEF Inv

(* A job other than "create" begins when the program is open or freed. *)
LEMMA StartStep ==
  ASSUME Inv, Start
  PROVE  Inv'
<1> DEFINE label == CASE worker.kind = "optimize" -> "in_run"
                      [] worker.kind = "close" ->
                           IF batch.executor = NoJob THEN "in_program_free" ELSE "in_executor_free"
                      [] OTHER -> IF batch.executor = NoJob THEN "in_create" ELSE "in_run"
<1>1. /\ worker.at = "start" /\ worker.kind # "create" /\ UNCHANGED <<engine, batch>> /\ UNCHANGED outsidePool
      /\ IF batch.closed THEN Return(worker.kind = "close") ELSE To(label)
  BY DEF Start
<1>2. CASE batch.closed
  <2>1. (worker.kind = "close") \in BOOLEAN
    OBVIOUS
  <2> QED
    BY <1>1, <1>2, <2>1, QuietReturn
<1>3. CASE ~batch.closed
  <2>1. /\ label \in WorkerLabels /\ label \in AtEngine
        /\ label \in {"in_create", "in_program_free"} => batch.executor = NoJob
        /\ label = "in_run" /\ worker.kind # "optimize" => batch.executor # NoJob
    BY DEF WorkerLabels, AtEngine
  <2> HIDE DEF label
  <2>2. /\ ProxyInv(JobKinds, TaskLabels, WorkerLabels)'
        /\ UNCHANGED <<done, proxy, queue, loop, pc, n, held>> /\ LoopOK'
        /\ worker'.at = label /\ worker'.job = worker.job /\ worker'.kind = worker.kind
        /\ \A id : ~InQueue(id, "create")' /\ ~AtWork(id, "create")'
        /\ \A r \in engine.results : \A kind : ~InQueue(r, kind)' /\ ~AtWork(r, kind)'
    BY <1>1, <1>3, <2>1, WorkerTo
  <2>3. engine.program = "open"
    <3>1. proxy.inner
      BY <1>1, BusyFacts
    <3> QED
      BY <1>3, <3>1 DEF Inv, ProgramOK, TypeOK
  <2>4. TypeOK'
    BY <1>1, <2>2 DEF Inv, TypeOK, ProxyInv
  <2>5. ProgramOK' /\ ExecutorOK'
    BY <1>1, <2>2 DEF Inv, ProgramOK, ExecutorOK, At
  <2>6. WorkerOK'
    BY <1>1, <2>1, <2>2, <2>3 DEF WorkerOK
  <2>7. ResultsOK'
    BY <1>1, <2>2 DEF Inv, ResultsOK, ResultsOwned
  <2> QED
    BY <2>2, <2>4, <2>5, <2>6, <2>7 DEF Inv
<1> QED
  BY <1>2, <1>3

LEMMA CreatedStep ==
  ASSUME Inv, Created
  PROVE  Inv'
<1>1. /\ worker.at = "in_create" /\ UNCHANGED outsidePool
      /\ worker.kind # "create" /\ engine.program = "open" /\ batch.executor = NoJob
  BY DEF Created, Inv, WorkerOK, AtEngine
<1>2. CASE Return(FALSE) /\ UNCHANGED <<engine, batch>>
  BY <1>1, <1>2, QuietReturn
<1>3. CASE /\ To("in_run")
           /\ engine' = [engine EXCEPT !.executors = @ \cup {worker.job}]
           /\ batch' = [batch EXCEPT !.executor = worker.job]
  <2>1. worker.job \in Ids /\ worker.job # NoJob /\ proxy.inner
    BY <1>1, BusyFacts, ProxyAssumption
  <2>2. /\ ProxyInv(JobKinds, TaskLabels, WorkerLabels)'
        /\ UNCHANGED <<done, proxy, queue, loop, pc, n, held>> /\ LoopOK'
        /\ worker'.at = "in_run" /\ worker'.job = worker.job /\ worker'.kind = worker.kind
        /\ \A id : ~InQueue(id, "create")' /\ ~AtWork(id, "create")'
        /\ \A r \in engine.results : \A kind : ~InQueue(r, kind)' /\ ~AtWork(r, kind)'
    <3>1. "in_run" \in WorkerLabels
      BY DEF WorkerLabels
    <3> QED
      BY <1>1, <1>3, <3>1, WorkerTo
  <2>3. /\ engine'.program = engine.program /\ engine'.results = engine.results
        /\ engine'.executors = engine.executors \cup {worker.job}
        /\ batch'.closed = batch.closed /\ batch'.executor = worker.job /\ TypeOK'
    BY <1>3, <2>1, <2>2 DEF Inv, TypeOK, ProxyInv
  <2>4. ProgramOK'
    BY <2>2, <2>3 DEF Inv, ProgramOK, At
  <2>5. ExecutorOK'
    <3>1. engine.executors = {} /\ ~batch.closed
      BY <1>1 DEF Inv, ExecutorOK, ProgramOK
    <3> QED
      BY <2>1, <2>2, <2>3, <3>1 DEF ExecutorOK
  <2>6. WorkerOK'
    BY <1>1, <2>1, <2>2, <2>3 DEF WorkerOK
  <2>7. ResultsOK'
    BY <2>2, <2>3 DEF Inv, ResultsOK, ResultsOwned
  <2> QED
    BY <2>2, <2>3, <2>4, <2>5, <2>6, <2>7 DEF Inv
<1> QED
  BY <1>2, <1>3 DEF Created

LEMMA RanStep ==
  ASSUME Inv, Ran
  PROVE  Inv'
<1>1. PICK ok \in BOOLEAN :
        /\ Return(ok)
        /\ engine' = IF ok /\ worker.kind = "evaluate"
                       THEN [engine EXCEPT !.results = @ \cup {worker.job}] ELSE engine
  BY DEF Ran
<1>2. /\ worker.at = "in_run" /\ batch' = batch /\ UNCHANGED outsidePool
      /\ worker.kind # "create" /\ engine.program = "open"
  BY DEF Ran, Inv, WorkerOK, AtEngine
<1>3. CASE ~(ok /\ worker.kind = "evaluate")
  BY <1>1, <1>2, <1>3, QuietReturn
<1>4. CASE ok /\ worker.kind = "evaluate"
  <2>1. /\ ProxyInv(JobKinds, TaskLabels, WorkerLabels)'
        /\ UNCHANGED <<proxy, queue, loop, pc, n, held>> /\ LoopOK'
        /\ worker'.at = "idle" /\ \A id, kind : ~AtWork(id, kind)'
        /\ \A id, kind : InQueue(id, kind)' => InQueue(id, kind)
        /\ done \subseteq done'
    BY <1>1, <1>2, WorkerReturn
  <2>2. PICK o \in done' : /\ o.id = worker.job /\ o.kind = worker.kind /\ o.ok = ok
                           /\ \A p \in done' : p \in done \/ p = o
    BY <1>1, <1>2, WorkerReturn
  <2>3. /\ worker.job \in Ids /\ worker.job[2] <= n[worker.job[1]] /\ proxy.inner
        /\ \A kind : ~InQueue(worker.job, kind)
        /\ \A p \in done : p.id # worker.job
        /\ \A id : ~Somewhere(id, "create")
    BY <1>2, BusyFacts
  <2>4. /\ engine'.program = engine.program /\ engine'.executors = engine.executors
        /\ engine'.results = engine.results \cup {worker.job} /\ TypeOK'
    BY <1>1, <1>2, <1>4, <2>1, <2>3 DEF Inv, TypeOK, ProxyInv
  <2>5. ProgramOK'
    <3>1. \A p \in done' : p.kind = "create" /\ p.ok => engine.program = "open"
      BY <1>2
    <3>2. \A id : ~InQueue(id, "create")'
      BY <2>1, <2>3 DEF Somewhere
    <3> QED
      BY <1>2, <2>1, <2>4, <3>1, <3>2 DEF Inv, ProgramOK, At
  <2>6. ExecutorOK' /\ WorkerOK'
    BY <1>2, <2>1, <2>4 DEF Inv, ExecutorOK, WorkerOK, AtEngine
  <2>7. ResultsOK'
    <3>1. ASSUME NEW r \in engine'.results
          PROVE  /\ r[2] <= n[r[1]]
                 /\ \A kind : ~InQueue(r, kind)' /\ ~AtWork(r, kind)'
                 /\ \A p \in done' : p.id = r => p.kind = "evaluate"
                 /\ (\E t \in Tasks : r \in held[t]) \/ \E p \in done' : p.id = r
      <4>1. CASE r = worker.job
        BY <1>4, <2>1, <2>2, <2>3, <4>1
      <4>2. CASE r \in engine.results
        <5>1. r # worker.job
          BY <1>2, <4>2, BusyFacts
        <5> QED
          BY <2>1, <2>2, <4>2, <5>1 DEF Inv, ResultsOK, ResultsOwned
      <4> QED
        BY <2>4, <4>1, <4>2
    <3> QED
      BY <2>1, <2>3, <3>1 DEF ResultsOK, ResultsOwned
  <2> QED
    BY <2>1, <2>4, <2>5, <2>6, <2>7 DEF Inv
<1> QED
  BY <1>3, <1>4

LEMMA ExecutorFreedStep ==
  ASSUME Inv, ExecutorFreed
  PROVE  Inv'
<1>1. /\ worker.at = "in_executor_free" /\ To("in_program_free") /\ UNCHANGED outsidePool
      /\ engine' = [engine EXCEPT !.executors = @ \ {batch.executor}]
      /\ batch' = [batch EXCEPT !.executor = NoJob]
      /\ worker.kind # "create" /\ engine.program = "open" /\ "in_program_free" \in WorkerLabels
  BY DEF ExecutorFreed, Inv, WorkerOK, AtEngine, WorkerLabels
<1>2. /\ ProxyInv(JobKinds, TaskLabels, WorkerLabels)'
      /\ UNCHANGED <<done, proxy, queue, loop, pc, n, held>> /\ LoopOK'
      /\ worker'.at = "in_program_free" /\ worker'.job = worker.job /\ worker'.kind = worker.kind
      /\ \A id : ~InQueue(id, "create")' /\ ~AtWork(id, "create")'
      /\ \A r \in engine.results : \A kind : ~InQueue(r, kind)' /\ ~AtWork(r, kind)'
  BY <1>1, WorkerTo
<1>3. /\ engine'.program = engine.program /\ engine'.results = engine.results
      /\ engine'.executors = engine.executors \ {batch.executor}
      /\ batch'.closed = batch.closed /\ batch'.executor = NoJob /\ TypeOK'
  BY <1>1, <1>2 DEF Inv, TypeOK, ProxyInv
<1>4. ProgramOK'
  BY <1>2, <1>3 DEF Inv, ProgramOK, At
<1>5. ExecutorOK' /\ WorkerOK'
  BY <1>1, <1>2, <1>3 DEF Inv, ExecutorOK, WorkerOK
<1>6. ResultsOK'
  BY <1>2, <1>3 DEF Inv, ResultsOK, ResultsOwned
<1> QED
  BY <1>2, <1>3, <1>4, <1>5, <1>6 DEF Inv

LEMMA ProgramFreedStep ==
  ASSUME Inv, ProgramFreed
  PROVE  Inv'
<1>1. /\ worker.at = "in_program_free" /\ Return(TRUE) /\ UNCHANGED outsidePool
      /\ engine' = [engine EXCEPT !.program = "freed"]
      /\ batch' = [batch EXCEPT !.closed = TRUE]
      /\ worker.kind # "create" /\ batch.executor = NoJob
  BY DEF ProgramFreed, Inv, WorkerOK, AtEngine
<1>2. /\ ProxyInv(JobKinds, TaskLabels, WorkerLabels)'
      /\ UNCHANGED <<proxy, queue, loop, pc, n, held>> /\ LoopOK'
      /\ worker'.at = "idle" /\ \A id, kind : ~AtWork(id, kind)'
      /\ \A id, kind : InQueue(id, kind)' => InQueue(id, kind)
      /\ done \subseteq done'
  BY <1>1, WorkerReturn
<1>3. PICK o \in done' : /\ o.id = worker.job /\ o.kind = worker.kind /\ o.ok = TRUE
                         /\ \A p \in done' : p \in done \/ p = o
  BY <1>1, WorkerReturn
<1>4. /\ proxy.inner /\ worker.job \notin engine.results
      /\ \A id : ~Somewhere(id, "create")
  BY <1>1, BusyFacts
<1>5. /\ engine'.program = "freed" /\ engine'.executors = engine.executors
      /\ engine'.results = engine.results /\ batch'.closed /\ batch'.executor = NoJob /\ TypeOK'
  BY <1>1, <1>2 DEF Inv, TypeOK, ProxyInv
<1>6. ProgramOK'
  <2>1. \A p \in done' : p.kind # "create"
    BY <1>1, <1>3, <1>4 DEF Somewhere, AsOutcome
  <2>2. \A id : ~InQueue(id, "create")'
    BY <1>2, <1>4 DEF Somewhere
  <2>3. pc[Owner] # "outside"
    BY <1>4 DEF Inv, ProxyInv, Opening
  <2> QED
    BY <1>2, <1>5, <2>1, <2>2, <2>3 DEF ProgramOK, At
<1>7. ExecutorOK' /\ WorkerOK'
  BY <1>1, <1>2, <1>5 DEF Inv, ExecutorOK, WorkerOK, AtEngine
<1>8. ResultsOK'
  <2>1. ResultsOwned'
    BY <1>2, <1>5 DEF Inv, ResultsOK, ResultsOwned
  <2>2. \A r \in engine.results : \A p \in done' : p.id = r => p.kind = "evaluate"
    BY <1>3, <1>4 DEF Inv, ResultsOK
  <2>3. \A r \in engine.results : \A kind : ~InQueue(r, kind)' /\ ~AtWork(r, kind)'
    BY <1>2 DEF Inv, ResultsOK
  <2> QED
    BY <1>2, <1>4, <1>5, <2>1, <2>2, <2>3 DEF Inv, ResultsOK
<1> QED
  BY <1>2, <1>5, <1>6, <1>7, <1>8 DEF Inv

-----------------------------------------------------------------------------
LEMMA InitHolds ==
  ASSUME Init
  PROVE  Inv
<1>1. ProxyInv(JobKinds, TaskLabels, WorkerLabels) /\ \A id, kind : ~Somewhere(id, kind)
  <2>1. "close" \in JobKinds /\ ProxyInit
    BY DEF JobKinds, Init
  <2> QED
    BY <2>1, InitInv
<1>2. TypeOK
  BY <1>1 DEF Init, TypeOK, ProxyInv
<1>3. ProgramOK
  BY <1>1 DEF Init, ProxyInit, ProgramOK, Somewhere
<1>4. ExecutorOK /\ WorkerOK /\ ResultsOK /\ LoopOK
  BY DEF Init, ProxyInit, ExecutorOK, WorkerOK, AtEngine, ResultsOK, ResultsOwned, LoopOK, TaskLabels
<1> QED
  BY <1>1, <1>2, <1>3, <1>4 DEF Inv

LEMMA StutterStep ==
  ASSUME Inv, UNCHANGED vars
  PROVE  Inv'
<1>1. /\ UNCHANGED <<worker, done, proxy, queue, loop, pc, n, engine, batch, held>>
      /\ UNCHANGED proxyVars
  BY DEF vars, proxyVars, poolVars, taskVars
<1>2. ProxyInv(JobKinds, TaskLabels, WorkerLabels)'
  BY <1>1, StutterInv DEF Inv
<1>3. \A u \in Tasks : n[u] \in Nat /\ n'[u] \in Nat /\ n[u] <= n'[u]
  <2>1. \A u \in Tasks : n[u] \in Nat
    BY InvTypes, Numbers DEF Inv
  <2> QED
    BY <1>1, <2>1
<1>4. LoopOK' /\ \A id, kind : InQueue(id, kind)' => InQueue(id, kind)
  BY <1>1 DEF Inv, LoopOK, InQueue
<1> QED
  BY <1>1, <1>2, <1>3, <1>4, OutsideWorker DEF At

LEMMA NextKeepsInv ==
  ASSUME Inv, [Next]_vars
  PROVE  Inv'
<1>1. CASE Work
  BY <1>1, TakeJobStep, ParsedStep, StartStep, CreatedStep, RanStep, ExecutorFreedStep,
     ProgramFreedStep DEF Work
<1>2. CASE Drop
  BY <1>2, DropStep
<1>3. ASSUME NEW t \in Tasks, Continue(t)
      PROVE  Inv'
  BY <1>3, ResumedStep, AcloseReturnStep, ResultStep DEF Continue
<1>4. ASSUME NEW t \in Tasks, User(t)
      PROVE  Inv'
  BY <1>4, ProxyStep, ResultStep, ResultCloseStep DEF User
<1>5. CASE UNCHANGED vars
  BY <1>5, StutterStep
<1> QED
  BY <1>1, <1>2, <1>3, <1>4, <1>5 DEF Next, Finished

LEMMA InvHolds == Spec => []Inv
<1>1. Init => Inv
  BY InitHolds
<1>2. Inv /\ [Next]_vars => Inv'
  BY NextKeepsInv
<1> QED
  BY <1>1, <1>2, PTL DEF Spec

-----------------------------------------------------------------------------
(* Every variable of the proxy and of what stands behind it keeps its type. *)
THEOREM TypeCorrect == Spec => []TypeOK
<1>1. Inv => TypeOK
  BY DEF Inv
<1> QED
  BY <1>1, InvHolds, PTL

(* Whatever is cancelled, and wherever the pool is closed, _check_open and *)
(* the one worker keep every job off a program that has been closed, and   *)
(* off an executor that there is not.                                      *)
THEOREM OpenProgram == Spec => []JobsSeeOpenProgram
<1>1. Inv => JobsSeeOpenProgram
  BY DEF Inv, WorkerOK, AtEngine, ExecutorOK, JobsSeeOpenProgram
<1> QED
  BY <1>1, InvHolds, PTL

(* _ensure_executor, which every job calls and nobody locks, makes one     *)
(* executor at a time, and close() frees it.                               *)
THEOREM OneExecutor == Spec => []NoExecutorLost
<1>1. Inv => NoExecutorLost
  BY DEF Inv, ExecutorOK, NoExecutorLost
<1> QED
  BY <1>1, InvHolds, PTL

(* No result of evaluate() is left to nobody when its await is cancelled.  *)
THEOREM EveryResultOwned == Spec => []ResultsOwned
<1>1. Inv => ResultsOwned
  BY DEF Inv, ResultsOK
<1> QED
  BY <1>1, InvHolds, PTL
================================================================================
