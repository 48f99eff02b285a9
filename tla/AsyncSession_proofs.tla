-------------------------- MODULE AsyncSession_proofs --------------------------
(***************************************************************************)
(* What holds of AsyncSession for every number of tasks, whatever they     *)
(* submit and whoever is cancelled.                                        *)
(***************************************************************************)
EXTENDS AsyncSession, AsyncProxy_proofs

(* The Session and the session of the engine it stands for.  The object    *)
(* that is finalised is one nobody can come to refer to again.             *)
SessionOK ==
  /\ inner.handle <=> engine.session = "open"
  /\ inner.object = "none" <=> engine.session = "none"
  /\ inner.handle => SessionExists
  /\ inner.object = "finalising" => inner.handle
  /\ inner.object \in {"finalising", "gone"} => ~SessionReferred
  /\ At(Owner, "outside") => engine.session = "none"
  /\ proxy.inner => engine.session # "none"
  /\ \A id : InQueue(id, "create") \/ AtWork(id, "create") => engine.session = "none"
  /\ \A o \in done : /\ o.kind = "create" => (o.ok <=> engine.session # "none")
                     /\ o.kind = "close" => engine.session = "freed"
  /\ pc[Owner] \in {"in_exit_aclose", "exited"} => engine.session = "freed"
  /\ At(Owner, "exited") => PoolQuiet

(* Where the worker is with the jobs that make and unmake the session *)
WorkerOK ==
  /\ worker.kind = "create" => worker.at \in {"idle", "start", "in_create"}
  /\ worker.kind = "close" => worker.at \in {"idle", "start", "in_clear_cb", "in_destroy"}
  /\ worker.at = "in_create" => worker.kind = "create"
  /\ worker.at \in {"in_clear_cb", "in_destroy"} => worker.kind = "close"

(* There has been no session, and there will be none. *)
Unopened ==
  engine.session = "none" /\ ~proxy.inner /\ \A id, kind : ~Somewhere(id, kind)

(* Who may free the program: __del__, when nobody refers to it; the end of *)
(* the Owner's `with Program`, which an orderly block does not reach before *)
(* the pool is closed and quiet.                                           *)
ProgramOK ==
  /\ block = "none" /\ engine.program = "freed" => ~ProgramReferred
  /\ block = "orderly" =>
       /\ proxy.closed => pc[Owner] \in {"in_exit_aclose", "exited", "gone"}
       /\ At(Owner, "raised") => Unopened
       /\ At(Owner, "gone") => Unopened \/ (proxy.closed /\ PoolQuiet /\ engine.session = "freed")
       /\ engine.program = "freed" => pc[Owner] \in {"exited", "raised", "gone"}

(* A job whose turn is over *)
Over(id) == id[2] <= n[id[1]] /\ \A kind : ~InQueue(id, kind) /\ ~AtWork(id, kind)

(* The rows: staged by a job that is over, evaluated once, in the slot's   *)
(* queue only until the step that has put them there drains it, drained by *)
(* one job, which is over and has an outcome until a task has taken it up. *)
RowsOK ==
  /\ inner.queue # {} => worker.at = "drain"
  /\ inner.queue \subseteq engine.evaluated
  /\ \A r \in engine.staged \cup engine.evaluated : Over(r)
  /\ engine.staged \cap engine.evaluated = {}
  /\ \A r \in engine.evaluated : r \in inner.queue \/ \E id \in Ids : r \in drained[id]
  /\ \A id \in Ids :
       /\ drained[id] \subseteq engine.evaluated \ inner.queue
       /\ \A j \in Ids \ {id} : drained[id] \cap drained[j] = {}
       /\ drained[id] # {} =>
            /\ Over(id)
            /\ id \in history.delivered \cup history.cancelled \/ \E o \in done : o.id = id

(* A job that nobody awaits any more is one whose await was cancelled.     *)
Waiting == {"entering", "awaiting", "exiting"}
AwaitedOK ==
  /\ \A id, kind : Somewhere(id, kind) => Awaited(id) \/ id \in history.cancelled
  /\ \A t \in Tasks : pc[t] \in Waiting => n[t] # 0

Inv ==
  /\ ProxyInv(JobKinds, TaskLabels, WorkerLabels) /\ TypeOK
  /\ SessionOK /\ WorkerOK /\ ProgramOK /\ RowsOK /\ AwaitedOK

-----------------------------------------------------------------------------
LEMMA Kinds_OK == KindsOK(JobKinds, TaskLabels)
BY ConstantsAssumption DEF KindsOK, JobKinds, Kinds, TaskLabels, ProxyLabels

PInv == ProxyInv(JobKinds, TaskLabels, WorkerLabels)

LEMMA Types ==
  ASSUME Inv
  PROVE  /\ PInv /\ JobsOK(JobKinds) /\ \A t \in Tasks : n[t] \in Nat
         /\ pc \in [Tasks -> TaskLabels \cup ProxyLabels] /\ loop \in Tasks \cup {NoTask}
         /\ proxy \in [inner : BOOLEAN, closed : BOOLEAN]
         /\ \A id, kind : Somewhere(id, kind) => id \in Ids /\ kind \in JobKinds
         /\ \A id \in Ids : id = <<id[1], id[2]>> /\ id[1] \in Tasks /\ id[2] \in Nat
<1>1. PInv
  BY DEF Inv, PInv
<1>2. JobsOK(JobKinds) /\ pc \in [Tasks -> TaskLabels \cup ProxyLabels] /\ loop \in Tasks \cup {NoTask}
  BY <1>1, InvTypes DEF PInv
<1>3. proxy \in [inner : BOOLEAN, closed : BOOLEAN]
  BY <1>1, InvTypes DEF PInv
<1>4. \A id, kind : Somewhere(id, kind) => id \in Ids /\ kind \in JobKinds
  BY <1>2, Places
<1>5. \A id \in Ids : id = <<id[1], id[2]>> /\ id[1] \in Tasks /\ id[2] \in Nat
  BY IdsMembers, ProxyAssumption
<1>6. \A t \in Tasks : n[t] \in Nat
  BY <1>2, Numbers
<1> QED
  BY <1>1, <1>2, <1>3, <1>4, <1>5, <1>6

(* The number of a job that is over is below that of every new one. *)
LEMMA OverKept ==
  ASSUME Inv, NEW id \in Ids, Over(id),
         \A u \in Tasks : n'[u] \in Nat /\ n[u] <= n'[u],
         \A j, kind : InQueue(j, kind)' => InQueue(j, kind) \/ \E u \in Tasks : j = <<u, n[u] + 1>>,
         \A j, kind : AtWork(j, kind)' => AtWork(j, kind) \/ InQueue(j, kind)
  PROVE  Over(id)'
<1>1. /\ id[1] \in Tasks /\ id[2] \in Nat /\ n[id[1]] \in Nat
      /\ id[2] <= n[id[1]] /\ n'[id[1]] \in Nat /\ n[id[1]] <= n'[id[1]]
  BY Types DEF Over
<1>2. id[2] <= n'[id[1]]
  BY <1>1
<1>3. ASSUME NEW u \in Tasks, id = <<u, n[u] + 1>>
      PROVE  FALSE
  <2>1. id[1] = u /\ id[2] = n[u] + 1
    BY <1>3
  <2> QED
    BY <1>1, <2>1
<1>4. \A kind : ~InQueue(id, kind)' /\ ~AtWork(id, kind)'
  BY <1>3 DEF Over
<1> QED
  BY <1>2, <1>4 DEF Over

(* The rows where none is evaluated and none drained *)
LEMMA RowsKept ==
  ASSUME Inv, UNCHANGED drained, inner'.queue = inner.queue,
         engine'.staged \subseteq engine.staged, engine'.evaluated = engine.evaluated,
         inner'.queue # {} => worker'.at = "drain",
         \A u \in Tasks : n'[u] \in Nat /\ n[u] <= n'[u],
         \A j, kind : InQueue(j, kind)' => InQueue(j, kind) \/ \E u \in Tasks : j = <<u, n[u] + 1>>,
         \A j, kind : AtWork(j, kind)' => AtWork(j, kind) \/ InQueue(j, kind),
         \A id \in Ids : drained[id] # {} =>
           id \in history'.delivered \cup history'.cancelled \/ \E o \in done' : o.id = id
  PROVE  RowsOK'
<1>1. \A r \in engine.staged \cup engine.evaluated : r \in Ids /\ Over(r)
  BY DEF Inv, TypeOK, RowsOK
<1>2. \A r \in engine'.staged \cup engine'.evaluated : Over(r)'
  BY <1>1, OverKept
<1>3. \A id \in Ids : drained[id] # {} => Over(id)'
  BY OverKept DEF Inv, RowsOK
<1> QED
  BY <1>2, <1>3 DEF Inv, RowsOK

-----------------------------------------------------------------------------
(* The Owner's way through its block *)
Left == {"in_exit_aclose", "exited", "raised", "gone"}
OwnerMoves ==
  \/ pc'[Owner] = pc[Owner]
  \/ pc[Owner] \notin Left /\ pc'[Owner] \notin Left
  \/ block # "orderly" /\ pc[Owner] \notin Left /\ pc'[Owner] = "raised"
  \/ pc[Owner] = "in_exit_aclose" /\ pc'[Owner] = "exited" /\ proxy.closed /\ PoolQuiet
  \/ pc[Owner] \in {"exited", "raised"} /\ pc'[Owner] = "gone"

(* The proxy's steps outside the worker, of a task that is not gone, leave *)
(* the Session alone.                                                      *)
LEMMA OutsideWorker ==
  ASSUME Inv, PInv', UNCHANGED <<worker, done, sessionVars>>, proxy'.inner = proxy.inner,
         proxy.closed => proxy'.closed, proxy'.closed = proxy.closed \/ block # "orderly",
         OwnerMoves, ProxyReferred, pc'[Owner] = "outside" => At(Owner, "outside"),
         \A u \in Tasks : n[u] \in Nat /\ n'[u] \in Nat /\ n[u] <= n'[u],
         \A id, kind : InQueue(id, kind)' =>
           \/ InQueue(id, kind)
           \/ /\ kind = "create" => At(Owner, "outside")
              /\ ~proxy.closed /\ (proxy.inner \/ At(Owner, "outside"))
              /\ \E u \in Tasks : id = <<u, n[u] + 1>>,
         history' \in [delivered : SUBSET Ids, cancelled : SUBSET Ids],
         history'.delivered = history.delivered, history.cancelled \subseteq history'.cancelled,
         AwaitedOK'
  PROVE  Inv'
<1>1. /\ UNCHANGED <<block, engine, inner, drained>> /\ JobsOK(JobKinds)'
      /\ proxy' \in [inner : BOOLEAN, closed : BOOLEAN]
  BY DEF sessionVars, PInv, ProxyInv, ProxyTypeOK, JobsOK, JobType, OutcomeType
<1>2. TypeOK'
  BY <1>1 DEF Inv, TypeOK, PInv, ProxyInv
<1>3. WorkerOK'
  BY DEF Inv, WorkerOK
<1>4. PoolQuiet /\ (proxy.closed \/ (~proxy.inner /\ ~At(Owner, "outside"))) => PoolQuiet'
  BY <1>1, QuietKept
<1>5. \A id, kind : /\ AtWork(id, kind)' <=> AtWork(id, kind)
                    /\ AsOutcome(id, kind)' <=> AsOutcome(id, kind)
  BY DEF AtWork, AsOutcome
<1>6. Unopened /\ ~At(Owner, "outside") => Unopened'
  BY <1>1, <1>5 DEF Unopened, Somewhere
<1>7. SessionOK'
  <2>1. inner.object \in {"finalising", "gone"} => ~SessionReferred'
    <3>1. SUFFICES ASSUME inner.object \in {"finalising", "gone"}
                   PROVE  ~SessionReferred'
      OBVIOUS
    <3>2. ~SessionReferred /\ ~At(Owner, "outside")
      BY <3>1 DEF Inv, SessionOK
    <3>3. ~proxy.inner /\ PoolQuiet /\ \A o \in done : o.kind # "create"
      BY <3>2 DEF SessionReferred
    <3>4. PoolQuiet'
      BY <1>4, <3>2, <3>3
    <3> QED
      BY <3>3, <3>4 DEF SessionReferred
  <2>2. \A id : InQueue(id, "create")' \/ AtWork(id, "create")' => engine.session = "none"
    BY <1>5 DEF Inv, SessionOK
  <2>3. pc'[Owner] \in {"in_exit_aclose", "exited"} => engine.session = "freed"
    BY DEF OwnerMoves, Left, Inv, SessionOK
  <2>4. pc'[Owner] = "exited" => PoolQuiet'
    <3>1. pc'[Owner] = "exited" => PoolQuiet /\ proxy.closed
      BY DEF OwnerMoves, Left, Inv, SessionOK, PInv, ProxyInv, Closing, At
    <3> QED
      BY <1>4, <3>1
  <2>5. SessionExists' <=> SessionExists
    BY <1>1 DEF SessionExists
  <2> QED
    BY <1>1, <2>1, <2>2, <2>3, <2>4, <2>5 DEF Inv, SessionOK, At
<1>8. ProgramOK'
  <2>1. ~(block = "none" /\ engine.program = "freed")
    BY DEF Inv, ProgramOK, ProgramReferred
  <2>2. CASE block = "orderly"
    <3>1. /\ proxy.closed => pc[Owner] \in {"in_exit_aclose", "exited", "gone"}
          /\ pc[Owner] = "raised" => Unopened
          /\ pc[Owner] = "gone" => Unopened \/ (proxy.closed /\ PoolQuiet /\ engine.session = "freed")
          /\ engine.program = "freed" => pc[Owner] \in {"exited", "raised", "gone"}
          /\ proxy'.closed = proxy.closed
      BY <2>2 DEF Inv, ProgramOK, At
    <3>2. CASE pc'[Owner] = pc[Owner]
      BY <1>1, <1>4, <1>6, <2>2, <3>1, <3>2 DEF ProgramOK, At
    <3>3. CASE pc[Owner] \notin Left /\ pc'[Owner] \notin Left
      BY <1>1, <3>1, <3>3 DEF ProgramOK, At, Left
    <3>4. CASE pc[Owner] = "in_exit_aclose" /\ pc'[Owner] = "exited"
      BY <1>1, <3>1, <3>4 DEF ProgramOK, At
    <3>5. CASE pc[Owner] = "exited" /\ pc'[Owner] = "gone"
      <4>1. proxy.closed /\ PoolQuiet /\ engine.session = "freed"
        BY <3>5 DEF Inv, SessionOK, ProxyInv, Closing, At
      <4> QED
        BY <1>1, <1>4, <2>2, <3>1, <3>5, <4>1 DEF ProgramOK, At
    <3>6. CASE pc[Owner] = "raised" /\ pc'[Owner] = "gone"
      BY <1>1, <1>6, <2>2, <3>1, <3>6 DEF ProgramOK, At
    <3> QED
      BY <2>2, <3>2, <3>3, <3>4, <3>5, <3>6 DEF OwnerMoves
  <2> QED
    BY <1>1, <2>1, <2>2 DEF ProgramOK
<1>9. RowsOK'
  <2>1. \A id \in Ids : drained[id] # {} =>
          id \in history'.delivered \cup history'.cancelled \/ \E o \in done' : o.id = id
    BY DEF Inv, RowsOK
  <2>2. /\ inner'.queue # {} => worker'.at = "drain"
        /\ \A u \in Tasks : n'[u] \in Nat /\ n[u] <= n'[u]
        /\ UNCHANGED <<engine, drained>> /\ inner'.queue = inner.queue
        /\ engine'.staged \subseteq engine.staged /\ engine'.evaluated = engine.evaluated
    BY <1>1 DEF Inv, RowsOK
  <2>3. \A j, kind : InQueue(j, kind)' => InQueue(j, kind) \/ \E u \in Tasks : j = <<u, n[u] + 1>>
    OBVIOUS
  <2> QED
    BY <1>5, <2>1, <2>2, <2>3, RowsKept
<1> QED
  BY <1>2, <1>3, <1>7, <1>8, <1>9 DEF Inv, PInv

(* No await is lost but that of the task that steps: it is over with its   *)
(* job, or has been cancelled.                                             *)
LEMMA AwaitedKept ==
  ASSUME Inv, NEW t \in Tasks, history.cancelled \subseteq history'.cancelled,
         \A u \in Tasks \ {t} : pc'[u] = pc[u] /\ n'[u] = n[u],
         \A id, kind : Somewhere(id, kind)' => Somewhere(id, kind) \/ Awaited(id)',
         \/ pc'[t] = pc[t] /\ n'[t] = n[t]
         \/ /\ pc'[t] \in Waiting => n'[t] # 0
            /\ \/ pc[t] \notin Waiting
               \/ Me(t) \in history'.cancelled
               \/ \A id, kind : Somewhere(id, kind)' => id # Me(t)
  PROVE  AwaitedOK'
<1>1. ASSUME NEW id, NEW kind, Somewhere(id, kind)', Somewhere(id, kind)
      PROVE  Awaited(id)' \/ id \in history'.cancelled
  <2>1. id = <<id[1], id[2]>> /\ id[1] \in Tasks
    BY <1>1, Types
  <2>2. Awaited(id) \/ id \in history.cancelled
    BY <1>1 DEF Inv, AwaitedOK
  <2>3. CASE Awaited(id) /\ id[1] = t
    <3>1. id = Me(t) /\ pc[t] \in Waiting /\ n[t] = id[2]
      BY <2>1, <2>3 DEF Awaited, Me, Waiting
    <3> QED
      BY <1>1, <2>3, <3>1 DEF Awaited
  <2>4. CASE Awaited(id) /\ id[1] # t
    BY <2>1, <2>4 DEF Awaited
  <2> QED
    BY <2>2, <2>3, <2>4
<1>2. \A u \in Tasks : pc'[u] \in Waiting => n'[u] # 0
  BY DEF Inv, AwaitedOK
<1> QED
  BY <1>1, <1>2 DEF AwaitedOK

LEMMA ProxyStep ==
  ASSUME Inv, NEW t \in Tasks, Proxy(t)
  PROVE  Inv'
<1>1. UNCHANGED <<sessionVars, history>> /\ KindsOK(JobKinds, TaskLabels)
  BY Kinds_OK DEF Proxy
<1>2. history' \in [delivered : SUBSET Ids, cancelled : SUBSET Ids] /\ history' = history
  BY <1>1 DEF Inv, TypeOK
<1>3. Owner \in Tasks /\ \A u \in Tasks : n[u] \in Nat
  BY ProxyAssumption, Types
<1>4. \A id, kind : (AtWork(id, kind)' \/ AsOutcome(id, kind)') /\ UNCHANGED <<worker, done>> => Somewhere(id, kind)
  BY DEF Somewhere, AtWork, AsOutcome
<1>5. ASSUME Enter(t)
      PROVE  Inv'
  <2>1. t = Owner
    BY <1>5 DEF Enter
  <2>2. /\ PInv' /\ UNCHANGED <<worker, done, proxy, loop>>
        /\ ~proxy.inner /\ At(Owner, "outside") /\ n'[Owner] = n[Owner] + 1
        /\ pc'[Owner] = IF proxy.closed THEN "raised" ELSE "entering"
        /\ \A u \in Tasks \ {Owner} : pc'[u] = pc[u] /\ n'[u] = n[u]
        /\ \A u \in Tasks : n[u] \in Nat /\ n[u] <= n'[u]
        /\ \A id, kind : InQueue(id, kind)' =>
                            \/ InQueue(id, kind)
                            \/ ~proxy.closed /\ kind = "create" /\ id = <<Owner, n[Owner] + 1>>
    BY <1>1, <1>5, <2>1, EnterInv DEF Inv, PInv
  <2>3. \A u \in Tasks : n'[u] \in Nat
    BY <1>3, <2>2
  <2>4. AwaitedOK'
    <3>1. \A id, kind : Somewhere(id, kind)' => Somewhere(id, kind) \/ Awaited(id)'
      BY <1>3, <1>4, <2>2 DEF Somewhere, Awaited
    <3>2. pc[Owner] \notin Waiting /\ n'[Owner] # 0
      BY <1>3, <2>2 DEF At, Waiting
    <3> QED
      BY <1>2, <1>3, <2>2, <3>1, <3>2, AwaitedKept
  <2>5. proxy.closed => block # "orderly"
    BY <2>2 DEF Inv, ProgramOK, At
  <2>6. OwnerMoves /\ ProxyReferred /\ pc'[Owner] # "outside"
    BY <1>3, <2>2, <2>5 DEF OwnerMoves, Left, At, ProxyReferred
  <2> QED
    BY <1>1, <1>2, <1>3, <2>2, <2>3, <2>4, <2>6, OutsideWorker
<1>6. ASSUME Call(t)
      PROVE  Inv'
  <2>1. /\ PInv' /\ UNCHANGED <<worker, done, proxy, loop>>
        /\ proxy.inner /\ At(t, "ready") /\ n'[t] = n[t] + 1
        /\ pc'[t] = IF proxy.closed THEN "ready" ELSE "awaiting"
        /\ \A u \in Tasks \ {t} : pc'[u] = pc[u] /\ n'[u] = n[u]
        /\ \A u \in Tasks : n[u] \in Nat /\ n[u] <= n'[u]
        /\ \A id, kind : InQueue(id, kind)' =>
                            \/ InQueue(id, kind)
                            \/ /\ ~proxy.closed /\ kind \notin {"create", "close"}
                               /\ id = <<t, n[t] + 1>>
    BY <1>1, <1>6, CallInv DEF Inv, PInv
  <2>2. \A u \in Tasks : n'[u] \in Nat
    BY <1>3, <2>1
  <2>3. AwaitedOK'
    <3>1. \A id, kind : Somewhere(id, kind)' => Somewhere(id, kind) \/ Awaited(id)'
      BY <1>4, <2>1 DEF Somewhere, Awaited
    <3>2. pc[t] \notin Waiting /\ n'[t] # 0
      BY <1>3, <2>1 DEF At, Waiting
    <3> QED
      BY <1>2, <2>1, <3>1, <3>2, AwaitedKept
  <2>4. OwnerMoves /\ ProxyReferred /\ (pc'[Owner] = "outside" => At(Owner, "outside"))
    BY <1>3, <2>1 DEF OwnerMoves, Left, At, ProxyReferred
  <2> QED
    BY <1>1, <1>2, <1>3, <2>1, <2>2, <2>3, <2>4, OutsideWorker
<1>7. ASSUME Exit(t)
      PROVE  Inv'
  <2>1. t = Owner
    BY <1>7 DEF Exit
  <2>2. /\ PInv' /\ UNCHANGED <<worker, done, proxy, loop>>
        /\ proxy.inner /\ At(Owner, "ready") /\ n'[Owner] = n[Owner] + 1
        /\ pc'[Owner] = IF proxy.closed THEN "raised" ELSE "exiting"
        /\ \A u \in Tasks \ {Owner} : pc'[u] = pc[u] /\ n'[u] = n[u]
        /\ \A u \in Tasks : n[u] \in Nat /\ n[u] <= n'[u]
        /\ \A id, kind : InQueue(id, kind)' =>
                            \/ InQueue(id, kind)
                            \/ ~proxy.closed /\ kind = "close" /\ id = <<Owner, n[Owner] + 1>>
    BY <1>1, <1>7, <2>1, ExitInv DEF Inv, PInv
  <2>3. \A u \in Tasks : n'[u] \in Nat
    BY <1>3, <2>2
  <2>4. AwaitedOK'
    <3>1. \A id, kind : Somewhere(id, kind)' => Somewhere(id, kind) \/ Awaited(id)'
      BY <1>3, <1>4, <2>2 DEF Somewhere, Awaited
    <3>2. pc[Owner] \notin Waiting /\ n'[Owner] # 0
      BY <1>3, <2>2 DEF At, Waiting
    <3> QED
      BY <1>2, <1>3, <2>2, <3>1, <3>2, AwaitedKept
  <2>5. proxy.closed => block # "orderly"
    BY <2>2 DEF Inv, ProgramOK, At
  <2>6. OwnerMoves /\ ProxyReferred /\ pc'[Owner] # "outside"
    BY <1>3, <2>2, <2>5 DEF OwnerMoves, Left, At, ProxyReferred
  <2> QED
    BY <1>1, <1>2, <1>3, <2>2, <2>3, <2>4, <2>6, OutsideWorker
<1>8. ASSUME Aclose(t), block # "orderly"
      PROVE  Inv'
  <2>1. /\ PInv' /\ UNCHANGED <<worker, done, queue, n>>
        /\ proxy' = [proxy EXCEPT !.closed = TRUE]
        /\ At(t, "ready") /\ pc' = [pc EXCEPT ![t] = "in_aclose"]
    BY <1>8, AcloseInv DEF Inv, PInv
  <2>2. /\ pc'[t] = "in_aclose" /\ \A u \in Tasks \ {t} : pc'[u] = pc[u]
        /\ proxy'.inner = proxy.inner /\ proxy'.closed
    BY <2>1, Types
  <2>3. \A id, kind : InQueue(id, kind)' <=> InQueue(id, kind)
    BY <2>1 DEF InQueue
  <2>4. AwaitedOK'
    <3>1. \A id, kind : Somewhere(id, kind)' => Somewhere(id, kind)
      BY <2>1, <2>3 DEF Somewhere, AtWork, AsOutcome
    <3>2. pc[t] \notin Waiting /\ pc'[t] \notin Waiting
      BY <2>1, <2>2 DEF At, Waiting
    <3> QED
      BY <1>2, <2>1, <2>2, <3>1, <3>2, AwaitedKept
  <2>5. OwnerMoves /\ ProxyReferred /\ (pc'[Owner] = "outside" => At(Owner, "outside"))
    BY <1>3, <2>1, <2>2 DEF OwnerMoves, Left, At, ProxyReferred
  <2>6. \A u \in Tasks : n[u] \in Nat /\ n'[u] \in Nat /\ n[u] <= n'[u]
    BY <1>3, <2>1
  <2> QED
    BY <1>1, <1>2, <1>8, <2>1, <2>2, <2>3, <2>4, <2>5, <2>6, OutsideWorker
<1> QED
  BY <1>5, <1>6, <1>7, <1>8 DEF Proxy

LEMMA CancelledStep ==
  ASSUME Inv, NEW t \in Tasks, Cancelled(t)
  PROVE  Inv'
<1>1. /\ Cancel(t) /\ UNCHANGED sessionVars /\ (block = "orderly" => t # Owner)
      /\ history' = [history EXCEPT !.cancelled = @ \cup {Me(t)}]
  BY DEF Cancelled
<1>2. /\ PInv' /\ UNCHANGED <<worker, done, n, proxy, loop>>
      /\ pc[t] \in {"entering", "awaiting", "exiting"}
      /\ (t # Owner => At(t, "awaiting"))
      /\ pc' = [pc EXCEPT ![t] = IF At(t, "awaiting") THEN "ready" ELSE "raised"]
      /\ \A id, k : InQueue(id, k)' => InQueue(id, k)
  BY <1>1, CancelInv DEF Inv, PInv
<1>3. /\ pc'[t] = (IF At(t, "awaiting") THEN "ready" ELSE "raised")
      /\ \A u \in Tasks \ {t} : pc'[u] = pc[u]
  BY <1>2, Types
<1>4. Me(t) \in Ids
  <2>1. n[t] \in Nat /\ MaxCalls[t] \in Nat /\ n[t] <= MaxCalls[t]
    BY Types, Numbers
  <2>2. n[t] # 0
    BY <1>2 DEF Inv, AwaitedOK, Waiting
  <2> QED
    BY <2>1, <2>2, IdsMembers DEF Me
<1>5. /\ history' \in [delivered : SUBSET Ids, cancelled : SUBSET Ids]
      /\ history'.delivered = history.delivered
      /\ history'.cancelled = history.cancelled \cup {Me(t)}
  BY <1>1, <1>4 DEF Inv, TypeOK
<1>6. AwaitedOK'
  <2>1. \A id, kind : Somewhere(id, kind)' => Somewhere(id, kind)
    BY <1>2 DEF Somewhere, AtWork, AsOutcome
  <2>2. pc'[t] \notin Waiting /\ Me(t) \in history'.cancelled
    BY <1>3, <1>5 DEF Waiting
  <2> QED
    BY <1>2, <1>3, <1>5, <2>1, <2>2, AwaitedKept
<1>7. OwnerMoves /\ ProxyReferred /\ (pc'[Owner] = "outside" => At(Owner, "outside"))
  BY <1>1, <1>2, <1>3, ProxyAssumption DEF OwnerMoves, Left, At, ProxyReferred
<1>8. \A u \in Tasks : n[u] \in Nat /\ n'[u] \in Nat /\ n[u] <= n'[u]
  <2>1. \A u \in Tasks : n[u] \in Nat
    BY Types
  <2> QED
    BY <1>2, <2>1
<1> QED
  BY <1>1, <1>2, <1>5, <1>6, <1>7, <1>8, OutsideWorker

LEMMA ForgetStep ==
  ASSUME Inv, NEW t \in Tasks, Forget(t)
  PROVE  Inv'
<1>1. /\ pc[t] = (IF t = Owner THEN "exited" ELSE "ready") \/ pc[t] = "raised"
      /\ pc' = [pc EXCEPT ![t] = "gone"]
      /\ UNCHANGED <<worker, done, proxy, queue, loop, n, sessionVars, history>>
  BY DEF Forget, At, Goto, poolVars
<1>2. pc'[t] = "gone" /\ \A u \in Tasks \ {t} : pc'[u] = pc[u]
  BY <1>1, Types
<1>3. PInv'
  <2>1. "gone" \in TaskLabels /\ loop' = loop /\ loop' \in Tasks \cup {NoTask} /\ KindsOK(JobKinds, TaskLabels)
    BY <1>1, Types, Kinds_OK DEF TaskLabels
  <2>2. pc[t] \in {"ready", "exited", "raised"}
    BY <1>1
  <2> QED
    BY <1>1, <2>1, <2>2, RelabelInv DEF Inv, PInv
<1>4. \A id, kind : InQueue(id, kind)' <=> InQueue(id, kind)
  BY <1>1 DEF InQueue
<1>5. AwaitedOK'
  <2>1. \A id, kind : Somewhere(id, kind)' => Somewhere(id, kind)
    BY <1>1, <1>4 DEF Somewhere, AtWork, AsOutcome
  <2>2. pc[t] \notin Waiting /\ pc'[t] \notin Waiting
    BY <1>1, <1>2 DEF Waiting
  <2> QED
    BY <1>1, <1>2, <2>1, <2>2, AwaitedKept
<1>6. OwnerMoves /\ ProxyReferred /\ (pc'[Owner] = "outside" => At(Owner, "outside"))
  BY <1>1, <1>2, ProxyAssumption DEF OwnerMoves, Left, At, ProxyReferred
<1>7. \A u \in Tasks : n[u] \in Nat /\ n'[u] \in Nat /\ n[u] <= n'[u]
  <2>1. \A u \in Tasks : n[u] \in Nat
    BY Types
  <2> QED
    BY <1>1, <2>1
<1>8. history' \in [delivered : SUBSET Ids, cancelled : SUBSET Ids]
  BY <1>1 DEF Inv, TypeOK
<1> QED
  BY <1>1, <1>3, <1>4, <1>5, <1>6, <1>7, <1>8, OutsideWorker

LEMMA AcloseReturnStep ==
  ASSUME Inv, NEW t \in Tasks, AcloseReturn(t), UNCHANGED <<sessionVars, history>>
  PROVE  Inv'
<1>1. /\ PInv' /\ UNCHANGED <<worker, done, queue, n, proxy>>
      /\ pc[t] \in {"in_aclose", "in_exit_aclose"} /\ proxy.closed /\ PoolQuiet
      /\ pc' = [pc EXCEPT ![t] = AfterAclose(t)]
  BY AcloseReturnInv DEF Inv, PInv
<1>2. /\ pc'[t] = (IF pc[t] = "in_aclose" THEN "ready" ELSE "exited")
      /\ \A u \in Tasks \ {t} : pc'[u] = pc[u]
  BY <1>1, Types DEF AfterAclose, At
<1>3. \A id, kind : InQueue(id, kind)' <=> InQueue(id, kind)
  BY <1>1 DEF InQueue
<1>4. AwaitedOK'
  <2>1. \A id, kind : Somewhere(id, kind)' => Somewhere(id, kind)
    BY <1>1, <1>3 DEF Somewhere, AtWork, AsOutcome
  <2>2. pc[t] \notin Waiting /\ pc'[t] \notin Waiting
    BY <1>1, <1>2 DEF Waiting
  <2> QED
    BY <1>1, <1>2, <2>1, <2>2, AwaitedKept
<1>5. OwnerMoves /\ ProxyReferred /\ (pc'[Owner] = "outside" => At(Owner, "outside"))
  BY <1>1, <1>2, ProxyAssumption DEF OwnerMoves, Left, At, ProxyReferred
<1>6. \A u \in Tasks : n[u] \in Nat /\ n'[u] \in Nat /\ n[u] <= n'[u]
  <2>1. \A u \in Tasks : n[u] \in Nat
    BY Types
  <2> QED
    BY <1>1, <2>1
<1>7. history' \in [delivered : SUBSET Ids, cancelled : SUBSET Ids]
  BY DEF Inv, TypeOK
<1> QED
  BY <1>1, <1>3, <1>4, <1>5, <1>6, <1>7, OutsideWorker

(* The same of a step that leaves the proxy and its pool as they are. *)
LEMMA ProxyUnchanged ==
  ASSUME Inv, UNCHANGED proxyVars
  PROVE  /\ PInv' /\ UNCHANGED <<worker, done, proxy, queue, loop, pc, n>>
         /\ \A id, kind : /\ InQueue(id, kind)' <=> InQueue(id, kind)
                          /\ AtWork(id, kind)' <=> AtWork(id, kind)
                          /\ Somewhere(id, kind)' <=> Somewhere(id, kind)
         /\ PoolQuiet' <=> PoolQuiet
         /\ SessionReferred' <=> SessionReferred
         /\ ProxyReferred' <=> ProxyReferred
         /\ (history' = history => AwaitedOK')
<1>1. UNCHANGED <<worker, done, proxy, queue, loop, pc, n>>
  BY DEF proxyVars, poolVars, taskVars
<1>2. PInv'
  BY StutterInv DEF Inv, PInv
<1>3. \A id, kind : /\ InQueue(id, kind)' <=> InQueue(id, kind)
                    /\ AtWork(id, kind)' <=> AtWork(id, kind)
                    /\ Somewhere(id, kind)' <=> Somewhere(id, kind)
  BY <1>1 DEF Somewhere, InQueue, AtWork, AsOutcome
<1>4. (PoolQuiet' <=> PoolQuiet) /\ (ProxyReferred' <=> ProxyReferred)
  BY <1>1 DEF PoolQuiet, ProxyReferred, At
<1>5. SessionReferred' <=> SessionReferred
  BY <1>1, <1>4 DEF SessionReferred
<1>6. history' = history => AwaitedOK'
  BY <1>1, <1>3 DEF Inv, AwaitedOK, Awaited
<1> QED
  BY <1>1, <1>2, <1>3, <1>4, <1>5, <1>6

LEMMA StutterStep ==
  ASSUME Inv, UNCHANGED vars
  PROVE  Inv'
<1>1. UNCHANGED proxyVars /\ UNCHANGED <<block, engine, inner, drained, history>>
  BY DEF vars
<1>2. /\ PInv' /\ UNCHANGED <<worker, done, proxy, queue, loop, pc, n>> /\ AwaitedOK'
      /\ \A id, kind : /\ InQueue(id, kind)' <=> InQueue(id, kind)
                       /\ AtWork(id, kind)' <=> AtWork(id, kind)
                       /\ Somewhere(id, kind)' <=> Somewhere(id, kind)
      /\ PoolQuiet' <=> PoolQuiet
      /\ SessionReferred' <=> SessionReferred
      /\ ProxyReferred' <=> ProxyReferred
  BY <1>1, ProxyUnchanged
<1>3. TypeOK' /\ WorkerOK'
  BY <1>1, <1>2 DEF Inv, TypeOK, WorkerOK, PInv, ProxyInv
<1>4. SessionOK'
  BY <1>1, <1>2 DEF Inv, SessionOK, SessionExists, At
<1>5. ProgramOK'
  BY <1>1, <1>2 DEF Inv, ProgramOK, ProgramReferred, SessionExists, Unopened, At
<1>6. RowsOK'
  BY <1>1, <1>2 DEF Inv, RowsOK, Over
<1> QED
  BY <1>2, <1>3, <1>4, <1>5, <1>6 DEF Inv, PInv

LEMMA ProgramFreedStep ==
  ASSUME Inv, ProgramExit \/ ProgramDel
  PROVE  Inv'
<1>1. /\ UNCHANGED proxyVars /\ UNCHANGED <<block, inner, drained, history>>
      /\ engine' = [engine EXCEPT !.program = "freed"]
      /\ block = "none" => ~ProgramReferred
      /\ block = "orderly" => pc[Owner] \in {"exited", "raised", "gone"}
  BY DEF ProgramExit, ProgramDel
<1>2. /\ PInv' /\ UNCHANGED <<worker, done, proxy, queue, loop, pc, n>> /\ AwaitedOK'
      /\ \A id, kind : /\ InQueue(id, kind)' <=> InQueue(id, kind)
                       /\ AtWork(id, kind)' <=> AtWork(id, kind)
                       /\ Somewhere(id, kind)' <=> Somewhere(id, kind)
      /\ PoolQuiet' <=> PoolQuiet
      /\ SessionReferred' <=> SessionReferred
      /\ ProxyReferred' <=> ProxyReferred
  BY <1>1, ProxyUnchanged
<1>3. /\ engine'.program = "freed" /\ engine'.session = engine.session
      /\ engine'.staged = engine.staged /\ engine'.evaluated = engine.evaluated /\ TypeOK'
  BY <1>1, <1>2 DEF Inv, TypeOK, PInv, ProxyInv
<1>4. SessionOK' /\ WorkerOK'
  BY <1>1, <1>2, <1>3 DEF Inv, SessionOK, WorkerOK, SessionExists, At
<1>5. ProgramOK'
  BY <1>1, <1>2, <1>3 DEF Inv, ProgramOK, ProgramReferred, SessionExists, Unopened, At
<1>6. RowsOK'
  BY <1>1, <1>2, <1>3 DEF Inv, RowsOK, Over
<1> QED
  BY <1>2, <1>3, <1>4, <1>5, <1>6 DEF Inv, PInv

LEMMA SessionDelStep ==
  ASSUME Inv, SessionDel
  PROVE  Inv'
<1>1. /\ UNCHANGED proxyVars /\ UNCHANGED <<block, engine, drained, history>>
      /\ inner.object = "live" /\ ~SessionReferred
      /\ inner' = [inner EXCEPT !.object = IF inner.handle THEN "finalising" ELSE "gone"]
  BY DEF SessionDel
<1>2. /\ PInv' /\ UNCHANGED <<worker, done, proxy, queue, loop, pc, n>> /\ AwaitedOK'
      /\ \A id, kind : /\ InQueue(id, kind)' <=> InQueue(id, kind)
                       /\ AtWork(id, kind)' <=> AtWork(id, kind)
                       /\ Somewhere(id, kind)' <=> Somewhere(id, kind)
      /\ PoolQuiet' <=> PoolQuiet
      /\ SessionReferred' <=> SessionReferred
      /\ ProxyReferred' <=> ProxyReferred
  BY <1>1, ProxyUnchanged
<1>3. /\ inner'.object = (IF inner.handle THEN "finalising" ELSE "gone")
      /\ inner'.handle = inner.handle /\ inner'.queue = inner.queue /\ TypeOK'
  BY <1>1, <1>2 DEF Inv, TypeOK, PInv, ProxyInv
<1>4. SessionOK' /\ WorkerOK'
  BY <1>1, <1>2, <1>3 DEF Inv, SessionOK, WorkerOK, SessionExists, At
<1>5. ProgramOK'
  BY <1>1, <1>2, <1>3 DEF Inv, ProgramOK, ProgramReferred, SessionExists, Unopened, At
<1>6. RowsOK'
  BY <1>1, <1>2, <1>3 DEF Inv, RowsOK, Over
<1> QED
  BY <1>2, <1>3, <1>4, <1>5, <1>6 DEF Inv, PInv

LEMMA SessionDelDoneStep ==
  ASSUME Inv, SessionDelDone
  PROVE  Inv'
<1>1. /\ UNCHANGED proxyVars /\ UNCHANGED <<block, drained, history>>
      /\ inner.object = "finalising"
      /\ inner' = [inner EXCEPT !.object = "gone", !.handle = FALSE, !.deltaCb = FALSE, !.queue = {}]
      /\ engine' = [engine EXCEPT !.session = "freed", !.staged = {}]
  BY DEF SessionDelDone
<1>2. /\ PInv' /\ UNCHANGED <<worker, done, proxy, queue, loop, pc, n>> /\ AwaitedOK'
      /\ \A id, kind : /\ InQueue(id, kind)' <=> InQueue(id, kind)
                       /\ AtWork(id, kind)' <=> AtWork(id, kind)
                       /\ Somewhere(id, kind)' <=> Somewhere(id, kind)
      /\ PoolQuiet' <=> PoolQuiet
      /\ SessionReferred' <=> SessionReferred
      /\ ProxyReferred' <=> ProxyReferred
  BY <1>1, ProxyUnchanged
<1>3. /\ inner'.object = "gone" /\ ~inner'.handle /\ inner'.queue = {}
      /\ engine'.session = "freed" /\ engine'.program = engine.program
      /\ engine'.staged = {} /\ engine'.evaluated = engine.evaluated /\ TypeOK'
  BY <1>1, <1>2 DEF Inv, TypeOK, PInv, ProxyInv
<1>4. /\ ~SessionReferred /\ engine.session = "open" /\ ~At(Owner, "outside")
      /\ PoolQuiet /\ worker.at = "idle" /\ queue = <<>> /\ \A o \in done : o.kind # "create"
  BY <1>1 DEF Inv, SessionOK, SessionReferred, PoolQuiet
<1>5. \A id : ~InQueue(id, "create") /\ ~AtWork(id, "create")
  BY <1>4 DEF InQueue, AtWork
<1>6. SessionOK' /\ WorkerOK'
  BY <1>1, <1>2, <1>3, <1>4, <1>5 DEF Inv, SessionOK, WorkerOK, SessionExists, At
<1>7. ProgramOK'
  BY <1>1, <1>2, <1>3, <1>4 DEF Inv, ProgramOK, ProgramReferred, SessionExists, Unopened, At
<1>8. RowsOK'
  <2>1. inner.queue = {}
    BY <1>4 DEF Inv, RowsOK
  <2> QED
    BY <1>1, <1>2, <1>3, <2>1 DEF Inv, RowsOK, Over
<1> QED
  BY <1>2, <1>3, <1>6, <1>7, <1>8 DEF Inv, PInv

LEMMA DropStep ==
  ASSUME Inv, Drop
  PROVE  Inv'
<1>1. PICK o \in done : ~Awaited(o.id) /\ done' = done \ {o}
  BY DEF Drop
<1>2. /\ UNCHANGED <<worker, proxy, queue, loop, pc, n, block, engine, inner, drained, history>>
      /\ UNCHANGED <<worker, taskVars>>
  BY DEF Drop, outsidePool, sessionVars, taskVars
<1>3. PInv' /\ \A id, k : Somewhere(id, k)' => Somewhere(id, k) /\ id # o.id
  BY <1>1, <1>2, DroppedInv DEF Inv, PInv
<1>4. TypeOK' /\ WorkerOK'
  BY <1>2, <1>3 DEF Inv, TypeOK, WorkerOK, PInv, ProxyInv
<1>5. /\ \A id, kind : /\ InQueue(id, kind)' <=> InQueue(id, kind)
                       /\ AtWork(id, kind)' <=> AtWork(id, kind)
      /\ PoolQuiet' <=> PoolQuiet
      /\ ProxyReferred' <=> ProxyReferred
  BY <1>2 DEF InQueue, AtWork, PoolQuiet, ProxyReferred, At
<1>6. SessionReferred' => SessionReferred
  BY <1>1, <1>2, <1>5 DEF SessionReferred
<1>7. SessionOK'
  BY <1>1, <1>2, <1>5, <1>6 DEF Inv, SessionOK, SessionExists, At
<1>8. ProgramOK'
  BY <1>2, <1>3, <1>5 DEF Inv, ProgramOK, ProgramReferred, SessionExists, Unopened, At
<1>9. RowsOK'
  <2>1. o.id \in history.cancelled
    BY <1>1, Types, Places DEF Inv, AwaitedOK
  <2> QED
    BY <1>1, <1>2, <1>5, <2>1 DEF Inv, RowsOK, Over
<1>10. AwaitedOK'
  BY <1>2, <1>3 DEF Inv, AwaitedOK, Awaited
<1> QED
  BY <1>3, <1>4, <1>7, <1>8, <1>9, <1>10 DEF Inv, PInv

(* A task takes up the outcome of its job. *)
LEMMA ResumedStep ==
  ASSUME Inv, NEW t \in Tasks, Resumed(t)
  PROVE  Inv'
<1>1. /\ Resume(t) /\ UNCHANGED <<block, engine, inner, drained>>
      /\ history' = IF drained[Me(t)] = {} THEN history
                    ELSE [history EXCEPT !.delivered = @ \cup {Me(t)}]
  BY DEF Resumed, sessionVars
<1>2. PICK o \in done :
        /\ o.id = <<t, n[t]>> /\ done' = done \ {o} /\ UNCHANGED <<queue, worker, n>>
        /\ loop = NoTask
        /\ Entered(t, o) \/ Answered(t, o) \/ Exited(t, o)
  BY <1>1, ResumeCases DEF Inv
<1>3. PInv' /\ \A id, k : Somewhere(id, k)' => Somewhere(id, k) /\ id # o.id
  BY <1>2, ResumeInv DEF Inv, PInv
<1>4. o.id = Me(t) /\ o.id \in Ids /\ Somewhere(o.id, o.kind)
  BY <1>2, Types, Places DEF Me
<1>5. /\ pc[t] \in Waiting /\ pc'[t] \in {"ready", "raised", "exited", "in_exit_aclose"}
      /\ \A u \in Tasks \ {t} : pc'[u] = pc[u]
  BY <1>2, Types DEF Entered, Answered, Exited, At, Waiting
<1>6. /\ history'.cancelled = history.cancelled /\ history.delivered \subseteq history'.delivered
      /\ drained[o.id] # {} => o.id \in history'.delivered
      /\ TypeOK'
  BY <1>1, <1>3, <1>4 DEF Inv, TypeOK, PInv, ProxyInv
<1>7. /\ \A id, kind : /\ InQueue(id, kind)' <=> InQueue(id, kind)
                       /\ AtWork(id, kind)' <=> AtWork(id, kind)
      /\ PoolQuiet' <=> PoolQuiet
  BY <1>2 DEF InQueue, AtWork, PoolQuiet
<1>8. ProxyReferred
  BY <1>5 DEF ProxyReferred, At, Waiting
<1>9. WorkerOK'
  BY <1>2 DEF Inv, WorkerOK
<1>10. AwaitedOK'
  <2>1. pc'[t] \notin Waiting
    BY <1>5 DEF Waiting
  <2>2. \A u \in Tasks \ {t} : n'[u] = n[u]
    BY <1>2
  <2> QED
    BY <1>3, <1>4, <1>5, <1>6, <2>1, <2>2, AwaitedKept
<1>11. RowsOK'
  <2>1. \A id \in Ids : drained[id] # {} =>
          id \in history'.delivered \cup history'.cancelled \/ \E p \in done' : p.id = id
    BY <1>2, <1>6 DEF Inv, RowsOK
  <2>2. \A u \in Tasks : n'[u] \in Nat /\ n[u] <= n'[u]
    <3>1. \A u \in Tasks : n[u] \in Nat
      BY Types
    <3> QED
      BY <1>2, <3>1
  <2>3. /\ inner'.queue # {} => worker'.at = "drain"
        /\ inner'.queue = inner.queue
        /\ engine'.staged \subseteq engine.staged /\ engine'.evaluated = engine.evaluated
    BY <1>1, <1>2 DEF Inv, RowsOK
  <2> QED
    BY <1>1, <1>7, <2>1, <2>2, <2>3, RowsKept
<1>12. CASE Entered(t, o)
  <2>1. /\ t = Owner /\ pc[Owner] = "entering" /\ o.kind = "create"
        /\ pc'[Owner] = (IF o.ok THEN "ready" ELSE "raised")
        /\ proxy'.inner = o.ok /\ proxy'.closed = proxy.closed
    BY <1>12, Types DEF Entered, At
  <2>2. o.ok <=> engine.session # "none"
    BY <2>1 DEF Inv, SessionOK
  <2>3. SessionReferred
    BY <2>1 DEF SessionReferred
  <2>4. SessionOK'
    <3>1. inner.object \notin {"finalising", "gone"}
      BY <2>3 DEF Inv, SessionOK
    <3> QED
      BY <1>1, <1>2, <1>7, <2>1, <2>2, <3>1 DEF Inv, SessionOK, SessionExists, At
  <2>5. ~o.ok => Unopened'
    <3>1. \A id, kind : Somewhere(id, kind) => id = o.id
      BY <1>4, <2>1 DEF Inv, ProxyInv, Opening
    <3> QED
      BY <1>1, <1>3, <2>1, <2>2, <3>1 DEF Unopened
  <2>6. ProgramOK'
    <3>1. ~(block = "none" /\ engine.program = "freed")
      BY <1>8 DEF Inv, ProgramOK, ProgramReferred
    <3>2. block = "orderly" => ~proxy.closed /\ engine.program # "freed"
      BY <2>1 DEF Inv, ProgramOK
    <3> QED
      BY <1>1, <2>1, <2>5, <3>1, <3>2 DEF ProgramOK, At
  <2> QED
    BY <1>3, <1>6, <1>9, <1>10, <1>11, <2>4, <2>6 DEF Inv, PInv
<1>13. ASSUME Answered(t, o) \/ Exited(t, o)
       PROVE  Inv'
  <2>1. /\ proxy'.inner = proxy.inner /\ (proxy.closed => proxy'.closed)
        /\ proxy'.closed = proxy.closed \/ (t = Owner /\ pc'[Owner] \in {"in_exit_aclose", "exited"})
        /\ t = Owner /\ pc'[Owner] \in {"in_exit_aclose", "exited"} => o.kind = "close"
        /\ t = Owner /\ pc'[Owner] = "exited" => proxy.closed
        /\ pc'[t] # "raised"
    BY <1>13, Types DEF Answered, Exited, At
  <2>2. o.kind = "close" => engine.session = "freed"
    BY DEF Inv, SessionOK
  <2>3. PoolQuiet \/ ~proxy.closed
    BY <1>2, ProxyAssumption DEF Inv, ProxyInv, Closing
  <2>4. SessionReferred' => SessionReferred
    BY <1>2, <1>7, <1>8, <2>1 DEF SessionReferred
  <2>5. SessionOK'
    BY <1>1, <1>2, <1>5, <1>7, <2>1, <2>2, <2>3, <2>4, ProxyAssumption DEF Inv, SessionOK, SessionExists, At
  <2>6. ProgramOK'
    <3>1. ~(block = "none" /\ engine.program = "freed")
      BY <1>8 DEF Inv, ProgramOK, ProgramReferred
    <3>2. ~Unopened
      BY <1>4 DEF Unopened
    <3>3. CASE t = Owner
      <4>1. pc[Owner] \in Waiting /\ pc'[Owner] \in {"ready", "exited", "in_exit_aclose"}
        BY <1>5, <2>1, <3>3
      <4>2. block = "orderly" => ~proxy.closed /\ engine.program # "freed"
        BY <4>1 DEF Inv, ProgramOK, Waiting
      <4> QED
        BY <1>1, <2>1, <3>1, <4>1, <4>2 DEF ProgramOK, At
    <3>4. CASE t # Owner
      <4>1. pc'[Owner] = pc[Owner] /\ proxy'.closed = proxy.closed
        BY <1>5, <2>1, <3>4, ProxyAssumption
      <4> QED
        BY <1>1, <1>7, <3>1, <3>2, <4>1 DEF Inv, ProgramOK, At
    <3> QED
      BY <3>3, <3>4
  <2> QED
    BY <1>3, <1>6, <1>9, <1>10, <1>11, <2>5, <2>6 DEF Inv, PInv
<1> QED
  BY <1>2, <1>12, <1>13

-----------------------------------------------------------------------------
(* While the pool has something to do the program and the session are not  *)
(* anybody else's to free, *)
LEMMA BusyPool ==
  ASSUME Inv, ~PoolQuiet
  PROVE  /\ SessionReferred /\ inner.object \in {"none", "live"} /\ ~At(Owner, "exited")
         /\ block # "any" => engine.program = "open"
         /\ block = "orderly" => pc[Owner] \notin {"raised", "gone"}
<1>1. SessionReferred /\ inner.object \in {"none", "live"} /\ ~At(Owner, "exited")
  BY DEF Inv, TypeOK, SessionOK, SessionReferred
<1>2. ~Unopened
  <2>1. CASE worker.at # "idle"
    BY <2>1, Types, Places DEF Unopened
  <2>2. CASE queue # <<>>
    <3>1. Len(queue) \in Nat /\ Len(queue) # 0
      BY <2>2, Types, Places, EmptySeq DEF JobsOK
    <3>2. 1 \in 1..Len(queue)
      BY <3>1
    <3> QED
      BY <3>2, Types, Places DEF Unopened
  <2> QED
    BY <2>1, <2>2 DEF PoolQuiet
<1>3. block = "orderly" => pc[Owner] \notin {"raised", "gone"}
  BY <1>2 DEF Inv, ProgramOK, At
<1>4. block # "any" => engine.program = "open"
  <2>1. block \in {"none", "orderly", "any"} /\ engine.program \in {"open", "freed"}
    BY ConstantsAssumption DEF Inv, TypeOK
  <2>2. block = "none" => engine.program # "freed"
    BY DEF Inv, ProgramOK, ProgramReferred
  <2>3. block = "orderly" => engine.program # "freed"
    BY <1>1, <1>3 DEF Inv, ProgramOK, At
  <2> QED
    BY <2>1, <2>2, <2>3
<1> QED
  BY <1>1, <1>3, <1>4

LEMMA BusyProgram ==
  ASSUME Inv, ~PoolQuiet, engine'.program = engine.program, UNCHANGED <<proxy, pc, block>>
  PROVE  ProgramOK'
<1>1. /\ ~At(Owner, "exited")
      /\ block # "any" => engine.program = "open"
      /\ block = "orderly" => pc[Owner] \notin {"raised", "gone"}
  BY BusyPool
<1> QED
  BY <1>1 DEF Inv, ProgramOK, At

(* and a job the worker is at has no rows yet. *)
LEMMA BusyFacts ==
  ASSUME Inv, worker.at # "idle"
  PROVE  /\ worker.job \in Ids /\ worker.kind \in JobKinds /\ worker.job[2] <= n[worker.job[1]]
         /\ ~PoolQuiet /\ inner.object \in {"none", "live"}
         /\ worker.job \notin engine.staged \cup engine.evaluated /\ drained[worker.job] = {}
         /\ \A kind : ~InQueue(worker.job, kind)
         /\ worker.kind # "create" =>
              /\ proxy.inner /\ engine.session # "none" /\ inner.object = "live"
              /\ ~At(Owner, "outside")
              /\ \A id : ~InQueue(id, "create") /\ ~AtWork(id, "create") /\ ~AsOutcome(id, "create")
         /\ worker.kind = "create" =>
              /\ ~proxy.inner /\ engine.session = "none"
              /\ pc[Owner] \notin {"outside", "in_exit_aclose", "exited"}
              /\ \A id, kind : ~InQueue(id, kind) /\ ~AsOutcome(id, kind)
<1>1. /\ worker.job \in Ids /\ worker.kind \in JobKinds /\ AtWork(worker.job, worker.kind)
      /\ Somewhere(worker.job, worker.kind)
  BY Types, Places DEF AtWork
<1>2. worker.job[2] <= n[worker.job[1]]
  BY <1>1 DEF Inv, ProxyInv, Submitted
<1>3. ~PoolQuiet /\ inner.object \in {"none", "live"}
  BY BusyPool DEF PoolQuiet
<1>4. worker.job \notin engine.staged \cup engine.evaluated /\ drained[worker.job] = {}
  BY <1>1 DEF Inv, RowsOK, Over
<1>5. (\A kind : ~InQueue(worker.job, kind)) /\ \A o \in done : o.id # worker.job
  BY DEF Inv, ProxyInv, OnceEach, InQueue
<1>6. ASSUME worker.kind # "create"
      PROVE  /\ proxy.inner /\ engine.session # "none" /\ inner.object = "live"
             /\ ~At(Owner, "outside")
             /\ \A id : ~InQueue(id, "create") /\ ~AtWork(id, "create") /\ ~AsOutcome(id, "create")
  <2>1. proxy.inner /\ \A id : ~Somewhere(id, "create")
    BY <1>1, <1>6 DEF Inv, ProxyInv, Opening
  <2>2. ~At(Owner, "outside")
    BY <2>1 DEF Inv, ProxyInv, Opening, At
  <2> QED
    BY <1>3, <2>1, <2>2 DEF Inv, SessionOK, Somewhere
<1>7. ASSUME worker.kind = "create"
      PROVE  /\ ~proxy.inner /\ engine.session = "none"
             /\ pc[Owner] \notin {"outside", "in_exit_aclose", "exited"}
             /\ \A id, kind : ~InQueue(id, kind) /\ ~AsOutcome(id, kind)
  <2>1. /\ ~proxy.inner /\ worker.job = <<Owner, 1>>
        /\ \A id, kind : Somewhere(id, kind) => id = worker.job
    BY <1>1, <1>7 DEF Inv, ProxyInv, Opening
  <2>2. engine.session = "none"
    BY <1>1, <1>7 DEF Inv, SessionOK
  <2>3. pc[Owner] # "outside"
    <3>1. 1 <= n[Owner]
      <4>1. worker.job[1] = Owner /\ worker.job[2] = 1
        BY <2>1
      <4> QED
        BY <1>2, <4>1
    <3> QED
      BY <3>1 DEF Inv, ProxyInv, Opening, At
  <2> QED
    BY <1>5, <2>1, <2>2, <2>3 DEF Inv, SessionOK, Somewhere, AsOutcome
<1> QED
  BY <1>1, <1>2, <1>3, <1>4, <1>5, <1>6, <1>7

(* The worker goes on with its job, *)
LEMMA WorkerTo ==
  ASSUME Inv, worker.at # "idle", NEW label \in WorkerLabels, To(label), UNCHANGED outsidePool,
         engine'.program = engine.program
  PROVE  /\ PInv' /\ ProgramOK' /\ AwaitedOK'
         /\ UNCHANGED <<done, proxy, queue, loop, pc, n, block, history>>
         /\ worker'.at = label /\ worker'.job = worker.job /\ worker'.kind = worker.kind
         /\ \A id, kind : /\ InQueue(id, kind)' <=> InQueue(id, kind)
                          /\ AtWork(id, kind)' => AtWork(id, kind)
<1>1. UNCHANGED <<taskVars, block, history>>
  BY DEF outsidePool
<1>2. /\ PInv' /\ UNCHANGED <<done, proxy, queue, loop, pc, n>>
      /\ worker'.at = label /\ worker'.job = worker.job /\ worker'.kind = worker.kind
  BY <1>1, ToInv DEF Inv, PInv
<1>3. \A id, kind : /\ InQueue(id, kind)' <=> InQueue(id, kind)
                    /\ AtWork(id, kind)' => AtWork(id, kind)
                    /\ Somewhere(id, kind)' => Somewhere(id, kind)
  BY <1>2 DEF InQueue, AtWork, AsOutcome, Somewhere
<1>4. ProgramOK'
  BY <1>1, <1>2, BusyProgram DEF PoolQuiet
<1>5. AwaitedOK'
  BY <1>1, <1>2, <1>3, AwaitedKept, ProxyAssumption
<1> QED
  BY <1>1, <1>2, <1>3, <1>4, <1>5

(* or ends it. *)
LEMMA WorkerReturn ==
  ASSUME Inv, worker.at # "idle", NEW ok \in BOOLEAN, Return(ok), UNCHANGED outsidePool,
         engine'.program = engine.program
  PROVE  /\ PInv' /\ ProgramOK' /\ AwaitedOK' /\ WorkerOK'
         /\ UNCHANGED <<proxy, queue, loop, pc, n, block, history>>
         /\ worker'.at = "idle"
         /\ \A id, kind : /\ InQueue(id, kind)' <=> InQueue(id, kind)
                          /\ ~AtWork(id, kind)'
         /\ done \subseteq done' /\ \E o \in done' : o.id = worker.job
         /\ \A o \in done' : o \in done \/ (o.kind = worker.kind /\ o.ok = ok)
<1>1. UNCHANGED <<taskVars, block, history>>
  BY DEF outsidePool
<1>2. /\ PInv' /\ UNCHANGED <<proxy, queue, loop, pc, n>> /\ worker'.at = "idle"
      /\ done' = done \cup {[id |-> worker.job, kind |-> worker.kind, ok |-> ok]}
      /\ \A id, k : AsOutcome(id, k)' => AsOutcome(id, k) \/ AtWork(id, k)
  BY <1>1, ReturnInv DEF Inv, PInv
<1>3. \A id, kind : /\ InQueue(id, kind)' <=> InQueue(id, kind)
                    /\ ~AtWork(id, kind)'
  BY <1>2 DEF InQueue, AtWork
<1>4. ProgramOK'
  BY <1>1, <1>2, BusyProgram DEF PoolQuiet
<1>5. AwaitedOK'
  <2>1. \A id, kind : Somewhere(id, kind)' => Somewhere(id, kind)
    BY <1>2, <1>3 DEF Somewhere
  <2> QED
    BY <1>1, <1>2, <2>1, AwaitedKept, ProxyAssumption
<1>6. WorkerOK'
  BY <1>2 DEF WorkerOK
<1>7. /\ done \subseteq done' /\ \E o \in done' : o.id = worker.job
      /\ \A o \in done' : o \in done \/ (o.kind = worker.kind /\ o.ok = ok)
  <2> DEFINE o == [id |-> worker.job, kind |-> worker.kind, ok |-> ok]
  <2>1. o.id = worker.job /\ o.kind = worker.kind /\ o.ok = ok
    OBVIOUS
  <2> HIDE DEF o
  <2>2. done' = done \cup {o}
    BY <1>2 DEF o
  <2> QED
    BY <2>1, <2>2
<1> QED
  BY <1>1, <1>2, <1>3, <1>4, <1>5, <1>6, <1>7

(* The Session, where its object and the engine's session stay the same *)
LEMMA SessionKept ==
  ASSUME Inv, ~PoolQuiet, engine'.session = engine.session,
         inner'.object = inner.object, inner'.handle = inner.handle,
         UNCHANGED <<proxy, pc>>,
         \A id : InQueue(id, "create")' \/ AtWork(id, "create")' =>
                   InQueue(id, "create") \/ AtWork(id, "create"),
         \A o \in done' : \/ o \in done
                          \/ /\ o.kind = "create" => (o.ok <=> engine.session # "none")
                             /\ o.kind = "close" => engine.session = "freed"
  PROVE  SessionOK'
<1>1. inner.object \notin {"finalising", "gone"} /\ ~At(Owner, "exited")
  BY BusyPool
<1> QED
  BY <1>1 DEF Inv, SessionOK, SessionExists, At

InnerType == [object : {"none", "live", "finalising", "gone"}, handle : BOOLEAN,
              mode : {"UNSET", "INCREMENTAL", "QUERY"}, deltaCb : BOOLEAN, queue : SUBSET Ids]

(* What a step of the worker changes of the Session but its mode and its   *)
(* callback: nothing. *)
SameSession ==
  /\ UNCHANGED <<engine, drained>> /\ inner' \in InnerType /\ worker.at # "drain"
  /\ inner'.object = inner.object /\ inner'.handle = inner.handle
  /\ inner'.queue \in {inner.queue, {}}

LEMMA GoesOn ==
  ASSUME Inv, worker.at # "idle", NEW label \in WorkerLabels, To(label), UNCHANGED outsidePool,
         SameSession,
         worker.kind = "create" => label \in {"start", "in_create"},
         worker.kind = "close" => label \in {"start", "in_clear_cb", "in_destroy"},
         label = "in_create" => worker.kind = "create",
         label \in {"in_clear_cb", "in_destroy"} => worker.kind = "close"
  PROVE  Inv'
<1>1. /\ PInv' /\ ProgramOK' /\ AwaitedOK'
      /\ UNCHANGED <<done, proxy, queue, loop, pc, n, block, history>>
      /\ worker'.at = label /\ worker'.job = worker.job /\ worker'.kind = worker.kind
      /\ \A id, kind : /\ InQueue(id, kind)' <=> InQueue(id, kind)
                       /\ AtWork(id, kind)' => AtWork(id, kind)
  BY WorkerTo DEF SameSession
<1>2. TypeOK'
  BY <1>1 DEF Inv, TypeOK, PInv, ProxyInv, SameSession, InnerType
<1>3. SessionOK'
  <2>1. \A id : InQueue(id, "create")' \/ AtWork(id, "create")' =>
                  InQueue(id, "create") \/ AtWork(id, "create")
    BY <1>1
  <2> QED
    BY <1>1, <2>1, SessionKept DEF SameSession, PoolQuiet
<1>4. WorkerOK'
  BY <1>1 DEF WorkerOK
<1>5. RowsOK'
  <2>1. inner.queue = {} /\ inner'.queue = inner.queue
    BY DEF Inv, RowsOK, SameSession
  <2>2. \A u \in Tasks : n'[u] \in Nat /\ n[u] <= n'[u]
    <3>1. \A u \in Tasks : n[u] \in Nat
      BY Types
    <3> QED
      BY <1>1, <3>1
  <2>3. \A id \in Ids : drained[id] # {} =>
          id \in history'.delivered \cup history'.cancelled \/ \E o \in done' : o.id = id
    BY <1>1 DEF Inv, RowsOK
  <2> QED
    BY <1>1, <2>1, <2>2, <2>3, RowsKept DEF SameSession
<1> QED
  BY <1>1, <1>2, <1>3, <1>4, <1>5 DEF Inv, PInv

LEMMA Ends ==
  ASSUME Inv, worker.at # "idle", NEW ok \in BOOLEAN, Return(ok), UNCHANGED outsidePool,
         SameSession,
         worker.kind = "create" => ~ok, worker.kind = "close" => engine.session = "freed"
  PROVE  Inv'
<1>1. /\ PInv' /\ ProgramOK' /\ AwaitedOK' /\ WorkerOK'
      /\ UNCHANGED <<proxy, queue, loop, pc, n, block, history>>
      /\ worker'.at = "idle"
      /\ \A id, kind : /\ InQueue(id, kind)' <=> InQueue(id, kind)
                       /\ ~AtWork(id, kind)'
      /\ done \subseteq done'
      /\ \A o \in done' : o \in done \/ (o.kind = worker.kind /\ o.ok = ok)
  BY WorkerReturn DEF SameSession
<1>2. TypeOK'
  BY <1>1 DEF Inv, TypeOK, PInv, ProxyInv, SameSession, InnerType
<1>3. SessionOK'
  <2>1. worker.kind = "create" => engine.session = "none"
    BY BusyFacts
  <2>2. \A o \in done' : \/ o \in done
                         \/ /\ o.kind = "create" => (o.ok <=> engine.session # "none")
                            /\ o.kind = "close" => engine.session = "freed"
    BY <1>1, <2>1
  <2>3. \A id : InQueue(id, "create")' \/ AtWork(id, "create")' =>
                  InQueue(id, "create") \/ AtWork(id, "create")
    BY <1>1
  <2> QED
    BY <1>1, <2>2, <2>3, SessionKept DEF SameSession, PoolQuiet
<1>4. RowsOK'
  <2>1. inner.queue = {} /\ inner'.queue = inner.queue
    BY DEF Inv, RowsOK, SameSession
  <2>2. \A u \in Tasks : n'[u] \in Nat /\ n[u] <= n'[u]
    <3>1. \A u \in Tasks : n[u] \in Nat
      BY Types
    <3> QED
      BY <1>1, <3>1
  <2>3. \A id \in Ids : drained[id] # {} =>
          id \in history'.delivered \cup history'.cancelled \/ \E o \in done' : o.id = id
    BY <1>1 DEF Inv, RowsOK
  <2> QED
    BY <1>1, <2>1, <2>2, <2>3, RowsKept DEF SameSession
<1> QED
  BY <1>1, <1>2, <1>3, <1>4 DEF Inv, PInv

LEMMA TakeJobStep ==
  ASSUME Inv, TakeJob
  PROVE  Inv'
<1>1. /\ Take /\ UNCHANGED <<block, engine, inner, drained, history>>
      /\ "start" \in WorkerLabels
  BY DEF TakeJob, sessionVars, WorkerLabels
<1>2. /\ PInv' /\ UNCHANGED <<proxy, done, loop, pc, n>>
      /\ worker.at = "idle" /\ worker'.at = "start"
      /\ \A id, k : InQueue(id, k)' => InQueue(id, k)
      /\ \A id, k : AtWork(id, k)' => InQueue(id, k)
  BY <1>1, TakeInv DEF Inv, PInv
<1>3. ~PoolQuiet
  BY <1>1 DEF Take, PoolQuiet
<1>4. TypeOK' /\ WorkerOK'
  BY <1>1, <1>2 DEF Inv, TypeOK, PInv, ProxyInv, WorkerOK
<1>5. SessionOK'
  BY <1>1, <1>2, <1>3, SessionKept
<1>6. ProgramOK'
  BY <1>1, <1>2, <1>3, BusyProgram
<1>7. RowsOK'
  <2>1. inner.queue = {}
    BY <1>2 DEF Inv, RowsOK
  <2>2. \A u \in Tasks : n'[u] \in Nat /\ n[u] <= n'[u]
    <3>1. \A u \in Tasks : n[u] \in Nat
      BY Types
    <3> QED
      BY <1>2, <3>1
  <2>3. \A id \in Ids : drained[id] # {} =>
          id \in history'.delivered \cup history'.cancelled \/ \E o \in done' : o.id = id
    BY <1>1, <1>2 DEF Inv, RowsOK
  <2> QED
    BY <1>1, <1>2, <2>1, <2>2, <2>3, RowsKept
<1>8. AwaitedOK'
  <2>1. \A id, kind : Somewhere(id, kind)' => Somewhere(id, kind)
    BY <1>2 DEF Somewhere, AsOutcome
  <2> QED
    BY <1>1, <1>2, <2>1, AwaitedKept, ProxyAssumption
<1> QED
  BY <1>2, <1>4, <1>5, <1>6, <1>7, <1>8 DEF Inv, PInv

-----------------------------------------------------------------------------
(* The steps before and after the engine that change nothing of the session *)
LEMMA StartSteps ==
  ASSUME Inv, StartCreate \/ StartRows \/ StartStep \/ StartPreview \/ StartClose
  PROVE  Inv'
<1>1. worker.at = "start" /\ UNCHANGED outsidePool /\ UNCHANGED <<engine, drained>>
  BY DEF StartCreate, StartRows, StartStep, StartPreview, StartClose, sessionVars
<1>2. /\ inner \in InnerType /\ TRUE \in BOOLEAN /\ FALSE \in BOOLEAN
      /\ inner' = inner => SameSession
  BY <1>1 DEF Inv, TypeOK, InnerType, SameSession
<1>3. /\ {"in_create", "in_iud", "in_set_cb", "in_step", "in_snapshot", "in_facts",
          "in_clear_cb", "in_destroy"} \subseteq WorkerLabels
  BY DEF WorkerLabels
<1>4. CASE StartCreate
  <2>1. worker.kind = "create" /\ SameSession /\ (To("in_create") \/ Return(FALSE))
    BY <1>2, <1>4 DEF StartCreate, sessionVars
  <2>2. CASE To("in_create")
    BY <1>1, <1>3, <2>1, <2>2, GoesOn
  <2>3. CASE Return(FALSE)
    BY <1>1, <2>1, <2>3, Ends
  <2> QED
    BY <2>1, <2>2, <2>3
<1>5. CASE StartRows
  <2>1. worker.kind \in {"insert", "snapshot"} /\ SameSession
    BY <1>1, <1>2, <1>5 DEF StartRows, SameSession, InnerType, Committed, Wanted
  <2>2. \/ Return(FALSE)
        \/ \E label \in {"in_iud", "in_snapshot"} : To(label)
    BY <1>5 DEF StartRows, EnterEngine
  <2>3. ASSUME NEW label \in {"in_iud", "in_snapshot"}, To(label)
        PROVE  Inv'
    BY <1>1, <1>3, <2>1, <2>3, GoesOn
  <2>4. CASE Return(FALSE)
    BY <1>1, <2>1, <2>4, Ends
  <2> QED
    BY <2>2, <2>3, <2>4
<1>6. CASE StartStep
  <2>1. worker.kind = "step" /\ SameSession
    BY <1>1, <1>2, <1>6 DEF StartStep, SameSession, InnerType, Committed, Wanted
  <2>2. \/ Return(FALSE)
        \/ \E label \in {"in_step", "in_set_cb"} : To(label)
    BY <1>6 DEF StartStep, EnterEngine
  <2>3. ASSUME NEW label \in {"in_step", "in_set_cb"}, To(label)
        PROVE  Inv'
    BY <1>1, <1>3, <2>1, <2>3, GoesOn
  <2>4. CASE Return(FALSE)
    BY <1>1, <2>1, <2>4, Ends
  <2> QED
    BY <2>2, <2>3, <2>4
<1>7. CASE StartPreview
  <2>1. worker.kind = "preview_inline_facts" /\ SameSession /\ (To("in_facts") \/ Return(TRUE))
    BY <1>2, <1>7 DEF StartPreview, sessionVars
  <2>2. CASE To("in_facts")
    BY <1>1, <1>3, <2>1, <2>2, GoesOn
  <2>3. CASE Return(TRUE)
    BY <1>1, <1>2, <2>1, <2>3, Ends
  <2> QED
    BY <2>1, <2>2, <2>3
<1>8. CASE StartClose
  <2>1. /\ worker.kind = "close" /\ SameSession
        /\ \/ ~inner.handle /\ Return(TRUE)
           \/ \E label \in {"in_clear_cb", "in_destroy"} : To(label)
    BY <1>2, <1>8 DEF StartClose, sessionVars
  <2>2. ASSUME NEW label \in {"in_clear_cb", "in_destroy"}, To(label)
        PROVE  Inv'
    BY <1>1, <1>3, <2>1, <2>2, GoesOn
  <2>3. CASE ~inner.handle /\ Return(TRUE)
    <3>1. engine.session # "none"
      BY <1>1, <2>1, BusyFacts
    <3>2. engine.session = "freed"
      BY <2>3, <3>1 DEF Inv, TypeOK, SessionOK
    <3> QED
      BY <1>1, <1>2, <2>1, <2>3, <3>2, Ends
  <2> QED
    BY <2>1, <2>2, <2>3
<1> QED
  BY <1>4, <1>5, <1>6, <1>7, <1>8

LEMMA EngineSteps ==
  ASSUME Inv, CbSet \/ Snapshotted \/ Previewed \/ CbCleared
  PROVE  Inv'
<1>1. UNCHANGED outsidePool /\ UNCHANGED <<engine, drained>>
  BY DEF CbSet, Snapshotted, Previewed, CbCleared, sessionVars
<1>2. /\ inner \in InnerType /\ TRUE \in BOOLEAN /\ FALSE \in BOOLEAN
      /\ inner' = inner /\ worker.at # "drain" => SameSession
  BY <1>1 DEF Inv, TypeOK, InnerType, SameSession
<1>3. {"in_step", "in_destroy"} \subseteq WorkerLabels
  BY DEF WorkerLabels
<1>4. CASE CbSet
  <2>1. /\ worker.at = "in_set_cb" /\ SameSession /\ To("in_step")
        /\ worker.kind \notin {"create", "close"}
    BY <1>2, <1>4 DEF CbSet, sessionVars, Inv, WorkerOK
  <2> QED
    BY <1>1, <1>3, <2>1, GoesOn
<1>5. CASE Snapshotted
  <2>1. /\ worker.at = "in_snapshot" /\ SameSession /\ \E ok \in BOOLEAN : Return(ok)
        /\ worker.kind \notin {"create", "close"}
    BY <1>2, <1>5 DEF Snapshotted, sessionVars, Inv, WorkerOK
  <2> QED
    BY <1>1, <2>1, Ends
<1>6. CASE Previewed
  <2>1. /\ worker.at = "in_facts" /\ SameSession /\ Return(TRUE)
        /\ worker.kind \notin {"create", "close"}
    BY <1>2, <1>6 DEF Previewed, sessionVars, Inv, WorkerOK
  <2> QED
    BY <1>1, <1>2, <2>1, Ends
<1>7. CASE CbCleared
  <2>1. worker.at = "in_clear_cb" /\ SameSession /\ To("in_destroy") /\ worker.kind = "close"
    BY <1>1, <1>2, <1>7 DEF CbCleared, Inv, WorkerOK, SameSession, InnerType
  <2> QED
    BY <1>1, <1>3, <2>1, GoesOn
<1> QED
  BY <1>4, <1>5, <1>6, <1>7

(* The session comes to be *)
LEMMA CreatedStep ==
  ASSUME Inv, Created
  PROVE  Inv'
<1>1. /\ worker.at = "in_create" /\ worker.kind = "create" /\ UNCHANGED outsidePool
      /\ drained' = drained /\ TRUE \in BOOLEAN /\ FALSE \in BOOLEAN
  BY DEF Created, Inv, WorkerOK
<1>2. CASE Return(FALSE) /\ UNCHANGED <<engine, inner>>
  <2>1. SameSession
    BY <1>1, <1>2 DEF Inv, TypeOK, SameSession, InnerType
  <2> QED
    BY <1>1, <1>2, <2>1, Ends
<1>3. CASE /\ Return(TRUE)
           /\ engine' = [engine EXCEPT !.session = "open"]
           /\ inner' = [inner EXCEPT !.object = "live", !.handle = TRUE]
  <2>1. /\ engine'.session = "open" /\ engine'.program = engine.program
        /\ engine'.staged = engine.staged /\ engine'.evaluated = engine.evaluated
        /\ inner'.object = "live" /\ inner'.handle /\ inner'.queue = inner.queue
    BY <1>3 DEF Inv, TypeOK
  <2>2. /\ PInv' /\ ProgramOK' /\ AwaitedOK' /\ WorkerOK'
        /\ UNCHANGED <<proxy, queue, loop, pc, n, block, history>>
        /\ worker'.at = "idle"
        /\ \A id, kind : /\ InQueue(id, kind)' <=> InQueue(id, kind)
                         /\ ~AtWork(id, kind)'
        /\ done \subseteq done'
        /\ \A o \in done' : o \in done \/ (o.kind = worker.kind /\ o.ok = TRUE)
    BY <1>1, <1>3, <2>1, WorkerReturn
  <2>3. TypeOK'
    BY <1>1, <1>3, <2>2 DEF Inv, TypeOK, PInv, ProxyInv
  <2>4. /\ ~proxy.inner /\ pc[Owner] \notin {"outside", "in_exit_aclose", "exited"}
        /\ \A id, kind : ~InQueue(id, kind) /\ ~AsOutcome(id, kind)
    BY <1>1, BusyFacts
  <2>5. \A o \in done' : o.kind = "create" /\ o.ok
    BY <1>1, <2>2, <2>4 DEF AsOutcome
  <2>6. SessionOK'
    BY <2>1, <2>2, <2>4, <2>5 DEF SessionOK, SessionExists, At
  <2>7. RowsOK'
    <3>1. inner.queue = {} /\ engine'.staged \subseteq engine.staged
      BY <1>1, <2>1 DEF Inv, RowsOK
    <3>2. \A u \in Tasks : n'[u] \in Nat /\ n[u] <= n'[u]
      <4>1. \A u \in Tasks : n[u] \in Nat
        BY Types
      <4> QED
        BY <2>2, <4>1
    <3>3. \A id \in Ids : drained[id] # {} =>
            id \in history'.delivered \cup history'.cancelled \/ \E o \in done' : o.id = id
      BY <2>2 DEF Inv, RowsOK
    <3> QED
      BY <1>1, <2>1, <2>2, <3>1, <3>2, <3>3, RowsKept
  <2> QED
    BY <2>2, <2>3, <2>6, <2>7 DEF Inv, PInv
<1> QED
  BY <1>2, <1>3 DEF Created

(* and is destroyed. *)
LEMMA DestroyedStep ==
  ASSUME Inv, Destroyed
  PROVE  Inv'
<1>1. /\ worker.at = "in_destroy" /\ worker.kind = "close" /\ UNCHANGED outsidePool
      /\ drained' = drained /\ TRUE \in BOOLEAN /\ Return(TRUE)
      /\ engine' = [engine EXCEPT !.session = "freed", !.staged = {}]
      /\ inner' = [inner EXCEPT !.handle = FALSE]
  BY DEF Destroyed, Inv, WorkerOK
<1>2. /\ engine'.session = "freed" /\ engine'.program = engine.program
      /\ engine'.staged = {} /\ engine'.evaluated = engine.evaluated
      /\ inner'.object = inner.object /\ ~inner'.handle /\ inner'.queue = inner.queue
  BY <1>1 DEF Inv, TypeOK
<1>3. /\ PInv' /\ ProgramOK' /\ AwaitedOK' /\ WorkerOK'
      /\ UNCHANGED <<proxy, queue, loop, pc, n, block, history>>
      /\ worker'.at = "idle"
      /\ \A id, kind : /\ InQueue(id, kind)' <=> InQueue(id, kind)
                       /\ ~AtWork(id, kind)'
      /\ done \subseteq done'
      /\ \A o \in done' : o \in done \/ (o.kind = worker.kind /\ o.ok = TRUE)
  BY <1>1, <1>2, WorkerReturn
<1>4. TypeOK'
  BY <1>1, <1>3 DEF Inv, TypeOK, PInv, ProxyInv
<1>5. /\ inner.object = "live" /\ ~At(Owner, "outside") /\ ~At(Owner, "exited")
      /\ \A id : ~InQueue(id, "create") /\ ~AsOutcome(id, "create")
  BY <1>1, BusyFacts, BusyPool DEF PoolQuiet
<1>6. \A o \in done' : o.kind # "create"
  BY <1>1, <1>3, <1>5 DEF AsOutcome
<1>7. SessionOK'
  BY <1>2, <1>3, <1>5, <1>6 DEF SessionOK, SessionExists, At
<1>8. RowsOK'
  <2>1. inner.queue = {} /\ engine'.staged \subseteq engine.staged
    BY <1>1, <1>2 DEF Inv, RowsOK
  <2>2. \A u \in Tasks : n'[u] \in Nat /\ n[u] <= n'[u]
    <3>1. \A u \in Tasks : n[u] \in Nat
      BY Types
    <3> QED
      BY <1>3, <3>1
  <2>3. \A id \in Ids : drained[id] # {} =>
          id \in history'.delivered \cup history'.cancelled \/ \E o \in done' : o.id = id
    BY <1>3 DEF Inv, RowsOK
  <2> QED
    BY <1>1, <1>2, <1>3, <2>1, <2>2, <2>3, RowsKept
<1> QED
  BY <1>3, <1>4, <1>7, <1>8 DEF Inv, PInv

(* The rows: a job stages its own, *)
LEMMA InsertedStep ==
  ASSUME Inv, Inserted
  PROVE  Inv'
<1>1. /\ worker.at = "in_iud" /\ worker.kind \notin {"create", "close"} /\ UNCHANGED outsidePool
      /\ UNCHANGED <<inner, drained>> /\ TRUE \in BOOLEAN /\ FALSE \in BOOLEAN
  BY DEF Inserted, Inv, WorkerOK
<1>2. CASE Return(FALSE) /\ UNCHANGED engine
  <2>1. SameSession
    BY <1>1, <1>2 DEF Inv, TypeOK, SameSession, InnerType
  <2> QED
    BY <1>1, <1>2, <2>1, Ends
<1>3. CASE Return(TRUE) /\ engine' = [engine EXCEPT !.staged = @ \cup {worker.job}]
  <2>1. /\ engine'.session = engine.session /\ engine'.program = engine.program
        /\ engine'.staged = engine.staged \cup {worker.job} /\ engine'.evaluated = engine.evaluated
    BY <1>3 DEF Inv, TypeOK
  <2>2. /\ PInv' /\ ProgramOK' /\ AwaitedOK' /\ WorkerOK'
        /\ UNCHANGED <<proxy, queue, loop, pc, n, block, history>>
        /\ worker'.at = "idle"
        /\ \A id, kind : /\ InQueue(id, kind)' <=> InQueue(id, kind)
                         /\ ~AtWork(id, kind)'
        /\ done \subseteq done'
        /\ \A o \in done' : o \in done \/ (o.kind = worker.kind /\ o.ok = TRUE)
    BY <1>1, <1>3, <2>1, WorkerReturn
  <2>3. /\ worker.job \in Ids /\ worker.job[2] <= n[worker.job[1]] /\ ~PoolQuiet
        /\ worker.job \notin engine.staged \cup engine.evaluated
        /\ \A kind : ~InQueue(worker.job, kind)
    BY <1>1, BusyFacts
  <2>4. TypeOK'
    BY <1>1, <1>3, <2>2, <2>3 DEF Inv, TypeOK, PInv, ProxyInv
  <2>5. SessionOK'
    <3>1. \A id : InQueue(id, "create")' \/ AtWork(id, "create")' =>
                    InQueue(id, "create") \/ AtWork(id, "create")
      BY <2>2
    <3>2. \A o \in done' : \/ o \in done
                           \/ /\ o.kind = "create" => (o.ok <=> engine.session # "none")
                              /\ o.kind = "close" => engine.session = "freed"
      BY <1>1, <2>2
    <3> QED
      BY <1>1, <2>1, <2>2, <2>3, <3>1, <3>2, SessionKept
  <2>6. RowsOK'
    <3>1. \A id : Over(id) \/ id = worker.job => Over(id)'
      BY <2>2, <2>3 DEF Over
    <3>2. inner.queue = {}
      BY <1>1 DEF Inv, RowsOK
    <3> QED
      BY <1>1, <2>1, <2>2, <2>3, <3>1, <3>2 DEF Inv, RowsOK
  <2> QED
    BY <2>2, <2>4, <2>5, <2>6 DEF Inv, PInv
<1> QED
  BY <1>2, <1>3 DEF Inserted

(* step() has the engine evaluate what is staged, and goes on to drain, *)
LEMMA SteppedStep ==
  ASSUME Inv, Stepped
  PROVE  Inv'
<1>1. /\ worker.at = "in_step" /\ worker.kind \notin {"create", "close"} /\ UNCHANGED outsidePool
      /\ drained' = drained /\ TRUE \in BOOLEAN /\ FALSE \in BOOLEAN /\ "drain" \in WorkerLabels
  BY DEF Stepped, Inv, WorkerOK, WorkerLabels
<1>2. CASE Return(FALSE) /\ UNCHANGED <<engine, inner>>
  <2>1. SameSession
    BY <1>1, <1>2 DEF Inv, TypeOK, SameSession, InnerType
  <2> QED
    BY <1>1, <1>2, <2>1, Ends
<1>3. CASE /\ To("drain") /\ engine' = Evaluated
           /\ inner' = [inner EXCEPT !.queue = @ \cup engine.staged]
  <2>1. /\ engine'.session = engine.session /\ engine'.program = engine.program
        /\ engine'.staged = {} /\ engine'.evaluated = engine.evaluated \cup engine.staged
        /\ inner'.object = inner.object /\ inner'.handle = inner.handle
        /\ inner'.queue = inner.queue \cup engine.staged
    BY <1>3 DEF Inv, TypeOK, Evaluated
  <2>2. /\ PInv' /\ ProgramOK' /\ AwaitedOK'
        /\ UNCHANGED <<done, proxy, queue, loop, pc, n, block, history>>
        /\ worker'.at = "drain" /\ worker'.job = worker.job /\ worker'.kind = worker.kind
        /\ \A id, kind : /\ InQueue(id, kind)' <=> InQueue(id, kind)
                         /\ AtWork(id, kind)' => AtWork(id, kind)
    BY <1>1, <1>3, <2>1, WorkerTo
  <2>3. TypeOK' /\ WorkerOK'
    BY <1>1, <1>3, <2>2 DEF Inv, TypeOK, PInv, ProxyInv, Evaluated, WorkerOK
  <2>4. SessionOK'
    <3>1. \A id : InQueue(id, "create")' \/ AtWork(id, "create")' =>
                    InQueue(id, "create") \/ AtWork(id, "create")
      BY <2>2
    <3>2. ~PoolQuiet
      BY <1>1 DEF PoolQuiet
    <3> QED
      BY <2>1, <2>2, <3>1, <3>2, SessionKept
  <2>5. RowsOK'
    <3>1. \A id : Over(id) => Over(id)'
      BY <2>2 DEF Over
    <3>2. inner.queue = {}
      BY <1>1 DEF Inv, RowsOK
    <3> QED
      BY <1>1, <2>1, <2>2, <3>1, <3>2 DEF Inv, RowsOK
  <2> QED
    BY <2>2, <2>3, <2>4, <2>5 DEF Inv, PInv
<1> QED
  BY <1>2, <1>3 DEF Stepped

(* and takes them all. *)
LEMMA DrainedStep ==
  ASSUME Inv, Drained
  PROVE  Inv'
<1>1. /\ worker.at = "drain" /\ worker.kind \notin {"create", "close"} /\ UNCHANGED outsidePool
      /\ UNCHANGED engine /\ Return(TRUE) /\ TRUE \in BOOLEAN
      /\ drained' = [drained EXCEPT ![worker.job] = inner.queue]
      /\ inner' = [inner EXCEPT !.queue = {}]
  BY DEF Drained, Inv, WorkerOK
<1>2. /\ worker.job \in Ids /\ worker.job[2] <= n[worker.job[1]] /\ ~PoolQuiet
      /\ drained[worker.job] = {}
      /\ \A kind : ~InQueue(worker.job, kind)
  BY <1>1, BusyFacts
<1>3. /\ inner'.object = inner.object /\ inner'.handle = inner.handle /\ inner'.queue = {}
      /\ drained'[worker.job] = inner.queue
      /\ \A id \in Ids \ {worker.job} : drained'[id] = drained[id]
  BY <1>1, <1>2 DEF Inv, TypeOK
<1>4. /\ PInv' /\ ProgramOK' /\ AwaitedOK' /\ WorkerOK'
      /\ UNCHANGED <<proxy, queue, loop, pc, n, block, history>>
      /\ worker'.at = "idle"
      /\ \A id, kind : /\ InQueue(id, kind)' <=> InQueue(id, kind)
                       /\ ~AtWork(id, kind)'
      /\ done \subseteq done' /\ \E o \in done' : o.id = worker.job
      /\ \A o \in done' : o \in done \/ (o.kind = worker.kind /\ o.ok = TRUE)
  BY <1>1, WorkerReturn
<1>5. TypeOK'
  BY <1>1, <1>2, <1>4 DEF Inv, TypeOK, PInv, ProxyInv
<1>6. SessionOK'
  <2>1. \A id : InQueue(id, "create")' \/ AtWork(id, "create")' =>
                  InQueue(id, "create") \/ AtWork(id, "create")
    BY <1>4
  <2>2. \A o \in done' : \/ o \in done
                         \/ /\ o.kind = "create" => (o.ok <=> engine.session # "none")
                            /\ o.kind = "close" => engine.session = "freed"
    BY <1>1, <1>4
  <2> QED
    BY <1>1, <1>2, <1>3, <1>4, <2>1, <2>2, SessionKept
<1>7. RowsOK'
  <2>1. \A id : Over(id) \/ id = worker.job => Over(id)'
    BY <1>2, <1>4 DEF Over
  <2>2. \A r \in engine.evaluated : \E id \in Ids : r \in drained'[id]
    <3>1. ASSUME NEW r \in engine.evaluated
          PROVE  \E id \in Ids : r \in drained'[id]
      <4>1. CASE r \in inner.queue
        BY <1>2, <1>3, <4>1
      <4>2. CASE r \notin inner.queue
        <5>1. PICK id \in Ids : r \in drained[id]
          BY <4>2 DEF Inv, RowsOK
        <5> QED
          BY <1>2, <1>3, <5>1
      <4> QED
        BY <4>1, <4>2
    <3> QED
      BY <3>1
  <2>3. ASSUME NEW id \in Ids
        PROVE  /\ drained'[id] \subseteq engine.evaluated
               /\ \A j \in Ids \ {id} : drained'[id] \cap drained'[j] = {}
               /\ drained'[id] # {} =>
                    /\ Over(id)'
                    /\ id \in history.delivered \cup history.cancelled \/ \E o \in done' : o.id = id
    <3>1. CASE id = worker.job
      BY <1>3, <1>4, <2>1, <3>1 DEF Inv, RowsOK
    <3>2. CASE id # worker.job
      BY <1>3, <1>4, <2>1, <3>2 DEF Inv, RowsOK
    <3> QED
      BY <3>1, <3>2
  <2>4. /\ \A r \in engine.staged \cup engine.evaluated : Over(r)'
        /\ engine.staged \cap engine.evaluated = {}
    BY <2>1 DEF Inv, RowsOK
  <2> QED
    BY <1>1, <1>3, <1>4, <2>2, <2>3, <2>4 DEF RowsOK
<1> QED
  BY <1>4, <1>5, <1>6, <1>7 DEF Inv, PInv

-----------------------------------------------------------------------------
LEMMA InitHolds ==
  ASSUME Init
  PROVE  Inv
<1>1. PInv /\ \A id, kind : ~Somewhere(id, kind)
  <2>1. "close" \in JobKinds /\ ProxyInit
    BY DEF JobKinds, Init
  <2> QED
    BY <2>1, InitInv DEF PInv
<1>2. TypeOK
  BY <1>1 DEF Init, TypeOK, PInv, ProxyInv
<1>3. pc[Owner] = "outside" /\ ~proxy.inner /\ ~proxy.closed /\ done = {} /\ worker.at = "idle"
  BY ProxyAssumption DEF Init, ProxyInit
<1>4. SessionOK /\ WorkerOK
  BY <1>1, <1>3 DEF Init, SessionOK, SessionExists, WorkerOK, Somewhere, At
<1>5. ProgramOK
  BY <1>3 DEF Init, ProgramOK, At
<1>6. RowsOK
  BY DEF Init, RowsOK
<1>7. AwaitedOK
  BY <1>1 DEF Init, ProxyInit, AwaitedOK, Waiting
<1> QED
  BY <1>1, <1>2, <1>4, <1>5, <1>6, <1>7 DEF Inv, PInv

LEMMA NextKeepsInv ==
  ASSUME Inv, [Next]_vars
  PROVE  Inv'
<1>1. CASE Work
  BY <1>1, TakeJobStep, StartSteps, EngineSteps, CreatedStep, InsertedStep, SteppedStep,
     DrainedStep, DestroyedStep DEF Work
<1>2. CASE Drop
  BY <1>2, DropStep
<1>3. CASE Finalise \/ ProgramExit
  BY <1>3, SessionDelStep, SessionDelDoneStep, ProgramFreedStep DEF Finalise
<1>4. ASSUME NEW t \in Tasks, Continue(t) \/ Proxy(t) \/ Cancelled(t) \/ Forget(t)
      PROVE  Inv'
  BY <1>4, ResumedStep, AcloseReturnStep, ProxyStep, CancelledStep, ForgetStep DEF Continue
<1>5. CASE UNCHANGED vars
  BY <1>5, StutterStep
<1> QED
  BY <1>1, <1>2, <1>3, <1>4, <1>5 DEF Next, Finished

LEMMA InvHolds == Spec => []Inv
<1>1. Init => Inv
  BY InitHolds
<1>2. Inv /\ [Next]_vars => Inv'
  BY NextKeepsInv
<1> QED
  BY <1>1, <1>2, PTL DEF Spec

-----------------------------------------------------------------------------
(* Every variable of the proxy and of what stands behind it keeps its type. *)
THEOREM TypeCorrect == Spec => []TypeOK
<1>1. Inv => TypeOK
  BY DEF Inv
<1> QED
  BY <1>1, InvHolds, PTL

(* Without a `with Program` around it, or in one that nobody cuts short,   *)
(* the proxy's Session is never on a freed Program: not while it is open,  *)
(* created or destroyed, and no preview reads one.                         *)
THEOREM ProgramOutlivesSession == Spec => [](block # "any" => SessionOnOpenProgram)
<1>1. Inv => (block # "any" => SessionOnOpenProgram)
  <2>1. SUFFICES ASSUME Inv, block # "any", engine.program = "freed"
                 PROVE  /\ engine.session # "open" /\ inner.object # "finalising"
                        /\ worker.at \notin {"in_create", "in_facts"}
    BY DEF SessionOnOpenProgram
  <2>2. PoolQuiet
    BY <2>1, BusyPool
  <2>3. engine.session # "open"
    <3>1. block \in {"none", "orderly"}
      BY <2>1, ConstantsAssumption DEF Inv, TypeOK
    <3>2. CASE block = "none"
      BY <2>1, <3>2 DEF Inv, ProgramOK, ProgramReferred, SessionOK
    <3>3. CASE block = "orderly"
      BY <2>1, <3>3 DEF Inv, ProgramOK, SessionOK, Unopened, At
    <3> QED
      BY <3>1, <3>2, <3>3
  <2> QED
    BY <2>1, <2>2, <2>3 DEF Inv, SessionOK, PoolQuiet
<1> QED
  BY <1>1, InvHolds, PTL

(* Every row the engine has evaluated is drained by one step() and reaches *)
(* its task, unless the await of that step was cancelled.                  *)
THEOREM RowsReachOneTask == Spec => []DeltasReachOneTask
<1>1. Inv => DeltasReachOneTask
  <2>1. SUFFICES ASSUME Inv, NEW r \in engine.evaluated
                 PROVE  LET takers == {id \in Ids : r \in drained[id]} IN
                          \/ takers = {} /\ r \in inner.queue
                          \/ \E id \in Ids : /\ takers = {id} /\ r \notin inner.queue
                                             /\ id \in history.delivered \cup history.cancelled \/ Pending(id)
    BY DEF DeltasReachOneTask
  <2> DEFINE takers == {id \in Ids : r \in drained[id]}
  <2>2. CASE takers = {}
    BY <2>1, <2>2 DEF Inv, RowsOK
  <2>3. ASSUME NEW id \in takers
        PROVE  /\ takers = {id} /\ r \notin inner.queue
               /\ id \in history.delivered \cup history.cancelled \/ Pending(id)
    <3>1. id \in Ids /\ r \in drained[id]
      BY <2>3
    <3>2. r \notin inner.queue /\ (id \in history.delivered \cup history.cancelled \/ Pending(id))
      BY <2>1, <3>1 DEF Inv, RowsOK, Pending
    <3>3. \A j \in Ids \ {id} : r \notin drained[j]
      BY <2>1, <3>1 DEF Inv, RowsOK
    <3> QED
      BY <3>1, <3>2, <3>3
  <2> QED
    BY <2>2, <2>3
<1> QED
  BY <1>1, InvHolds, PTL

(* An `async with` that ends without raising leaves no session behind, and *)
(* nothing of it in the pool.                                              *)
THEOREM ExitLeavesNothing == Spec => []ExitClosesInner
<1>1. Inv => ExitClosesInner
  BY DEF Inv, SessionOK, ExitClosesInner, At
<1> QED
  BY <1>1, InvHolds, PTL
================================================================================
