------------------------ MODULE AdvancedSession_proofs ------------------------
(***************************************************************************)
(* Theorems about AdvancedSession, for every number of threads and calls.  *)
(* LockDiscipline: LockedInv is inductive, whatever the threads call, as   *)
(* long as the session has its lock.  TypeCorrect rests on it: that the    *)
(* RLock is never taken a third time is part of the type invariant.  From  *)
(* LockedInv follow Serialised, for every call, and Implements, for the    *)
(* calls that read the handle under the lock (HandleUnderLock).            *)
(* CloseFreesEngine needs no lock.  SlotOutlivesPointer, OwnKindDrained and *)
(* ExactlyOnce: what becomes of callbacks and rows when one thread makes   *)
(* the calls, of any kind, while the others only make compounds            *)
(* (OneCaller).                                                            *)
(***************************************************************************)
EXTENDS AdvancedSession, FiniteSetTheorems, TLAPS

(* A call that is being executed has been counted. *)
CallNumbered == \A t \in Threads : ~At(t, "idle") => frame[t].n \in 1..MaxCalls

(* The labels of close, and those it shares with the calls that clear a   *)
(* callback; all the others belong to a call that is not close.           *)
CloseOnly ==
  {"close_test", "close_lock", "close_cb", "close_except", "close_except_drop", "close_handle",
   "in_close", "close_finish"}
ClearLabels == {"clear", "clear_cb", "in_clear_cb", "clear_drop", "clear_null"}
KindsInPlace ==
  \A t \in Threads :
    /\ pc[t] \in CloseOnly => Kind(t) = "close"
    /\ Kind(t) = "close" => pc[t] \in CloseOnly \cup ClearLabels \cup {"idle"}

(* The type invariant but for how often the lock may be taken. *)
SharedOK ==
  /\ engine \in EngineType
  /\ self \in SelfType
  /\ lock \in [owner : Threads \cup {NoThread}, depth : Nat]
  /\ ~Locking => lock.depth = 0
  /\ registry \in [slots : SUBSET Ids, queue : [Ids -> SUBSET Ids]]
  /\ returned \subseteq [row : Ids, to : Ids]

LocalsOK ==
  /\ pc \in [Threads -> Labels]
  /\ frame \in [Threads -> FrameType]
  /\ CallNumbered
  /\ KindsInPlace

(* Where a call of a kind may be. *)
InPlace(kind, label) ==
  /\ label \in CloseOnly => kind = "close"
  /\ kind = "close" => label \in CloseOnly \cup ClearLabels \cup {"idle"}

(* A jump keeps the threads' part of the invariant, provided that the      *)
(* locals it installs are locals, of a call that has been counted and that *)
(* has this label.                                                         *)
LEMMA JumpTyped ==
  ASSUME LocalsOK, NEW t \in Threads, NEW label \in Labels, NEW locals \in FrameType,
         label = "idle" \/ locals.n \in 1..MaxCalls,
         InPlace(locals.kind, label),
         Jump(t, label, locals)
  PROVE  LocalsOK'
BY DEF LocalsOK, CallNumbered, KindsInPlace, InPlace, Jump, At, Kind

(* A thread that goes on within its call keeps its locals. *)
LEMMA GotoTyped ==
  ASSUME LocalsOK, NEW t \in Threads, NEW label \in Labels, ~At(t, "idle"),
         InPlace(Kind(t), label), Goto(t, label)
  PROVE  LocalsOK'
BY JumpTyped DEF Goto, LocalsOK, CallNumbered, Kind

(* A thread that returns keeps the kind and the number of its call. *)
LEMMA ReturnTyped ==
  ASSUME LocalsOK, NEW t \in Threads, Return(t)
  PROVE  LocalsOK'
<1>1. Blank(frame[t].kind, frame[t].n) \in FrameType
  BY DEF Blank, FrameType, LocalsOK
<1> QED
  BY <1>1, JumpTyped DEF Return, Labels, InPlace, CloseOnly

(* The call a thread is inside of has an id; its locals have their types,  *)
(* and its kind fits the place it is at.                                   *)
LEMMA MeTyped ==
  ASSUME LocalsOK, NEW t \in Threads, ~At(t, "idle")
  PROVE  /\ Me(t) \in Ids
         /\ frame[t] \in FrameType
         /\ frame[t].n \in 1..MaxCalls
         /\ InPlace(Kind(t), pc[t])
BY DEF LocalsOK, CallNumbered, KindsInPlace, InPlace, Me, Kind, Ids, FrameType, At

(* A local that a step assigns. *)
LEMMA SetCb ==
  ASSUME NEW locals \in FrameType, NEW cb \in Handles \cup {NoHandle}
  PROVE  LET new == [locals EXCEPT !.cb = cb]
         IN  new \in FrameType /\ new.kind = locals.kind /\ new.n = locals.n
BY DEF FrameType

LEMMA SetOk ==
  ASSUME NEW locals \in FrameType, NEW ok \in BOOLEAN
  PROVE  LET new == [locals EXCEPT !.ok = ok]
         IN  new \in FrameType /\ new.kind = locals.kind /\ new.n = locals.n
BY DEF FrameType

(* _require_mode. *)
LEMMA ModeTyped ==
  ASSUME SharedOK, LocalsOK, NEW t \in Threads, Mode(t)
  PROVE  SharedOK' /\ LocalsOK'
<1>1. CASE TestMode(t)
  <2>1. SharedOK'
    BY <1>1 DEF TestMode, SharedOK, shared
  <2>2. LocalsOK'
    BY <1>1, GotoTyped, ReturnTyped, MeTyped
    DEF TestMode, Labels, At, AfterMode, InPlace, CloseOnly, ClearLabels
  <2> QED BY <2>1, <2>2
<1>2. CASE SetMode(t)
  <2>1. SharedOK'
    BY <1>2 DEF SetMode, SharedOK, SelfType, WantedMode
  <2>2. LocalsOK'
    BY <1>2, GotoTyped, MeTyped
    DEF SetMode, Labels, At, AfterMode, InPlace, CloseOnly, ClearLabels
  <2> QED BY <2>1, <2>2
<1> QED
  BY <1>1, <1>2 DEF Mode

(* insert and remove. *)
LEMMA IudTyped ==
  ASSUME SharedOK, LocalsOK, NEW t \in Threads, Iud(t)
  PROVE  SharedOK' /\ LocalsOK'
<1>1. CASE BuildRows(t)
  <2>1. SharedOK'
    BY <1>1 DEF BuildRows, SharedOK, shared
  <2>2. LocalsOK'
    BY <1>1, GotoTyped, ReturnTyped, MeTyped
    DEF BuildRows, Labels, At, InPlace, CloseOnly, ClearLabels
  <2> QED BY <2>1, <2>2
<1>2. CASE IudEnter(t)
  <2>1. SharedOK'
    BY <1>2 DEF IudEnter, SharedOK, EnterEngine, Acquire
  <2>2. LocalsOK'
    BY <1>2, GotoTyped, ReturnTyped, MeTyped
    DEF IudEnter, EnterEngine, Labels, At, InPlace, CloseOnly, ClearLabels
  <2> QED BY <2>1, <2>2
<1>3. CASE IudReturn(t)
  <2>1. SharedOK'
    BY <1>3, MeTyped DEF IudReturn, SharedOK, Release, EngineType, At
  <2>2. LocalsOK'
    BY <1>3, ReturnTyped DEF IudReturn
  <2> QED BY <2>1, <2>2
<1> QED
  BY <1>1, <1>2, <1>3 DEF Iud

(* set_*delta_callback and the lazy registration of step. *)
LEMMA RegisterTyped ==
  ASSUME SharedOK, LocalsOK, NEW t \in Threads, Register(t)
  PROVE  SharedOK' /\ LocalsOK'
<1>1. CASE CbTest(t)
  <2>1. SharedOK'
    BY <1>1 DEF CbTest, SharedOK, shared
  <2>2. LocalsOK'
    BY <1>1, GotoTyped, MeTyped
    DEF CbTest, Labels, At, InPlace, CloseOnly, ClearLabels
  <2> QED BY <2>1, <2>2
<1>2. CASE CbKind(t)
  <2>1. SharedOK'
    BY <1>2 DEF CbKind, SharedOK, shared
  <2>2. LocalsOK'
    BY <1>2, GotoTyped, ReturnTyped, MeTyped
    DEF CbKind, Steps, Labels, At, InPlace, CloseOnly, ClearLabels
  <2> QED BY <2>1, <2>2
<1>3. CASE CbOther(t)
  <2>1. SharedOK'
    BY <1>3 DEF CbOther, SharedOK, shared
  <2>2. LocalsOK'
    BY <1>3, GotoTyped, MeTyped
    DEF CbOther, Labels, At, InPlace, CloseOnly, ClearLabels
  <2> QED BY <2>1, <2>2
<1>4. CASE CbCreate(t)
  <2>1. SharedOK'
    BY <1>4, MeTyped DEF CbCreate, SharedOK, SelfType, Handles, WantedKind, At
  <2>2. LocalsOK'
    BY <1>4, GotoTyped, MeTyped
    DEF CbCreate, Steps, Labels, At, InPlace, CloseOnly, ClearLabels
  <2> QED BY <2>1, <2>2
<1>5. CASE CbSetUserFn(t)
  <2>1. SharedOK'
    BY <1>5 DEF CbSetUserFn, SharedOK, shared
  <2>2. LocalsOK'
    BY <1>5, GotoTyped, ReturnTyped, MeTyped
    DEF CbSetUserFn, Labels, At, InPlace, CloseOnly, ClearLabels
  <2> QED BY <2>1, <2>2
<1>6. CASE SetCbEnter(t)
  <2>1. SharedOK'
    BY <1>6 DEF SetCbEnter, SharedOK, Acquire
  <2>2. LocalsOK'
    <3> DEFINE locals == [frame[t] EXCEPT !.cb = self.deltaCb]
    <3>1. ~At(t, "idle")
      BY <1>6 DEF SetCbEnter, At
    <3>2. locals \in FrameType /\ locals.kind = frame[t].kind /\ locals.n = frame[t].n
      BY <3>1, MeTyped, SetCb DEF SharedOK, SelfType, EngineType
    <3> HIDE DEF locals
    <3>3. Jump(t, "in_set_cb", locals) => LocalsOK'
      BY <3>1, <3>2, <1>6, MeTyped, JumpTyped
      DEF SetCbEnter, Labels, At, Kind, InPlace, CloseOnly, ClearLabels
    <3> QED
      BY <1>6, <3>1, <3>3, GotoTyped, ReturnTyped, MeTyped
      DEF SetCbEnter, locals, Labels, At, InPlace, CloseOnly, ClearLabels
  <2> QED BY <2>1, <2>2
<1>7. CASE SetCbReturn(t)
  <2>1. SharedOK'
    BY <1>7, MeTyped DEF SetCbReturn, SharedOK, Release, EngineType, FrameType, At
  <2>2. LocalsOK'
    BY <1>7, GotoTyped, ReturnTyped, MeTyped
    DEF SetCbReturn, Steps, Labels, At, InPlace, CloseOnly, ClearLabels
  <2> QED BY <2>1, <2>2
<1> QED
  BY <1>1, <1>2, <1>3, <1>4, <1>5, <1>6, <1>7 DEF Register

(* _clear_delta_cb. *)
LEMMA ClearDeltaCbTyped ==
  ASSUME SharedOK, LocalsOK, NEW t \in Threads, ClearDeltaCb(t)
  PROVE  SharedOK' /\ LocalsOK'
<1>1. CASE Clear(t)
  <2>1. SharedOK'
    BY <1>1 DEF Clear, SharedOK, shared
  <2>2. LocalsOK'
    <3> DEFINE locals == [frame[t] EXCEPT !.cb = self.deltaCb]
    <3>1. ~At(t, "idle")
      BY <1>1 DEF Clear, At
    <3>2. locals \in FrameType /\ locals.kind = frame[t].kind /\ locals.n = frame[t].n
      BY <3>1, MeTyped, SetCb DEF SharedOK, SelfType, EngineType
    <3> HIDE DEF locals
    <3>3. Jump(t, "clear_cb", locals) => LocalsOK'
      BY <3>1, <3>2, <1>1, MeTyped, JumpTyped
      DEF Clear, Labels, At, Kind, InPlace, CloseOnly, ClearLabels
    <3> QED
      BY <1>1, <3>1, <3>3, GotoTyped, ReturnTyped, MeTyped
      DEF Clear, locals, Labels, At, InPlace, CloseOnly, ClearLabels, AfterClear, Steps, Settings
  <2> QED BY <2>1, <2>2
<1>2. CASE ClearEnter(t)
  <2>1. SharedOK'
    BY <1>2 DEF ClearEnter, SharedOK, Acquire
  <2>2. LocalsOK'
    <3> DEFINE locals == [frame[t] EXCEPT !.ok = FALSE]
    <3>1. ~At(t, "idle")
      BY <1>2 DEF ClearEnter, At
    <3>2. locals \in FrameType /\ locals.kind = frame[t].kind /\ locals.n = frame[t].n
      BY <3>1, MeTyped, SetOk DEF SharedOK, SelfType, EngineType
    <3> HIDE DEF locals
    <3>3. Jump(t, "clear_drop", locals) => LocalsOK'
      BY <3>1, <3>2, <1>2, MeTyped, JumpTyped
      DEF ClearEnter, Labels, At, Kind, InPlace, CloseOnly, ClearLabels
    <3> QED
      BY <1>2, <3>1, <3>3, GotoTyped, ReturnTyped, MeTyped
      DEF ClearEnter, locals, Labels, At, InPlace, CloseOnly, ClearLabels
  <2> QED BY <2>1, <2>2
<1>3. CASE ClearReturn(t)
  <2>1. SharedOK'
    BY <1>3 DEF ClearReturn, SharedOK, Release, EngineType
  <2>2. LocalsOK'
    <3> DEFINE locals == [frame[t] EXCEPT !.ok = TRUE]
    <3>1. ~At(t, "idle")
      BY <1>3 DEF ClearReturn, At
    <3>2. locals \in FrameType /\ locals.kind = frame[t].kind /\ locals.n = frame[t].n
      BY <3>1, MeTyped, SetOk DEF SharedOK, SelfType, EngineType
    <3> HIDE DEF locals
    <3>3. Jump(t, "clear_drop", locals) => LocalsOK'
      BY <3>1, <3>2, <1>3, MeTyped, JumpTyped
      DEF ClearReturn, Labels, At, Kind, InPlace, CloseOnly, ClearLabels
    <3> QED
      BY <1>3, <3>1, <3>3, GotoTyped, ReturnTyped, MeTyped
      DEF ClearReturn, locals, Labels, At, InPlace, CloseOnly, ClearLabels
  <2> QED BY <2>1, <2>2
<1>4. CASE ClearDrop(t)
  <2>1. SharedOK'
    BY <1>4 DEF ClearDrop, SharedOK
  <2>2. LocalsOK'
    BY <1>4, GotoTyped, MeTyped
    DEF ClearDrop, Labels, At, InPlace, CloseOnly, ClearLabels
  <2> QED BY <2>1, <2>2
<1>5. CASE ClearNull(t)
  <2>1. SharedOK'
    BY <1>5 DEF ClearNull, SharedOK, SelfType
  <2>2. LocalsOK'
    BY <1>5, GotoTyped, ReturnTyped, MeTyped
    DEF ClearNull, AfterClear, Steps, Settings, Labels, At, InPlace, CloseOnly, ClearLabels
  <2> QED BY <2>1, <2>2
<1> QED
  BY <1>1, <1>2, <1>3, <1>4, <1>5 DEF ClearDeltaCb

(* The engine after an evaluation. *)
LEMMA EvaluatedTyped ==
  ASSUME SharedOK
  PROVE  Evaluated \in EngineType /\ Evaluated.state = engine.state
BY DEF SharedOK, EngineType, Evaluated

(* step and step_typed. *)
LEMMA StepTyped ==
  ASSUME SharedOK, LocalsOK, NEW t \in Threads, Step(t)
  PROVE  SharedOK' /\ LocalsOK'
<1>1. CASE StepEnter(t)
  <2>1. SharedOK'
    BY <1>1 DEF StepEnter, SharedOK, EnterEngine, Acquire
  <2>2. LocalsOK'
    BY <1>1, GotoTyped, ReturnTyped, MeTyped
    DEF StepEnter, EnterEngine, Labels, At, InPlace, CloseOnly, ClearLabels
  <2> QED BY <2>1, <2>2
<1>2. CASE StepReturn(t)
  <2>1. SharedOK'
    <3>1. Evaluated \in EngineType
      BY EvaluatedTyped
    <3>2. Deliver(engine.staged) \in [slots : SUBSET Ids, queue : [Ids -> SUBSET Ids]]
      BY DEF SharedOK, EngineType, Deliver
    <3>3. engine' \in EngineType /\ registry' \in [slots : SUBSET Ids, queue : [Ids -> SUBSET Ids]]
      BY <1>2, <3>1, <3>2 DEF StepReturn, SharedOK
    <3> QED
      BY <1>2, <3>3 DEF StepReturn, SharedOK, Release
  <2>2. LocalsOK'
    BY <1>2, GotoTyped, ReturnTyped, MeTyped
    DEF StepReturn, Labels, At, InPlace, CloseOnly, ClearLabels
  <2> QED BY <2>1, <2>2
<1>3. CASE DrainCopy(t)
  <2>1. SharedOK'
    BY <1>3 DEF DrainCopy, SharedOK, shared
  <2>2. LocalsOK'
    <3> DEFINE rows == registry.queue[self.deltaCb.token]
               locals == [frame[t] EXCEPT !.cb = self.deltaCb, !.events = rows]
    <3>1. ~At(t, "idle")
      BY <1>3 DEF DrainCopy, At
    <3>2. self.deltaCb # NoHandle => rows \in SUBSET Ids
      BY DEF SharedOK, SelfType, Handles
    <3>3. self.deltaCb # NoHandle =>
            locals \in FrameType /\ locals.kind = frame[t].kind /\ locals.n = frame[t].n
      <4>1. frame[t] \in FrameType /\ self.deltaCb \in Handles \cup {NoHandle}
        BY <3>1, MeTyped DEF SharedOK, SelfType
      <4> HIDE DEF rows
      <4> QED BY <3>2, <4>1 DEF FrameType
    <3>4. self.deltaCb # NoHandle /\ Jump(t, "drain_clear", locals) => LocalsOK'
      <4> HIDE DEF locals
      <4> QED BY <3>1, <3>3, <1>3, MeTyped, JumpTyped
              DEF DrainCopy, Labels, At, Kind, InPlace, CloseOnly, ClearLabels
    <3> QED
      BY <1>3, <3>4, ReturnTyped DEF DrainCopy
  <2> QED BY <2>1, <2>2
<1>4. CASE DrainClear(t)
  <2>1. SharedOK'
    <3> DEFINE delivery(r) == [row |-> r, to |-> Me(t)]
               new == {delivery(r) : r \in frame[t].events}
               DeliveryRecords == [row : Ids, to : Ids]
    <3>1. frame[t].events \subseteq Ids /\ Me(t) \in Ids
      BY <1>4, MeTyped DEF DrainClear, At, FrameType, SharedOK, EngineType, Evaluated
    <3>2. \A r \in frame[t].events : delivery(r) \in DeliveryRecords
      BY <3>1
    <3>3. new \subseteq DeliveryRecords
      <4> HIDE DEF delivery, DeliveryRecords
      <4> QED BY <3>2
    <3>4. returned' = returned \/ returned' = returned \cup new
      BY <1>4, Zenon DEF DrainClear
    <3>5. returned' \subseteq DeliveryRecords
      <4> HIDE DEF new, DeliveryRecords
      <4>1. returned \subseteq DeliveryRecords
        BY DEF SharedOK, DeliveryRecords
      <4> QED BY <3>3, <3>4, <4>1
    <3> QED
      BY <1>4, <3>5 DEF DrainClear, SharedOK
  <2>2. LocalsOK'
    BY <1>4, ReturnTyped DEF DrainClear
  <2> QED BY <2>1, <2>2
<1> QED
  BY <1>1, <1>2, <1>3, <1>4
  DEF Step

(* snapshot. *)
LEMMA SnapshotTyped ==
  ASSUME SharedOK, LocalsOK, NEW t \in Threads, Snapshot(t)
  PROVE  SharedOK' /\ LocalsOK'
<1>1. CASE SnapshotEnter(t)
  <2>1. SharedOK'
    BY <1>1 DEF SnapshotEnter, SharedOK, EnterEngine, Acquire
  <2>2. LocalsOK'
    BY <1>1, GotoTyped, ReturnTyped, MeTyped
    DEF SnapshotEnter, EnterEngine, Labels, At, InPlace, CloseOnly, ClearLabels
  <2> QED BY <2>1, <2>2
<1>2. CASE SnapshotReturn(t)
  <2>1. SharedOK'
    <3> DEFINE delivery(r) == [row |-> r, to |-> Me(t)]
               new == {delivery(r) : r \in Evaluated.evaluated}
               DeliveryRecords == [row : Ids, to : Ids]
    <3>1. Evaluated.evaluated \subseteq Ids /\ Me(t) \in Ids
      BY <1>2, MeTyped DEF SnapshotReturn, At, FrameType, SharedOK, EngineType, Evaluated
    <3>2. \A r \in Evaluated.evaluated : delivery(r) \in DeliveryRecords
      BY <3>1
    <3>3. new \subseteq DeliveryRecords
      <4> HIDE DEF delivery, DeliveryRecords
      <4> QED BY <3>2
    <3>4. returned' = returned \/ returned' = returned \cup new
      BY <1>2, Zenon DEF SnapshotReturn
    <3>5. returned' \subseteq DeliveryRecords
      <4> HIDE DEF new, DeliveryRecords
      <4>1. returned \subseteq DeliveryRecords
        BY DEF SharedOK, DeliveryRecords
      <4> QED BY <3>3, <3>4, <4>1
    <3> QED
      BY <1>2, <3>5, EvaluatedTyped DEF SnapshotReturn, SharedOK, Release
  <2>2. LocalsOK'
    BY <1>2, ReturnTyped DEF SnapshotReturn
  <2> QED BY <2>1, <2>2
<1> QED
  BY <1>1, <1>2
  DEF Snapshot

(* make_compound. *)
LEMMA MakeCompoundTyped ==
  ASSUME SharedOK, LocalsOK, NEW t \in Threads, MakeCompound(t)
  PROVE  SharedOK' /\ LocalsOK'
<1>1. CASE CaptureHandle(t)
  <2>1. SharedOK'
    BY <1>1 DEF CaptureHandle, SharedOK, shared
  <2>2. LocalsOK'
    <3> DEFINE locals == [frame[t] EXCEPT !.ok = self.handle]
    <3>1. ~At(t, "idle")
      BY <1>1 DEF CaptureHandle, At
    <3>2. locals \in FrameType /\ locals.kind = frame[t].kind /\ locals.n = frame[t].n
      BY <3>1, MeTyped, SetOk DEF SharedOK, SelfType
    <3> QED
      BY <1>1, <3>1, <3>2, MeTyped, JumpTyped
      DEF CaptureHandle, Labels, At, Kind, InPlace, CloseOnly, ClearLabels
  <2> QED BY <2>1, <2>2
<1>2. CASE MakeEnter(t)
  <2>1. SharedOK'
    BY <1>2 DEF MakeEnter, SharedOK, Acquire
  <2>2. LocalsOK'
    BY <1>2, GotoTyped, ReturnTyped, MeTyped
    DEF MakeEnter, Labels, At, InPlace, CloseOnly, ClearLabels
  <2> QED BY <2>1, <2>2
<1>3. CASE MakeReturn(t)
  <2>1. SharedOK'
    BY <1>3 DEF MakeReturn, SharedOK, Release
  <2>2. LocalsOK'
    BY <1>3, GotoTyped, ReturnTyped, MeTyped
    DEF MakeReturn, Labels, At, InPlace, CloseOnly, ClearLabels
  <2> QED BY <2>1, <2>2
<1>4. CASE MakeAppend(t)
  <2>1. SharedOK'
    BY <1>4, MeTyped DEF MakeAppend, SharedOK, SelfType, At
  <2>2. LocalsOK'
    BY <1>4, ReturnTyped DEF MakeAppend
  <2> QED BY <2>1, <2>2
<1> QED
  BY <1>1, <1>2, <1>3, <1>4
  DEF MakeCompound

(* close. *)
LEMMA CloseTyped ==
  ASSUME SharedOK, LocalsOK, NEW t \in Threads, Close(t)
  PROVE  SharedOK' /\ LocalsOK'
<1>1. CASE CloseTest(t)
  <2>1. SharedOK'
    BY <1>1 DEF CloseTest, SharedOK, shared
  <2>2. LocalsOK'
    BY <1>1, GotoTyped, ReturnTyped, MeTyped
    DEF CloseTest, Labels, At, InPlace, CloseOnly, ClearLabels
  <2> QED BY <2>1, <2>2
<1>2. CASE CloseLock(t)
  <2>1. SharedOK'
    <3>1. self' \in SelfType
      BY <1>2 DEF CloseLock, SharedOK, SelfType
    <3>2. lock' \in [owner : Threads \cup {NoThread}, depth : Nat] /\ (~Locking => lock'.depth = 0)
      BY <1>2 DEF CloseLock, SharedOK, Acquire
    <3> QED
      BY <1>2, <3>1, <3>2 DEF CloseLock, SharedOK
  <2>2. LocalsOK'
    BY <1>2, GotoTyped, MeTyped
    DEF CloseLock, Labels, At, InPlace, CloseOnly, ClearLabels
  <2> QED BY <2>1, <2>2
<1>3. CASE CloseCb(t)
  <2>1. SharedOK'
    BY <1>3 DEF CloseCb, SharedOK, shared
  <2>2. LocalsOK'
    BY <1>3, GotoTyped, MeTyped
    DEF CloseCb, Labels, At, InPlace, CloseOnly, ClearLabels
  <2> QED BY <2>1, <2>2
<1>4. CASE CloseExcept(t)
  <2>1. SharedOK'
    BY <1>4 DEF CloseExcept, SharedOK, shared
  <2>2. LocalsOK'
    BY <1>4, GotoTyped, MeTyped
    DEF CloseExcept, Labels, At, InPlace, CloseOnly, ClearLabels
  <2> QED BY <2>1, <2>2
<1>5. CASE CloseExceptDrop(t)
  <2>1. SharedOK'
    BY <1>5 DEF CloseExceptDrop, SharedOK, SelfType, Release
  <2>2. LocalsOK'
    BY <1>5, GotoTyped, ReturnTyped, MeTyped
    DEF CloseExceptDrop, Labels, At, InPlace, CloseOnly, ClearLabels
  <2> QED BY <2>1, <2>2
<1>6. CASE CloseHandle(t)
  <2>1. SharedOK'
    BY <1>6 DEF CloseHandle, SharedOK, shared
  <2>2. LocalsOK'
    BY <1>6, GotoTyped, MeTyped
    DEF CloseHandle, Labels, At, InPlace, CloseOnly, ClearLabels
  <2> QED BY <2>1, <2>2
<1>7. CASE CloseReturn(t)
  <2>1. SharedOK'
    BY <1>7 DEF CloseReturn, SharedOK, EngineType
  <2>2. LocalsOK'
    BY <1>7, GotoTyped, MeTyped
    DEF CloseReturn, Labels, At, InPlace, CloseOnly, ClearLabels
  <2> QED BY <2>1, <2>2
<1>8. CASE CloseFinish(t)
  <2>1. SharedOK'
    <3>1. self' \in SelfType
      BY <1>8 DEF CloseFinish, SharedOK, SelfType
    <3>2. lock' \in [owner : Threads \cup {NoThread}, depth : Nat] /\ (~Locking => lock'.depth = 0)
      BY <1>8 DEF CloseFinish, SharedOK, Release
    <3> QED
      BY <1>8, <3>1, <3>2 DEF CloseFinish, SharedOK
  <2>2. LocalsOK'
    BY <1>8, ReturnTyped DEF CloseFinish
  <2> QED BY <2>1, <2>2
<1> QED
  BY <1>1, <1>2, <1>3, <1>4, <1>5, <1>6, <1>7, <1>8
  DEF Close

(* A call begins: its kind is one of Calls[t], its number is within bound. *)
LEMMA BeginTyped ==
  ASSUME SharedOK, LocalsOK, NEW t \in Threads, Begin(t)
  PROVE  SharedOK' /\ LocalsOK'
<1>1. SharedOK'
  BY DEF Begin, SharedOK, shared
<1>2. LocalsOK'
  <2> DEFINE first(kind) == CASE kind = "make_compound" -> "capture"
                              [] kind = "close" -> "close_test"
                              [] OTHER -> "mode"
             blank(kind) == Blank(kind, frame[t].n + 1)
  <2>1. PICK kind \in Calls[t] : Jump(t, first(kind), blank(kind))
    BY DEF Begin
  <2>2. kind \in Kinds
    BY ConstantsAssumption
  <2>3. blank(kind) \in FrameType /\ blank(kind).kind = kind /\ blank(kind).n \in 1..MaxCalls
    BY <2>2, ConstantsAssumption DEF Blank, FrameType, Begin, LocalsOK
  <2>4. first(kind) \in Labels /\ InPlace(kind, first(kind))
    BY DEF Labels, InPlace, CloseOnly
  <2> QED
    <3> HIDE DEF first, blank
    <3> QED BY <2>1, <2>3, <2>4, JumpTyped
<1> QED
  BY <1>1, <1>2

LEMMA InitTyped == Init => SharedOK /\ LocalsOK
<1> SUFFICES ASSUME Init PROVE SharedOK /\ LocalsOK
  OBVIOUS
<1>1. SharedOK
  BY DEF Init, SharedOK, EngineType, SelfType
<1>2. LocalsOK
  BY ConstantsAssumption
  DEF Init, LocalsOK, CallNumbered, KindsInPlace, At, Kind, Blank, FrameType, Labels, CloseOnly
<1> QED
  BY <1>1, <1>2

LEMMA NextTyped ==
  ASSUME SharedOK, LocalsOK, [Next]_vars
  PROVE  SharedOK' /\ LocalsOK'
<1>1. ASSUME NEW t \in Threads, Run(t)
      PROVE  SharedOK' /\ LocalsOK'
  BY <1>1, ModeTyped, IudTyped, RegisterTyped, ClearDeltaCbTyped, StepTyped, SnapshotTyped,
     MakeCompoundTyped, CloseTyped DEF Run
<1>2. CASE UNCHANGED vars
  BY <1>2 DEF vars, shared, SharedOK, LocalsOK, CallNumbered, KindsInPlace, At, Kind
<1> QED
  BY <1>1, <1>2, BeginTyped DEF Next, Finished

LEMMA AlwaysTyped == Spec => [](SharedOK /\ LocalsOK)
BY InitTyped, NextTyped, PTL DEF Spec

-----------------------------------------------------------------------------
(* How often a thread at this label of a call of this kind has taken the   *)
(* lock: Depth(t), as a function of where t is.                            *)
DepthAt(kind, label) ==
  (IF kind = "close" /\ label \notin {"idle", "close_test", "close_lock"} THEN 1 ELSE 0)
  + (IF label \in EngineLabels /\ label # "in_close" THEN 1 ELSE 0)

LEMMA DepthPlace ==
  /\ \A t \in Threads : Depth(t) = DepthAt(Kind(t), pc[t])
  /\ \A t \in Threads : Depth(t)' = DepthAt(Kind(t)', pc[t]')
  /\ \A kind, label : DepthAt(kind, label) \in 0..2
BY DEF Depth, DepthAt, Closing, InEngine, Kind

(* A step of t to this label, that keeps the engine and its handle. *)
Moves(t, label) ==
  /\ LocalsOK /\ LocalsOK'
  /\ \E locals : Jump(t, label, locals) /\ locals.kind = Kind(t)
  /\ engine'.state = engine.state /\ self'.handle = self.handle
  /\ pc[t] # "close_finish"

(* What LockedInv says of the others stays as it is. *)
LEMMA OthersStay ==
  ASSUME NEW t \in Threads, NEW label, NEW locals, LocalsOK, Jump(t, label, locals)
  PROVE  /\ Depth(t)' = DepthAt(locals.kind, label)
         /\ \A u \in Threads \ {t} : Depth(u)' = Depth(u) /\ pc'[u] = pc[u]
BY DepthPlace DEF Jump, LocalsOK, Kind

LEMMA MovesDepth ==
  ASSUME NEW t \in Threads, NEW label, Moves(t, label)
  PROVE  /\ Depth(t)' = DepthAt(Kind(t), label)
         /\ \A u \in Threads \ {t} : Depth(u)' = Depth(u) /\ pc'[u] = pc[u]
BY OthersStay DEF Moves

(* The engine that is freed behind a handle is freed by close_finish. *)
LEMMA MovesFreed ==
  ASSUME LockedInv, NEW t \in Threads, NEW label, Moves(t, label)
  PROVE  FreedByClose'
<1> SUFFICES ASSUME engine.state = "freed", self.handle
             PROVE  \E u \in Threads : pc'[u] = "close_finish"
  BY DEF FreedByClose, Moves, At
<1>1. PICK u \in Threads : pc[u] = "close_finish"
  BY DEF LockedInv, FreedByClose, At
<1> QED
  BY <1>1, MovesDepth DEF Moves

(* A thread that neither takes nor drops the lock. *)
LEMMA KeepsLock ==
  ASSUME LockedInv, NEW t \in Threads, NEW label, Moves(t, label),
         lock' = lock, DepthAt(Kind(t), label) = DepthAt(Kind(t), pc[t])
  PROVE  LockedInv'
<1>1. \A u \in Threads : Depth(u)' = Depth(u)
  BY MovesDepth, DepthPlace
<1>2. OwnsLock' /\ LockBalanced'
  BY <1>1 DEF LockedInv, OwnsLock, LockBalanced
<1> QED
  BY <1>2, MovesFreed DEF LockedInv

(* An RLock that lets t in counts how often t has taken it already, and    *)
(* nobody else holds it.                                                   *)
LEMMA FreeLock ==
  ASSUME SharedOK, LockedInv, Locking, NEW t \in Threads, LockFree(t)
  PROVE  lock.depth = Depth(t) /\ \A u \in Threads \ {t} : Depth(u) = 0
<1>1. lock.depth > 0 => lock.owner = t
  BY ConstantsAssumption DEF LockFree, LockedInv, LockBalanced
<1>2. lock.depth \in Nat /\ \A u \in Threads : Depth(u) \in 0..2
  BY DepthPlace DEF SharedOK
<1>3. \A u \in Threads : Depth(u) > 0 => lock.owner = u /\ lock.depth = Depth(u)
  BY DEF LockedInv, OwnsLock
<1>4. lock.depth > 0 => lock.depth = Depth(t)
  BY <1>1 DEF LockedInv, LockBalanced
<1> QED
  BY <1>1, <1>2, <1>3, <1>4

(* A thread that takes the lock. *)
LEMMA TakesLock ==
  ASSUME SharedOK, LockedInv, Locking, NEW t \in Threads, NEW label, Moves(t, label),
         LockFree(t), Acquire(t), DepthAt(Kind(t), label) = DepthAt(Kind(t), pc[t]) + 1
  PROVE  LockedInv'
<1>1. Depth(t)' = lock.depth + 1 /\ \A u \in Threads \ {t} : Depth(u)' = 0
  BY FreeLock, MovesDepth, DepthPlace
<1>2. lock' = [owner |-> t, depth |-> lock.depth + 1]
  BY DEF Acquire
<1>3. OwnsLock' /\ LockBalanced'
  BY <1>1, <1>2 DEF OwnsLock, LockBalanced
<1> QED
  BY <1>3, MovesFreed DEF LockedInv

(* A thread that drops the lock: it holds it, and once less afterwards. *)
LEMMA OwnerDrops ==
  ASSUME LockedInv, NEW t \in Threads, Release(t), Depth(t) > 0, Depth(t)' = Depth(t) - 1,
         \A u \in Threads \ {t} : Depth(u)' = Depth(u)
  PROVE  OwnsLock' /\ LockBalanced'
<1>1. lock = [owner |-> t, depth |-> Depth(t)]
  BY DEF LockedInv, OwnsLock
<1>2. \A u \in Threads \ {t} : Depth(u)' = 0
  <2>1. \A u \in Threads \ {t} : ~(Depth(u) > 0)
    BY <1>1 DEF LockedInv, OwnsLock
  <2>2. \A u \in Threads : Depth(u) \in 0..2
    BY DepthPlace
  <2> QED
    BY <2>1, <2>2
<1>3. Depth(t) \in 0..2
  BY DepthPlace
<1>4. CASE Depth(t) = 2
  <2>1. lock' = [owner |-> t, depth |-> 1]
    BY <1>1, <1>4 DEF Release
  <2> QED
    BY <1>2, <1>4, <2>1 DEF OwnsLock, LockBalanced
<1>5. CASE Depth(t) = 1
  <2>1. lock' = [owner |-> NoThread, depth |-> 0]
    BY <1>1, <1>5 DEF Release
  <2> QED
    BY <1>2, <1>5, <2>1 DEF OwnsLock, LockBalanced
<1> QED
  BY <1>3, <1>4, <1>5

LEMMA DropsLock ==
  ASSUME LockedInv, NEW t \in Threads, NEW label, Moves(t, label),
         Release(t), DepthAt(Kind(t), pc[t]) = DepthAt(Kind(t), label) + 1
  PROVE  LockedInv'
<1>1. Depth(t) > 0 /\ Depth(t)' = Depth(t) - 1
  BY MovesDepth, DepthPlace
<1>2. OwnsLock' /\ LockBalanced'
  BY <1>1, MovesDepth, OwnerDrops
<1> QED
  BY <1>2, MovesFreed DEF LockedInv

(* The steps of a call are moves. *)
LEMMA JumpMoves ==
  ASSUME LocalsOK, LocalsOK', NEW t \in Threads, NEW label, NEW locals, Jump(t, label, locals),
         locals.kind = Kind(t), pc[t] # "close_finish",
         engine'.state = engine.state, self'.handle = self.handle
  PROVE  Moves(t, label)
BY DEF Moves

LEMMA GotoMoves ==
  ASSUME LocalsOK, LocalsOK', NEW t \in Threads, NEW label, Goto(t, label),
         pc[t] # "close_finish", engine'.state = engine.state, self'.handle = self.handle
  PROVE  Moves(t, label)
BY DEF Moves, Goto, Kind

LEMMA ReturnMoves ==
  ASSUME LocalsOK, LocalsOK', NEW t \in Threads, Return(t),
         pc[t] # "close_finish", engine'.state = engine.state, self'.handle = self.handle
  PROVE  Moves(t, "idle")
BY DEF Moves, Return, Blank, Kind

(* _require_mode. *)
LEMMA ModeLocked ==
  ASSUME SharedOK, LocalsOK, LocalsOK', LockedInv, Locking, NEW t \in Threads, Mode(t)
  PROVE  LockedInv'
<1> USE GotoMoves, ReturnMoves
    DEF At, DepthAt, EngineLabels, CloseOnly, ClearLabels, InPlace, shared, SharedOK, SelfType,
        EngineType
<1>0. ~At(t, "idle") => InPlace(Kind(t), pc[t])
  BY MeTyped
<1>1. CASE TestMode(t)
  BY <1>0, <1>1, KeepsLock DEF TestMode, AfterMode, WantedMode
<1>2. CASE SetMode(t)
  BY <1>0, <1>2, KeepsLock DEF SetMode, AfterMode, WantedMode
<1> QED
  BY <1>1, <1>2
  DEF Mode

(* insert and remove. *)
LEMMA IudLocked ==
  ASSUME SharedOK, LocalsOK, LocalsOK', LockedInv, Locking, NEW t \in Threads, Iud(t)
  PROVE  LockedInv'
<1> USE GotoMoves, ReturnMoves
    DEF At, DepthAt, EngineLabels, CloseOnly, ClearLabels, InPlace, shared, SharedOK, SelfType,
        EngineType
<1>0. ~At(t, "idle") => InPlace(Kind(t), pc[t])
  BY MeTyped
<1>1. CASE BuildRows(t)
  BY <1>0, <1>1, KeepsLock DEF BuildRows
<1>2. CASE IudEnter(t)
  BY <1>0, <1>2, TakesLock, KeepsLock DEF IudEnter, EnterEngine
<1>3. CASE IudReturn(t)
  BY <1>0, <1>3, DropsLock DEF IudReturn
<1> QED
  BY <1>1, <1>2, <1>3
  DEF Iud

(* set_*delta_callback and the lazy registration of step. *)
LEMMA RegisterLocked ==
  ASSUME SharedOK, LocalsOK, LocalsOK', LockedInv, Locking, NEW t \in Threads, Register(t)
  PROVE  LockedInv'
<1> USE GotoMoves, ReturnMoves
    DEF At, DepthAt, EngineLabels, CloseOnly, ClearLabels, InPlace, shared, SharedOK, SelfType,
        EngineType
<1>0. ~At(t, "idle") => InPlace(Kind(t), pc[t])
  BY MeTyped
<1>1. CASE CbTest(t)
  BY <1>0, <1>1, KeepsLock DEF CbTest
<1>2. CASE CbKind(t)
  BY <1>0, <1>2, KeepsLock DEF CbKind, Steps
<1>3. CASE CbOther(t)
  BY <1>0, <1>3, KeepsLock DEF CbOther
<1>4. CASE CbCreate(t)
  BY <1>0, <1>4, KeepsLock DEF CbCreate, Steps
<1>5. CASE CbSetUserFn(t)
  BY <1>0, <1>5, KeepsLock DEF CbSetUserFn
<1>6. CASE SetCbEnter(t)
  <2> DEFINE locals == [frame[t] EXCEPT !.cb = self.deltaCb]
  <2>1. locals.kind = Kind(t)
    BY MeTyped, <1>6 DEF SetCbEnter, FrameType, Kind
  <2> HIDE DEF locals
  <2>2. ASSUME Jump(t, "in_set_cb", locals)
        PROVE  Moves(t, "in_set_cb")
    BY <1>6, <2>1, <2>2, JumpMoves DEF SetCbEnter
  <2> QED
    BY <1>0, <1>6, <2>2, TakesLock, KeepsLock DEF SetCbEnter, locals
<1>7. CASE SetCbReturn(t)
  BY <1>0, <1>7, DropsLock DEF SetCbReturn, Steps
<1> QED
  BY <1>1, <1>2, <1>3, <1>4, <1>5, <1>6, <1>7
  DEF Register

(* _clear_delta_cb: the lock is taken once more inside close(). *)
LEMMA ClearDeltaCbLocked ==
  ASSUME SharedOK, LocalsOK, LocalsOK', LockedInv, Locking, NEW t \in Threads, ClearDeltaCb(t)
  PROVE  LockedInv'
<1> USE GotoMoves, ReturnMoves
    DEF At, DepthAt, EngineLabels, CloseOnly, ClearLabels, InPlace, shared, SharedOK, SelfType,
        EngineType
<1>0. ~At(t, "idle") => InPlace(Kind(t), pc[t])
  BY MeTyped
<1>1. CASE Clear(t)
  <2> DEFINE locals == [frame[t] EXCEPT !.cb = self.deltaCb]
  <2>1. locals.kind = Kind(t)
    BY MeTyped, <1>1 DEF Clear, FrameType, Kind
  <2> HIDE DEF locals
  <2>2. ASSUME Jump(t, "clear_cb", locals)
        PROVE  Moves(t, "clear_cb")
    BY <1>1, <2>1, <2>2, JumpMoves DEF Clear
  <2> QED
    BY <1>0, <1>1, <2>2, KeepsLock DEF Clear, locals, AfterClear, Steps, Settings
<1>2. CASE ClearEnter(t)
  <2> DEFINE locals == [frame[t] EXCEPT !.ok = FALSE]
  <2>1. locals.kind = Kind(t)
    BY MeTyped, <1>2 DEF ClearEnter, FrameType, Kind
  <2> HIDE DEF locals
  <2>2. ASSUME Jump(t, "clear_drop", locals)
        PROVE  Moves(t, "clear_drop")
    BY <1>2, <2>1, <2>2, JumpMoves DEF ClearEnter
  <2> QED
    BY <1>0, <1>2, <2>2, TakesLock, KeepsLock DEF ClearEnter, locals
<1>3. CASE ClearReturn(t)
  <2> DEFINE locals == [frame[t] EXCEPT !.ok = TRUE]
  <2>1. locals.kind = Kind(t)
    BY MeTyped, <1>3 DEF ClearReturn, FrameType, Kind
  <2> HIDE DEF locals
  <2>2. ASSUME Jump(t, "clear_drop", locals)
        PROVE  Moves(t, "clear_drop")
    BY <1>3, <2>1, <2>2, JumpMoves DEF ClearReturn
  <2> QED
    BY <1>0, <1>3, <2>2, DropsLock DEF ClearReturn, locals
<1>4. CASE ClearDrop(t)
  BY <1>0, <1>4, KeepsLock DEF ClearDrop
<1>5. CASE ClearNull(t)
  BY <1>0, <1>5, KeepsLock DEF ClearNull, AfterClear, Steps, Settings
<1> QED
  BY <1>1, <1>2, <1>3, <1>4, <1>5
  DEF ClearDeltaCb

(* step and step_typed. *)
LEMMA StepLocked ==
  ASSUME SharedOK, LocalsOK, LocalsOK', LockedInv, Locking, NEW t \in Threads, Step(t)
  PROVE  LockedInv'
<1> USE GotoMoves, ReturnMoves
    DEF At, DepthAt, EngineLabels, CloseOnly, ClearLabels, InPlace, shared, SharedOK, SelfType,
        EngineType
<1>0. ~At(t, "idle") => InPlace(Kind(t), pc[t])
  BY MeTyped
<1>1. CASE StepEnter(t)
  BY <1>0, <1>1, TakesLock, KeepsLock DEF StepEnter, EnterEngine
<1>2. CASE StepReturn(t)
  <2>1. engine'.state = engine.state
    BY <1>2 DEF StepReturn, Evaluated
  <2>2. \E label \in {"idle", "drain"} : Moves(t, label)
    BY <1>2, <2>1 DEF StepReturn
  <2> QED
    BY <1>0, <1>2, <2>2, DropsLock DEF StepReturn
<1>3. CASE DrainCopy(t)
  <2> DEFINE locals == [frame[t] EXCEPT !.cb = self.deltaCb,
                                        !.events = registry.queue[self.deltaCb.token]]
  <2>1. locals.kind = Kind(t)
    BY MeTyped, <1>3 DEF DrainCopy, FrameType, Kind
  <2> HIDE DEF locals
  <2>2. ASSUME Jump(t, "drain_clear", locals)
        PROVE  Moves(t, "drain_clear")
    BY <1>3, <2>1, <2>2, JumpMoves DEF DrainCopy
  <2> QED
    BY <1>0, <1>3, <2>2, KeepsLock DEF DrainCopy, locals
<1>4. CASE DrainClear(t)
  BY <1>0, <1>4, KeepsLock DEF DrainClear
<1> QED
  BY <1>1, <1>2, <1>3, <1>4
  DEF Step

(* snapshot. *)
LEMMA SnapshotLocked ==
  ASSUME SharedOK, LocalsOK, LocalsOK', LockedInv, Locking, NEW t \in Threads, Snapshot(t)
  PROVE  LockedInv'
<1> USE GotoMoves, ReturnMoves
    DEF At, DepthAt, EngineLabels, CloseOnly, ClearLabels, InPlace, shared, SharedOK, SelfType,
        EngineType
<1>0. ~At(t, "idle") => InPlace(Kind(t), pc[t])
  BY MeTyped
<1>1. CASE SnapshotEnter(t)
  BY <1>0, <1>1, TakesLock, KeepsLock DEF SnapshotEnter, EnterEngine
<1>2. CASE SnapshotReturn(t)
  BY <1>0, <1>2, DropsLock DEF SnapshotReturn, Evaluated
<1> QED
  BY <1>1, <1>2
  DEF Snapshot

(* make_compound: a stale handle, but under the lock. *)
LEMMA MakeCompoundLocked ==
  ASSUME SharedOK, LocalsOK, LocalsOK', LockedInv, Locking, NEW t \in Threads, MakeCompound(t)
  PROVE  LockedInv'
<1> USE GotoMoves, ReturnMoves
    DEF At, DepthAt, EngineLabels, CloseOnly, ClearLabels, InPlace, shared, SharedOK, SelfType,
        EngineType
<1>0. ~At(t, "idle") => InPlace(Kind(t), pc[t])
  BY MeTyped
<1>1. CASE CaptureHandle(t)
  <2> DEFINE locals == [frame[t] EXCEPT !.ok = self.handle]
  <2>1. locals.kind = Kind(t)
    BY MeTyped, <1>1 DEF CaptureHandle, FrameType, Kind
  <2> HIDE DEF locals
  <2>2. ASSUME Jump(t, "make", locals)
        PROVE  Moves(t, "make")
    BY <1>1, <2>1, <2>2, JumpMoves DEF CaptureHandle
  <2> QED
    BY <1>0, <1>1, <2>2, KeepsLock DEF CaptureHandle, locals
<1>2. CASE MakeEnter(t)
  BY <1>0, <1>2, TakesLock, KeepsLock DEF MakeEnter
<1>3. CASE MakeReturn(t)
  BY <1>0, <1>3, DropsLock DEF MakeReturn
<1>4. CASE MakeAppend(t)
  BY <1>0, <1>4, KeepsLock DEF MakeAppend
<1> QED
  BY <1>1, <1>2, <1>3, <1>4
  DEF MakeCompound

(* close: only here is the engine freed, under the lock, and _handle nulled. *)
LEMMA CloseLocked ==
  ASSUME SharedOK, LocalsOK, LocalsOK', LockedInv, Locking, NEW t \in Threads, Close(t)
  PROVE  LockedInv'
<1> USE GotoMoves, ReturnMoves
    DEF At, DepthAt, EngineLabels, CloseOnly, ClearLabels, InPlace, shared, SharedOK, SelfType,
        EngineType
<1>0. ~At(t, "idle") => InPlace(Kind(t), pc[t])
  BY MeTyped
<1>1. CASE CloseTest(t)
  BY <1>0, <1>1, KeepsLock DEF CloseTest
<1>2. CASE CloseLock(t)
  BY <1>0, <1>2, TakesLock, KeepsLock DEF CloseLock
<1>3. CASE CloseCb(t)
  BY <1>0, <1>3, KeepsLock DEF CloseCb
<1>4. CASE CloseExcept(t)
  BY <1>0, <1>4, KeepsLock DEF CloseExcept
<1>5. CASE CloseExceptDrop(t)
  BY <1>0, <1>5, DropsLock, KeepsLock DEF CloseExceptDrop
<1>6. CASE CloseHandle(t)
  BY <1>0, <1>6, KeepsLock DEF CloseHandle
<1>7. CASE CloseReturn(t)
  <2>1. Depth(t)' = Depth(t) /\ \A u \in Threads \ {t} : Depth(u)' = Depth(u) /\ pc'[u] = pc[u]
    BY <1>0, <1>7, OthersStay, DepthPlace DEF CloseReturn, Goto, Kind
  <2>2. OwnsLock' /\ LockBalanced'
    BY <1>7, <2>1 DEF CloseReturn, LockedInv, OwnsLock, LockBalanced
  <2>3. pc'[t] = "close_finish"
    BY <1>7 DEF CloseReturn, Goto, Jump, LocalsOK
  <2> QED
    BY <2>2, <2>3 DEF LockedInv, FreedByClose
<1>8. CASE CloseFinish(t)
  <2>1. Depth(t) = 1 /\ Depth(t)' = 0
    BY <1>0, <1>8, OthersStay, DepthPlace DEF CloseFinish, Return, Blank, Kind
  <2>2. \A u \in Threads \ {t} : Depth(u)' = Depth(u)
    BY <1>8, OthersStay DEF CloseFinish, Return
  <2>3. OwnsLock' /\ LockBalanced'
    BY <1>8, <2>1, <2>2, OwnerDrops DEF CloseFinish
  <2>4. ~self'.handle
    BY <1>8 DEF CloseFinish
  <2> QED
    BY <2>3, <2>4 DEF LockedInv, FreedByClose
<1> QED
  BY <1>1, <1>2, <1>3, <1>4, <1>5, <1>6, <1>7, <1>8
  DEF Close

(* A call that begins has not taken the lock. *)
LEMMA BeginLocked ==
  ASSUME LocalsOK, LocalsOK', LockedInv, NEW t \in Threads, Begin(t)
  PROVE  LockedInv'
<1> DEFINE first(kind) == CASE kind = "make_compound" -> "capture"
                            [] kind = "close" -> "close_test"
                            [] OTHER -> "mode"
<1>1. PICK kind \in Calls[t] : Jump(t, first(kind), Blank(kind, frame[t].n + 1))
  BY DEF Begin
<1>2. Blank(kind, frame[t].n + 1).kind = kind
  BY DEF Blank
<1>3. Depth(t) = 0 /\ Depth(t)' = 0
  BY <1>1, <1>2, OthersStay, DepthPlace DEF Begin, At, DepthAt, EngineLabels
<1>4. pc[t] = "idle" /\ \A u \in Threads \ {t} : Depth(u)' = Depth(u) /\ pc'[u] = pc[u]
  BY <1>1, OthersStay DEF Begin, At
<1>5. OwnsLock' /\ LockBalanced'
  BY <1>3, <1>4 DEF Begin, shared, LockedInv, OwnsLock, LockBalanced
<1>6. FreedByClose'
  BY <1>4 DEF Begin, shared, LockedInv, FreedByClose, At
<1> QED
  BY <1>5, <1>6 DEF LockedInv

LEMMA InitLocked == Init => LockedInv
<1> SUFFICES ASSUME Init PROVE LockedInv
  OBVIOUS
<1>1. \A t \in Threads : Depth(t) = 0
  BY DepthPlace DEF Init, DepthAt, EngineLabels
<1>2. lock.depth = 0 /\ engine.state = "open"
  BY DEF Init
<1> QED
  BY <1>1, <1>2 DEF LockedInv, OwnsLock, LockBalanced, FreedByClose

LEMMA NextLocked ==
  ASSUME SharedOK, LocalsOK, LocalsOK', LockedInv, Locking, [Next]_vars
  PROVE  LockedInv'
<1>1. ASSUME NEW t \in Threads, Run(t)
      PROVE  LockedInv'
  BY <1>1, ModeLocked, IudLocked, RegisterLocked, ClearDeltaCbLocked, StepLocked, SnapshotLocked,
     MakeCompoundLocked, CloseLocked DEF Run
<1>2. CASE UNCHANGED vars
  BY <1>2 DEF vars, shared, LockedInv, OwnsLock, LockBalanced, FreedByClose, Depth, Closing,
              InEngine, Kind, At
<1> QED
  BY <1>1, <1>2, BeginLocked DEF Next, Finished

(* The inductive invariant, whatever the threads call: the lock is held by *)
(* whoever is inside a `with`, as often as it has entered one, also when   *)
(* close() clears the callback under the lock it holds; and between the    *)
(* engine's being freed and _handle's being NULL, close() holds it.        *)
THEOREM LockDiscipline == ASSUME Locking PROVE Spec => []LockedInv
<1>1. (SharedOK /\ LocalsOK) /\ (SharedOK /\ LocalsOK)' /\ LockedInv /\ [Next]_vars => LockedInv'
  BY NextLocked
<1> QED
  BY <1>1, InitLocked, AlwaysTyped, PTL DEF Spec

(* Type correctness, for every number of threads and calls, with the lock  *)
(* or without: the RLock is never taken a third time.                      *)
THEOREM TypeCorrect == Spec => []TypeOK
<1>1. SharedOK /\ LocalsOK /\ lock.depth \in 0..2 => TypeOK
  BY DEF SharedOK, LocalsOK, TypeOK
<1>2. CASE Locking
  <2>1. SharedOK /\ LocalsOK /\ LockedInv => lock.depth \in 0..2
    BY DepthPlace DEF SharedOK, LockedInv, LockBalanced
  <2> QED
    BY <1>1, <1>2, <2>1, AlwaysTyped, LockDiscipline, PTL
<1>3. CASE ~Locking
  <2>1. SharedOK => lock.depth \in 0..2
    BY <1>3 DEF SharedOK
  <2> QED
    BY <1>1, <2>1, AlwaysTyped, PTL
<1> QED
  BY <1>2, <1>3

(* session.py: "serialised through an internal RLock".  For every call,    *)
(* make_compound included, no two threads are inside the engine at once.   *)
THEOREM Serialised == ASSUME Locking PROVE Spec => []SingleCaller
<1>1. LocalsOK /\ LockedInv => SingleCaller
  <2> SUFFICES ASSUME LocalsOK, LockedInv, NEW t \in Threads, NEW u \in Threads,
                      InEngine(t), InEngine(u)
               PROVE  t = u
    BY DEF SingleCaller
  <2>1. Depth(t) > 0 /\ Depth(u) > 0
    BY DepthPlace DEF LocalsOK, KindsInPlace, CloseOnly, InEngine, DepthAt
  <2> QED
    BY <2>1 DEF LockedInv, OwnsLock
<1> QED
  BY <1>1, AlwaysTyped, LockDiscipline, PTL

-----------------------------------------------------------------------------
(* Every thread's calls read the handle under the lock; make_compound is   *)
(* the one that does not.                                                  *)
HandleUnderLock == \A t \in Threads : "make_compound" \notin Calls[t]

MakeLabels == {"capture", "make", "in_make", "make_append"}
NoCompounds == \A t \in Threads : pc[t] \notin MakeLabels

(* What a step of t may touch of what the contract sees: t's own place; the *)
(* engine's state only where wirelog_easy_close returns; and t enters the   *)
(* engine with a handle that is not NULL.                                   *)
Local(t) ==
  /\ \A u \in Threads \ {t} : pc'[u] = pc[u]
  /\ engine'.state = engine.state \/ (InEngine(t) /\ ~InEngine(t)')
  /\ ~InEngine(t) /\ InEngine(t)' => self.handle
  /\ pc[t] = "close_finish" => ~InEngine(t)'
  /\ ~(pc'[t] \in MakeLabels)

LEMMA JumpLocal ==
  ASSUME LocalsOK, NEW t \in Threads, NEW label, NEW locals, Jump(t, label, locals),
         label \notin MakeLabels, engine'.state = engine.state, pc[t] # "close_finish",
         label \in EngineLabels => self.handle
  PROVE  Local(t)
BY DEF Local, Jump, LocalsOK, InEngine

(* Every step of a thread whose calls are not make_compound is local. *)
LEMMA StepLocal ==
  ASSUME SharedOK, LocalsOK, NoCompounds, HandleUnderLock, NEW t \in Threads, Begin(t) \/ Run(t)
  PROVE  Local(t)
<1> USE JumpLocal DEF Goto, Return, shared, SharedOK, EngineType, MakeLabels, EngineLabels, At
<1>1. CASE Begin(t)
  BY <1>1 DEF Begin, HandleUnderLock
<1>2. CASE Mode(t)
  BY <1>2 DEF Mode, TestMode, SetMode, AfterMode
<1>3. CASE Iud(t)
  BY <1>3 DEF Iud, BuildRows, IudEnter, IudReturn, EnterEngine
<1>4. CASE Register(t)
  BY <1>4 DEF Register, CbTest, CbKind, CbOther, CbCreate, CbSetUserFn, SetCbEnter, SetCbReturn
<1>5. CASE ClearDeltaCb(t)
  BY <1>5 DEF ClearDeltaCb, Clear, ClearEnter, ClearReturn, ClearDrop, ClearNull, AfterClear
<1>6. CASE Step(t)
  BY <1>6, EvaluatedTyped DEF Step, StepEnter, StepReturn, DrainCopy, DrainClear, EnterEngine
<1>7. CASE Snapshot(t)
  BY <1>7, EvaluatedTyped DEF Snapshot, SnapshotEnter, SnapshotReturn, EnterEngine
<1>8. CASE MakeCompound(t)
  BY <1>8 DEF MakeCompound, CaptureHandle, MakeEnter, MakeReturn, MakeAppend, NoCompounds
<1>9. CASE Close(t)
  <2>1. CASE CloseReturn(t)
    BY <2>1 DEF CloseReturn, Local, Jump, LocalsOK, InEngine
  <2>2. CASE CloseFinish(t)
    BY <2>2 DEF CloseFinish, Local, Jump, LocalsOK, InEngine
  <2>3. CASE CloseTest(t) \/ CloseLock(t) \/ CloseCb(t) \/ CloseExcept(t) \/ CloseExceptDrop(t)
             \/ CloseHandle(t)
    BY <2>3 DEF CloseTest, CloseLock, CloseCb, CloseExcept, CloseExceptDrop, CloseHandle
  <2> QED
    BY <1>9, <2>1, <2>2, <2>3 DEF Close
<1> QED
  BY <1>1, <1>2, <1>3, <1>4, <1>5, <1>6, <1>7, <1>8, <1>9 DEF Run

(* Nobody is inside a freed engine.  A thread that enters holds the lock,  *)
(* so nobody is at close_finish and the handle it has read is good; the    *)
(* thread that frees the engine is the only one inside.                    *)
LEMMA LocalSafe ==
  ASSUME LocalsOK, LocalsOK', LockedInv, LockedInv', NoUseAfterFree, NEW t \in Threads, Local(t)
  PROVE  NoUseAfterFree'
<1> SUFFICES ASSUME engine'.state = "freed", NEW u \in Threads, InEngine(u)'
             PROVE  FALSE
  BY DEF NoUseAfterFree
<1>1. \A v \in Threads : InEngine(v) => Depth(v) > 0
  BY DepthPlace DEF LocalsOK, KindsInPlace, CloseOnly, InEngine, DepthAt
<1>2. \A v \in Threads : (InEngine(v) \/ At(v, "close_finish"))' => Depth(v)' > 0
  BY DepthPlace DEF LocalsOK, KindsInPlace, CloseOnly, InEngine, DepthAt, At, EngineLabels
<1>3. CASE engine.state = "freed"
  <2>1. u = t /\ self.handle
    BY <1>3 DEF Local, NoUseAfterFree, InEngine
  <2>2. PICK v \in Threads : At(v, "close_finish")
    BY <1>3, <2>1 DEF LockedInv, FreedByClose
  <2>3. v # t /\ At(v, "close_finish")'
    BY <2>1, <2>2 DEF Local, At
  <2> QED
    BY <1>2, <2>1, <2>3 DEF LockedInv, OwnsLock
<1>4. CASE engine.state # "freed"
  <2>1. InEngine(t) /\ ~InEngine(t)'
    BY <1>4 DEF Local
  <2>2. u # t /\ InEngine(u)
    BY <2>1 DEF Local, InEngine
  <2> QED
    BY <1>1, <2>1, <2>2 DEF LockedInv, OwnsLock
<1> QED
  BY <1>3, <1>4

Safe == NoCompounds /\ NoUseAfterFree

LEMMA AlwaysSafe == ASSUME Locking, HandleUnderLock PROVE Spec => []Safe
<1>1. Init => Safe
  BY DEF Init, Safe, NoCompounds, NoUseAfterFree, MakeLabels
<1>2. /\ (SharedOK /\ LocalsOK) /\ (SharedOK /\ LocalsOK)'
      /\ LockedInv /\ LockedInv' /\ Safe /\ [Next]_vars
      => Safe'
  <2> SUFFICES ASSUME SharedOK, LocalsOK, LocalsOK', LockedInv, LockedInv', Safe, [Next]_vars
               PROVE  Safe'
    OBVIOUS
  <2>1. CASE UNCHANGED vars
    BY <2>1 DEF vars, shared, Safe, NoCompounds, NoUseAfterFree, InEngine
  <2>2. ASSUME NEW t \in Threads, Begin(t) \/ Run(t)
        PROVE  Safe'
    <3>1. Local(t)
      BY <2>2, StepLocal DEF Safe
    <3>2. NoUseAfterFree'
      BY <3>1, LocalSafe DEF Safe
    <3>3. NoCompounds'
      BY <3>1 DEF Local, Safe, NoCompounds
    <3> QED
      BY <3>2, <3>3 DEF Safe
  <2> QED
    BY <2>1, <2>2 DEF Next, Finished
<1> QED
  BY <1>1, <1>2, AlwaysTyped, LockDiscipline, PTL DEF Spec

(* The threads the contract calls callers *)
Inside == {t \in Threads : InEngine(t)}

(* A local step enters an engine nobody is in, leaves it, frees it, or is  *)
(* not seen.                                                               *)
LEMMA LocalImplements ==
  ASSUME SharedOK, SharedOK', SingleCaller, SingleCaller', Safe, Safe', NEW t \in Threads, Local(t)
  PROVE  \/ UNCHANGED <<Inside, engine.state = "open">>
         \/ Contract!Enter(t) \/ Contract!Leave(t) \/ Contract!Free(t)
<1>1. \A u \in Threads \ {t} : InEngine(u)' <=> InEngine(u)
  BY DEF Local, InEngine
<1>2. ASSUME NEW u \in Threads, InEngine(u)
      PROVE  Inside = {u} /\ engine.state = "open"
  BY <1>2 DEF SingleCaller, Safe, NoUseAfterFree, Inside, SharedOK, EngineType
<1>3. ASSUME NEW u \in Threads, InEngine(u)'
      PROVE  Inside' = {u} /\ engine'.state = "open"
  BY <1>3 DEF SingleCaller, Safe, NoUseAfterFree, Inside, SharedOK, EngineType
<1>4. CASE InEngine(t) /\ InEngine(t)'
  BY <1>2, <1>3, <1>4
<1>5. CASE ~InEngine(t) /\ ~InEngine(t)'
  BY <1>1, <1>5 DEF Inside, Local
<1>6. CASE ~InEngine(t) /\ InEngine(t)'
  <2>1. Inside = {} /\ Inside' = {t} /\ engine.state = "open" /\ engine'.state = "open"
    BY <1>1, <1>3, <1>6 DEF Inside, Local
  <2> QED
    BY <2>1 DEF Contract!Enter, Inside
<1>7. CASE InEngine(t) /\ ~InEngine(t)'
  <2>1. Inside = {t} /\ Inside' = {} /\ engine.state = "open" /\ engine'.state \in {"open", "freed"}
    BY <1>1, <1>2, <1>7 DEF Inside, SharedOK, EngineType
  <2> QED
    BY <2>1 DEF Contract!Leave, Contract!Free, Inside
<1> QED
  BY <1>4, <1>5, <1>6, <1>7

(* The session implements the single-caller contract for threads that do   *)
(* not make compounds, with both kinds of callback and a close() that      *)
(* enters the engine twice under one lock.                                 *)
THEOREM Implements == ASSUME Locking, HandleUnderLock PROVE Spec => ImplementsContract
<1>1. Init => Contract!Init
  BY DEF Init, Contract!Init, InEngine, EngineLabels
<1>2. /\ (SharedOK /\ LocalsOK) /\ (SharedOK /\ LocalsOK)'
      /\ SingleCaller /\ SingleCaller' /\ Safe /\ Safe' /\ [Next]_vars
      => [Contract!Next]_<<Inside, engine.state = "open">>
  <2> SUFFICES ASSUME SharedOK, LocalsOK, SharedOK', SingleCaller, SingleCaller', Safe, Safe',
                      [Next]_vars
               PROVE  [Contract!Next]_<<Inside, engine.state = "open">>
    OBVIOUS
  <2>1. CASE UNCHANGED vars
    BY <2>1 DEF vars, shared, Inside, InEngine
  <2>2. ASSUME NEW t \in Threads, Begin(t) \/ Run(t)
        PROVE  [Contract!Next]_<<Inside, engine.state = "open">>
    BY <2>2, StepLocal, LocalImplements DEF Contract!Next, Safe
  <2> QED
    BY <2>1, <2>2 DEF Next, Finished
<1> QED
  BY <1>1, <1>2, AlwaysTyped, Serialised, AlwaysSafe, PTL
  DEF Spec, ImplementsContract, Contract!Spec, Inside

-----------------------------------------------------------------------------
(* Where a jump leaves the thread that takes it, and everybody else. *)
Stays(u) == pc'[u] = pc[u] /\ frame'[u] = frame[u]
Keeps(t) ==
  /\ frame'[t].kind = frame[t].kind /\ frame'[t].n = frame[t].n
  /\ \A u \in Threads \ {t} : Stays(u)

LEMMA JumpWent ==
  ASSUME LocalsOK, NEW t \in Threads, NEW label, NEW locals, Jump(t, label, locals)
  PROVE  pc'[t] = label /\ frame'[t] = locals /\ \A u \in Threads \ {t} : Stays(u)
BY DEF LocalsOK, Jump, Stays

LEMMA GotoWent ==
  ASSUME LocalsOK, NEW t \in Threads, NEW label, Goto(t, label)
  PROVE  pc'[t] = label /\ frame'[t] = frame[t] /\ Keeps(t)
BY JumpWent DEF Goto, Keeps

LEMMA ReturnWent ==
  ASSUME LocalsOK, NEW t \in Threads, Return(t)
  PROVE  pc'[t] = "idle" /\ frame'[t].events = {} /\ Keeps(t)
BY JumpWent DEF Return, Blank, Keeps

(* Steps that change a thread's locals, field by field. *)
LEMMA Begun ==
  ASSUME LocalsOK, NEW t \in Threads, Begin(t)
  PROVE  /\ At(t, "idle") /\ UNCHANGED shared /\ \A u \in Threads \ {t} : Stays(u)
         /\ frame'[t].kind \in Calls[t] /\ frame'[t].n = frame[t].n + 1 /\ frame'[t].events = {}
         /\ pc'[t] = CASE frame'[t].kind = "make_compound" -> "capture"
                       [] frame'[t].kind = "close" -> "close_test"
                       [] OTHER -> "mode"
<1> DEFINE first(kind) == CASE kind = "make_compound" -> "capture"
                            [] kind = "close" -> "close_test"
                            [] OTHER -> "mode"
<1>1. PICK kind \in Calls[t] : Jump(t, first(kind), Blank(kind, frame[t].n + 1))
  BY DEF Begin
<1>2. pc'[t] = first(kind) /\ frame'[t] = Blank(kind, frame[t].n + 1)
      /\ \A u \in Threads \ {t} : Stays(u)
  BY <1>1, JumpWent
<1> QED
  BY <1>2 DEF Begin, Blank

LEMMA SetCbEntered ==
  ASSUME LocalsOK, NEW t \in Threads, SetCbEnter(t)
  PROVE  /\ At(t, "set_cb") /\ UNCHANGED <<engine, self, registry, returned>>
         /\ \/ Return(t) /\ ~(self.handle /\ self.deltaCb.kind = WantedKind(t))
            \/ /\ pc'[t] = "in_set_cb" /\ Keeps(t) /\ self.handle
               /\ frame'[t].cb = self.deltaCb /\ frame'[t].events = frame[t].events
<1> DEFINE locals == [frame[t] EXCEPT !.cb = self.deltaCb]
<1>1. /\ locals.kind = frame[t].kind /\ locals.n = frame[t].n /\ locals.cb = self.deltaCb
      /\ locals.events = frame[t].events
  BY MeTyped DEF SetCbEnter, At, FrameType
<1>2. /\ At(t, "set_cb") /\ UNCHANGED <<engine, self, registry, returned>>
      /\ \/ Return(t) /\ ~(self.handle /\ self.deltaCb.kind = WantedKind(t))
         \/ Jump(t, "in_set_cb", locals) /\ self.handle
  BY DEF SetCbEnter
<1> HIDE DEF locals
<1> QED
  BY <1>1, <1>2, JumpWent DEF Keeps

LEMMA Cleared ==
  ASSUME LocalsOK, NEW t \in Threads, Clear(t)
  PROVE  /\ At(t, "clear") /\ UNCHANGED shared
         /\ \/ /\ pc'[t] = "clear_cb" /\ Keeps(t) /\ self.deltaCb # NoHandle
               /\ frame'[t].cb = self.deltaCb /\ frame'[t].events = frame[t].events
            \/ /\ self.deltaCb = NoHandle
               /\ \/ AfterClear(t, TRUE) = "idle" /\ Return(t)
                  \/ Goto(t, AfterClear(t, TRUE))
<1> DEFINE locals == [frame[t] EXCEPT !.cb = self.deltaCb]
<1>1. /\ locals.kind = frame[t].kind /\ locals.n = frame[t].n /\ locals.cb = self.deltaCb
      /\ locals.events = frame[t].events
  BY MeTyped DEF Clear, At, FrameType
<1>2. /\ At(t, "clear") /\ UNCHANGED shared
      /\ \/ Jump(t, "clear_cb", locals) /\ self.deltaCb # NoHandle
         \/ /\ self.deltaCb = NoHandle
            /\ \/ AfterClear(t, TRUE) = "idle" /\ Return(t)
               \/ Goto(t, AfterClear(t, TRUE))
  BY DEF Clear
<1> HIDE DEF locals
<1> QED
  BY <1>1, <1>2, JumpWent DEF Keeps

LEMMA ClearEntered ==
  ASSUME LocalsOK, NEW t \in Threads, ClearEnter(t)
  PROVE  /\ At(t, "clear_cb") /\ UNCHANGED <<engine, self, registry, returned>>
         /\ \/ Goto(t, "in_clear_cb") /\ self.handle
            \/ /\ pc'[t] = "clear_drop" /\ Keeps(t) /\ ~self.handle
               /\ frame'[t].cb = frame[t].cb /\ frame'[t].events = frame[t].events
<1> DEFINE locals == [frame[t] EXCEPT !.ok = FALSE]
<1>1. /\ locals.kind = frame[t].kind /\ locals.n = frame[t].n /\ locals.cb = frame[t].cb
      /\ locals.events = frame[t].events
  BY MeTyped DEF ClearEnter, At, FrameType
<1>2. /\ At(t, "clear_cb") /\ UNCHANGED <<engine, self, registry, returned>>
      /\ \/ Goto(t, "in_clear_cb") /\ self.handle
         \/ Jump(t, "clear_drop", locals) /\ ~self.handle
  BY DEF ClearEnter
<1> HIDE DEF locals
<1> QED
  BY <1>1, <1>2, JumpWent DEF Keeps

LEMMA ClearReturned ==
  ASSUME LocalsOK, NEW t \in Threads, ClearReturn(t)
  PROVE  /\ At(t, "in_clear_cb") /\ UNCHANGED <<self, registry, returned>>
         /\ engine' = [engine EXCEPT !.installed = NoHandle]
         /\ pc'[t] = "clear_drop" /\ Keeps(t) /\ frame'[t].ok
         /\ frame'[t].cb = frame[t].cb /\ frame'[t].events = frame[t].events
<1> DEFINE locals == [frame[t] EXCEPT !.ok = TRUE]
<1>1. /\ locals.kind = frame[t].kind /\ locals.n = frame[t].n /\ locals.cb = frame[t].cb
      /\ locals.events = frame[t].events /\ locals.ok = TRUE
  BY MeTyped DEF ClearReturn, At, FrameType
<1>2. /\ At(t, "in_clear_cb") /\ UNCHANGED <<self, registry, returned>>
      /\ engine' = [engine EXCEPT !.installed = NoHandle] /\ Jump(t, "clear_drop", locals)
  BY DEF ClearReturn
<1> HIDE DEF locals
<1> QED
  BY <1>1, <1>2, JumpWent DEF Keeps

LEMMA DrainCopied ==
  ASSUME LocalsOK, NEW t \in Threads, DrainCopy(t)
  PROVE  /\ At(t, "drain") /\ UNCHANGED shared
         /\ \/ Return(t) /\ self.deltaCb = NoHandle
            \/ /\ pc'[t] = "drain_clear" /\ Keeps(t) /\ self.deltaCb # NoHandle
               /\ frame'[t].cb = self.deltaCb
               /\ frame'[t].events = registry.queue[self.deltaCb.token]
<1> DEFINE rows == registry.queue[self.deltaCb.token]
           locals == [frame[t] EXCEPT !.cb = self.deltaCb, !.events = rows]
<1>1. /\ locals.kind = frame[t].kind /\ locals.n = frame[t].n /\ locals.cb = self.deltaCb
      /\ locals.events = rows
  <2> HIDE DEF rows
  <2> QED
    BY MeTyped DEF DrainCopy, At, FrameType
<1>2. /\ At(t, "drain") /\ UNCHANGED shared
      /\ \/ Return(t) /\ self.deltaCb = NoHandle
         \/ Jump(t, "drain_clear", locals) /\ self.deltaCb # NoHandle
  BY DEF DrainCopy
<1> HIDE DEF locals
<1> QED
  BY <1>1, <1>2, JumpWent DEF Keeps

LEMMA Captured ==
  ASSUME LocalsOK, NEW t \in Threads, CaptureHandle(t)
  PROVE  /\ At(t, "capture") /\ UNCHANGED shared /\ pc'[t] = "make" /\ Keeps(t)
         /\ frame'[t].events = frame[t].events
<1> DEFINE locals == [frame[t] EXCEPT !.ok = self.handle]
<1>1. /\ locals.kind = frame[t].kind /\ locals.n = frame[t].n /\ locals.events = frame[t].events
  BY MeTyped DEF CaptureHandle, At, FrameType
<1>2. At(t, "capture") /\ UNCHANGED shared /\ Jump(t, "make", locals)
  BY DEF CaptureHandle
<1> HIDE DEF locals
<1> QED
  BY <1>1, <1>2, JumpWent DEF Keeps

(* Of the session, compounds are two attributes, and no others are set. *)
SameRows ==
  /\ UNCHANGED <<engine, registry, returned>>
  /\ self'.handle = self.handle /\ self'.closed = self.closed
  /\ self'.mode = self.mode /\ self'.deltaCb = self.deltaCb

LEMMA MakeAppended ==
  ASSUME SharedOK, NEW t \in Threads, MakeAppend(t)
  PROVE  At(t, "make_append") /\ Return(t) /\ SameRows
<1>1. self' = [self EXCEPT !.made = @ \cup {Me(t)}, !.compounds = @ \cup {Me(t)}]
  BY DEF MakeAppend
<1>2. self \in SelfType
  BY DEF SharedOK
<1>3. /\ self'.handle = self.handle /\ self'.closed = self.closed
      /\ self'.mode = self.mode /\ self'.deltaCb = self.deltaCb
  BY <1>1, <1>2 DEF SelfType
<1> QED
  BY <1>3 DEF MakeAppend, SameRows

LEMMA CloseLocks ==
  ASSUME SharedOK, NEW t \in Threads, CloseLock(t)
  PROVE  At(t, "close_lock") /\ Goto(t, "close_cb") /\ SameRows
<1>1. self' = [self EXCEPT !.invalid = @ \cup self.compounds, !.compounds = {}]
  BY DEF CloseLock
<1>2. self \in SelfType
  BY DEF SharedOK
<1>3. /\ self'.handle = self.handle /\ self'.closed = self.closed
      /\ self'.mode = self.mode /\ self'.deltaCb = self.deltaCb
  BY <1>1, <1>2 DEF SelfType
<1> QED
  BY <1>3 DEF CloseLock, SameRows

LEMMA CloseFinished ==
  ASSUME SharedOK, NEW t \in Threads, CloseFinish(t)
  PROVE  /\ At(t, "close_finish") /\ Return(t) /\ UNCHANGED <<engine, registry, returned>>
         /\ ~self'.handle /\ self'.closed
         /\ self'.mode = self.mode /\ self'.deltaCb = self.deltaCb
<1>1. self' = [self EXCEPT !.handle = FALSE, !.closed = TRUE]
  BY DEF CloseFinish
<1>2. self \in SelfType
  BY DEF SharedOK
<1>3. /\ ~self'.handle /\ self'.closed
      /\ self'.mode = self.mode /\ self'.deltaCb = self.deltaCb
  BY <1>1, <1>2 DEF SelfType
<1> QED
  BY <1>3 DEF CloseFinish

LEMMA CloseReturned ==
  ASSUME SharedOK, NEW t \in Threads, CloseReturn(t)
  PROVE  /\ At(t, "in_close") /\ Goto(t, "close_finish") /\ UNCHANGED <<self, registry, returned>>
         /\ engine'.state = "freed" /\ engine'.installed = NoHandle
         /\ engine'.staged = {} /\ engine'.evaluated = engine.evaluated
<1>1. engine' = [engine EXCEPT !.state = "freed", !.installed = NoHandle, !.staged = {}]
  BY DEF CloseReturn
<1>2. engine \in EngineType
  BY DEF SharedOK
<1>3. /\ engine'.state = "freed" /\ engine'.installed = NoHandle
      /\ engine'.staged = {} /\ engine'.evaluated = engine.evaluated
  BY <1>1, <1>2 DEF EngineType
<1> QED
  BY <1>3 DEF CloseReturn

LEMMA CbCreated ==
  ASSUME SharedOK, LocalsOK, NEW t \in Threads, CbCreate(t)
  PROVE  /\ At(t, "cb_create") /\ UNCHANGED <<engine, returned>> /\ Me(t) \in Ids
         /\ Goto(t, IF Kind(t) \in Steps THEN "set_cb" ELSE "cb_user_fn")
         /\ self'.handle = self.handle /\ self'.closed = self.closed /\ self'.mode = self.mode
         /\ self'.deltaCb # NoHandle
         /\ self'.deltaCb.token = Me(t) /\ self'.deltaCb.kind = WantedKind(t)
         /\ registry'.slots = registry.slots \cup {Me(t)} /\ registry'.queue = registry.queue
<1> DEFINE cb == [token |-> Me(t), kind |-> WantedKind(t)]
<1>1. cb # NoHandle /\ cb.token = Me(t) /\ cb.kind = WantedKind(t)
  BY DEF NoHandle, WantedKind
<1>2. Me(t) \in Ids
  BY MeTyped DEF CbCreate, At
<1>3. /\ self' = [self EXCEPT !.deltaCb = cb]
      /\ registry' = [registry EXCEPT !.slots = @ \cup {Me(t)}]
  BY DEF CbCreate
<1> HIDE DEF cb
<1>4. /\ self'.handle = self.handle /\ self'.closed = self.closed /\ self'.mode = self.mode
      /\ self'.deltaCb = cb
      /\ registry'.slots = registry.slots \cup {Me(t)} /\ registry'.queue = registry.queue
  BY <1>3 DEF SharedOK, SelfType
<1> QED
  BY <1>1, <1>2, <1>4 DEF CbCreate

EvaluatesNow ==
  /\ engine'.state = engine.state /\ engine'.installed = engine.installed
  /\ engine'.staged = {} /\ engine'.evaluated = engine.evaluated \cup engine.staged

LEMMA StepReturned ==
  ASSUME SharedOK, LocalsOK, NEW t \in Threads, StepReturn(t)
  PROVE  /\ At(t, "in_step") /\ UNCHANGED <<self, returned>>
         /\ \/ Return(t) /\ UNCHANGED <<registry, engine>>
            \/ /\ Goto(t, "drain") /\ EvaluatesNow
               /\ registry'.slots = registry.slots
               /\ \A i \in Ids : registry'.queue[i] =
                    IF i = engine.installed.token /\ Registered(i)
                      THEN registry.queue[i] \cup engine.staged ELSE registry.queue[i]
<1>1. CASE Goto(t, "drain") /\ registry' = Deliver(engine.staged) /\ engine' = Evaluated
  <2>1. EvaluatesNow
    BY <1>1 DEF EvaluatesNow, Evaluated, SharedOK, EngineType
  <2> HIDE DEF Registered
  <2>2. /\ registry'.slots = registry.slots
        /\ \A i \in Ids : registry'.queue[i] =
             IF i = engine.installed.token /\ Registered(i)
               THEN registry.queue[i] \cup engine.staged ELSE registry.queue[i]
    BY <1>1 DEF Deliver, SharedOK
  <2> QED
    BY <1>1, <2>1, <2>2 DEF StepReturn
<1> QED
  BY <1>1 DEF StepReturn

Delivery(t, r) == [row |-> r, to |-> Me(t)]

LEMMA DrainCleared ==
  ASSUME SharedOK, LocalsOK, NEW t \in Threads, DrainClear(t)
  PROVE  /\ At(t, "drain_clear") /\ Return(t) /\ UNCHANGED <<engine, self>>
         /\ registry'.slots = registry.slots
         /\ \A i \in Ids :
              registry'.queue[i] = IF i = frame[t].cb.token THEN {} ELSE registry.queue[i]
         /\ \A d \in returned : d \in returned'
         /\ \A d \in returned' : d \in returned \/ \E r \in frame[t].events : d = Delivery(t, r)
         /\ \A r \in frame[t].events : Delivery(t, r) \in returned'
         /\ \A r : Delivery(t, r).row = r
<1>1. returned' = returned \cup {Delivery(t, r) : r \in frame[t].events}
  BY DEF DrainClear, Delivery
<1>2. /\ registry'.slots = registry.slots
      /\ \A i \in Ids :
           registry'.queue[i] = IF i = frame[t].cb.token THEN {} ELSE registry.queue[i]
  BY DEF DrainClear, SharedOK
<1> QED
  BY <1>1, <1>2 DEF DrainClear, Delivery

LEMMA SnapshotReturned ==
  ASSUME SharedOK, LocalsOK, NEW t \in Threads, SnapshotReturn(t)
  PROVE  /\ At(t, "in_snapshot") /\ Return(t) /\ UNCHANGED <<self, registry>>
         /\ \/ UNCHANGED <<engine, returned>>
            \/ /\ EvaluatesNow
               /\ \A d \in returned' : d \in returned \/ d.row \in engine'.evaluated
<1>1. CASE engine' = Evaluated
           /\ returned' = returned \cup {Delivery(t, r) : r \in Evaluated.evaluated}
  <2>1. EvaluatesNow
    BY <1>1 DEF EvaluatesNow, Evaluated, SharedOK, EngineType
  <2>2. \A r : Delivery(t, r).row = r
    BY DEF Delivery
  <2> QED
    BY <1>1, <2>1, <2>2 DEF SnapshotReturn
<1> QED
  BY <1>1 DEF SnapshotReturn, Delivery

(* A step of one thread leaves the others where they are. *)
LEMMA StepStays ==
  ASSUME SharedOK, LocalsOK, NEW t \in Threads, Begin(t) \/ Run(t)
  PROVE  \A u \in Threads \ {t} : Stays(u)
<1> USE DEF Keeps, EnterEngine
<1>1. CASE Begin(t)
  BY <1>1, Begun
<1>2. CASE Mode(t)
  BY <1>2, GotoWent, ReturnWent DEF Mode, TestMode, AfterMode, WantedMode, SetMode
<1>3. CASE Iud(t)
  BY <1>3, GotoWent, ReturnWent DEF Iud, BuildRows, IudEnter, IudReturn
<1>4. CASE Register(t)
  <2>1. CASE CbTest(t) \/ CbKind(t) \/ CbOther(t) \/ CbSetUserFn(t) \/ SetCbReturn(t)
    BY <2>1, GotoWent, ReturnWent DEF CbTest, CbKind, CbOther, CbSetUserFn, SetCbReturn
  <2>2. CASE CbCreate(t)
    BY <2>2, CbCreated, GotoWent, ReturnWent
  <2>3. CASE SetCbEnter(t)
    BY <2>3, SetCbEntered, GotoWent, ReturnWent
  <2> QED
    BY <1>4, <2>1, <2>2, <2>3 DEF Register
<1>5. CASE ClearDeltaCb(t)
  <2>1. CASE Clear(t)
    BY <2>1, Cleared, GotoWent, ReturnWent DEF AfterClear
  <2>2. CASE ClearEnter(t)
    BY <2>2, ClearEntered, GotoWent, ReturnWent
  <2>3. CASE ClearReturn(t)
    BY <2>3, ClearReturned, GotoWent, ReturnWent
  <2>4. CASE ClearDrop(t) \/ ClearNull(t)
    BY <2>4, GotoWent, ReturnWent DEF ClearDrop, ClearNull, AfterClear
  <2> QED
    BY <1>5, <2>1, <2>2, <2>3, <2>4 DEF ClearDeltaCb
<1>6. CASE Step(t)
  <2>1. CASE StepEnter(t)
    BY <2>1, GotoWent, ReturnWent DEF StepEnter
  <2>2. CASE StepReturn(t)
    BY <2>2, StepReturned, GotoWent, ReturnWent DEF EvaluatesNow
  <2>3. CASE DrainCopy(t)
    BY <2>3, DrainCopied, GotoWent, ReturnWent
  <2>4. CASE DrainClear(t)
    BY <2>4, DrainCleared, GotoWent, ReturnWent
  <2> QED
    BY <1>6, <2>1, <2>2, <2>3, <2>4 DEF Step
<1>7. CASE Snapshot(t)
  <2>1. CASE SnapshotEnter(t)
    BY <2>1, GotoWent, ReturnWent DEF SnapshotEnter
  <2>2. CASE SnapshotReturn(t)
    BY <2>2, SnapshotReturned, GotoWent, ReturnWent DEF EvaluatesNow
  <2> QED
    BY <1>7, <2>1, <2>2 DEF Snapshot
<1>8. CASE MakeCompound(t)
  <2>1. CASE CaptureHandle(t)
    BY <2>1, Captured, GotoWent, ReturnWent
  <2>2. CASE MakeEnter(t) \/ MakeReturn(t)
    BY <2>2, GotoWent, ReturnWent DEF MakeEnter, MakeReturn
  <2>3. CASE MakeAppend(t)
    BY <2>3, MakeAppended, GotoWent, ReturnWent DEF SameRows
  <2> QED
    BY <1>8, <2>1, <2>2, <2>3 DEF MakeCompound
<1>9. CASE Close(t)
  <2>1. CASE CloseTest(t) \/ CloseCb(t) \/ CloseExcept(t) \/ CloseExceptDrop(t)
             \/ CloseHandle(t)
    BY <2>1, GotoWent, ReturnWent
    DEF CloseTest, CloseCb, CloseExcept, CloseExceptDrop, CloseHandle
  <2>2. CASE CloseLock(t)
    BY <2>2, CloseLocks, GotoWent, ReturnWent DEF SameRows
  <2>3. CASE CloseReturn(t)
    BY <2>3, CloseReturned, GotoWent, ReturnWent
  <2>4. CASE CloseFinish(t)
    BY <2>4, CloseFinished, GotoWent, ReturnWent
  <2> QED
    BY <1>9, <2>1, <2>2, <2>3, <2>4 DEF Close
<1> QED
  BY <1>1, <1>2, <1>3, <1>4, <1>5, <1>6, <1>7, <1>8, <1>9 DEF Run

-----------------------------------------------------------------------------
(* close() frees the engine, whatever the other threads do and with the    *)
(* lock or without: NULL, closed, and an exception of _clear_delta_cb,     *)
(* which a close() has from a NULL handle only, all mean it is freed.      *)
FreedWhenClosed == (self.closed \/ ~self.handle) => engine.state = "freed"
CloseProgress(t) ==
  /\ pc[t] \in {"close_except", "close_except_drop", "close_finish"} => engine.state = "freed"
  /\ Kind(t) = "close" /\ pc[t] \in {"clear_drop", "clear_null"} /\ ~frame[t].ok =>
       engine.state = "freed"
  /\ Kind(t) = "close" /\ At(t, "idle") => engine.state = "freed"
CloseInv == FreedWhenClosed /\ \A t \in Threads : CloseProgress(t)

(* A step of t keeps what close() relies on, and the engine stays freed. *)
CloseKept(t) ==
  /\ engine.state = "freed" => engine'.state = "freed"
  /\ FreedWhenClosed'
  /\ CloseProgress(t)'

(* Each step keeps it, with the lock or without. *)
LEMMA CloseStep ==
  ASSUME SharedOK, LocalsOK, CloseInv, NEW t \in Threads, Begin(t) \/ Run(t)
  PROVE  CloseKept(t)
<1> USE DEF LocalsOK, SharedOK, EngineType, SelfType, shared, EnterEngine, Keeps, Stays, At,
            Kind, CloseInv, FreedWhenClosed, CloseProgress, CloseKept
<1>0. ~At(t, "idle") => InPlace(Kind(t), pc[t])
  BY MeTyped
<1>1. CASE Begin(t)
  BY <1>1, Begun DEF InPlace, CloseOnly, ClearLabels
<1>2. CASE Mode(t)
  BY <1>2, GotoWent, ReturnWent, <1>0
  DEF Mode, TestMode, AfterMode, WantedMode, SetMode, InPlace, CloseOnly, ClearLabels
<1>3. CASE Iud(t)
  BY <1>3, GotoWent, ReturnWent, <1>0
  DEF Iud, BuildRows, IudEnter, IudReturn, InPlace, CloseOnly, ClearLabels
<1>4. CASE Register(t)
  <2>1. CASE CbTest(t) \/ CbKind(t) \/ CbOther(t) \/ CbSetUserFn(t) \/ SetCbReturn(t)
    BY <2>1, GotoWent, ReturnWent, <1>0
    DEF CbTest, CbKind, CbOther, CbSetUserFn, SetCbReturn, InPlace, CloseOnly, ClearLabels
  <2>2. CASE CbCreate(t)
    BY <2>2, CbCreated, GotoWent, ReturnWent, <1>0 DEF InPlace, CloseOnly, ClearLabels
  <2>3. CASE SetCbEnter(t)
    BY <2>3, SetCbEntered, GotoWent, ReturnWent, <1>0 DEF InPlace, CloseOnly, ClearLabels
  <2> QED
    BY <1>4, <2>1, <2>2, <2>3 DEF Register
<1>5. CASE ClearDeltaCb(t)
  <2>1. CASE Clear(t)
    BY <2>1, Cleared, GotoWent, ReturnWent, <1>0 DEF AfterClear, InPlace, CloseOnly, ClearLabels
  <2>2. CASE ClearEnter(t)
    BY <2>2, ClearEntered, GotoWent, ReturnWent, <1>0 DEF InPlace, CloseOnly, ClearLabels
  <2>3. CASE ClearReturn(t)
    BY <2>3, ClearReturned, GotoWent, ReturnWent, <1>0 DEF InPlace, CloseOnly, ClearLabels
  <2>4. CASE ClearDrop(t) \/ ClearNull(t)
    BY <2>4, GotoWent, ReturnWent, <1>0
    DEF ClearDrop, ClearNull, AfterClear, InPlace, CloseOnly, ClearLabels
  <2> QED
    BY <1>5, <2>1, <2>2, <2>3, <2>4 DEF ClearDeltaCb
<1>6. CASE Step(t)
  <2>1. CASE StepEnter(t)
    BY <2>1, GotoWent, ReturnWent, <1>0 DEF StepEnter, InPlace, CloseOnly, ClearLabels
  <2>2. CASE StepReturn(t)
    BY <2>2, StepReturned, GotoWent, ReturnWent, <1>0
    DEF EvaluatesNow, InPlace, CloseOnly, ClearLabels
  <2>3. CASE DrainCopy(t)
    BY <2>3, DrainCopied, GotoWent, ReturnWent, <1>0 DEF InPlace, CloseOnly, ClearLabels
  <2>4. CASE DrainClear(t)
    BY <2>4, DrainCleared, GotoWent, ReturnWent, <1>0 DEF InPlace, CloseOnly, ClearLabels
  <2> QED
    BY <1>6, <2>1, <2>2, <2>3, <2>4 DEF Step
<1>7. CASE Snapshot(t)
  <2>1. CASE SnapshotEnter(t)
    BY <2>1, GotoWent, ReturnWent, <1>0 DEF SnapshotEnter, InPlace, CloseOnly, ClearLabels
  <2>2. CASE SnapshotReturn(t)
    BY <2>2, SnapshotReturned, GotoWent, ReturnWent, <1>0
    DEF EvaluatesNow, InPlace, CloseOnly, ClearLabels
  <2> QED
    BY <1>7, <2>1, <2>2 DEF Snapshot
<1>8. CASE MakeCompound(t)
  <2>1. CASE CaptureHandle(t)
    BY <2>1, Captured, GotoWent, ReturnWent, <1>0 DEF InPlace, CloseOnly, ClearLabels
  <2>2. CASE MakeEnter(t) \/ MakeReturn(t)
    BY <2>2, GotoWent, ReturnWent, <1>0
    DEF MakeEnter, MakeReturn, InPlace, CloseOnly, ClearLabels
  <2>3. CASE MakeAppend(t)
    BY <2>3, MakeAppended, GotoWent, ReturnWent, <1>0
    DEF SameRows, InPlace, CloseOnly, ClearLabels
  <2> QED
    BY <1>8, <2>1, <2>2, <2>3 DEF MakeCompound
<1>9. CASE Close(t)
  <2>1. CASE CloseTest(t) \/ CloseCb(t) \/ CloseExcept(t) \/ CloseExceptDrop(t)
             \/ CloseHandle(t)
    BY <2>1, GotoWent, ReturnWent, <1>0
    DEF CloseTest, CloseCb, CloseExcept, CloseExceptDrop, CloseHandle, InPlace, CloseOnly,
        ClearLabels
  <2>2. CASE CloseLock(t)
    BY <2>2, CloseLocks, GotoWent, ReturnWent, <1>0
    DEF SameRows, InPlace, CloseOnly, ClearLabels
  <2>3. CASE CloseReturn(t)
    BY <2>3, CloseReturned, GotoWent, ReturnWent, <1>0 DEF InPlace, CloseOnly, ClearLabels
  <2>4. CASE CloseFinish(t)
    BY <2>4, CloseFinished, GotoWent, ReturnWent, <1>0 DEF InPlace, CloseOnly, ClearLabels
  <2> QED
    BY <1>9, <2>1, <2>2, <2>3, <2>4 DEF Close
<1> HIDE DEF LocalsOK, SharedOK, EngineType, SelfType, shared, EnterEngine, Keeps, Stays, At,
            Kind, CloseInv, FreedWhenClosed, CloseProgress, CloseKept
<1> QED
  BY <1>1, <1>2, <1>3, <1>4, <1>5, <1>6, <1>7, <1>8, <1>9 DEF Run

LEMMA AlwaysClosing == Spec => []CloseInv
<1>1. Init => CloseInv
  BY DEF Init, CloseInv, FreedWhenClosed, CloseProgress, Kind, Blank, At
<1>2. SharedOK /\ LocalsOK /\ CloseInv /\ [Next]_vars => CloseInv'
  <2> SUFFICES ASSUME SharedOK, LocalsOK, CloseInv, [Next]_vars
               PROVE  CloseInv'
    OBVIOUS
  <2>1. CASE UNCHANGED vars
    BY <2>1 DEF vars, shared, CloseInv, FreedWhenClosed, CloseProgress, Kind, At
  <2>2. ASSUME NEW t \in Threads, Begin(t) \/ Run(t)
        PROVE  CloseInv'
    <3>1. CloseKept(t) /\ \A u \in Threads \ {t} : Stays(u)
      BY <2>2, CloseStep, StepStays
    <3> QED
      BY <3>1 DEF CloseInv, CloseKept, CloseProgress, Stays, Kind, At
  <2> QED
    BY <2>1, <2>2 DEF Next, Finished
<1> QED
  BY <1>1, <1>2, AlwaysTyped, PTL DEF Spec

(* However a close() ends, by returning or by raising, the engine has been *)
(* freed, whatever the other threads do, with the lock or without.         *)
THEOREM CloseFreesEngine == Spec => []CloseFrees
<1>1. CloseInv => CloseFrees
  BY DEF CloseInv, CloseProgress, CloseFrees
<1> QED
  BY <1>1, AlwaysClosing, PTL

-----------------------------------------------------------------------------
(* One thread makes calls of any kind while the others make compounds.     *)
OneCaller == \E t \in Threads : \A u \in Threads \ {t} : Calls[u] \subseteq {"make_compound"}
Main == CHOOSE t \in Threads : \A u \in Threads \ {t} : Calls[u] \subseteq {"make_compound"}
Beside ==
  \A u \in Threads \ {Main} : pc[u] \in MakeLabels \cup {"idle"} /\ frame[u].events = {}

(* Which calls are at which label. *)
Registering == {"cb_test", "cb_kind", "cb_other", "cb_create", "set_cb", "in_set_cb"}
Evaluating == {"step", "in_step", "drain", "drain_clear"}
Path ==
  /\ Kind(Main) \in Calls[Main] \/ At(Main, "idle")
  /\ pc[Main] \in {"mode", "set_mode"} => Kind(Main) \notin {"close", "make_compound"}
  /\ pc[Main] \in {"build", "iud", "in_iud"} => Kind(Main) \in {"insert", "insert_typed"}
  /\ pc[Main] \in Registering => Kind(Main) \in Steps \cup Settings
  /\ At(Main, "cb_user_fn") => Kind(Main) \in Settings
  /\ pc[Main] \in Evaluating => Kind(Main) \in Steps
  /\ pc[Main] \in ClearLabels =>
       Kind(Main) \in Steps \cup Settings \cup {"clear_delta_callback", "close"}
  /\ pc[Main] \in {"snapshot", "in_snapshot"} => Kind(Main) \in {"snapshot", "snapshot_typed"}
  /\ pc[Main] \in MakeLabels => Kind(Main) = "make_compound"
  /\ pc[Main] \in CloseOnly => Kind(Main) = "close"

(* One thread finds the handle as it left it. *)
Alive ==
  /\ self.handle => engine.state = "open" \/ At(Main, "close_finish")
  /\ ~self.handle => engine.state = "freed"
  /\ InEngine(Main) /\ ~At(Main, "in_make") => self.handle
  /\ At(Main, "close_finish") => engine.state = "freed"

(* The engine's callback is _delta_cb or none; _clear_delta_cb clears the  *)
(* pointer before it drops the slot, and after it there is no _delta_cb,   *)
(* when a new one is made and when close() goes on.                        *)
Chosen == {"cb_user_fn", "set_cb", "in_set_cb"} \cup Evaluating
Armed ==
  /\ engine.installed \in {NoHandle, self.deltaCb}
  /\ engine.state = "freed" => engine.installed = NoHandle
  /\ self.deltaCb # NoHandle /\ ~At(Main, "clear_null") => self.deltaCb.token \in registry.slots
  /\ pc[Main] \in (ClearLabels \ {"clear"}) \cup {"in_set_cb", "drain_clear"} =>
       frame[Main].cb = self.deltaCb /\ self.deltaCb # NoHandle
  /\ pc[Main] \in {"clear_drop", "clear_null"} => engine.installed = NoHandle
  /\ pc[Main] \in {"cb_create", "close_except", "close_handle", "in_close", "close_finish"} =>
       self.deltaCb = NoHandle
  /\ ~At(Main, "close_except_drop")
  /\ pc[Main] \in Chosen => self.deltaCb # NoHandle /\ self.deltaCb.kind = WantedKind(Main)

(* Rows come from Main's inserts so far, each from a call of its own; and  *)
(* none is evaluated but in the mode of the call that does it.             *)
Fresh ==
  /\ \A r \in engine.staged \cup engine.evaluated :
       /\ r[1] = Main /\ r[2] <= frame[Main].n
       /\ ~At(Main, "idle") => r[2] < frame[Main].n
  /\ engine.staged \cap engine.evaluated = {}
Modes ==
  /\ self.mode = "UNSET" => engine.evaluated = {} /\ returned = {}
  /\ At(Main, "set_mode") => self.mode = "UNSET"
  /\ Kind(Main) \in Steps \cup Settings /\ pc[Main] \notin {"idle", "mode", "set_mode"} =>
       self.mode = "INCREMENTAL"
  /\ pc[Main] \in {"snapshot", "in_snapshot"} => self.mode = "QUERY"

(* The engine refuses none of Main's callbacks: on a program with a FLOAT  *)
(* Main uses the typed kind only.                                          *)
CallbacksAccepted ==
  /\ "set_cb" \notin MayFail
  /\ FloatProgram => Calls[Main] \cap {"step", "set_delta_callback"} = {}

(* Where _delta_cb is set, the engine has it, but for the stretches that   *)
(* install or remove it; rows are queued for it only while step() is about *)
(* to drain them.                                                          *)
Swapping == {"cb_user_fn", "set_cb", "in_set_cb", "clear_drop", "clear_null"}
Installed ==
  self.deltaCb # NoHandle /\ self.handle /\ pc[Main] \notin Swapping =>
    engine.installed = self.deltaCb
Queued ==
  /\ \A i \in Ids : registry.queue[i] # {} =>
       i = self.deltaCb.token /\ pc[Main] \in {"drain", "drain_clear"}
  /\ At(Main, "drain_clear") => frame[Main].events = registry.queue[self.deltaCb.token]
  /\ ~At(Main, "drain_clear") => frame[Main].events = {}

(* An evaluated row is returned once, or still queued. *)
Delivered(r) == \E d \in returned : d.row = r
Underway(r) == pc[Main] \in {"drain", "drain_clear"} /\ r \in registry.queue[self.deltaCb.token]
Once ==
  /\ \A d \in returned : d.row \in engine.evaluated
  /\ \A i \in Ids : registry.queue[i] \subseteq engine.evaluated
  /\ self.mode = "INCREMENTAL" =>
       /\ \A c, d \in returned : c.row = d.row => c = d
       /\ \A r \in engine.evaluated : Delivered(r) <=> ~Underway(r)


LEMMA MainCalls ==
  ASSUME OneCaller
  PROVE  Main \in Threads /\ \A u \in Threads \ {Main} : Calls[u] \subseteq {"make_compound"}
BY DEF OneCaller, Main

(* The others touch nothing rows depend on. *)
LEMMA BesideStep ==
  ASSUME SharedOK, LocalsOK, OneCaller, Beside, NEW u \in Threads \ {Main}, Begin(u) \/ Run(u)
  PROVE  SameRows /\ pc'[u] \in MakeLabels \cup {"idle"} /\ frame'[u].events = {}
<1> USE DEF Beside, MakeLabels, Keeps, Stays, At, shared, EnterEngine, SameRows
<1>0. Calls[u] \subseteq {"make_compound"}
  BY MainCalls
<1>1. CASE Begin(u)
  BY <1>1, Begun, <1>0
<1>2. CASE Mode(u)
  BY <1>2, GotoWent, ReturnWent DEF Mode, TestMode, AfterMode, WantedMode, SetMode
<1>3. CASE Iud(u)
  BY <1>3, GotoWent, ReturnWent DEF Iud, BuildRows, IudEnter, IudReturn
<1>4. CASE Register(u)
  <2>1. CASE CbTest(u) \/ CbKind(u) \/ CbOther(u) \/ CbSetUserFn(u) \/ SetCbReturn(u)
    BY <2>1, GotoWent, ReturnWent DEF CbTest, CbKind, CbOther, CbSetUserFn, SetCbReturn
  <2>2. CASE CbCreate(u)
    BY <2>2, CbCreated, GotoWent, ReturnWent
  <2>3. CASE SetCbEnter(u)
    BY <2>3, SetCbEntered, GotoWent, ReturnWent
  <2> QED
    BY <1>4, <2>1, <2>2, <2>3 DEF Register
<1>5. CASE ClearDeltaCb(u)
  <2>1. CASE Clear(u)
    BY <2>1, Cleared, GotoWent, ReturnWent DEF AfterClear
  <2>2. CASE ClearEnter(u)
    BY <2>2, ClearEntered, GotoWent, ReturnWent
  <2>3. CASE ClearReturn(u)
    BY <2>3, ClearReturned, GotoWent, ReturnWent
  <2>4. CASE ClearDrop(u) \/ ClearNull(u)
    BY <2>4, GotoWent, ReturnWent DEF ClearDrop, ClearNull, AfterClear
  <2> QED
    BY <1>5, <2>1, <2>2, <2>3, <2>4 DEF ClearDeltaCb
<1>6. CASE Step(u)
  <2>1. CASE StepEnter(u)
    BY <2>1, GotoWent, ReturnWent DEF StepEnter
  <2>2. CASE StepReturn(u)
    BY <2>2, StepReturned, GotoWent, ReturnWent DEF EvaluatesNow
  <2>3. CASE DrainCopy(u)
    BY <2>3, DrainCopied, GotoWent, ReturnWent
  <2>4. CASE DrainClear(u)
    BY <2>4, DrainCleared, GotoWent, ReturnWent
  <2> QED
    BY <1>6, <2>1, <2>2, <2>3, <2>4 DEF Step
<1>7. CASE Snapshot(u)
  <2>1. CASE SnapshotEnter(u)
    BY <2>1, GotoWent, ReturnWent DEF SnapshotEnter
  <2>2. CASE SnapshotReturn(u)
    BY <2>2, SnapshotReturned, GotoWent, ReturnWent DEF EvaluatesNow
  <2> QED
    BY <1>7, <2>1, <2>2 DEF Snapshot
<1>8. CASE MakeCompound(u)
  <2>1. CASE CaptureHandle(u)
    BY <2>1, Captured, GotoWent, ReturnWent
  <2>2. CASE MakeEnter(u) \/ MakeReturn(u)
    BY <2>2, GotoWent, ReturnWent DEF MakeEnter, MakeReturn
  <2>3. CASE MakeAppend(u)
    BY <2>3, MakeAppended, GotoWent, ReturnWent DEF SameRows
  <2> QED
    BY <1>8, <2>1, <2>2, <2>3 DEF MakeCompound
<1>9. CASE Close(u)
  <2>1. CASE CloseTest(u) \/ CloseCb(u) \/ CloseExcept(u) \/ CloseExceptDrop(u)
             \/ CloseHandle(u)
    BY <2>1, GotoWent, ReturnWent
    DEF CloseTest, CloseCb, CloseExcept, CloseExceptDrop, CloseHandle
  <2>2. CASE CloseLock(u)
    BY <2>2, CloseLocks, GotoWent, ReturnWent DEF SameRows
  <2>3. CASE CloseReturn(u)
    BY <2>3, CloseReturned, GotoWent, ReturnWent
  <2>4. CASE CloseFinish(u)
    BY <2>4, CloseFinished, GotoWent, ReturnWent
  <2> QED
    BY <1>9, <2>1, <2>2, <2>3, <2>4 DEF Close
<1> HIDE DEF Beside, MakeLabels, SameRows
<1> QED
  BY <1>1, <1>2, <1>3, <1>4, <1>5, <1>6, <1>7, <1>8, <1>9 DEF Run

(* A call goes its way. *)
LEMMA PathByMain ==
  ASSUME SharedOK, LocalsOK, Path, Main \in Threads, Begin(Main) \/ Run(Main)
  PROVE  Path'
<1> USE DEF LocalsOK, SharedOK, EngineType, SelfType, shared, EnterEngine, Keeps, Stays, At,
            Kind, Path, Registering, Evaluating, ClearLabels, CloseOnly, MakeLabels, Steps,
            Settings, AfterMode, WantedMode, Incremental, Kinds
<1>1. CASE Begin(Main)
  BY <1>1, Begun, ConstantsAssumption
<1>2. CASE Mode(Main)
  <2>1. CASE TestMode(Main)
    BY <2>1, GotoWent, ReturnWent, ConstantsAssumption DEF TestMode, AfterMode, WantedMode
  <2>2. CASE SetMode(Main)
    BY <2>2, GotoWent, ReturnWent, ConstantsAssumption DEF SetMode, AfterMode, WantedMode
  <2> QED
    BY <1>2, <2>1, <2>2 DEF Mode
<1>3. CASE Iud(Main)
  BY <1>3, GotoWent, ReturnWent, ConstantsAssumption DEF Iud, BuildRows, IudEnter, IudReturn
<1>4. CASE Register(Main)
  <2>1. CASE CbTest(Main) \/ CbKind(Main) \/ CbOther(Main) \/ CbSetUserFn(Main)
             \/ SetCbReturn(Main)
    BY <2>1, GotoWent, ReturnWent, ConstantsAssumption
    DEF CbTest, CbKind, CbOther, CbSetUserFn, SetCbReturn
  <2>2. CASE CbCreate(Main)
    BY <2>2, CbCreated, GotoWent, ReturnWent, ConstantsAssumption
  <2>3. CASE SetCbEnter(Main)
    BY <2>3, SetCbEntered, GotoWent, ReturnWent, ConstantsAssumption
  <2> QED
    BY <1>4, <2>1, <2>2, <2>3 DEF Register
<1>5. CASE ClearDeltaCb(Main)
  <2>1. CASE Clear(Main)
    BY <2>1, Cleared, GotoWent, ReturnWent, ConstantsAssumption DEF AfterClear
  <2>2. CASE ClearEnter(Main)
    BY <2>2, ClearEntered, GotoWent, ReturnWent, ConstantsAssumption
  <2>3. CASE ClearReturn(Main)
    BY <2>3, ClearReturned, GotoWent, ReturnWent, ConstantsAssumption
  <2>4. CASE ClearDrop(Main) \/ ClearNull(Main)
    BY <2>4, GotoWent, ReturnWent, ConstantsAssumption DEF ClearDrop, ClearNull, AfterClear
  <2> QED
    BY <1>5, <2>1, <2>2, <2>3, <2>4 DEF ClearDeltaCb
<1>6. CASE Step(Main)
  <2>1. CASE StepEnter(Main)
    BY <2>1, GotoWent, ReturnWent, ConstantsAssumption DEF StepEnter
  <2>2. CASE StepReturn(Main)
    BY <2>2, StepReturned, GotoWent, ReturnWent, ConstantsAssumption DEF EvaluatesNow
  <2>3. CASE DrainCopy(Main)
    BY <2>3, DrainCopied, GotoWent, ReturnWent, ConstantsAssumption
  <2>4. CASE DrainClear(Main)
    BY <2>4, DrainCleared, GotoWent, ReturnWent, ConstantsAssumption
  <2> QED
    BY <1>6, <2>1, <2>2, <2>3, <2>4 DEF Step
<1>7. CASE Snapshot(Main)
  <2>1. CASE SnapshotEnter(Main)
    BY <2>1, GotoWent, ReturnWent, ConstantsAssumption DEF SnapshotEnter
  <2>2. CASE SnapshotReturn(Main)
    BY <2>2, SnapshotReturned, GotoWent, ReturnWent, ConstantsAssumption DEF EvaluatesNow
  <2> QED
    BY <1>7, <2>1, <2>2 DEF Snapshot
<1>8. CASE MakeCompound(Main)
  <2>1. CASE CaptureHandle(Main)
    BY <2>1, Captured, GotoWent, ReturnWent, ConstantsAssumption
  <2>2. CASE MakeEnter(Main) \/ MakeReturn(Main)
    BY <2>2, GotoWent, ReturnWent, ConstantsAssumption DEF MakeEnter, MakeReturn
  <2>3. CASE MakeAppend(Main)
    BY <2>3, MakeAppended, GotoWent, ReturnWent, ConstantsAssumption DEF SameRows
  <2> QED
    BY <1>8, <2>1, <2>2, <2>3 DEF MakeCompound
<1>9. CASE Close(Main)
  <2>1. CASE CloseTest(Main)
    BY <2>1, GotoWent, ReturnWent, ConstantsAssumption DEF CloseTest
  <2>2. CASE CloseLock(Main)
    BY <2>2, CloseLocks, GotoWent, ReturnWent, ConstantsAssumption DEF SameRows
  <2>3. CASE CloseCb(Main)
    BY <2>3, GotoWent, ReturnWent, ConstantsAssumption DEF CloseCb
  <2>4. CASE CloseExcept(Main)
    BY <2>4, GotoWent, ReturnWent, ConstantsAssumption DEF CloseExcept
  <2>5. CASE CloseExceptDrop(Main)
    BY <2>5, GotoWent, ReturnWent, ConstantsAssumption DEF CloseExceptDrop
  <2>6. CASE CloseHandle(Main)
    BY <2>6, GotoWent, ReturnWent, ConstantsAssumption DEF CloseHandle
  <2>7. CASE CloseReturn(Main)
    BY <2>7, CloseReturned, GotoWent, ReturnWent, ConstantsAssumption
  <2>8. CASE CloseFinish(Main)
    BY <2>8, CloseFinished, GotoWent, ReturnWent, ConstantsAssumption
  <2> QED
    BY <1>9, <2>1, <2>2, <2>3, <2>4, <2>5, <2>6, <2>7, <2>8 DEF Close
<1> HIDE DEF Path, Registering, Evaluating, ClearLabels, CloseOnly, MakeLabels, Steps, Settings,
            AfterMode, WantedMode, Incremental, Kinds
<1> QED
  BY <1>1, <1>2, <1>3, <1>4, <1>5, <1>6, <1>7, <1>8, <1>9 DEF Run

(* The handle follows the calls of one thread. *)
LEMMA AliveByMain ==
  ASSUME SharedOK, LocalsOK, Path, Alive, Main \in Threads, Begin(Main) \/ Run(Main)
  PROVE  Alive'
<1> USE DEF LocalsOK, SharedOK, EngineType, SelfType, shared, EnterEngine, Keeps, Stays, At,
            Kind, Path, Registering, Evaluating, ClearLabels, CloseOnly, MakeLabels, Steps,
            Settings, Alive, InEngine, EngineLabels
<1>1. CASE Begin(Main)
  BY <1>1, Begun
<1>2. CASE Mode(Main)
  BY <1>2, GotoWent, ReturnWent DEF Mode, TestMode, AfterMode, WantedMode, SetMode
<1>3. CASE Iud(Main)
  BY <1>3, GotoWent, ReturnWent DEF Iud, BuildRows, IudEnter, IudReturn
<1>4. CASE Register(Main)
  <2>1. CASE CbTest(Main) \/ CbKind(Main) \/ CbOther(Main) \/ CbSetUserFn(Main)
             \/ SetCbReturn(Main)
    BY <2>1, GotoWent, ReturnWent DEF CbTest, CbKind, CbOther, CbSetUserFn, SetCbReturn
  <2>2. CASE CbCreate(Main)
    BY <2>2, CbCreated, GotoWent, ReturnWent
  <2>3. CASE SetCbEnter(Main)
    BY <2>3, SetCbEntered, GotoWent, ReturnWent
  <2> QED
    BY <1>4, <2>1, <2>2, <2>3 DEF Register
<1>5. CASE ClearDeltaCb(Main)
  <2>1. CASE Clear(Main)
    BY <2>1, Cleared, GotoWent, ReturnWent DEF AfterClear
  <2>2. CASE ClearEnter(Main)
    BY <2>2, ClearEntered, GotoWent, ReturnWent
  <2>3. CASE ClearReturn(Main)
    BY <2>3, ClearReturned, GotoWent, ReturnWent
  <2>4. CASE ClearDrop(Main) \/ ClearNull(Main)
    BY <2>4, GotoWent, ReturnWent DEF ClearDrop, ClearNull, AfterClear
  <2> QED
    BY <1>5, <2>1, <2>2, <2>3, <2>4 DEF ClearDeltaCb
<1>6. CASE Step(Main)
  <2>1. CASE StepEnter(Main)
    BY <2>1, GotoWent, ReturnWent DEF StepEnter
  <2>2. CASE StepReturn(Main)
    BY <2>2, StepReturned, GotoWent, ReturnWent DEF EvaluatesNow
  <2>3. CASE DrainCopy(Main)
    BY <2>3, DrainCopied, GotoWent, ReturnWent
  <2>4. CASE DrainClear(Main)
    BY <2>4, DrainCleared, GotoWent, ReturnWent
  <2> QED
    BY <1>6, <2>1, <2>2, <2>3, <2>4 DEF Step
<1>7. CASE Snapshot(Main)
  <2>1. CASE SnapshotEnter(Main)
    BY <2>1, GotoWent, ReturnWent DEF SnapshotEnter
  <2>2. CASE SnapshotReturn(Main)
    BY <2>2, SnapshotReturned, GotoWent, ReturnWent DEF EvaluatesNow
  <2> QED
    BY <1>7, <2>1, <2>2 DEF Snapshot
<1>8. CASE MakeCompound(Main)
  <2>1. CASE CaptureHandle(Main)
    BY <2>1, Captured, GotoWent, ReturnWent
  <2>2. CASE MakeEnter(Main) \/ MakeReturn(Main)
    BY <2>2, GotoWent, ReturnWent DEF MakeEnter, MakeReturn
  <2>3. CASE MakeAppend(Main)
    BY <2>3, MakeAppended, GotoWent, ReturnWent DEF SameRows
  <2> QED
    BY <1>8, <2>1, <2>2, <2>3 DEF MakeCompound
<1>9. CASE Close(Main)
  <2>1. CASE CloseTest(Main) \/ CloseCb(Main) \/ CloseExcept(Main) \/ CloseExceptDrop(Main)
             \/ CloseHandle(Main)
    BY <2>1, GotoWent, ReturnWent
    DEF CloseTest, CloseCb, CloseExcept, CloseExceptDrop, CloseHandle
  <2>2. CASE CloseLock(Main)
    BY <2>2, CloseLocks, GotoWent, ReturnWent DEF SameRows
  <2>3. CASE CloseReturn(Main)
    BY <2>3, CloseReturned, GotoWent, ReturnWent
  <2>4. CASE CloseFinish(Main)
    BY <2>4, CloseFinished, GotoWent, ReturnWent
  <2> QED
    BY <1>9, <2>1, <2>2, <2>3, <2>4 DEF Close
<1> HIDE DEF Path, Registering, Evaluating, ClearLabels, CloseOnly, MakeLabels, Steps, Settings,
            Alive, InEngine, EngineLabels
<1> QED
  BY <1>1, <1>2, <1>3, <1>4, <1>5, <1>6, <1>7, <1>8, <1>9 DEF Run

(* So do the callback, its slot and what the engine has of it. *)
LEMMA ArmedByMain ==
  ASSUME SharedOK, LocalsOK, Path, Alive, Armed, Main \in Threads, Begin(Main) \/ Run(Main)
  PROVE  Armed'
<1> USE DEF LocalsOK, SharedOK, EngineType, SelfType, shared, EnterEngine, Keeps, Stays, At,
            Kind, Path, Registering, Evaluating, ClearLabels, CloseOnly, MakeLabels, Steps,
            Settings, Alive, InEngine, EngineLabels, Armed, Chosen, WantedKind, Typed
<1>1. CASE Begin(Main)
  BY <1>1, Begun
<1>2. CASE Mode(Main)
  BY <1>2, GotoWent, ReturnWent DEF Mode, TestMode, AfterMode, WantedMode, SetMode
<1>3. CASE Iud(Main)
  BY <1>3, GotoWent, ReturnWent DEF Iud, BuildRows, IudEnter, IudReturn
<1>4. CASE Register(Main)
  <2>1. CASE CbTest(Main)
    BY <2>1, GotoWent, ReturnWent DEF CbTest
  <2>2. CASE CbKind(Main)
    BY <2>2, GotoWent, ReturnWent DEF CbKind
  <2>3. CASE CbOther(Main)
    BY <2>3, GotoWent, ReturnWent DEF CbOther
  <2>4. CASE CbCreate(Main)
    BY <2>4, CbCreated, GotoWent, ReturnWent
  <2>5. CASE CbSetUserFn(Main)
    BY <2>5, GotoWent, ReturnWent DEF CbSetUserFn
  <2>6. CASE SetCbEnter(Main)
    BY <2>6, SetCbEntered, GotoWent, ReturnWent
  <2>7. CASE SetCbReturn(Main)
    BY <2>7, GotoWent, ReturnWent DEF SetCbReturn
  <2> QED
    BY <1>4, <2>1, <2>2, <2>3, <2>4, <2>5, <2>6, <2>7 DEF Register
<1>5. CASE ClearDeltaCb(Main)
  <2>1. CASE Clear(Main)
    BY <2>1, Cleared, GotoWent, ReturnWent DEF AfterClear
  <2>2. CASE ClearEnter(Main)
    BY <2>2, ClearEntered, GotoWent, ReturnWent
  <2>3. CASE ClearReturn(Main)
    BY <2>3, ClearReturned, GotoWent, ReturnWent
  <2>4. CASE ClearDrop(Main) \/ ClearNull(Main)
    BY <2>4, GotoWent, ReturnWent DEF ClearDrop, ClearNull, AfterClear
  <2> QED
    BY <1>5, <2>1, <2>2, <2>3, <2>4 DEF ClearDeltaCb
<1>6. CASE Step(Main)
  <2>1. CASE StepEnter(Main)
    BY <2>1, GotoWent, ReturnWent DEF StepEnter
  <2>2. CASE StepReturn(Main)
    BY <2>2, StepReturned, GotoWent, ReturnWent DEF EvaluatesNow
  <2>3. CASE DrainCopy(Main)
    BY <2>3, DrainCopied, GotoWent, ReturnWent
  <2>4. CASE DrainClear(Main)
    BY <2>4, DrainCleared, GotoWent, ReturnWent
  <2> QED
    BY <1>6, <2>1, <2>2, <2>3, <2>4 DEF Step
<1>7. CASE Snapshot(Main)
  <2>1. CASE SnapshotEnter(Main)
    BY <2>1, GotoWent, ReturnWent DEF SnapshotEnter
  <2>2. CASE SnapshotReturn(Main)
    BY <2>2, SnapshotReturned, GotoWent, ReturnWent DEF EvaluatesNow
  <2> QED
    BY <1>7, <2>1, <2>2 DEF Snapshot
<1>8. CASE MakeCompound(Main)
  <2>1. CASE CaptureHandle(Main)
    BY <2>1, Captured, GotoWent, ReturnWent
  <2>2. CASE MakeEnter(Main) \/ MakeReturn(Main)
    BY <2>2, GotoWent, ReturnWent DEF MakeEnter, MakeReturn
  <2>3. CASE MakeAppend(Main)
    BY <2>3, MakeAppended, GotoWent, ReturnWent DEF SameRows
  <2> QED
    BY <1>8, <2>1, <2>2, <2>3 DEF MakeCompound
<1>9. CASE Close(Main)
  <2>1. CASE CloseTest(Main) \/ CloseCb(Main) \/ CloseExcept(Main) \/ CloseExceptDrop(Main)
             \/ CloseHandle(Main)
    BY <2>1, GotoWent, ReturnWent
    DEF CloseTest, CloseCb, CloseExcept, CloseExceptDrop, CloseHandle
  <2>2. CASE CloseLock(Main)
    BY <2>2, CloseLocks, GotoWent, ReturnWent DEF SameRows
  <2>3. CASE CloseReturn(Main)
    BY <2>3, CloseReturned, GotoWent, ReturnWent
  <2>4. CASE CloseFinish(Main)
    BY <2>4, CloseFinished, GotoWent, ReturnWent
  <2> QED
    BY <1>9, <2>1, <2>2, <2>3, <2>4 DEF Close
<1> HIDE DEF Path, Registering, Evaluating, ClearLabels, CloseOnly, MakeLabels, Steps, Settings,
            Alive, InEngine, EngineLabels, Armed, Chosen, WantedKind, Typed
<1> QED
  BY <1>1, <1>2, <1>3, <1>4, <1>5, <1>6, <1>7, <1>8, <1>9 DEF Run

LEMMA RowNumbers ==
  ASSUME SharedOK, LocalsOK, NEW t \in Threads
  PROVE  /\ frame[t].n \in Nat /\ Me(t)[1] = t /\ Me(t)[2] = frame[t].n
         /\ \A r \in engine.staged \cup engine.evaluated : r[2] \in Nat
BY ConstantsAssumption DEF LocalsOK, FrameType, SharedOK, EngineType, Ids, Me

(* Every row the engine was given has an id of its own. *)
LEMMA FreshByMain ==
  ASSUME SharedOK, LocalsOK, Path, Fresh, Main \in Threads, Begin(Main) \/ Run(Main)
  PROVE  Fresh'
<1> USE DEF LocalsOK, SharedOK, EngineType, SelfType, shared, EnterEngine, Keeps, Stays, At,
            Kind, Path, Registering, Evaluating, ClearLabels, CloseOnly, MakeLabels, Steps,
            Settings, Fresh
<1>1. CASE Begin(Main)
  <2>1. /\ pc[Main] = "idle" /\ frame'[Main].n = frame[Main].n + 1 /\ engine' = engine
    BY <1>1, Begun
  <2>2. \A r \in engine.staged \cup engine.evaluated : r[1] = Main /\ r[2] <= frame[Main].n
    OBVIOUS
  <2>3. engine.staged \cap engine.evaluated = {}
    OBVIOUS
  <2> HIDE DEF LocalsOK, SharedOK, EngineType, SelfType
  <2> QED
    BY <2>1, <2>2, <2>3, RowNumbers
<1>2. CASE Mode(Main)
  BY <1>2, GotoWent, ReturnWent DEF Mode, TestMode, AfterMode, WantedMode, SetMode
<1>3. CASE Iud(Main)
  <2>1. CASE BuildRows(Main)
    BY <2>1, GotoWent, ReturnWent DEF BuildRows
  <2>2. CASE IudEnter(Main)
    BY <2>2, GotoWent, ReturnWent DEF IudEnter
  <2>3. CASE IudReturn(Main)
    <3>1. /\ pc[Main] = "in_iud" /\ pc'[Main] = "idle" /\ frame'[Main].n = frame[Main].n
          /\ engine'.staged \in {engine.staged, engine.staged \cup {Me(Main)}}
          /\ engine'.evaluated = engine.evaluated
      BY <2>3, ReturnWent DEF IudReturn
    <3>2. \A r \in engine.staged \cup engine.evaluated : r[1] = Main /\ r[2] < frame[Main].n
      BY <3>1
    <3>3. engine.staged \cap engine.evaluated = {}
      OBVIOUS
    <3> HIDE DEF LocalsOK, SharedOK, EngineType, SelfType
    <3> QED
      BY <3>1, <3>2, <3>3, RowNumbers
  <2> QED
    BY <1>3, <2>1, <2>2, <2>3 DEF Iud
<1>4. CASE Register(Main)
  <2>1. CASE CbTest(Main) \/ CbKind(Main) \/ CbOther(Main) \/ CbSetUserFn(Main)
             \/ SetCbReturn(Main)
    BY <2>1, GotoWent, ReturnWent DEF CbTest, CbKind, CbOther, CbSetUserFn, SetCbReturn
  <2>2. CASE CbCreate(Main)
    BY <2>2, CbCreated, GotoWent, ReturnWent
  <2>3. CASE SetCbEnter(Main)
    BY <2>3, SetCbEntered, GotoWent, ReturnWent
  <2> QED
    BY <1>4, <2>1, <2>2, <2>3 DEF Register
<1>5. CASE ClearDeltaCb(Main)
  <2>1. CASE Clear(Main)
    BY <2>1, Cleared, GotoWent, ReturnWent DEF AfterClear
  <2>2. CASE ClearEnter(Main)
    BY <2>2, ClearEntered, GotoWent, ReturnWent
  <2>3. CASE ClearReturn(Main)
    BY <2>3, ClearReturned, GotoWent, ReturnWent
  <2>4. CASE ClearDrop(Main) \/ ClearNull(Main)
    BY <2>4, GotoWent, ReturnWent DEF ClearDrop, ClearNull, AfterClear
  <2> QED
    BY <1>5, <2>1, <2>2, <2>3, <2>4 DEF ClearDeltaCb
<1>6. CASE Step(Main)
  <2>1. CASE StepEnter(Main)
    BY <2>1, GotoWent, ReturnWent DEF StepEnter
  <2>2. CASE StepReturn(Main)
    BY <2>2, StepReturned, GotoWent, ReturnWent DEF EvaluatesNow
  <2>3. CASE DrainCopy(Main)
    BY <2>3, DrainCopied, GotoWent, ReturnWent
  <2>4. CASE DrainClear(Main)
    BY <2>4, DrainCleared, GotoWent, ReturnWent
  <2> QED
    BY <1>6, <2>1, <2>2, <2>3, <2>4 DEF Step
<1>7. CASE Snapshot(Main)
  <2>1. CASE SnapshotEnter(Main)
    BY <2>1, GotoWent, ReturnWent DEF SnapshotEnter
  <2>2. CASE SnapshotReturn(Main)
    BY <2>2, SnapshotReturned, GotoWent, ReturnWent DEF EvaluatesNow
  <2> QED
    BY <1>7, <2>1, <2>2 DEF Snapshot
<1>8. CASE MakeCompound(Main)
  <2>1. CASE CaptureHandle(Main)
    BY <2>1, Captured, GotoWent, ReturnWent
  <2>2. CASE MakeEnter(Main) \/ MakeReturn(Main)
    BY <2>2, GotoWent, ReturnWent DEF MakeEnter, MakeReturn
  <2>3. CASE MakeAppend(Main)
    BY <2>3, MakeAppended, GotoWent, ReturnWent DEF SameRows
  <2> QED
    BY <1>8, <2>1, <2>2, <2>3 DEF MakeCompound
<1>9. CASE Close(Main)
  <2>1. CASE CloseTest(Main) \/ CloseCb(Main) \/ CloseExcept(Main) \/ CloseExceptDrop(Main)
             \/ CloseHandle(Main)
    BY <2>1, GotoWent, ReturnWent
    DEF CloseTest, CloseCb, CloseExcept, CloseExceptDrop, CloseHandle
  <2>2. CASE CloseLock(Main)
    BY <2>2, CloseLocks, GotoWent, ReturnWent DEF SameRows
  <2>3. CASE CloseReturn(Main)
    BY <2>3, CloseReturned, GotoWent, ReturnWent
  <2>4. CASE CloseFinish(Main)
    BY <2>4, CloseFinished, GotoWent, ReturnWent
  <2> QED
    BY <1>9, <2>1, <2>2, <2>3, <2>4 DEF Close
<1> HIDE DEF Path, Registering, Evaluating, ClearLabels, CloseOnly, MakeLabels, Steps, Settings,
            Fresh
<1> QED
  BY <1>1, <1>2, <1>3, <1>4, <1>5, <1>6, <1>7, <1>8, <1>9 DEF Run

(* The mode is committed once. *)
LEMMA ModesByMain ==
  ASSUME SharedOK, LocalsOK, Path, Modes, Main \in Threads, Begin(Main) \/ Run(Main)
  PROVE  Modes'
<1> USE DEF LocalsOK, SharedOK, EngineType, SelfType, shared, EnterEngine, Keeps, Stays, At,
            Kind, Path, Registering, Evaluating, ClearLabels, CloseOnly, MakeLabels, Steps,
            Settings, Modes
<1>1. CASE Begin(Main)
  BY <1>1, Begun
<1>2. CASE Mode(Main)
  BY <1>2, GotoWent, ReturnWent DEF Mode, TestMode, AfterMode, WantedMode, SetMode
<1>3. CASE Iud(Main)
  BY <1>3, GotoWent, ReturnWent DEF Iud, BuildRows, IudEnter, IudReturn
<1>4. CASE Register(Main)
  <2>1. CASE CbTest(Main) \/ CbKind(Main) \/ CbOther(Main) \/ CbSetUserFn(Main)
             \/ SetCbReturn(Main)
    BY <2>1, GotoWent, ReturnWent DEF CbTest, CbKind, CbOther, CbSetUserFn, SetCbReturn
  <2>2. CASE CbCreate(Main)
    BY <2>2, CbCreated, GotoWent, ReturnWent
  <2>3. CASE SetCbEnter(Main)
    BY <2>3, SetCbEntered, GotoWent, ReturnWent
  <2> QED
    BY <1>4, <2>1, <2>2, <2>3 DEF Register
<1>5. CASE ClearDeltaCb(Main)
  <2>1. CASE Clear(Main)
    BY <2>1, Cleared, GotoWent, ReturnWent DEF AfterClear
  <2>2. CASE ClearEnter(Main)
    BY <2>2, ClearEntered, GotoWent, ReturnWent
  <2>3. CASE ClearReturn(Main)
    BY <2>3, ClearReturned, GotoWent, ReturnWent
  <2>4. CASE ClearDrop(Main) \/ ClearNull(Main)
    BY <2>4, GotoWent, ReturnWent DEF ClearDrop, ClearNull, AfterClear
  <2> QED
    BY <1>5, <2>1, <2>2, <2>3, <2>4 DEF ClearDeltaCb
<1>6. CASE Step(Main)
  <2>1. CASE StepEnter(Main)
    BY <2>1, GotoWent, ReturnWent DEF StepEnter
  <2>2. CASE StepReturn(Main)
    BY <2>2, StepReturned, GotoWent, ReturnWent DEF EvaluatesNow
  <2>3. CASE DrainCopy(Main)
    BY <2>3, DrainCopied, GotoWent, ReturnWent
  <2>4. CASE DrainClear(Main)
    BY <2>4, DrainCleared, GotoWent, ReturnWent
  <2> QED
    BY <1>6, <2>1, <2>2, <2>3, <2>4 DEF Step
<1>7. CASE Snapshot(Main)
  <2>1. CASE SnapshotEnter(Main)
    BY <2>1, GotoWent, ReturnWent DEF SnapshotEnter
  <2>2. CASE SnapshotReturn(Main)
    BY <2>2, SnapshotReturned, GotoWent, ReturnWent DEF EvaluatesNow
  <2> QED
    BY <1>7, <2>1, <2>2 DEF Snapshot
<1>8. CASE MakeCompound(Main)
  <2>1. CASE CaptureHandle(Main)
    BY <2>1, Captured, GotoWent, ReturnWent
  <2>2. CASE MakeEnter(Main) \/ MakeReturn(Main)
    BY <2>2, GotoWent, ReturnWent DEF MakeEnter, MakeReturn
  <2>3. CASE MakeAppend(Main)
    BY <2>3, MakeAppended, GotoWent, ReturnWent DEF SameRows
  <2> QED
    BY <1>8, <2>1, <2>2, <2>3 DEF MakeCompound
<1>9. CASE Close(Main)
  <2>1. CASE CloseTest(Main) \/ CloseCb(Main) \/ CloseExcept(Main) \/ CloseExceptDrop(Main)
             \/ CloseHandle(Main)
    BY <2>1, GotoWent, ReturnWent
    DEF CloseTest, CloseCb, CloseExcept, CloseExceptDrop, CloseHandle
  <2>2. CASE CloseLock(Main)
    BY <2>2, CloseLocks, GotoWent, ReturnWent DEF SameRows
  <2>3. CASE CloseReturn(Main)
    BY <2>3, CloseReturned, GotoWent, ReturnWent
  <2>4. CASE CloseFinish(Main)
    BY <2>4, CloseFinished, GotoWent, ReturnWent
  <2> QED
    BY <1>9, <2>1, <2>2, <2>3, <2>4 DEF Close
<1> HIDE DEF Path, Registering, Evaluating, ClearLabels, CloseOnly, MakeLabels, Steps, Settings,
            Modes
<1> QED
  BY <1>1, <1>2, <1>3, <1>4, <1>5, <1>6, <1>7, <1>8, <1>9 DEF Run

(* The kinds of callback Main asks for are accepted. *)
LEMMA CbAccepted ==
  ASSUME Path, CallbacksAccepted, At(Main, "in_set_cb")
  PROVE  Outcomes("set_cb", Main) = {TRUE}
<1>1. Kind(Main) \in Calls[Main] /\ Kind(Main) \in Steps \cup Settings
  BY DEF Path, At, Registering
<1>2. FloatProgram => Typed(Main)
  BY <1>1 DEF CallbacksAccepted, Typed, Steps, Settings
<1> QED
  BY <1>2 DEF CallbacksAccepted, Outcomes

(* What step() registers is installed, for nothing is refused. *)
LEMMA InstalledByMain ==
  ASSUME SharedOK, LocalsOK, Path, Alive, Armed, CallbacksAccepted, Installed, Main \in Threads,
         Begin(Main) \/ Run(Main)
  PROVE  Installed'
<1> USE DEF LocalsOK, SharedOK, EngineType, SelfType, shared, EnterEngine, Keeps, Stays, At,
            Kind, Path, Registering, Evaluating, ClearLabels, CloseOnly, MakeLabels, Steps,
            Settings, Alive, InEngine, EngineLabels, Armed, Chosen, WantedKind, Typed,
            Installed, Swapping
<1>1. CASE Begin(Main)
  BY <1>1, Begun
<1>2. CASE Mode(Main)
  BY <1>2, GotoWent, ReturnWent DEF Mode, TestMode, AfterMode, WantedMode, SetMode
<1>3. CASE Iud(Main)
  BY <1>3, GotoWent, ReturnWent DEF Iud, BuildRows, IudEnter, IudReturn
<1>4. CASE Register(Main)
  <2>1. CASE CbTest(Main)
    BY <2>1, GotoWent, ReturnWent DEF CbTest
  <2>2. CASE CbKind(Main)
    BY <2>2, GotoWent, ReturnWent DEF CbKind
  <2>3. CASE CbOther(Main)
    BY <2>3, GotoWent, ReturnWent DEF CbOther
  <2>4. CASE CbCreate(Main)
    <3>1. pc'[Main] \in Swapping
      BY <2>4, CbCreated, GotoWent DEF Swapping
    <3> QED
      BY <3>1 DEF Installed
  <2>5. CASE CbSetUserFn(Main)
    BY <2>5, GotoWent, ReturnWent DEF CbSetUserFn
  <2>6. CASE SetCbEnter(Main)
    BY <2>6, SetCbEntered, GotoWent, ReturnWent
  <2>7. CASE SetCbReturn(Main)
    <3>1. Outcomes("set_cb", Main) = {TRUE} /\ At(Main, "in_set_cb")
      <4> HIDE DEF Path, At
      <4> QED
        BY <2>7, CbAccepted DEF SetCbReturn
    <3>2. engine' = [engine EXCEPT !.installed = frame[Main].cb] /\ self' = self
      BY <2>7, <3>1 DEF SetCbReturn
    <3>3. frame[Main].cb = self.deltaCb
      BY <3>1 DEF Armed
    <3>4. engine'.installed = self.deltaCb
      BY <3>2, <3>3
    <3> QED
      BY <3>2, <3>4 DEF Installed
  <2> QED
    BY <1>4, <2>1, <2>2, <2>3, <2>4, <2>5, <2>6, <2>7 DEF Register
<1>5. CASE ClearDeltaCb(Main)
  <2>1. CASE Clear(Main)
    BY <2>1, Cleared, GotoWent, ReturnWent DEF AfterClear
  <2>2. CASE ClearEnter(Main)
    BY <2>2, ClearEntered, GotoWent, ReturnWent
  <2>3. CASE ClearReturn(Main)
    BY <2>3, ClearReturned, GotoWent, ReturnWent
  <2>4. CASE ClearDrop(Main) \/ ClearNull(Main)
    BY <2>4, GotoWent, ReturnWent DEF ClearDrop, ClearNull, AfterClear
  <2> QED
    BY <1>5, <2>1, <2>2, <2>3, <2>4 DEF ClearDeltaCb
<1>6. CASE Step(Main)
  <2>1. CASE StepEnter(Main)
    BY <2>1, GotoWent, ReturnWent DEF StepEnter
  <2>2. CASE StepReturn(Main)
    BY <2>2, StepReturned, GotoWent, ReturnWent DEF EvaluatesNow
  <2>3. CASE DrainCopy(Main)
    BY <2>3, DrainCopied, GotoWent, ReturnWent
  <2>4. CASE DrainClear(Main)
    BY <2>4, DrainCleared, GotoWent, ReturnWent
  <2> QED
    BY <1>6, <2>1, <2>2, <2>3, <2>4 DEF Step
<1>7. CASE Snapshot(Main)
  <2>1. CASE SnapshotEnter(Main)
    BY <2>1, GotoWent, ReturnWent DEF SnapshotEnter
  <2>2. CASE SnapshotReturn(Main)
    BY <2>2, SnapshotReturned, GotoWent, ReturnWent DEF EvaluatesNow
  <2> QED
    BY <1>7, <2>1, <2>2 DEF Snapshot
<1>8. CASE MakeCompound(Main)
  <2>1. CASE CaptureHandle(Main)
    BY <2>1, Captured, GotoWent, ReturnWent
  <2>2. CASE MakeEnter(Main) \/ MakeReturn(Main)
    BY <2>2, GotoWent, ReturnWent DEF MakeEnter, MakeReturn
  <2>3. CASE MakeAppend(Main)
    BY <2>3, MakeAppended, GotoWent, ReturnWent DEF SameRows
  <2> QED
    BY <1>8, <2>1, <2>2, <2>3 DEF MakeCompound
<1>9. CASE Close(Main)
  <2>1. CASE CloseTest(Main) \/ CloseCb(Main) \/ CloseExcept(Main) \/ CloseExceptDrop(Main)
             \/ CloseHandle(Main)
    BY <2>1, GotoWent, ReturnWent
    DEF CloseTest, CloseCb, CloseExcept, CloseExceptDrop, CloseHandle
  <2>2. CASE CloseLock(Main)
    BY <2>2, CloseLocks, GotoWent, ReturnWent DEF SameRows
  <2>3. CASE CloseReturn(Main)
    BY <2>3, CloseReturned, GotoWent, ReturnWent
  <2>4. CASE CloseFinish(Main)
    BY <2>4, CloseFinished, GotoWent, ReturnWent
  <2> QED
    BY <1>9, <2>1, <2>2, <2>3, <2>4 DEF Close
<1> HIDE DEF Path, Registering, Evaluating, ClearLabels, CloseOnly, MakeLabels, Steps, Settings,
            Alive, InEngine, EngineLabels, Armed, Chosen, WantedKind, Typed, Installed, Swapping
<1> QED
  BY <1>1, <1>2, <1>3, <1>4, <1>5, <1>6, <1>7, <1>8, <1>9 DEF Run

(* The rows an evaluation delivers are those step() is about to drain. *)
LEMMA StepQueues ==
  ASSUME SharedOK, LocalsOK, Alive, Armed, Installed, Queued, Main \in Threads, StepReturn(Main)
  PROVE  /\ At(Main, "in_step") /\ UNCHANGED <<self, returned>>
         /\ \A i \in Ids : registry.queue[i] = {}
         /\ \/ Return(Main) /\ UNCHANGED <<registry, engine>>
            \/ /\ pc'[Main] = "drain" /\ frame'[Main] = frame[Main] /\ EvaluatesNow
               /\ \A i \in Ids :
                    registry'.queue[i] = IF i = self.deltaCb.token THEN engine.staged ELSE {}
<1>1. At(Main, "in_step") /\ UNCHANGED <<self, returned>>
  BY StepReturned
<1>2. /\ self.deltaCb # NoHandle /\ engine.installed = self.deltaCb
      /\ self.deltaCb.token \in registry.slots
  BY <1>1 DEF Alive, Armed, Chosen, Evaluating, InEngine, EngineLabels, Installed, Swapping, At
<1>3. Registered(self.deltaCb.token)
  BY <1>2 DEF Registered
<1>4. \A i \in Ids : registry.queue[i] = {}
  BY <1>1 DEF Queued, At
<1>5. CASE Return(Main) /\ UNCHANGED <<registry, engine>>
  BY <1>1, <1>4, <1>5
<1>6. CASE /\ Goto(Main, "drain") /\ EvaluatesNow
           /\ \A i \in Ids : registry'.queue[i] =
                IF i = engine.installed.token /\ Registered(i)
                  THEN registry.queue[i] \cup engine.staged ELSE registry.queue[i]
  <2>1. \A i \in Ids :
          registry'.queue[i] = IF i = self.deltaCb.token THEN engine.staged ELSE {}
    <3>1. engine.installed.token = self.deltaCb.token
      BY <1>2
    <3> HIDE DEF Registered
    <3> QED
      BY <1>3, <1>4, <1>6, <3>1
  <2> QED
    BY <1>1, <1>4, <1>6, <2>1, GotoWent
<1> QED
  BY <1>5, <1>6, StepReturned

(* A queue is filled by step and emptied by drain. *)
LEMMA QueuedByMain ==
  ASSUME SharedOK, LocalsOK, Path, Alive, Armed, Installed, Queued, Main \in Threads,
         Begin(Main) \/ Run(Main)
  PROVE  Queued'
<1> USE DEF LocalsOK, SharedOK, EngineType, SelfType, shared, EnterEngine, Keeps, Stays, At,
            Kind, Path, Registering, Evaluating, ClearLabels, CloseOnly, MakeLabels, Steps,
            Settings, Alive, InEngine, EngineLabels, Armed, Chosen, WantedKind, Typed,
            Installed, Swapping, Queued
<1>1. CASE Begin(Main)
  BY <1>1, Begun
<1>2. CASE Mode(Main)
  BY <1>2, GotoWent, ReturnWent DEF Mode, TestMode, AfterMode, WantedMode, SetMode
<1>3. CASE Iud(Main)
  BY <1>3, GotoWent, ReturnWent DEF Iud, BuildRows, IudEnter, IudReturn
<1>4. CASE Register(Main)
  <2>1. CASE CbTest(Main) \/ CbKind(Main) \/ CbOther(Main) \/ CbSetUserFn(Main)
             \/ SetCbReturn(Main)
    BY <2>1, GotoWent, ReturnWent DEF CbTest, CbKind, CbOther, CbSetUserFn, SetCbReturn
  <2>2. CASE CbCreate(Main)
    BY <2>2, CbCreated, GotoWent, ReturnWent
  <2>3. CASE SetCbEnter(Main)
    BY <2>3, SetCbEntered, GotoWent, ReturnWent
  <2> QED
    BY <1>4, <2>1, <2>2, <2>3 DEF Register
<1>5. CASE ClearDeltaCb(Main)
  <2>1. CASE Clear(Main)
    BY <2>1, Cleared, GotoWent, ReturnWent DEF AfterClear
  <2>2. CASE ClearEnter(Main)
    BY <2>2, ClearEntered, GotoWent, ReturnWent
  <2>3. CASE ClearReturn(Main)
    BY <2>3, ClearReturned, GotoWent, ReturnWent
  <2>4. CASE ClearDrop(Main) \/ ClearNull(Main)
    BY <2>4, GotoWent, ReturnWent DEF ClearDrop, ClearNull, AfterClear
  <2> QED
    BY <1>5, <2>1, <2>2, <2>3, <2>4 DEF ClearDeltaCb
<1>6. CASE Step(Main)
  <2>1. CASE StepEnter(Main)
    BY <2>1, GotoWent, ReturnWent DEF StepEnter
  <2>2. CASE StepReturn(Main)
    BY <2>2, StepQueues, GotoWent, ReturnWent DEF EvaluatesNow
  <2>3. CASE DrainCopy(Main)
    BY <2>3, DrainCopied, GotoWent, ReturnWent
  <2>4. CASE DrainClear(Main)
    BY <2>4, DrainCleared, GotoWent, ReturnWent
  <2> QED
    BY <1>6, <2>1, <2>2, <2>3, <2>4 DEF Step
<1>7. CASE Snapshot(Main)
  <2>1. CASE SnapshotEnter(Main)
    BY <2>1, GotoWent, ReturnWent DEF SnapshotEnter
  <2>2. CASE SnapshotReturn(Main)
    BY <2>2, SnapshotReturned, GotoWent, ReturnWent DEF EvaluatesNow
  <2> QED
    BY <1>7, <2>1, <2>2 DEF Snapshot
<1>8. CASE MakeCompound(Main)
  <2>1. CASE CaptureHandle(Main)
    BY <2>1, Captured, GotoWent, ReturnWent
  <2>2. CASE MakeEnter(Main) \/ MakeReturn(Main)
    BY <2>2, GotoWent, ReturnWent DEF MakeEnter, MakeReturn
  <2>3. CASE MakeAppend(Main)
    BY <2>3, MakeAppended, GotoWent, ReturnWent DEF SameRows
  <2> QED
    BY <1>8, <2>1, <2>2, <2>3 DEF MakeCompound
<1>9. CASE Close(Main)
  <2>1. CASE CloseTest(Main) \/ CloseCb(Main) \/ CloseExcept(Main) \/ CloseExceptDrop(Main)
             \/ CloseHandle(Main)
    BY <2>1, GotoWent, ReturnWent
    DEF CloseTest, CloseCb, CloseExcept, CloseExceptDrop, CloseHandle
  <2>2. CASE CloseLock(Main)
    BY <2>2, CloseLocks, GotoWent, ReturnWent DEF SameRows
  <2>3. CASE CloseReturn(Main)
    BY <2>3, CloseReturned, GotoWent, ReturnWent
  <2>4. CASE CloseFinish(Main)
    BY <2>4, CloseFinished, GotoWent, ReturnWent
  <2> QED
    BY <1>9, <2>1, <2>2, <2>3, <2>4 DEF Close
<1> HIDE DEF Path, Registering, Evaluating, ClearLabels, CloseOnly, MakeLabels, Steps, Settings,
            Alive, InEngine, EngineLabels, Armed, Chosen, WantedKind, Typed, Installed,
            Swapping, Queued
<1> QED
  BY <1>1, <1>2, <1>3, <1>4, <1>5, <1>6, <1>7, <1>8, <1>9 DEF Run

(* A row goes from the engine to the queue and from the queue to its caller. *)
LEMMA OnceByMain ==
  ASSUME SharedOK, LocalsOK, Path, Alive, Armed, Fresh, Modes, Installed, Queued, Once,
         Main \in Threads, Begin(Main) \/ Run(Main)
  PROVE  Once'
<1> USE DEF LocalsOK, SharedOK, EngineType, SelfType, shared, EnterEngine, Keeps, Stays, At,
            Kind, Path, Registering, Evaluating, ClearLabels, CloseOnly, MakeLabels, Steps,
            Settings, Alive, InEngine, EngineLabels, Armed, Chosen, WantedKind, Typed, Fresh,
            Modes, Installed, Swapping, Queued, Once, Delivered, Underway
<1>1. CASE Begin(Main)
  BY <1>1, Begun
<1>2. CASE Mode(Main)
  BY <1>2, GotoWent, ReturnWent DEF Mode, TestMode, AfterMode, WantedMode, SetMode
<1>3. CASE Iud(Main)
  BY <1>3, GotoWent, ReturnWent DEF Iud, BuildRows, IudEnter, IudReturn
<1>4. CASE Register(Main)
  <2>1. CASE CbTest(Main) \/ CbKind(Main) \/ CbOther(Main) \/ CbSetUserFn(Main)
             \/ SetCbReturn(Main)
    BY <2>1, GotoWent, ReturnWent DEF CbTest, CbKind, CbOther, CbSetUserFn, SetCbReturn
  <2>2. CASE CbCreate(Main)
    <3>1. /\ UNCHANGED <<engine, returned>> /\ registry'.queue = registry.queue
          /\ self'.mode = self.mode
          /\ pc[Main] = "cb_create" /\ pc'[Main] \in {"set_cb", "cb_user_fn"}
      BY <2>2, CbCreated, GotoWent
    <3> QED
      BY <3>1 DEF Once, Delivered, Underway
  <2>3. CASE SetCbEnter(Main)
    BY <2>3, SetCbEntered, GotoWent, ReturnWent
  <2> QED
    BY <1>4, <2>1, <2>2, <2>3 DEF Register
<1>5. CASE ClearDeltaCb(Main)
  <2>1. CASE Clear(Main)
    BY <2>1, Cleared, GotoWent, ReturnWent DEF AfterClear
  <2>2. CASE ClearEnter(Main)
    BY <2>2, ClearEntered, GotoWent, ReturnWent
  <2>3. CASE ClearReturn(Main)
    BY <2>3, ClearReturned, GotoWent, ReturnWent
  <2>4. CASE ClearDrop(Main) \/ ClearNull(Main)
    BY <2>4, GotoWent, ReturnWent DEF ClearDrop, ClearNull, AfterClear
  <2> QED
    BY <1>5, <2>1, <2>2, <2>3, <2>4 DEF ClearDeltaCb
<1>6. CASE Step(Main)
  <2>1. CASE StepEnter(Main)
    BY <2>1, GotoWent, ReturnWent DEF StepEnter
  <2>2. CASE StepReturn(Main)
    BY <2>2, StepQueues, GotoWent, ReturnWent DEF EvaluatesNow
  <2>3. CASE DrainCopy(Main)
    BY <2>3, DrainCopied, GotoWent, ReturnWent
  <2>4. CASE DrainClear(Main)
    BY <2>4, DrainCleared, GotoWent, ReturnWent
  <2> QED
    BY <1>6, <2>1, <2>2, <2>3, <2>4 DEF Step
<1>7. CASE Snapshot(Main)
  <2>1. CASE SnapshotEnter(Main)
    BY <2>1, GotoWent, ReturnWent DEF SnapshotEnter
  <2>2. CASE SnapshotReturn(Main)
    BY <2>2, SnapshotReturned, GotoWent, ReturnWent DEF EvaluatesNow
  <2> QED
    BY <1>7, <2>1, <2>2 DEF Snapshot
<1>8. CASE MakeCompound(Main)
  <2>1. CASE CaptureHandle(Main)
    BY <2>1, Captured, GotoWent, ReturnWent
  <2>2. CASE MakeEnter(Main) \/ MakeReturn(Main)
    BY <2>2, GotoWent, ReturnWent DEF MakeEnter, MakeReturn
  <2>3. CASE MakeAppend(Main)
    BY <2>3, MakeAppended, GotoWent, ReturnWent DEF SameRows
  <2> QED
    BY <1>8, <2>1, <2>2, <2>3 DEF MakeCompound
<1>9. CASE Close(Main)
  <2>1. CASE CloseTest(Main) \/ CloseCb(Main) \/ CloseExcept(Main) \/ CloseExceptDrop(Main)
             \/ CloseHandle(Main)
    BY <2>1, GotoWent, ReturnWent
    DEF CloseTest, CloseCb, CloseExcept, CloseExceptDrop, CloseHandle
  <2>2. CASE CloseLock(Main)
    BY <2>2, CloseLocks, GotoWent, ReturnWent DEF SameRows
  <2>3. CASE CloseReturn(Main)
    BY <2>3, CloseReturned, GotoWent, ReturnWent
  <2>4. CASE CloseFinish(Main)
    BY <2>4, CloseFinished, GotoWent, ReturnWent
  <2> QED
    BY <1>9, <2>1, <2>2, <2>3, <2>4 DEF Close
<1> HIDE DEF Path, Registering, Evaluating, ClearLabels, CloseOnly, MakeLabels, Steps, Settings,
            Alive, InEngine, EngineLabels, Armed, Chosen, WantedKind, Typed, Fresh, Modes,
            Installed, Swapping, Queued, Once, Delivered, Underway
<1> QED
  BY <1>1, <1>2, <1>3, <1>4, <1>5, <1>6, <1>7, <1>8, <1>9 DEF Run

(* What holds of Main's calls and rows, and what needs the engine to       *)
(* accept its callbacks besides.                                           *)
SoloInv == Beside /\ Path /\ Alive /\ Armed /\ Fresh /\ Modes
OnceUnless == CallbacksAccepted => Installed /\ Queued /\ Once

LEMMA SoloInit ==
  ASSUME OneCaller, Init
  PROVE  SoloInv /\ OnceUnless
<1>1. Main \in Threads
  BY MainCalls
<1>2. /\ \A t \in Threads : pc[t] = "idle" /\ frame[t].events = {} /\ Kind(t) = "none"
      /\ engine.installed = NoHandle /\ engine.state = "open"
      /\ engine.staged = {} /\ engine.evaluated = {} /\ returned = {}
      /\ self.handle /\ self.mode = "UNSET" /\ self.deltaCb = NoHandle
      /\ \A i \in Ids : registry.queue[i] = {}
  BY DEF Init, Blank, Kind
<1>3. Beside /\ Path
  BY <1>1, <1>2 DEF Beside, Path, At, Registering, Evaluating, ClearLabels, CloseOnly, MakeLabels
<1>4. Alive /\ Armed
  BY <1>1, <1>2 DEF Alive, Armed, ClearLabels, Chosen, Evaluating, InEngine, EngineLabels, At
<1>5. Fresh /\ Modes
  BY <1>1, <1>2 DEF Fresh, Modes, At
<1>6. Installed /\ Queued /\ Once
  BY <1>1, <1>2 DEF Installed, Queued, Once, At
<1> QED
  BY <1>3, <1>4, <1>5, <1>6 DEF SoloInv, OnceUnless

(* The others' compounds, and the end of all calls, change none of it. *)
LEMMA SoloStays ==
  ASSUME SoloInv, OnceUnless, Beside', SameRows, Stays(Main)
  PROVE  SoloInv' /\ OnceUnless'
<1> USE DEF SameRows, Stays, At, Kind
<1>1. Path' /\ Fresh' /\ Modes'
  BY DEF SoloInv, Path, Fresh, Modes
<1>2. Alive'
  BY DEF SoloInv, Alive, InEngine
<1>3. Armed'
  BY DEF SoloInv, Armed, WantedKind, Typed
<1>4. ASSUME CallbacksAccepted
      PROVE  Installed' /\ Queued' /\ Once'
  BY <1>4 DEF OnceUnless, Installed, Queued, Once, Delivered, Underway
<1>5. CallbacksAccepted' => CallbacksAccepted
  BY DEF CallbacksAccepted
<1> HIDE DEF SameRows, Stays, At, Kind
<1> QED
  BY <1>1, <1>2, <1>3, <1>4, <1>5 DEF SoloInv, OnceUnless

LEMMA SoloKeeps ==
  ASSUME SharedOK, LocalsOK, OneCaller, SoloInv, OnceUnless, [Next]_vars
  PROVE  SoloInv' /\ OnceUnless'
<1> USE MainCalls
<1>1. CASE UNCHANGED vars
  <2>1. SameRows /\ Stays(Main) /\ Beside'
    BY <1>1 DEF vars, shared, SameRows, Stays, SoloInv, Beside
  <2> QED
    BY <2>1, SoloStays
<1>2. ASSUME NEW u \in Threads \ {Main}, Begin(u) \/ Run(u)
      PROVE  SoloInv' /\ OnceUnless'
  <2>1. SameRows /\ pc'[u] \in MakeLabels \cup {"idle"} /\ frame'[u].events = {}
    BY <1>2, BesideStep DEF SoloInv
  <2>2. \A v \in Threads \ {u} : Stays(v)
    BY <1>2, StepStays
  <2>3. Beside'
    BY <2>1, <2>2 DEF Beside, Stays, SoloInv
  <2> QED
    BY <2>1, <2>2, <2>3, SoloStays
<1>3. ASSUME Begin(Main) \/ Run(Main)
      PROVE  SoloInv' /\ OnceUnless'
  <2>1. Path /\ Alive /\ Armed /\ Fresh /\ Modes /\ Beside
    BY DEF SoloInv
  <2>2. Beside'
    BY <1>3, <2>1, StepStays DEF Beside, Stays
  <2>3. Path' /\ Alive' /\ Armed' /\ Fresh' /\ Modes'
    BY <1>3, <2>1, PathByMain, AliveByMain, ArmedByMain, FreshByMain, ModesByMain
  <2>4. ASSUME CallbacksAccepted
        PROVE  Installed' /\ Queued' /\ Once'
    BY <1>3, <2>1, <2>4, InstalledByMain, QueuedByMain, OnceByMain DEF OnceUnless
  <2>5. CallbacksAccepted' => CallbacksAccepted
    BY DEF CallbacksAccepted
  <2> QED
    BY <2>2, <2>3, <2>4, <2>5 DEF SoloInv, OnceUnless
<1> QED
  BY <1>1, <1>2, <1>3 DEF Next, Finished

LEMMA OneCallerHolds == ASSUME OneCaller PROVE Spec => [](SoloInv /\ OnceUnless)
<1>1. Init => SoloInv /\ OnceUnless
  BY SoloInit
<1>2. (SharedOK /\ LocalsOK) /\ (SoloInv /\ OnceUnless) /\ [Next]_vars => (SoloInv /\ OnceUnless)'
  BY SoloKeeps
<1> QED
  BY <1>1, <1>2, AlwaysTyped, PTL DEF Spec

-----------------------------------------------------------------------------
(* _clear_delta_cb clears wirelog's pointer before it tears the slot down: *)
(* the engine never holds the user_data of a slot that is gone, whatever   *)
(* kind of callback replaces which and whatever the engine refuses.        *)
THEOREM SlotOutlivesPointer == ASSUME OneCaller PROVE Spec => []ArmedSlotAlive
<1>1. SoloInv => ArmedSlotAlive
  BY DEF SoloInv, Armed, ArmedSlotAlive, Registered, At
<1> QED
  BY <1>1, OneCallerHolds, PTL

(* step() is given what the untyped trampoline queued, step_typed() what   *)
(* the typed one did, however the two alternate.                           *)
THEOREM OwnKindDrained == ASSUME OneCaller PROVE Spec => []StepsDrainTheirKind
<1>1. SoloInv => StepsDrainTheirKind
  <2> SUFFICES ASSUME SoloInv, NEW t \in Threads, At(t, "drain_clear")
               PROVE  frame[t].cb.kind = WantedKind(t)
    BY DEF StepsDrainTheirKind
  <2>1. t = Main
    BY DEF SoloInv, Beside, MakeLabels, At
  <2> QED
    BY <2>1 DEF SoloInv, Armed, ClearLabels, Chosen, Evaluating, At
<1> QED
  BY <1>1, OneCallerHolds, PTL

(* Every row step() and step_typed() make the engine evaluate is returned  *)
(* by one of them exactly once, or still queued or drained, if the engine  *)
(* accepts their callbacks.                                                *)
THEOREM ExactlyOnce ==
  ASSUME OneCaller, CallbacksAccepted PROVE Spec => []DeltasExactlyOnce
<1>1. (SharedOK /\ LocalsOK) /\ SoloInv /\ OnceUnless => DeltasExactlyOnce
  <2> SUFFICES ASSUME SharedOK, SoloInv, Installed, Queued, Once,
                      self.mode # "QUERY", NEW r \in engine.evaluated
               PROVE  \/ Deliveries(r) = {} /\ InTransit(r)
                      \/ Cardinality(Deliveries(r)) = 1 /\ ~InTransit(r)
    BY DEF DeltasExactlyOnce, OnceUnless
  <2>1. self.mode = "INCREMENTAL"
    BY DEF SoloInv, Modes, SharedOK, SelfType
  <2>2. Delivered(r) <=> ~Underway(r)
    BY <2>1 DEF Once
  <2>3. InTransit(r) <=> Underway(r)
    <3>1. \A t \in Threads : r \in frame[t].events => t = Main /\ Underway(r)
      BY DEF SoloInv, Beside, Queued, Underway, At
    <3>2. Underway(r) => self.deltaCb # NoHandle
      BY DEF SoloInv, Armed, Chosen, Evaluating, Underway
    <3>3. self.deltaCb # NoHandle /\ r \in registry.queue[self.deltaCb.token] => Underway(r)
      BY DEF Queued, SharedOK, SelfType, Handles, Underway
    <3> QED
      BY <3>1, <3>2, <3>3 DEF InTransit, Underway
  <2>4. CASE Underway(r)
    BY <2>2, <2>3, <2>4 DEF Delivered, Deliveries
  <2>5. CASE ~Underway(r)
    <3>1. PICK d \in returned : d.row = r
      BY <2>2, <2>5 DEF Delivered
    <3>2. Deliveries(r) = {d}
      BY <2>1, <3>1 DEF Deliveries, Once
    <3> QED
      BY <2>3, <2>5, <3>2, FS_Singleton
  <2> QED
    BY <2>4, <2>5
<1> QED
  BY <1>1, AlwaysTyped, OneCallerHolds, PTL
================================================================================
