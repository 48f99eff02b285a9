-------------------------- MODULE EasySession_proofs --------------------------
(***************************************************************************)
(* Theorems about EasySession, for every number of threads, strings and    *)
(* calls.  TypeCorrect: the type invariant.  LockDiscipline: the inductive *)
(* invariant LockedInv, for threads whose calls all enter the engine under *)
(* the session's lock (LockedOnly); Serialised, HandleSafe and Implements  *)
(* follow from it: docs/semantics/threading.md holds of those calls.  The  *)
(* run EasySession_overlap shows that it does not hold of the others.      *)
(* BuffersOutlive, CompoundsInvalid, ArgtypesPutBack, StringsFound and     *)
(* ExactlyOnce: what becomes of buffers, compounds and rows when one       *)
(* thread makes the calls, of any kind, while the others only intern       *)
(* (OneCaller).  CloseFreesEngine: close() leaves no engine behind.        *)
(***************************************************************************)
EXTENDS EasySession, FiniteSetTheorems, TLAPS

(* The type invariant, in the part all threads share and the threads' own. *)
SharedOK ==
  /\ engine \in EngineType
  /\ self \in SelfType
  /\ lock \in Threads \cup {NoThread}
  /\ interns \in [known : SUBSET (Symbols \cup {NoSymbol}), owner : Threads \cup {NoThread}]
  /\ registry \in [slots : SUBSET Ids, queue : [Ids -> SUBSET Rows]]
  /\ argtypes \in {"declared", "fixed"}
  /\ returned \subseteq [row : Rows, to : Ids, missed : BOOLEAN]

LocalsOK ==
  /\ pc \in [Threads -> Labels]
  /\ frame \in [Threads -> FrameType]
  /\ CallNumbered

(* A jump keeps the threads' part of the type invariant, provided that the *)
(* locals it installs are locals, of a call that has been counted.         *)
LEMMA JumpTyped ==
  ASSUME LocalsOK, NEW t \in Threads, NEW label \in Labels, NEW locals \in FrameType,
         label = "idle" \/ locals.n \in 1..MaxCalls,
         Jump(t, label, locals)
  PROVE  LocalsOK'
BY DEF LocalsOK, CallNumbered, Jump, At

(* A thread that goes on within its call keeps its locals. *)
LEMMA GotoTyped ==
  ASSUME LocalsOK, NEW t \in Threads, NEW label \in Labels, ~At(t, "idle"), Goto(t, label)
  PROVE  LocalsOK'
BY JumpTyped DEF Goto, LocalsOK, CallNumbered

(* A thread that returns keeps the kind and the number of its call. *)
LEMMA ReturnTyped ==
  ASSUME LocalsOK, NEW t \in Threads, Return(t)
  PROVE  LocalsOK'
<1>1. Blank(frame[t].kind, frame[t].n) \in FrameType
  BY DEF Blank, FrameType, LocalsOK
<1> QED
  BY <1>1, JumpTyped DEF Return, Labels

(* The call a thread is inside of has an id, and a row of its own. *)
LEMMA MeTyped ==
  ASSUME LocalsOK, NEW t \in Threads, ~At(t, "idle")
  PROVE  Me(t) \in Ids /\ Row(t) \in Rows /\ Kind(t) \in Kinds \cup {"none"}
BY DEF LocalsOK, CallNumbered, Me, Row, Kind, Ids, Rows, FrameType, At

(* The locals of a thread inside a call. *)
LEMMA FrameTyped ==
  ASSUME LocalsOK, NEW t \in Threads, ~At(t, "idle")
  PROVE  frame[t] \in FrameType /\ frame[t].n \in 1..MaxCalls
BY DEF LocalsOK, CallNumbered, At

(* The engine after an evaluation. *)
LEMMA EvaluatedTyped ==
  ASSUME SharedOK
  PROVE  Evaluated \in EngineType
BY DEF SharedOK, EngineType, Evaluated

(* _require_mode: a test, then a commit. *)
LEMMA ModeTyped ==
  ASSUME SharedOK, LocalsOK, NEW t \in Threads, Mode(t)
  PROVE  SharedOK' /\ LocalsOK'
<1>1. CASE TestMode(t)
  <2>1. SharedOK'
    BY <1>1 DEF TestMode, SharedOK, shared
  <2>2. LocalsOK'
    BY <1>1, GotoTyped, ReturnTyped DEF TestMode, Labels, At, AfterMode
  <2> QED BY <2>1, <2>2
<1>2. CASE SetMode(t)
  <2>1. SharedOK'
    BY <1>2 DEF SetMode, SharedOK, SelfType, WantedMode
  <2>2. LocalsOK'
    BY <1>2, GotoTyped DEF SetMode, Labels, At, AfterMode
  <2> QED BY <2>1, <2>2
<1> QED
  BY <1>1, <1>2 DEF Mode

(* intern() and InternTable.intern. *)
LEMMA InternTyped ==
  ASSUME SharedOK, LocalsOK, NEW t \in Threads, Intern(t)
  PROVE  SharedOK' /\ LocalsOK'
<1>1. CASE InternBegin(t)
  <2>1. SharedOK'
    BY <1>1 DEF InternBegin, SharedOK, Acquire
  <2>2. LocalsOK'
    BY <1>1, GotoTyped DEF InternBegin, Labels, At
  <2> QED BY <2>1, <2>2
<1>2. CASE InternLookup(t)
  <2>1. SharedOK'
    BY <1>2 DEF InternLookup, SharedOK, InternDone, Release
  <2>2. LocalsOK'
    BY <1>2, GotoTyped, ReturnTyped DEF InternLookup, Labels, At, InternDone
  <2> QED BY <2>1, <2>2
<1>3. CASE InternReturn(t)
  <2>1. frame[t].sym \in Symbols \cup {NoSymbol}
    BY <1>3, FrameTyped DEF InternReturn, At, FrameType
  <2>2. SharedOK'
    BY <1>3, <2>1 DEF InternReturn, SharedOK, InternDone, Release
  <2>3. LocalsOK'
    BY <1>3, GotoTyped, ReturnTyped DEF InternReturn, Labels, At, InternDone
  <2> QED BY <2>2, <2>3
<1> QED
  BY <1>1, <1>2, <1>3 DEF Intern

(* insert and remove. *)
LEMMA IudTyped ==
  ASSUME SharedOK, LocalsOK, NEW t \in Threads, Iud(t)
  PROVE  SharedOK' /\ LocalsOK'
<1>1. CASE IudEnter(t)
  <2>1. SharedOK'
    BY <1>1 DEF IudEnter, SharedOK, EnterEngine, Acquire
  <2>2. LocalsOK'
    BY <1>1, GotoTyped, ReturnTyped DEF IudEnter, Labels, At, EnterEngine
  <2> QED BY <2>1, <2>2
<1>2. CASE IudReturn(t)
  <2>1. SharedOK'
    BY <1>2, MeTyped DEF IudReturn, SharedOK, At, Release, EngineType
  <2>2. LocalsOK'
    BY <1>2, GotoTyped, ReturnTyped DEF IudReturn, Labels, At
  <2> QED BY <2>1, <2>2
<1>3. CASE AppendPending(t)
  <2>1. SharedOK'
    BY <1>3, MeTyped DEF AppendPending, SharedOK, At, SelfType
  <2>2. LocalsOK'
    BY <1>3, GotoTyped, ReturnTyped DEF AppendPending, Labels, At
  <2> QED BY <2>1, <2>2
<1> QED
  BY <1>1, <1>2, <1>3 DEF Iud

(* _sym_call. *)
LEMMA SymCallTyped ==
  ASSUME SharedOK, LocalsOK, NEW t \in Threads, SymCall(t)
  PROVE  SharedOK' /\ LocalsOK'
<1>1. CASE SymSavePrev(t)
  <2>1. SharedOK'
    BY <1>1 DEF SymSavePrev, SharedOK, shared
  <2>2. LocalsOK'
    <3> DEFINE locals == [frame[t] EXCEPT !.prev = argtypes]
    <3>1. frame[t] \in FrameType /\ frame[t].n \in 1..MaxCalls
      BY <1>1, FrameTyped DEF SymSavePrev, At
    <3>2. locals \in FrameType /\ locals.n = frame[t].n
      BY <3>1 DEF FrameType, SharedOK
    <3> QED
      BY <1>1, <3>1, <3>2, JumpTyped DEF SymSavePrev, Labels
  <2> QED BY <2>1, <2>2
<1>2. CASE SymSetArgtypes(t)
  <2>1. SharedOK'
    BY <1>2 DEF SymSetArgtypes, SharedOK, Acquire
  <2>2. LocalsOK'
    BY <1>2, GotoTyped DEF SymSetArgtypes, Labels, At
  <2> QED BY <2>1, <2>2
<1>3. CASE SymEnter(t)
  <2>1. SharedOK'
    BY <1>3 DEF SymEnter, SharedOK, Release
  <2>2. LocalsOK'
    BY <1>3, GotoTyped DEF SymEnter, Labels, At
  <2> QED BY <2>1, <2>2
<1>4. CASE SymReturn(t)
  <2>1. SharedOK'
    BY <1>4, MeTyped DEF SymReturn, SharedOK, At, Release, EngineType
  <2>2. LocalsOK'
    <3> DEFINE locals(ok) == [frame[t] EXCEPT !.ok = ok]
    <3>1. frame[t] \in FrameType /\ frame[t].n \in 1..MaxCalls
      BY <1>4, FrameTyped DEF SymReturn, At
    <3>2. \A ok \in BOOLEAN : locals(ok) \in FrameType /\ locals(ok).n = frame[t].n
      BY <3>1 DEF FrameType
    <3> QED
      BY <1>4, <3>1, <3>2, JumpTyped DEF SymReturn, Labels, Outcomes
  <2> QED BY <2>1, <2>2
<1>5. CASE SymRestore(t)
  <2>1. SharedOK'
    BY <1>5 DEF SymRestore, SharedOK, LocalsOK, FrameType
  <2>2. LocalsOK'
    BY <1>5, GotoTyped, ReturnTyped DEF SymRestore, Labels, At
  <2> QED BY <2>1, <2>2
<1> QED
  BY <1>1, <1>2, <1>3, <1>4, <1>5 DEF SymCall

(* set_delta_callback, with a function or None. *)
LEMMA SetDeltaCallbackTyped ==
  ASSUME SharedOK, LocalsOK, NEW t \in Threads, SetDeltaCallback(t)
  PROVE  SharedOK' /\ LocalsOK'
<1>10. CASE CbCreate(t)
  <2>1. SharedOK'
    BY <1>10, MeTyped DEF CbCreate, SharedOK, At, SelfType
  <2>2. LocalsOK'
    BY <1>10, GotoTyped DEF CbCreate, Labels, At
  <2> QED BY <2>1, <2>2
<1>1. CASE CbTest(t)
  <2>1. SharedOK'
    BY <1>1 DEF CbTest, SharedOK, shared
  <2>2. LocalsOK'
    BY <1>1, GotoTyped DEF CbTest, Labels, At
  <2> QED BY <2>1, <2>2
<1>2. CASE CbSetUserFn(t)
  <2>1. SharedOK'
    BY <1>2 DEF CbSetUserFn, SharedOK, shared
  <2>2. LocalsOK'
    BY <1>2, GotoTyped, ReturnTyped DEF CbSetUserFn, Labels, At
  <2> QED BY <2>1, <2>2
<1>3. CASE SetCbEnter(t)
  <2>1. SharedOK'
    BY <1>3 DEF SetCbEnter, SharedOK, Acquire
  <2>2. LocalsOK'
    <3> DEFINE locals == [frame[t] EXCEPT !.token = self.deltaCb]
    <3>1. frame[t] \in FrameType /\ frame[t].n \in 1..MaxCalls
      BY <1>3, FrameTyped DEF SetCbEnter, At
    <3>2. locals \in FrameType /\ locals.n = frame[t].n
      BY <3>1 DEF FrameType, SharedOK, SelfType
    <3> QED
      BY <1>3, <3>1, <3>2, JumpTyped, ReturnTyped DEF SetCbEnter, Labels
  <2> QED BY <2>1, <2>2
<1>4. CASE SetCbReturn(t)
  <2>1. SharedOK'
    BY <1>4 DEF SetCbReturn, SharedOK, LocalsOK, FrameType, Release, EngineType
  <2>2. LocalsOK'
    BY <1>4, GotoTyped, ReturnTyped DEF SetCbReturn, Labels, At
  <2> QED BY <2>1, <2>2
<1>5. CASE ClearTest(t)
  <2>1. SharedOK'
    BY <1>5 DEF ClearTest, SharedOK, shared
  <2>2. LocalsOK'
    BY <1>5, GotoTyped, ReturnTyped DEF ClearTest, Labels, At
  <2> QED BY <2>1, <2>2
<1>6. CASE ClearEnter(t)
  <2>1. SharedOK'
    BY <1>6 DEF ClearEnter, SharedOK, EnterEngine, Acquire
  <2>2. LocalsOK'
    BY <1>6, GotoTyped, ReturnTyped DEF ClearEnter, Labels, At, EnterEngine
  <2> QED BY <2>1, <2>2
<1>7. CASE ClearReturn(t)
  <2>1. SharedOK'
    BY <1>7 DEF ClearReturn, SharedOK, Release, EngineType
  <2>2. LocalsOK'
    BY <1>7, GotoTyped, ReturnTyped DEF ClearReturn, Labels, At
  <2> QED BY <2>1, <2>2
<1>8. CASE ClearDrop(t)
  <2>1. SharedOK'
    BY <1>8 DEF ClearDrop, SharedOK
  <2>2. LocalsOK'
    BY <1>8, GotoTyped, ReturnTyped DEF ClearDrop, Labels, At
  <2> QED BY <2>1, <2>2
<1>9. CASE ClearNull(t)
  <2>1. SharedOK'
    BY <1>9 DEF ClearNull, SharedOK, SelfType
  <2>2. LocalsOK'
    BY <1>9, ReturnTyped DEF ClearNull
  <2> QED BY <2>1, <2>2
<1> QED
  BY <1>1, <1>2, <1>3, <1>4, <1>5, <1>6, <1>7, <1>8, <1>9, <1>10
  DEF SetDeltaCallback

(* step. *)
LEMMA StepTyped ==
  ASSUME SharedOK, LocalsOK, NEW t \in Threads, Step(t)
  PROVE  SharedOK' /\ LocalsOK'
<1>1. CASE StepEnter(t)
  <2>1. SharedOK'
    BY <1>1 DEF StepEnter, SharedOK, EnterEngine, Acquire
  <2>2. LocalsOK'
    BY <1>1, GotoTyped, ReturnTyped DEF StepEnter, Labels, At, EnterEngine
  <2> QED BY <2>1, <2>2
<1>2. CASE StepReturn(t)
  <2>1. SharedOK'
    <3>1. Evaluated \in EngineType
      BY EvaluatedTyped
    <3>2. Deliver(engine.staged) \in [slots : SUBSET Ids, queue : [Ids -> SUBSET Rows]]
      BY DEF SharedOK, EngineType, Deliver
    <3>3. engine' \in EngineType /\ registry' \in [slots : SUBSET Ids, queue : [Ids -> SUBSET Rows]]
      BY <1>2, <3>1, <3>2 DEF StepReturn, SharedOK
    <3> QED
      BY <1>2, <3>3 DEF StepReturn, SharedOK, Release
  <2>2. LocalsOK'
    BY <1>2, GotoTyped, ReturnTyped DEF StepReturn, Labels, At
  <2> QED BY <2>1, <2>2
<1>3. CASE DrainCopy(t)
  <2>1. SharedOK'
    BY <1>3 DEF DrainCopy, SharedOK, shared
  <2>2. LocalsOK'
    <3> DEFINE locals == [frame[t] EXCEPT !.token = self.deltaCb,
                         !.events = registry.queue[self.deltaCb]]
    <3>1. frame[t] \in FrameType /\ frame[t].n \in 1..MaxCalls
      BY <1>3, FrameTyped DEF DrainCopy, At
    <3>2. self.deltaCb # NoId => locals \in FrameType /\ locals.n = frame[t].n
      BY <3>1 DEF FrameType, SharedOK, SelfType
    <3> QED
      BY <1>3, <3>1, <3>2, JumpTyped, ReturnTyped DEF DrainCopy, Labels
  <2> QED BY <2>1, <2>2
<1>4. CASE DrainClear(t)
  <2>1. SharedOK'
    BY <1>4 DEF DrainClear, SharedOK
  <2>2. LocalsOK'
    BY <1>4, GotoTyped DEF DrainClear, Labels, At
  <2> QED BY <2>1, <2>2
<1>5. CASE ClearPending(t)
  <2>1. SharedOK'
    BY <1>5 DEF ClearPending, SharedOK, SelfType
  <2>2. LocalsOK'
    BY <1>5, GotoTyped DEF ClearPending, Labels, At
  <2> QED BY <2>1, <2>2
<1>6. CASE Decode(t)
  <2>1. SharedOK'
    BY <1>6 DEF Decode, SharedOK, shared
  <2>2. LocalsOK'
    BY <1>6, GotoTyped DEF Decode, Labels, At
  <2> QED BY <2>1, <2>2
<1>7. CASE SchemaEnter(t)
  <2>1. SharedOK'
    BY <1>7 DEF SchemaEnter, SharedOK, EnterProgram, shared
  <2>2. LocalsOK'
    BY <1>7, GotoTyped, ReturnTyped DEF SchemaEnter, Labels, At, EnterProgram
  <2> QED BY <2>1, <2>2
<1>8. CASE SchemaReturn(t)
  <2>1. SharedOK'
    BY <1>8 DEF SchemaReturn, SharedOK, SelfType
  <2>2. LocalsOK'
    BY <1>8, GotoTyped DEF SchemaReturn, Labels, At
  <2> QED BY <2>1, <2>2
<1>9. CASE LookupRows(t)
  <2>1. SharedOK'
    BY <1>9 DEF LookupRows, SharedOK, shared
  <2>2. LocalsOK'
    <3> DEFINE locals == [frame[t] EXCEPT !.missed =
           {r \in frame[t].events : r.sym \notin interns.known \cup {NoSymbol}}]
    <3>1. frame[t] \in FrameType /\ frame[t].n \in 1..MaxCalls
      BY <1>9, FrameTyped DEF LookupRows, At
    <3>2. locals \in FrameType /\ locals.n = frame[t].n
      BY <3>1 DEF FrameType
    <3> QED
      BY <1>9, <3>1, <3>2, JumpTyped DEF LookupRows, Labels
  <2> QED BY <2>1, <2>2
<1>10. CASE Dispatch(t)
  <2>1. SharedOK'
    <3>1. frame[t].events \subseteq Rows /\ Me(t) \in Ids
      BY <1>10, MeTyped, FrameTyped DEF Dispatch, At, FrameType
    <3> DEFINE delivery(r) == [row |-> r, to |-> Me(t), missed |-> r \in frame[t].missed]
               new == {delivery(r) : r \in frame[t].events}
               DeliveryRecords == [row : Rows, to : Ids, missed : BOOLEAN]
    <3>2. \A r \in frame[t].events : delivery(r) \in DeliveryRecords
      BY <3>1
    <3>3. new \subseteq DeliveryRecords
      <4> HIDE DEF delivery, DeliveryRecords
      <4> QED BY <3>2
    <3>4. returned' = returned \/ returned' = returned \cup new
      BY <1>10, Zenon DEF Dispatch
    <3>5. returned' \subseteq DeliveryRecords
      <4> HIDE DEF new, DeliveryRecords
      <4>1. returned \subseteq DeliveryRecords
        BY DEF SharedOK, DeliveryRecords
      <4> QED BY <3>3, <3>4, <4>1
    <3> QED
      BY <1>10, <3>5 DEF Dispatch, SharedOK
  <2>2. LocalsOK'
    BY <1>10, ReturnTyped DEF Dispatch
  <2> QED BY <2>1, <2>2
<1> QED
  BY <1>1, <1>2, <1>3, <1>4, <1>5, <1>6, <1>7, <1>8, <1>9, <1>10 DEF Step

(* snapshot. *)
LEMMA SnapshotTyped ==
  ASSUME SharedOK, LocalsOK, NEW t \in Threads, Snapshot(t)
  PROVE  SharedOK' /\ LocalsOK'
<1>1. CASE SnapshotEnter(t)
  <2>1. SharedOK'
    BY <1>1 DEF SnapshotEnter, SharedOK, EnterEngine, Acquire
  <2>2. LocalsOK'
    BY <1>1, GotoTyped, ReturnTyped DEF SnapshotEnter, Labels, At, EnterEngine
  <2> QED BY <2>1, <2>2
<1>2. CASE SnapshotReturn(t)
  <2>1. SharedOK'
    <3>1. engine' \in EngineType
      BY <1>2, EvaluatedTyped DEF SnapshotReturn, SharedOK
    <3> QED
      BY <1>2, <3>1 DEF SnapshotReturn, SharedOK, Release
  <2>2. LocalsOK'
    <3> DEFINE locals == [frame[t] EXCEPT !.events = Evaluated.evaluated]
    <3>1. frame[t] \in FrameType /\ frame[t].n \in 1..MaxCalls
      BY <1>2, FrameTyped DEF SnapshotReturn, At
    <3>2. locals \in FrameType /\ locals.n = frame[t].n
      BY <3>1 DEF FrameType, SharedOK, EngineType, Evaluated
    <3> QED
      BY <1>2, <3>1, <3>2, JumpTyped, ReturnTyped DEF SnapshotReturn, Labels
  <2> QED BY <2>1, <2>2
<1> QED
  BY <1>1, <1>2 DEF Snapshot

(* make_compound. *)
LEMMA MakeCompoundTyped ==
  ASSUME SharedOK, LocalsOK, NEW t \in Threads, MakeCompound(t)
  PROVE  SharedOK' /\ LocalsOK'
<1>1. CASE CaptureHandle(t)
  <2>1. SharedOK'
    BY <1>1 DEF CaptureHandle, SharedOK, shared
  <2>2. LocalsOK'
    <3> DEFINE locals == [frame[t] EXCEPT !.raw = self.handle]
    <3>1. frame[t] \in FrameType /\ frame[t].n \in 1..MaxCalls
      BY <1>1, FrameTyped DEF CaptureHandle, At
    <3>2. locals \in FrameType /\ locals.n = frame[t].n
      BY <3>1 DEF FrameType, SharedOK, SelfType
    <3> QED
      BY <1>1, <3>1, <3>2, JumpTyped DEF CaptureHandle, Labels
  <2> QED BY <2>1, <2>2
<1>2. CASE MakeEnter(t)
  <2>1. SharedOK'
    BY <1>2 DEF MakeEnter, SharedOK, Acquire
  <2>2. LocalsOK'
    BY <1>2, GotoTyped, ReturnTyped DEF MakeEnter, Labels, At
  <2> QED BY <2>1, <2>2
<1>3. CASE MakeReturn(t)
  <2>1. SharedOK'
    BY <1>3 DEF MakeReturn, SharedOK, Release
  <2>2. LocalsOK'
    BY <1>3, GotoTyped, ReturnTyped DEF MakeReturn, Labels, At
  <2> QED BY <2>1, <2>2
<1>4. CASE MakeAppend(t)
  <2>1. SharedOK'
    BY <1>4, MeTyped DEF MakeAppend, SharedOK, At, SelfType
  <2>2. LocalsOK'
    BY <1>4, ReturnTyped DEF MakeAppend
  <2> QED BY <2>1, <2>2
<1> QED
  BY <1>1, <1>2, <1>3, <1>4 DEF MakeCompound

(* preview_inline_facts and insert_with_dedupe. *)
LEMMA PreviewInlineFactsTyped ==
  ASSUME SharedOK, LocalsOK, NEW t \in Threads, PreviewInlineFacts(t)
  PROVE  SharedOK' /\ LocalsOK'
<1>1. CASE Preview(t)
  <2>1. SharedOK'
    BY <1>1 DEF Preview, SharedOK, shared
  <2>2. LocalsOK'
    BY <1>1, GotoTyped, ReturnTyped DEF Preview, Labels, At, AfterPreview
  <2> QED BY <2>1, <2>2
<1>2. CASE FactsEnter(t)
  <2>1. SharedOK'
    BY <1>2 DEF FactsEnter, SharedOK, EnterProgram, shared
  <2>2. LocalsOK'
    BY <1>2, GotoTyped, ReturnTyped DEF FactsEnter, Labels, At, EnterProgram
  <2> QED BY <2>1, <2>2
<1>3. CASE FactsReturn(t)
  <2>1. SharedOK'
    BY <1>3 DEF FactsReturn, SharedOK, shared
  <2>2. LocalsOK'
    BY <1>3, GotoTyped DEF FactsReturn, Labels, At
  <2> QED BY <2>1, <2>2
<1>4. CASE FactsLookup(t)
  <2>1. SharedOK'
    BY <1>4 DEF FactsLookup, SharedOK, shared
  <2>2. LocalsOK'
    BY <1>4, GotoTyped, ReturnTyped DEF FactsLookup, Labels, At, AfterPreview
  <2> QED BY <2>1, <2>2
<1> QED
  BY <1>1, <1>2, <1>3, <1>4 DEF PreviewInlineFacts

(* close. *)
LEMMA CloseTyped ==
  ASSUME SharedOK, LocalsOK, NEW t \in Threads, Close(t)
  PROVE  SharedOK' /\ LocalsOK'
<1>1. CASE CloseTest(t)
  <2>1. SharedOK'
    BY <1>1 DEF CloseTest, SharedOK, shared
  <2>2. LocalsOK'
    BY <1>1, GotoTyped, ReturnTyped DEF CloseTest, Labels, At
  <2> QED BY <2>1, <2>2
<1>2. CASE CloseLock(t)
  <2>1. SharedOK'
    BY <1>2 DEF CloseLock, SharedOK, Acquire, SelfType
  <2>2. LocalsOK'
    BY <1>2, GotoTyped DEF CloseLock, Labels, At
  <2> QED BY <2>1, <2>2
<1>3. CASE CloseCb(t)
  <2>1. SharedOK'
    BY <1>3 DEF CloseCb, SharedOK, shared
  <2>2. LocalsOK'
    BY <1>3, GotoTyped DEF CloseCb, Labels, At
  <2> QED BY <2>1, <2>2
<1>4. CASE CloseCbReturn(t)
  <2>1. SharedOK'
    BY <1>4 DEF CloseCbReturn, SharedOK, EngineType
  <2>2. LocalsOK'
    BY <1>4, GotoTyped DEF CloseCbReturn, Labels, At
  <2> QED BY <2>1, <2>2
<1>5. CASE CloseDrop(t)
  <2>1. SharedOK'
    BY <1>5 DEF CloseDrop, SharedOK, Release
  <2>2. LocalsOK'
    BY <1>5, GotoTyped, ReturnTyped DEF CloseDrop, Labels, At
  <2> QED BY <2>1, <2>2
<1>6. CASE CloseNull(t)
  <2>1. SharedOK'
    BY <1>6 DEF CloseNull, SharedOK, SelfType
  <2>2. LocalsOK'
    BY <1>6, GotoTyped DEF CloseNull, Labels, At
  <2> QED BY <2>1, <2>2
<1>7. CASE CloseHandle(t)
  <2>1. SharedOK'
    BY <1>7 DEF CloseHandle, SharedOK, shared
  <2>2. LocalsOK'
    BY <1>7, GotoTyped DEF CloseHandle, Labels, At
  <2> QED BY <2>1, <2>2
<1>8. CASE CloseReturn(t)
  <2>1. SharedOK'
    BY <1>8 DEF CloseReturn, SharedOK, EngineType
  <2>2. LocalsOK'
    BY <1>8, GotoTyped DEF CloseReturn, Labels, At
  <2> QED BY <2>1, <2>2
<1>9. CASE CloseFinish(t)
  <2>1. SharedOK'
    BY <1>9 DEF CloseFinish, SharedOK, Release, SelfType
  <2>2. LocalsOK'
    BY <1>9, ReturnTyped DEF CloseFinish
  <2> QED BY <2>1, <2>2
<1> QED
  BY <1>1, <1>2, <1>3, <1>4, <1>5, <1>6, <1>7, <1>8, <1>9 DEF Close

(* A call begins. *)
LEMMA BeginTyped ==
  ASSUME SharedOK, LocalsOK, NEW t \in Threads, Begin(t)
  PROVE  SharedOK' /\ LocalsOK'
<1>1. SharedOK'
  BY DEF Begin, SharedOK, shared
<1>2. PICK kind \in Calls[t], s \in Symbols \cup {NoSymbol} :
        Jump(t, FirstLabel(kind), [Blank(kind, frame[t].n + 1) EXCEPT !.sym = s])
  BY DEF Begin
<1>3. kind \in Kinds
  BY ConstantsAssumption
<1>4. FirstLabel(kind) \in Labels
  BY DEF FirstLabel, Labels
<1>5. frame[t].n + 1 \in 1..MaxCalls
  BY ConstantsAssumption DEF Begin, LocalsOK, FrameType
<1> DEFINE blank == Blank(kind, frame[t].n + 1)
           locals == [blank EXCEPT !.sym = s]
<1>6. locals \in FrameType /\ locals.n \in 1..MaxCalls
  <2>1. blank \in FrameType /\ blank.n = frame[t].n + 1
    BY <1>3, <1>5 DEF Blank, FrameType
  <2> HIDE DEF blank
  <2> QED BY <2>1, <1>5 DEF FrameType
<1>7. LocalsOK'
  BY <1>2, <1>4, <1>6, JumpTyped
<1> QED
  BY <1>1, <1>7

(* A session just opened, and threads that have made no call. *)
LEMMA InitTyped == Init => SharedOK /\ LocalsOK
<1> SUFFICES ASSUME Init PROVE SharedOK /\ LocalsOK
  OBVIOUS
<1>1. SharedOK
  BY DEF Init, SharedOK, EngineType, SelfType
<1>2. LocalsOK
  BY ConstantsAssumption DEF Init, LocalsOK, CallNumbered, At, Blank, FrameType, Labels
<1> QED
  BY <1>1, <1>2

(* Every step keeps the type invariant. *)
LEMMA NextTyped ==
  ASSUME SharedOK, LocalsOK, [Next]_vars
  PROVE  SharedOK' /\ LocalsOK'
<1>1. ASSUME NEW t \in Threads, Run(t)
      PROVE  SharedOK' /\ LocalsOK'
  BY <1>1, ModeTyped, InternTyped, IudTyped, SymCallTyped, SetDeltaCallbackTyped, StepTyped,
     SnapshotTyped, MakeCompoundTyped, PreviewInlineFactsTyped, CloseTyped DEF Run
<1>2. CASE UNCHANGED vars
  BY <1>2 DEF vars, shared, SharedOK, LocalsOK, CallNumbered, At
<1> QED
  BY <1>1, <1>2, BeginTyped DEF Next, Finished

(* The type invariant holds in every reachable state. *)
LEMMA Typed == Spec => [](SharedOK /\ LocalsOK)
BY InitTyped, NextTyped, PTL DEF Spec

(* Type correctness, for every number of threads, strings and calls. *)
THEOREM TypeCorrect == Spec => []TypeOK
<1>1. SharedOK /\ LocalsOK => TypeOK
  BY DEF SharedOK, LocalsOK, TypeOK
<1> QED
  BY <1>1, Typed, PTL

-----------------------------------------------------------------------------
(* The step relation of a thread as LockedInv sees it: it goes to label,   *)
(* its call stays one the lock guards, and the engine and its handle stay. *)
Moves(t, label) ==
  /\ \E locals \in FrameType :
       /\ Jump(t, label, locals)
       /\ locals.kind \notin UnlockedEntry
       /\ label \in InternPath => locals.kind = "intern"
  /\ label \in Labels \ Unguarded
  /\ engine'.state = engine.state /\ self'.handle = self.handle

(* A thread that neither takes nor drops the lock. *)
LEMMA KeepsLock ==
  ASSUME LocalsOK, LockedInv, NEW t \in Threads, NEW label, Moves(t, label), lock' = lock,
         label \in Guarded => pc[t] \in Guarded,
         label \in EngineLabels => engine.state # "freed",
         pc[t] # "close_finish"
  PROVE  LockedInv'
<1>0. PICK locals \in FrameType :
        /\ Jump(t, label, locals)
        /\ locals.kind \notin UnlockedEntry
        /\ label \in InternPath => locals.kind = "intern"
  BY DEF Moves
<1>1. OwnsLock'
  BY <1>0 DEF LockedInv, OwnsLock, LocalsOK, Jump
<1>2. OnLockedPaths'
  BY <1>0 DEF LockedInv, OnLockedPaths, LocalsOK, Jump, Moves, Kind
<1>3. FreedByClose'
  BY <1>0 DEF LockedInv, FreedByClose, LocalsOK, Jump, Moves, InEngine, At
<1> QED
  BY <1>1, <1>2, <1>3 DEF LockedInv

(* A thread that takes the lock. *)
LEMMA TakesLock ==
  ASSUME LocalsOK, LockedInv, NEW t \in Threads, NEW label, Moves(t, label),
         lock = NoThread, lock' = t, label \in EngineLabels => self.handle
  PROVE  LockedInv'
<1>0. PICK locals \in FrameType :
        /\ Jump(t, label, locals)
        /\ locals.kind \notin UnlockedEntry
        /\ label \in InternPath => locals.kind = "intern"
  BY DEF Moves
<1>1. \A u \in Threads : pc[u] \notin Guarded
  BY ConstantsAssumption DEF LockedInv, OwnsLock
<1>2. engine.state = "freed" => ~self.handle
  BY <1>1 DEF LockedInv, FreedByClose, At, Guarded
<1>3. OwnsLock'
  BY <1>0, <1>1 DEF OwnsLock, LocalsOK, Jump
<1>4. OnLockedPaths'
  BY <1>0 DEF LockedInv, OnLockedPaths, LocalsOK, Jump, Moves, Kind
<1>5. FreedByClose'
  BY <1>0, <1>2 DEF LockedInv, FreedByClose, LocalsOK, Jump, Moves, InEngine, At
<1> QED
  BY <1>3, <1>4, <1>5 DEF LockedInv

(* A thread that drops the lock. *)
LEMMA DropsLock ==
  ASSUME LocalsOK, LockedInv, NEW t \in Threads, NEW label, Moves(t, label),
         pc[t] \in Guarded \ {"close_finish"}, lock' = NoThread,
         label \notin Guarded \cup EngineLabels
  PROVE  LockedInv'
<1>0. PICK locals \in FrameType :
        /\ Jump(t, label, locals)
        /\ locals.kind \notin UnlockedEntry
        /\ label \in InternPath => locals.kind = "intern"
  BY DEF Moves
<1>1. \A u \in Threads : pc[u] \in Guarded => u = t
  BY DEF LockedInv, OwnsLock
<1>2. OwnsLock'
  BY <1>0, <1>1 DEF OwnsLock, LocalsOK, Jump
<1>3. OnLockedPaths'
  BY <1>0 DEF LockedInv, OnLockedPaths, LocalsOK, Jump, Moves, Kind
<1>4. FreedByClose'
  BY <1>0 DEF LockedInv, FreedByClose, LocalsOK, Jump, Moves, InEngine, At
<1> QED
  BY <1>2, <1>3, <1>4 DEF LockedInv

(* A thread that goes on, or returns, within a call the lock guards. *)
LEMMA GotoMoves ==
  ASSUME LocalsOK, LockedInv, NEW t \in Threads, NEW label \in Labels \ Unguarded, Goto(t, label),
         label \in InternPath => Kind(t) = "intern",
         engine'.state = engine.state, self'.handle = self.handle
  PROVE  Moves(t, label)
BY DEF Goto, Moves, LocalsOK, LockedInv, OnLockedPaths, Kind

(* A thread whose call ends. *)
LEMMA ReturnMoves ==
  ASSUME LocalsOK, LockedInv, NEW t \in Threads, Return(t),
         engine'.state = engine.state, self'.handle = self.handle
  PROVE  Moves(t, "idle")
<1>1. Blank(frame[t].kind, frame[t].n) \in FrameType
  BY DEF Blank, FrameType, LocalsOK
<1>2. Blank(frame[t].kind, frame[t].n).kind \notin UnlockedEntry
  BY DEF Blank, LockedInv, OnLockedPaths, Kind
<1> QED
  BY <1>1, <1>2 DEF Return, Moves, Labels, Unguarded, InternPath

(* What LockedInv says of the call a thread is in. *)
LEMMA KindLocked ==
  ASSUME LockedInv, NEW t \in Threads
  PROVE  /\ Kind(t) \notin StrRow \cup SymRow
         /\ pc[t] \in InternPath => Kind(t) = "intern"
BY DEF LockedInv, OnLockedPaths, UnlockedEntry

(* While the lock is held, a handle that is not NULL is good. *)
LEMMA OpenUnderLock ==
  ASSUME LockedInv, NEW t \in Threads, pc[t] \in Guarded \ {"close_finish"}, self.handle
  PROVE  engine.state # "freed"
BY DEF LockedInv, OwnsLock, FreedByClose, At, Guarded

(* The same for a step that changes the locals of the call, not its kind. *)
LEMMA JumpMoves ==
  ASSUME LockedInv, NEW t \in Threads, NEW label \in Labels \ (Unguarded \cup InternPath),
         NEW locals \in FrameType, Jump(t, label, locals), locals.kind = frame[t].kind,
         engine'.state = engine.state, self'.handle = self.handle
  PROVE  Moves(t, label)
BY DEF Moves, LockedInv, OnLockedPaths, Kind

(* _require_mode. *)
LEMMA ModeLocked ==
  ASSUME SharedOK, LocalsOK, LockedInv, LockedOnly, NEW t \in Threads, Mode(t)
  PROVE  LockedInv'
<1> USE GotoMoves, ReturnMoves
    DEF At, Labels, Guarded, Unguarded, EngineLabels, InternPath, shared, SharedOK, SelfType,
        EngineType
<1>1. CASE TestMode(t)
  BY <1>1, KeepsLock, KindLocked DEF TestMode, AfterMode
<1>2. CASE SetMode(t)
  BY <1>2, KeepsLock, KindLocked DEF SetMode, AfterMode
<1> QED
  BY <1>1, <1>2 DEF Mode

(* intern(), the table's lock inside the session's. *)
LEMMA InternLocked ==
  ASSUME SharedOK, LocalsOK, LockedInv, LockedOnly, NEW t \in Threads, Intern(t)
  PROVE  LockedInv'
<1> USE GotoMoves, ReturnMoves
    DEF At, Labels, Guarded, Unguarded, EngineLabels, InternPath, shared, SharedOK, SelfType,
        EngineType
<1>1. CASE InternBegin(t)
  BY <1>1, TakesLock, KindLocked DEF InternBegin, LockFree, Acquire, LockedOnly
<1>2. CASE InternLookup(t)
  BY <1>2, KeepsLock, DropsLock, KindLocked, OpenUnderLock DEF InternLookup, InternDone, Release
<1>3. CASE InternReturn(t)
  BY <1>3, DropsLock, KindLocked DEF InternReturn, InternDone, Release
<1> QED
  BY <1>1, <1>2, <1>3 DEF Intern

(* insert and remove. *)
LEMMA IudLocked ==
  ASSUME SharedOK, LocalsOK, LockedInv, LockedOnly, NEW t \in Threads, Iud(t)
  PROVE  LockedInv'
<1> USE GotoMoves, ReturnMoves
    DEF At, Labels, Guarded, Unguarded, EngineLabels, InternPath, shared, SharedOK, SelfType,
        EngineType
<1>1. CASE IudEnter(t)
  BY <1>1, TakesLock, KeepsLock DEF IudEnter, LockFree, Acquire, LockedOnly, EnterEngine
<1>2. CASE IudReturn(t)
  BY <1>2, DropsLock DEF IudReturn, Release
<1>3. CASE AppendPending(t)
  BY <1>3, KeepsLock, KindLocked DEF AppendPending
<1> QED
  BY <1>1, <1>2, <1>3 DEF Iud

(* set_delta_callback, and the registration step shares with it. *)
LEMMA SetDeltaCallbackLocked ==
  ASSUME SharedOK, LocalsOK, LockedInv, LockedOnly, NEW t \in Threads, SetDeltaCallback(t)
  PROVE  LockedInv'
<1> USE GotoMoves, ReturnMoves
    DEF At, Labels, Guarded, Unguarded, EngineLabels, InternPath, shared, SharedOK, SelfType,
        EngineType
<1>1. CASE CbTest(t)
  BY <1>1, KeepsLock DEF CbTest
<1>10. CASE CbCreate(t)
  BY <1>10, KeepsLock DEF CbCreate
<1>2. CASE CbSetUserFn(t)
  BY <1>2, KeepsLock DEF CbSetUserFn
<1>3. CASE SetCbEnter(t)
  <2> DEFINE locals == [frame[t] EXCEPT !.token = self.deltaCb]
  <2>1. CASE self.handle /\ self.deltaCb # NoId
    <3>1. locals \in FrameType /\ locals.kind = frame[t].kind
      BY <1>3, FrameTyped DEF SetCbEnter, FrameType
    <3>2. Moves(t, "in_set_cb")
      BY <1>3, <2>1, <3>1, JumpMoves DEF SetCbEnter
    <3> QED
      BY <1>3, <2>1, <3>2, TakesLock DEF SetCbEnter, LockFree, Acquire, LockedOnly
  <2>2. CASE ~(self.handle /\ self.deltaCb # NoId)
    BY <1>3, <2>2, KeepsLock DEF SetCbEnter
  <2> QED
    BY <2>1, <2>2
<1>4. CASE SetCbReturn(t)
  BY <1>4, DropsLock DEF SetCbReturn, Release
<1>5. CASE ClearTest(t)
  BY <1>5, KeepsLock DEF ClearTest
<1>6. CASE ClearEnter(t)
  BY <1>6, TakesLock, KeepsLock DEF ClearEnter, LockFree, Acquire, LockedOnly, EnterEngine
<1>7. CASE ClearReturn(t)
  BY <1>7, DropsLock DEF ClearReturn, Release
<1>8. CASE ClearDrop(t)
  BY <1>8, KeepsLock DEF ClearDrop
<1>9. CASE ClearNull(t)
  BY <1>9, KeepsLock DEF ClearNull
<1> QED
  BY <1>1, <1>2, <1>3, <1>4, <1>5, <1>6, <1>7, <1>8, <1>9, <1>10
  DEF SetDeltaCallback

(* step. *)
LEMMA StepLocked ==
  ASSUME SharedOK, LocalsOK, LockedInv, LockedOnly, NEW t \in Threads, Step(t)
  PROVE  LockedInv'
<1> USE GotoMoves, ReturnMoves
    DEF At, Labels, Guarded, Unguarded, EngineLabels, InternPath, shared, SharedOK, SelfType,
        EngineType
<1>1. CASE StepEnter(t)
  BY <1>1, TakesLock, KeepsLock DEF StepEnter, LockFree, Acquire, LockedOnly, EnterEngine
<1>2. CASE StepReturn(t)
  BY <1>2, DropsLock DEF StepReturn, Release, Evaluated
<1>3. CASE DrainCopy(t)
  <2> DEFINE locals == [frame[t] EXCEPT !.token = self.deltaCb,
                                        !.events = registry.queue[self.deltaCb]]
  <2>1. CASE self.deltaCb # NoId
    <3>1. self.deltaCb \in Ids /\ registry.queue[self.deltaCb] \in SUBSET Rows
      BY <2>1
    <3>2. frame[t] \in FrameType
      BY DEF LocalsOK
    <3>3. locals \in FrameType /\ locals.kind = frame[t].kind
      BY <3>1, <3>2 DEF FrameType
    <3>4. Moves(t, "drain_clear")
      BY <1>3, <2>1, <3>3, JumpMoves DEF DrainCopy
    <3> QED
      BY <1>3, <3>4, KeepsLock DEF DrainCopy
  <2>2. CASE self.deltaCb = NoId
    BY <1>3, <2>2, KeepsLock DEF DrainCopy
  <2> QED
    BY <2>1, <2>2
<1>4. CASE DrainClear(t)
  BY <1>4, KeepsLock DEF DrainClear
<1>5. CASE ClearPending(t)
  BY <1>5, KeepsLock DEF ClearPending
<1>6. CASE Decode(t)
  BY <1>6, KeepsLock DEF Decode
<1>7. CASE SchemaEnter(t)
  BY <1>7, KeepsLock DEF SchemaEnter, EnterProgram
<1>8. CASE SchemaReturn(t)
  BY <1>8, KeepsLock DEF SchemaReturn
<1>9. CASE LookupRows(t)
  <2> DEFINE missed == {r \in frame[t].events : r.sym \notin interns.known \cup {NoSymbol}}
             locals == [frame[t] EXCEPT !.missed = missed]
  <2>1. frame[t] \in FrameType /\ missed \subseteq frame[t].events
    BY DEF LocalsOK
  <2> HIDE DEF missed
  <2>2. locals \in FrameType /\ locals.kind = frame[t].kind
    BY <2>1 DEF FrameType
  <2>3. Moves(t, "dispatch")
    BY <1>9, <2>2, JumpMoves DEF LookupRows, missed
  <2> QED
    BY <1>9, <2>3, KeepsLock DEF LookupRows
<1>10. CASE Dispatch(t)
  BY <1>10, KeepsLock DEF Dispatch
<1> QED
  BY <1>1, <1>2, <1>3, <1>4, <1>5, <1>6, <1>7, <1>8, <1>9, <1>10 DEF Step

(* snapshot. *)
LEMMA SnapshotLocked ==
  ASSUME SharedOK, LocalsOK, LockedInv, LockedOnly, NEW t \in Threads, Snapshot(t)
  PROVE  LockedInv'
<1> USE GotoMoves, ReturnMoves
    DEF At, Labels, Guarded, Unguarded, EngineLabels, InternPath, shared, SharedOK, SelfType,
        EngineType
<1>1. CASE SnapshotEnter(t)
  BY <1>1, TakesLock, KeepsLock DEF SnapshotEnter, LockFree, Acquire, LockedOnly, EnterEngine
<1>2. CASE SnapshotReturn(t)
  <2> DEFINE locals == [frame[t] EXCEPT !.events = Evaluated.evaluated]
  <2>1. locals \in FrameType /\ locals.kind = frame[t].kind
    BY <1>2, FrameTyped, EvaluatedTyped DEF SnapshotReturn, FrameType
  <2>2. CASE Jump(t, "pending_clear", locals) /\ engine' = Evaluated
    <3>1. Moves(t, "pending_clear")
      BY <1>2, <2>1, <2>2, JumpMoves DEF SnapshotReturn, Evaluated
    <3> QED
      BY <1>2, <3>1, DropsLock DEF SnapshotReturn, Release
  <2>3. CASE Return(t) /\ UNCHANGED engine
    BY <1>2, <2>3, DropsLock DEF SnapshotReturn, Release
  <2> QED
    BY <1>2, <2>2, <2>3 DEF SnapshotReturn
<1> QED
  BY <1>1, <1>2 DEF Snapshot

(* preview_inline_facts. *)
LEMMA PreviewInlineFactsLocked ==
  ASSUME SharedOK, LocalsOK, LockedInv, LockedOnly, NEW t \in Threads, PreviewInlineFacts(t)
  PROVE  LockedInv'
<1> USE GotoMoves, ReturnMoves
    DEF At, Labels, Guarded, Unguarded, EngineLabels, InternPath, shared, SharedOK, SelfType,
        EngineType
<1>1. CASE Preview(t)
  BY <1>1, KeepsLock, KindLocked DEF Preview, AfterPreview
<1>2. CASE FactsEnter(t)
  BY <1>2, KeepsLock DEF FactsEnter, EnterProgram
<1>3. CASE FactsReturn(t)
  BY <1>3, KeepsLock DEF FactsReturn
<1>4. CASE FactsLookup(t)
  BY <1>4, KeepsLock, KindLocked DEF FactsLookup, AfterPreview
<1> QED
  BY <1>1, <1>2, <1>3, <1>4 DEF PreviewInlineFacts

(* close: only here is the engine freed, and _handle is NULL before the    *)
(* lock is given back.                                                     *)
LEMMA CloseLocked ==
  ASSUME SharedOK, LocalsOK, LockedInv, LockedOnly, NEW t \in Threads, Close(t)
  PROVE  LockedInv'
<1> USE GotoMoves, ReturnMoves
    DEF At, Labels, Guarded, Unguarded, EngineLabels, InternPath, shared, SharedOK, SelfType,
        EngineType
<1>1. CASE CloseTest(t)
  BY <1>1, KeepsLock DEF CloseTest
<1>2. CASE CloseLock(t)
  BY <1>2, TakesLock DEF CloseLock, LockFree, Acquire, LockedOnly
<1>3. CASE CloseCb(t)
  BY <1>3, KeepsLock, OpenUnderLock DEF CloseCb
<1>4. CASE CloseCbReturn(t)
  BY <1>4, KeepsLock DEF CloseCbReturn
<1>5. CASE CloseDrop(t)
  BY <1>5, KeepsLock, DropsLock DEF CloseDrop, Release
<1>6. CASE CloseNull(t)
  BY <1>6, KeepsLock DEF CloseNull
<1>7. CASE CloseHandle(t)
  BY <1>7, KeepsLock, OpenUnderLock DEF CloseHandle
<1>8. CASE CloseReturn(t)
  <2>1. \A u \in Threads : pc[u] \in Guarded => u = t
    BY <1>8 DEF CloseReturn, LockedInv, OwnsLock
  <2>2. OwnsLock' /\ OnLockedPaths'
    BY <1>8 DEF CloseReturn, LockedInv, OwnsLock, OnLockedPaths, Goto, Jump, LocalsOK, Kind
  <2>3. pc'[t] = "close_finish" /\ \A u \in Threads : pc'[u] \notin EngineLabels
    BY <1>8, <2>1, <2>2 DEF CloseReturn, Goto, Jump, LocalsOK, OnLockedPaths
  <2> QED
    BY <2>2, <2>3 DEF LockedInv, FreedByClose, InEngine
<1>9. CASE CloseFinish(t)
  <2>1. \A u \in Threads : pc[u] \in Guarded => u = t
    BY <1>9 DEF CloseFinish, LockedInv, OwnsLock
  <2>2. OwnsLock'
    BY <1>9, <2>1 DEF CloseFinish, OwnsLock, Return, Jump, LocalsOK
  <2>3. OnLockedPaths'
    BY <1>9 DEF CloseFinish, LockedInv, OnLockedPaths, Return, Jump, LocalsOK, Kind, Blank
  <2>4. FreedByClose'
    BY <1>9 DEF CloseFinish, LockedInv, FreedByClose, Return, Jump, LocalsOK, InEngine
  <2> QED
    BY <2>2, <2>3, <2>4 DEF LockedInv
<1> QED
  BY <1>1, <1>2, <1>3, <1>4, <1>5, <1>6, <1>7, <1>8, <1>9 DEF Close

(* A call that begins is one the lock guards: this is LockedOnly. *)
LEMMA BeginLocked ==
  ASSUME SharedOK, LocalsOK, LockedInv, LockedOnly, NEW t \in Threads, Begin(t)
  PROVE  LockedInv'
<1>1. PICK kind \in Calls[t], s \in Symbols \cup {NoSymbol} :
        Jump(t, FirstLabel(kind), [Blank(kind, frame[t].n + 1) EXCEPT !.sym = s])
  BY DEF Begin
<1>2. kind \in Kinds \ UnlockedEntry
  BY ConstantsAssumption DEF LockedOnly
<1>3. /\ FirstLabel(kind) \in Labels \ (Unguarded \cup Guarded \cup EngineLabels)
      /\ FirstLabel(kind) \in InternPath => kind = "intern"
  BY <1>2 DEF FirstLabel, Labels, Unguarded, Guarded, EngineLabels, InternPath, UnlockedEntry,
              IntRow, StrRow, SymRow, Incremental
<1> DEFINE blank == Blank(kind, frame[t].n + 1)
           locals == [blank EXCEPT !.sym = s]
<1>4. locals \in FrameType /\ locals.kind = kind
  <2>1. blank \in FrameType /\ blank.kind = kind
    BY <1>2, ConstantsAssumption DEF Blank, FrameType, Begin, LocalsOK
  <2> HIDE DEF blank
  <2> QED BY <2>1 DEF FrameType
<1>5. Moves(t, FirstLabel(kind))
  <2> HIDE DEF locals
  <2> QED BY <1>1, <1>2, <1>3, <1>4 DEF Moves, Begin, shared, locals
<1> QED
  BY <1>3, <1>5, KeepsLock DEF Begin, At, shared

(* Initially nobody is inside a call. *)
LEMMA InitLocked == Init => LockedInv
<1> SUFFICES ASSUME Init PROVE LockedInv
  OBVIOUS
<1>1. engine.state = "open" /\ \A t \in Threads : pc[t] = "idle" /\ Kind(t) = "none"
  BY DEF Init, Blank, Kind
<1>2. OwnsLock /\ FreedByClose
  BY <1>1 DEF OwnsLock, FreedByClose, Guarded
<1>3. OnLockedPaths
  BY <1>1 DEF OnLockedPaths, Unguarded, InternPath, UnlockedEntry, StrRow, SymRow
<1> QED
  BY <1>2, <1>3 DEF LockedInv

(* Every step keeps the inductive invariant. *)
LEMMA NextLocked ==
  ASSUME SharedOK, LocalsOK, LockedInv, LockedOnly, [Next]_vars
  PROVE  LockedInv'
<1>1. ASSUME NEW t \in Threads, Run(t)
      PROVE  LockedInv'
  <2>1. ~SymCall(t) /\ ~MakeCompound(t)
    BY DEF LockedInv, OnLockedPaths, Unguarded, At, SymCall, SymSavePrev, SymSetArgtypes, SymEnter,
           SymReturn, SymRestore, MakeCompound, CaptureHandle, MakeEnter, MakeReturn, MakeAppend
  <2> QED
    BY <1>1, <2>1, ModeLocked, InternLocked, IudLocked, SetDeltaCallbackLocked, StepLocked,
       SnapshotLocked, PreviewInlineFactsLocked, CloseLocked DEF Run
<1>2. CASE UNCHANGED vars
  BY <1>2 DEF vars, shared, LockedInv, OwnsLock, OnLockedPaths, FreedByClose, At, Kind, InEngine
<1> QED
  BY <1>1, <1>2, BeginLocked DEF Next, Finished

(* The inductive invariant: a thread in a stretch of code the lock guards  *)
(* owns the lock, and the engine is freed by the thread that holds it.     *)
THEOREM LockDiscipline == ASSUME LockedOnly PROVE Spec => []LockedInv
<1>1. Init => LockedInv
  BY InitLocked
<1>2. (SharedOK /\ LocalsOK) /\ LockedInv /\ [Next]_vars => LockedInv'
  BY NextLocked
<1> QED
  BY <1>1, <1>2, Typed, PTL DEF Spec

(* docs/semantics/threading.md, for any number of threads and calls: as    *)
(* long as no call passes the lock by, no two overlap inside the engine.   *)
THEOREM Serialised == ASSUME LockedOnly PROVE Spec => []SingleCaller
<1>1. LockedInv => SingleCaller
  BY DEF LockedInv, OwnsLock, OnLockedPaths, SingleCaller, InEngine, EngineLabels, Guarded,
         Unguarded
<1> QED
  BY <1>1, LockDiscipline, PTL

(* And close() never frees the engine under a call, nor does a call reach  *)
(* it with a handle that close() has freed.                                *)
THEOREM HandleSafe == ASSUME LockedOnly PROVE Spec => []NoUseAfterFree
<1>1. LockedInv => NoUseAfterFree
  BY DEF LockedInv, FreedByClose, NoUseAfterFree
<1> QED
  BY <1>1, LockDiscipline, PTL

-----------------------------------------------------------------------------
(* What a step of t may touch of what the contract sees: t's own place, and *)
(* the engine's state only where wirelog_easy_close returns.                *)
Local(t) ==
  /\ \A u \in Threads \ {t} : pc'[u] = pc[u]
  /\ engine'.state = engine.state \/ (InEngine(t) /\ ~InEngine(t)')

(* A jump is local. *)
LEMMA JumpLocal ==
  ASSUME LocalsOK, NEW t \in Threads, NEW label, NEW locals, Jump(t, label, locals),
         engine'.state = engine.state
  PROVE  Local(t)
BY DEF Local, Jump, LocalsOK

(* Every step of a thread is local. *)
LEMMA StepLocal ==
  ASSUME SharedOK, LocalsOK, NEW t \in Threads, Begin(t) \/ Run(t)
  PROVE  Local(t)
<1> USE JumpLocal DEF Goto, Return, shared, SharedOK, EngineType
<1>1. CASE Begin(t)
  BY <1>1 DEF Begin
<1>2. CASE Mode(t)
  BY <1>2 DEF Mode, TestMode, SetMode
<1>3. CASE Intern(t)
  BY <1>3 DEF Intern, InternBegin, InternLookup, InternReturn, InternDone
<1>4. CASE Iud(t)
  BY <1>4 DEF Iud, IudEnter, IudReturn, AppendPending, EnterEngine
<1>5. CASE SymCall(t)
  BY <1>5 DEF SymCall, SymSavePrev, SymSetArgtypes, SymEnter, SymReturn, SymRestore
<1>6. CASE SetDeltaCallback(t)
  BY <1>6 DEF SetDeltaCallback, CbTest, CbCreate, CbSetUserFn, SetCbEnter, SetCbReturn, ClearTest,
     ClearEnter, ClearReturn, ClearDrop, ClearNull, EnterEngine
<1>7. CASE Step(t)
  BY <1>7 DEF Step, StepEnter, StepReturn, DrainCopy, DrainClear, ClearPending, Decode,
     SchemaEnter, SchemaReturn, LookupRows, Dispatch, EnterEngine, Evaluated, EnterProgram
<1>8. CASE Snapshot(t)
  BY <1>8 DEF Snapshot, SnapshotEnter, SnapshotReturn, EnterEngine, Evaluated
<1>9. CASE MakeCompound(t)
  BY <1>9 DEF MakeCompound, CaptureHandle, MakeEnter, MakeReturn, MakeAppend
<1>10. CASE PreviewInlineFacts(t)
  BY <1>10 DEF PreviewInlineFacts, Preview, FactsEnter, FactsReturn, FactsLookup, AfterPreview,
     EnterProgram
<1>11. CASE Close(t)
  <2>1. CASE CloseReturn(t)
    BY <2>1 DEF CloseReturn, Local, Jump, LocalsOK, At, InEngine, EngineLabels
  <2>2. CASE CloseFinish(t)
    BY <2>2 DEF CloseFinish
  <2>3. CASE CloseTest(t) \/ CloseLock(t) \/ CloseCb(t) \/ CloseCbReturn(t) \/ CloseDrop(t)
             \/ CloseNull(t) \/ CloseHandle(t)
    BY <2>3 DEF CloseTest, CloseLock, CloseCb, CloseCbReturn, CloseDrop, CloseNull, CloseHandle
  <2> QED
    BY <1>11, <2>1, <2>2, <2>3 DEF Close
<1> QED
  BY <1>1, <1>2, <1>3, <1>4, <1>5, <1>6, <1>7, <1>8, <1>9, <1>10, <1>11 DEF Run

(* The threads the contract calls callers *)
Inside == {t \in Threads : InEngine(t)}

(* A local step from and to states of the inductive invariant enters an    *)
(* engine nobody is in, leaves it, frees it, or is not seen.               *)
LEMMA LocalImplements ==
  ASSUME SharedOK, SharedOK', LockedInv, LockedInv', NEW t \in Threads, Local(t)
  PROVE  \/ UNCHANGED <<Inside, engine.state = "open">>
         \/ Contract!Enter(t) \/ Contract!Leave(t) \/ Contract!Free(t)
<1>1. \A u \in Threads \ {t} : InEngine(u)' <=> InEngine(u)
  BY DEF Local, InEngine
<1>2. ASSUME NEW u \in Threads, InEngine(u)
      PROVE  Inside = {u} /\ engine.state = "open"
  BY <1>2 DEF LockedInv, OwnsLock, OnLockedPaths, FreedByClose, Inside, InEngine, EngineLabels,
              Guarded, Unguarded, SharedOK, EngineType
<1>3. ASSUME NEW u \in Threads, InEngine(u)'
      PROVE  Inside' = {u} /\ engine'.state = "open"
  BY <1>3 DEF LockedInv, OwnsLock, OnLockedPaths, FreedByClose, Inside, InEngine, EngineLabels,
              Guarded, Unguarded, SharedOK, EngineType
<1>4. CASE InEngine(t) /\ InEngine(t)'
  BY <1>2, <1>3, <1>4
<1>5. CASE ~InEngine(t) /\ ~InEngine(t)'
  BY <1>1, <1>5 DEF Inside, Local
<1>6. CASE ~InEngine(t) /\ InEngine(t)'
  <2>1. Inside = {} /\ Inside' = {t} /\ engine.state = "open" /\ engine'.state = "open"
    BY <1>1, <1>3, <1>6 DEF Inside, Local
  <2> QED
    BY <2>1 DEF Contract!Enter, Inside
<1>7. CASE InEngine(t) /\ ~InEngine(t)'
  <2>1. Inside = {t} /\ Inside' = {} /\ engine.state = "open" /\ engine'.state \in {"open", "freed"}
    BY <1>1, <1>2, <1>7 DEF Inside, SharedOK, EngineType
  <2> QED
    BY <2>1 DEF Contract!Leave, Contract!Free, Inside
<1> QED
  BY <1>4, <1>5, <1>6, <1>7

(* The session implements the single-caller contract, for threads whose    *)
(* calls all take the lock: SingleCallerEngine is entered by one thread at *)
(* a time, and never after it is freed.                                    *)
THEOREM Implements == ASSUME LockedOnly PROVE Spec => ImplementsContract
<1>1. Init => Contract!Init
  BY DEF Init, Contract!Init, InEngine, EngineLabels
<1>2. /\ (SharedOK /\ LocalsOK) /\ (SharedOK /\ LocalsOK)'
      /\ LockedInv /\ LockedInv' /\ [Next]_vars
      => [Contract!Next]_<<Inside, engine.state = "open">>
  <2> SUFFICES ASSUME SharedOK, LocalsOK, SharedOK', LockedInv, LockedInv', [Next]_vars
               PROVE  [Contract!Next]_<<Inside, engine.state = "open">>
    OBVIOUS
  <2>1. CASE UNCHANGED vars
    BY <2>1 DEF vars, shared, Inside, InEngine
  <2>2. ASSUME NEW t \in Threads, Begin(t) \/ Run(t)
        PROVE  [Contract!Next]_<<Inside, engine.state = "open">>
    BY <2>2, StepLocal, LocalImplements DEF Contract!Next
  <2> QED
    BY <2>1, <2>2 DEF Next, Finished
<1> QED
  BY <1>1, <1>2, Typed, LockDiscipline, PTL DEF Spec, ImplementsContract, Contract!Spec, Inside

-----------------------------------------------------------------------------
(* ONE CALLER.  What becomes of rows, buffers, compounds and argtypes: the *)
(* properties of a session that one thread uses while others only intern.  *)
(* The README has, for each of them, the second caller that breaks it.     *)

(* Which call a thread at a label is executing. *)
OnItsWay(label, kind) ==
  /\ label \in {"mode", "set_mode"} => kind \in Incremental \cup {"snapshot"}
  /\ label = "intern_begin" => kind = "intern"
  /\ label \in {"intern_lock", "in_intern"} => kind \in StrRow \cup SymRow \cup {"intern"}
  /\ label \in {"iud", "in_iud"} => kind \in IntRow \cup StrRow
  /\ label = "append" => kind \in IntRow \cup StrRow \cup SymRow
  /\ label \in {"sym_prev", "sym_lock", "sym_call", "in_sym", "sym_restore"} => kind \in SymRow
  /\ label \in {"cb_test", "cb_create", "set_cb", "in_set_cb"} =>
       kind \in {"step", "set_delta_callback"}
  /\ label = "cb_user_fn" => kind = "set_delta_callback"
  /\ label \in {"clear_test", "clear_cb", "in_clear_cb", "clear_drop", "clear_null"} =>
       kind = "clear_delta_callback"
  /\ label \in {"step", "in_step", "drain", "drain_clear"} => kind = "step"
  /\ label \in {"snapshot", "in_snapshot"} => kind = "snapshot"
  /\ label \in {"pending_clear", "decode", "schema", "in_schema", "lookup", "dispatch"} =>
       kind \in {"step", "snapshot"}
  /\ label \in {"capture", "make", "in_make", "make_append"} => kind = "make_compound"
  /\ label \in {"preview", "facts", "in_facts", "facts_lookup"} =>
       kind \in Dedupe \cup {"preview_inline_facts"}
  /\ label \in {"close_test", "close_lock", "close_cb", "in_close_cb", "close_drop", "close_null",
                "close_handle", "in_close", "close_finish"} => kind = "close"

(* Rows are drained at these labels, and held nowhere else. *)
Holding == {"drain_clear", "pending_clear", "decode", "schema", "in_schema", "lookup", "dispatch"}

(* A thread is on the way its call takes; only a call with a string has a  *)
(* symbol; and only _sym_call remembers that the engine accepted its row.  *)
OnPath(t) ==
  /\ OnItsWay(pc[t], Kind(t))
  /\ ~At(t, "idle") =>
       (frame[t].sym # NoSymbol <=> Kind(t) \in StrRow \cup SymRow \cup {"intern"})
  /\ frame[t].events # {} => pc[t] \in Holding
  /\ frame[t].ok =>
       Kind(t) \in SymRow /\ pc[t] \in {"sym_restore", "append", "intern_lock", "in_intern"}
Paths == \A t \in Threads : OnPath(t)

(* The thread that makes the calls. *)
OneCaller == \E t \in Threads : \A u \in Threads \ {t} : Calls[u] \subseteq {"intern"}
Main == CHOOSE t \in Threads : \A u \in Threads \ {t} : Calls[u] \subseteq {"intern"}
Beside == \A u \in Threads \ {Main} : Kind(u) \in {"none", "intern"}

(* Labels a call reaches only with a handle, and those inside close(). *)
Checked == {"in_iud", "append", "in_sym", "in_set_cb", "in_clear_cb", "in_step", "drain",
            "in_snapshot", "in_make", "make_append", "in_close_cb", "in_close"}
Closing == {"close_cb", "in_close_cb", "close_drop", "close_null", "close_handle", "in_close",
            "close_finish"}

(* One thread finds the handle as it left it: the engine is open as long   *)
(* as _handle is not NULL, except at the end of close(), and a freed engine *)
(* has no rows and no compounds left.                                      *)
Alive ==
  /\ self.handle => engine.state = "open" \/ At(Main, "close_finish")
  /\ ~self.handle => engine.state = "freed" /\ self.closed
  /\ engine.state = "freed" => engine.staged = {} /\ self.compounds = {} /\ ~self.schema
  /\ At(Main, "close_finish") => engine.state = "freed"
  /\ pc[Main] \in Checked => self.handle
  /\ frame[Main].ok => self.handle
  /\ At(Main, "make") /\ frame[Main].raw => self.handle
  /\ pc[Main] \in Closing => self.compounds = {} /\ ~self.schema
  /\ pc[Main] \in {"in_close_cb", "close_drop", "close_null", "clear_cb", "in_clear_cb",
                   "clear_drop", "clear_null"} => self.deltaCb # NoId
  /\ self.made \subseteq self.invalid \cup self.compounds

(* argtypes are other than declared in _sym_call only, which has saved them. *)
ArgtypesInv ==
  /\ argtypes = "fixed" => pc[Main] \in {"sym_call", "in_sym", "sym_restore"}
  /\ pc[Main] \in {"sym_lock", "sym_call", "in_sym", "sym_restore"} =>
       frame[Main].prev = "declared"

(* A row the engine has accepted, and the caller has yet to append. *)
Accepted == At(Main, "append") \/ (At(Main, "sym_restore") /\ frame[Main].ok)
Inserted(r) == r = Row(Main) /\ Accepted

(* Each row the engine has yet to evaluate is in _pending_easy_inputs or   *)
(* about to be appended, until close() is under way.                       *)
Buffers ==
  /\ \A r \in engine.staged : r \in self.pending \/ Inserted(r) \/ pc[Main] \in Closing
  /\ pc[Main] \in {"drain", "drain_clear", "pending_clear"} => engine.staged = {}
  /\ pc[Main] \in Closing => self.pending = {}

(* Rows in a queue, or in the hands of a call, have been evaluated. *)
Held ==
  /\ \A i \in Ids : registry.queue[i] \subseteq engine.evaluated
  /\ frame[Main].events \subseteq engine.evaluated

(* A call that has yet to give its row to the engine. *)
BeforeInsert == {"mode", "set_mode", "iud", "in_iud", "sym_prev", "sym_lock", "sym_call", "in_sym",
                 "preview", "facts", "in_facts", "facts_lookup"}
ToInsert ==
  \/ pc[Main] \in BeforeInsert
  \/ Kind(Main) \in StrRow /\ pc[Main] \in {"intern_lock", "in_intern"}

(* Rows come from Main's calls so far, each from a call of its own. *)
Fresh ==
  /\ \A r \in engine.staged \cup engine.evaluated : r.id[1] = Main /\ r.id[2] <= frame[Main].n
  /\ ToInsert => \A r \in engine.staged \cup engine.evaluated : r.id[2] # frame[Main].n
  /\ engine.staged \cap engine.evaluated = {}

(* step() past _require_mode finds INCREMENTAL, and snapshot() QUERY. *)
Evaluating == {"step", "in_step", "drain", "drain_clear", "pending_clear", "decode", "schema",
               "in_schema", "lookup", "dispatch"}
Registering == {"cb_test", "cb_create", "cb_user_fn", "set_cb", "in_set_cb"}
Modes ==
  /\ self.mode = "UNSET" => engine.evaluated = {} /\ returned = {}
  /\ At(Main, "set_mode") => self.mode = "UNSET"
  /\ pc[Main] \in Registering \cup Evaluating /\ Kind(Main) # "snapshot" =>
       self.mode = "INCREMENTAL"
  /\ pc[Main] \in {"snapshot", "in_snapshot"} \cup Evaluating /\ Kind(Main) = "snapshot" =>
       self.mode = "QUERY"

(* The string of every row is known by the time the row is evaluated:      *)
(* insert interns it before, insert_sym mirrors it after the call.         *)
StringKnown(r) == r.sym \in interns.known \cup {NoSymbol}
Mirroring == Kind(Main) \in SymRow /\ pc[Main] \in {"intern_lock", "in_intern"}
Unsent(r) == r = Row(Main) /\ Kind(Main) \in SymRow /\ (Accepted \/ Mirroring)
Known ==
  /\ \A r \in engine.staged : StringKnown(r) \/ Unsent(r)
  /\ \A r \in engine.evaluated : StringKnown(r)
  /\ frame[Main].missed = {} /\ \A d \in returned : ~d.missed
  /\ pc[Main] \in {"iud", "in_iud"} => frame[Main].sym \in interns.known \cup {NoSymbol}
  /\ Mirroring => self.handle

(* The delta callback of the session is the engine's, but for the stretches *)
(* that install or remove it; rows are in its queue only while step() is   *)
(* about to drain them.                                                    *)
Swapping == {"cb_user_fn", "set_cb", "in_set_cb", "clear_drop", "clear_null", "close_drop",
             "close_null", "close_handle", "in_close", "close_finish"}
Installed ==
  /\ self.deltaCb # NoId /\ pc[Main] \notin {"close_null", "clear_null"} =>
       self.deltaCb \in registry.slots
  /\ self.deltaCb # NoId /\ self.handle /\ pc[Main] \notin Swapping =>
       engine.installed = self.deltaCb
  /\ pc[Main] \in {"cb_user_fn", "set_cb", "in_set_cb"} \cup Evaluating /\ Kind(Main) # "snapshot"
       => self.deltaCb # NoId
  /\ At(Main, "in_set_cb") => frame[Main].token = self.deltaCb
  /\ \A i \in Ids : registry.queue[i] # {} =>
       i = self.deltaCb /\ pc[Main] \in {"drain", "drain_clear"}
  /\ At(Main, "drain_clear") =>
       frame[Main].token = self.deltaCb /\ frame[Main].events = registry.queue[self.deltaCb]
  /\ At(Main, "schema") => self.schema

(* An evaluated row is returned once, or still queued or drained. *)
Delivered(r) == \E d \in returned : d.row = r
Underway(r) ==
  r \in frame[Main].events \/ (At(Main, "drain") /\ r \in registry.queue[self.deltaCb])
Once ==
  /\ \A d \in returned : d.row \in engine.evaluated
  /\ self.mode = "INCREMENTAL" =>
       /\ \A c, d \in returned : c.row = d.row => c = d
       /\ \A r \in engine.evaluated : Delivered(r) <=> ~Underway(r)

(* What holds whatever the engine refuses, what needs the engine to accept *)
(* strings, and what needs it to accept callbacks.                         *)
SoloInv == Alive /\ ArgtypesInv /\ Buffers /\ Held /\ Fresh /\ Modes
KnownUnless == "intern" \notin MayFail => Known
OnceUnless == "set_delta_cb" \notin MayFail => Installed /\ Once

(* Where a step leaves the thread that takes it, and everybody else. *)
Stays(u) == pc'[u] = pc[u] /\ frame'[u] = frame[u]

LEMMA JumpWent ==
  ASSUME LocalsOK, NEW t \in Threads, NEW label, NEW locals, Jump(t, label, locals)
  PROVE  pc'[t] = label /\ frame'[t] = locals /\ \A u \in Threads \ {t} : Stays(u)
BY DEF LocalsOK, Jump, Stays

LEMMA GotoWent ==
  ASSUME LocalsOK, NEW t \in Threads, NEW label, Goto(t, label)
  PROVE  pc'[t] = label /\ frame'[t] = frame[t] /\ \A u \in Threads \ {t} : Stays(u)
BY JumpWent DEF Goto

LEMMA ReturnWent ==
  ASSUME LocalsOK, NEW t \in Threads, Return(t)
  PROVE  /\ pc'[t] = "idle" /\ frame'[t].kind = frame[t].kind /\ frame'[t].n = frame[t].n
         /\ frame'[t].events = {} /\ frame'[t].missed = {} /\ frame'[t].ok = FALSE
         /\ \A u \in Threads \ {t} : Stays(u)
BY JumpWent DEF Return, Blank

(* A call that begins: its first label, and locals that are blank. *)
LEMMA Begun ==
  ASSUME LocalsOK, NEW t \in Threads, Begin(t)
  PROVE  /\ UNCHANGED shared /\ \A u \in Threads \ {t} : Stays(u)
         /\ pc[t] = "idle" /\ pc'[t] = FirstLabel(frame'[t].kind)
         /\ frame'[t].kind \in Calls[t] /\ frame'[t].kind \in Kinds /\ frame'[t].n = frame[t].n + 1
         /\ frame'[t].events = {} /\ frame'[t].missed = {} /\ frame'[t].ok = FALSE
         /\ frame'[t].sym # NoSymbol <=> frame'[t].kind \in StrRow \cup SymRow \cup {"intern"}
         /\ pc'[t] \in {"iud", "intern_lock", "mode", "intern_begin", "capture", "close_test",
                        "preview"}
         /\ OnItsWay(pc'[t], frame'[t].kind)
<1>1. PICK kind \in Calls[t], s \in Symbols \cup {NoSymbol} :
        /\ kind \in StrRow \cup SymRow \cup {"intern"} <=> s # NoSymbol
        /\ Jump(t, FirstLabel(kind), [Blank(kind, frame[t].n + 1) EXCEPT !.sym = s])
  BY DEF Begin
<1>2. kind \in Kinds
  BY ConstantsAssumption
<1> DEFINE locals == [Blank(kind, frame[t].n + 1) EXCEPT !.sym = s]
<1>3. /\ locals.kind = kind /\ locals.n = frame[t].n + 1 /\ locals.sym = s
      /\ locals.events = {} /\ locals.missed = {} /\ locals.ok = FALSE
  BY DEF Blank
<1> HIDE DEF locals
<1>4. pc'[t] = FirstLabel(kind) /\ frame'[t] = locals /\ \A u \in Threads \ {t} : Stays(u)
  BY <1>1, JumpWent DEF locals
<1>5. /\ FirstLabel(kind) \in {"iud", "intern_lock", "mode", "intern_begin", "capture",
                               "close_test", "preview"}
      /\ OnItsWay(FirstLabel(kind), kind)
  BY <1>2 DEF FirstLabel, OnItsWay, Kinds, IntRow, StrRow, SymRow, Incremental
<1> QED
  BY <1>1, <1>2, <1>3, <1>4, <1>5 DEF Begin, At

(* A step moves nobody but the thread that takes it. *)
LEMMA OthersStay ==
  ASSUME LocalsOK, NEW t \in Threads, Begin(t) \/ Run(t)
  PROVE  \A u \in Threads \ {t} : Stays(u)
<1> USE JumpWent DEF Goto, Return
<1>1. CASE Begin(t)
  BY <1>1, Begun
<1>2. CASE Mode(t)
  BY <1>2 DEF Mode, TestMode, AfterMode, SetMode
<1>3. CASE Intern(t)
  BY <1>3 DEF Intern, InternBegin, InternLookup, InternDone, InternReturn
<1>4. CASE Iud(t)
  BY <1>4 DEF Iud, IudEnter, EnterEngine, IudReturn, AppendPending
<1>5. CASE SymCall(t)
  BY <1>5 DEF SymCall, SymSavePrev, SymSetArgtypes, SymEnter, SymReturn, SymRestore
<1>6. CASE SetDeltaCallback(t)
  BY <1>6
  DEF SetDeltaCallback, CbTest, CbCreate, CbSetUserFn, SetCbEnter, SetCbReturn, ClearTest,
      ClearEnter, EnterEngine, ClearReturn, ClearDrop, ClearNull
<1>7. CASE Step(t)
  BY <1>7
  DEF Step, StepEnter, EnterEngine, StepReturn, Evaluated, DrainCopy, DrainClear, ClearPending,
      Decode, SchemaEnter, EnterProgram, SchemaReturn, LookupRows, Dispatch
<1>8. CASE Snapshot(t)
  BY <1>8 DEF Snapshot, SnapshotEnter, EnterEngine, SnapshotReturn, Evaluated
<1>9. CASE MakeCompound(t)
  BY <1>9 DEF MakeCompound, CaptureHandle, MakeEnter, MakeReturn, MakeAppend
<1>10. CASE PreviewInlineFacts(t)
  BY <1>10
  DEF PreviewInlineFacts, Preview, AfterPreview, FactsEnter, EnterProgram, FactsReturn,
      FactsLookup
<1>11. CASE Close(t)
  BY <1>11
  DEF Close, CloseTest, CloseLock, CloseCb, CloseCbReturn, CloseDrop, CloseNull, CloseHandle,
      CloseReturn, CloseFinish
<1> QED
  BY <1>1, <1>2, <1>3, <1>4, <1>5, <1>6, <1>7, <1>8, <1>9, <1>10, <1>11 DEF Run

(* The steps that install locals of their own, or records, field by field. *)
Keeps(t) ==
  /\ frame'[t].kind = frame[t].kind /\ frame'[t].n = frame[t].n
  /\ frame'[t].sym = frame[t].sym /\ frame'[t].ok = frame[t].ok

LEMMA SetCbEntered ==
  ASSUME LocalsOK, NEW t \in Threads, SetCbEnter(t)
  PROVE  /\ At(t, "set_cb") /\ UNCHANGED <<engine, self, interns, registry, argtypes, returned>>
         /\ \/ Return(t) /\ ~(self.handle /\ self.deltaCb # NoId)
            \/ /\ self.handle /\ self.deltaCb # NoId /\ pc'[t] = "in_set_cb" /\ Keeps(t)
               /\ frame'[t].events = frame[t].events /\ frame'[t].missed = frame[t].missed
               /\ frame'[t].token = self.deltaCb
<1> DEFINE locals == [frame[t] EXCEPT !.token = self.deltaCb]
<1>1. /\ locals.kind = frame[t].kind /\ locals.n = frame[t].n /\ locals.sym = frame[t].sym
      /\ locals.ok = frame[t].ok /\ locals.events = frame[t].events
      /\ locals.missed = frame[t].missed /\ locals.token = self.deltaCb
  BY FrameTyped DEF SetCbEnter, At, FrameType
<1>2. IF self.handle /\ self.deltaCb # NoId THEN Jump(t, "in_set_cb", locals) ELSE Return(t)
  BY DEF SetCbEnter
<1> HIDE DEF locals
<1> QED
  BY <1>1, <1>2, JumpWent DEF Keeps, SetCbEnter

LEMMA DrainCopied ==
  ASSUME LocalsOK, NEW t \in Threads, DrainCopy(t)
  PROVE  /\ At(t, "drain") /\ UNCHANGED shared
         /\ \/ Return(t) /\ self.deltaCb = NoId
            \/ /\ self.deltaCb # NoId /\ pc'[t] = "drain_clear" /\ Keeps(t)
               /\ frame'[t].events = registry.queue[self.deltaCb]
               /\ frame'[t].missed = frame[t].missed /\ frame'[t].token = self.deltaCb
<1> DEFINE locals == [frame[t] EXCEPT !.token = self.deltaCb,
                                      !.events = registry.queue[self.deltaCb]]
<1>1. /\ locals.kind = frame[t].kind /\ locals.n = frame[t].n /\ locals.sym = frame[t].sym
      /\ locals.ok = frame[t].ok /\ locals.events = registry.queue[self.deltaCb]
      /\ locals.missed = frame[t].missed /\ locals.token = self.deltaCb
  BY FrameTyped DEF DrainCopy, At, FrameType
<1>2. /\ IF self.deltaCb = NoId THEN Return(t) ELSE Jump(t, "drain_clear", locals)
      /\ At(t, "drain") /\ UNCHANGED shared
  BY DEF DrainCopy
<1> HIDE DEF locals
<1> QED
  BY <1>1, <1>2, JumpWent DEF Keeps

(* The engine after an evaluation. *)
LEMMA EvaluatedIs ==
  ASSUME SharedOK
  PROVE  /\ Evaluated.state = engine.state /\ Evaluated.installed = engine.installed
         /\ Evaluated.staged = {} /\ Evaluated.evaluated = engine.evaluated \cup engine.staged
BY DEF SharedOK, EngineType, Evaluated

EvaluatesNow ==
  /\ engine'.state = engine.state /\ engine'.installed = engine.installed
  /\ engine'.staged = {} /\ engine'.evaluated = engine.evaluated \cup engine.staged

LEMMA StepReturned ==
  ASSUME SharedOK, LocalsOK, NEW t \in Threads, StepReturn(t)
  PROVE  /\ At(t, "in_step") /\ UNCHANGED <<self, interns, argtypes, returned>>
         /\ \/ Return(t) /\ UNCHANGED <<registry, engine>>
            \/ /\ pc'[t] = "drain" /\ frame'[t] = frame[t] /\ EvaluatesNow
               /\ registry'.slots = registry.slots
               /\ \A i \in Ids : registry'.queue[i] =
                    IF Registered(engine.installed) /\ i = engine.installed
                      THEN registry.queue[i] \cup engine.staged ELSE registry.queue[i]
<1>1. CASE Goto(t, "drain") /\ registry' = Deliver(engine.staged) /\ engine' = Evaluated
  <2>1. EvaluatesNow
    BY <1>1, EvaluatedIs DEF EvaluatesNow
  <2>2. pc'[t] = "drain" /\ frame'[t] = frame[t]
    BY <1>1, GotoWent
  <2> HIDE DEF Registered
  <2>3. /\ registry'.slots = registry.slots
        /\ \A i \in Ids : registry'.queue[i] =
             IF Registered(engine.installed) /\ i = engine.installed
               THEN registry.queue[i] \cup engine.staged ELSE registry.queue[i]
    BY <1>1 DEF Deliver, SharedOK
  <2> QED
    BY <2>1, <2>2, <2>3 DEF StepReturn
<1> QED
  BY <1>1 DEF StepReturn

LEMMA SnapshotReturned ==
  ASSUME SharedOK, LocalsOK, NEW t \in Threads, SnapshotReturn(t)
  PROVE  /\ At(t, "in_snapshot") /\ UNCHANGED <<self, interns, registry, argtypes, returned>>
         /\ \/ Return(t) /\ UNCHANGED engine
            \/ /\ EvaluatesNow /\ pc'[t] = "pending_clear" /\ Keeps(t)
               /\ frame'[t].events = engine'.evaluated /\ frame'[t].missed = frame[t].missed
<1> DEFINE locals == [frame[t] EXCEPT !.events = Evaluated.evaluated]
<1>1. /\ locals.kind = frame[t].kind /\ locals.n = frame[t].n /\ locals.sym = frame[t].sym
      /\ locals.ok = frame[t].ok /\ locals.events = Evaluated.evaluated
      /\ locals.missed = frame[t].missed
  BY FrameTyped DEF SnapshotReturn, At, FrameType
<1>2. /\ \/ Return(t) /\ UNCHANGED engine
         \/ engine' = Evaluated /\ Jump(t, "pending_clear", locals)
      /\ At(t, "in_snapshot") /\ UNCHANGED <<self, interns, registry, argtypes, returned>>
  BY DEF SnapshotReturn
<1> HIDE DEF locals
<1> QED
  BY <1>1, <1>2, JumpWent, EvaluatedIs DEF Keeps, EvaluatesNow

LEMMA LookedUp ==
  ASSUME LocalsOK, NEW t \in Threads, LookupRows(t)
  PROVE  /\ At(t, "lookup") /\ UNCHANGED shared
         /\ pc'[t] = "dispatch" /\ Keeps(t) /\ frame'[t].events = frame[t].events
         /\ frame'[t].missed =
              {r \in frame[t].events : r.sym \notin interns.known \cup {NoSymbol}}
<1> DEFINE locals == [frame[t] EXCEPT !.missed =
              {r \in frame[t].events : r.sym \notin interns.known \cup {NoSymbol}}]
<1>1. /\ locals.kind = frame[t].kind /\ locals.n = frame[t].n /\ locals.sym = frame[t].sym
      /\ locals.ok = frame[t].ok /\ locals.events = frame[t].events
      /\ locals.missed = {r \in frame[t].events : r.sym \notin interns.known \cup {NoSymbol}}
  BY FrameTyped DEF LookupRows, At, FrameType
<1>2. Jump(t, "dispatch", locals) /\ At(t, "lookup") /\ UNCHANGED shared
  BY DEF LookupRows
<1> HIDE DEF locals
<1> QED
  BY <1>1, <1>2, JumpWent DEF Keeps

Delivery(t, r) == [row |-> r, to |-> Me(t), missed |-> r \in frame[t].missed]

LEMMA Dispatched ==
  ASSUME LocalsOK, NEW t \in Threads, Dispatch(t)
  PROVE  /\ At(t, "dispatch") /\ Return(t)
         /\ UNCHANGED <<engine, self, interns, registry, argtypes>>
         /\ \A d \in returned : d \in returned'
         /\ \A d \in returned' :
              d \in returned \/ \E r \in frame[t].events : d = Delivery(t, r) /\ d.row = r
                                                            /\ d.missed = (r \in frame[t].missed)
         /\ Kind(t) # "step" \/ self.deltaCb # NoId =>
              \A r \in frame[t].events : Delivery(t, r) \in returned' /\ Delivery(t, r).row = r
<1> DEFINE new == {Delivery(t, r) : r \in frame[t].events}
<1>1. /\ returned' = IF Kind(t) = "step" /\ self.deltaCb = NoId THEN returned
                     ELSE returned \cup new
      /\ At(t, "dispatch") /\ Return(t)
      /\ UNCHANGED <<engine, self, interns, registry, argtypes>>
  BY DEF Dispatch, Delivery
<1>2. \A r : Delivery(t, r).row = r /\ Delivery(t, r).missed = (r \in frame[t].missed)
  BY DEF Delivery
<1> QED
  BY <1>1, <1>2

(* A step keeps the thread that takes it on its way. *)
LEMMA StepOnPath ==
  ASSUME SharedOK, LocalsOK, NEW t \in Threads, OnPath(t), Begin(t) \/ Run(t)
  PROVE  OnPath(t)'
<1> USE DEF LocalsOK, Goto, Jump, Return, Blank
<1>1. CASE Begin(t)
  BY <1>1, Begun DEF OnPath, Holding, At, Kind
<1>2. CASE Mode(t)
  <2>1. CASE TestMode(t)
    BY <2>1
    DEF TestMode, AfterMode, OnItsWay, OnPath, Holding, At, Kind, IntRow, StrRow, SymRow,
        Incremental
  <2>2. CASE SetMode(t)
    BY <2>2
    DEF SetMode, AfterMode, OnItsWay, OnPath, Holding, At, Kind, IntRow, StrRow, SymRow, Incremental
  <2> QED
    BY <1>2, <2>1, <2>2 DEF Mode
<1>3. CASE Intern(t)
  <2>1. CASE InternBegin(t)
    BY <2>1
    DEF InternBegin, OnItsWay, OnPath, Holding, At, Kind, IntRow, StrRow, SymRow, Incremental
  <2>2. CASE InternLookup(t)
    BY <2>2
    DEF InternLookup, InternDone, OnItsWay, OnPath, Holding, At, Kind, IntRow, StrRow, SymRow,
        Incremental
  <2>3. CASE InternReturn(t)
    BY <2>3
    DEF InternReturn, InternDone, OnItsWay, OnPath, Holding, At, Kind, IntRow, StrRow, SymRow,
        Incremental
  <2> QED
    BY <1>3, <2>1, <2>2, <2>3 DEF Intern
<1>4. CASE Iud(t)
  <2>1. CASE IudEnter(t)
    BY <2>1
    DEF IudEnter, EnterEngine, OnItsWay, OnPath, Holding, At, Kind, IntRow, StrRow, SymRow,
        Incremental
  <2>2. CASE IudReturn(t)
    BY <2>2
    DEF IudReturn, OnItsWay, OnPath, Holding, At, Kind, IntRow, StrRow, SymRow, Incremental
  <2>3. CASE AppendPending(t)
    BY <2>3
    DEF AppendPending, OnItsWay, OnPath, Holding, At, Kind, IntRow, StrRow, SymRow, Incremental
  <2> QED
    BY <1>4, <2>1, <2>2, <2>3 DEF Iud
<1>5. CASE SymCall(t)
  <2>1. CASE SymSavePrev(t)
    BY <2>1
    DEF SymSavePrev, OnItsWay, OnPath, Holding, At, Kind, IntRow, StrRow, SymRow, Incremental
  <2>2. CASE SymSetArgtypes(t)
    BY <2>2
    DEF SymSetArgtypes, OnItsWay, OnPath, Holding, At, Kind, IntRow, StrRow, SymRow, Incremental
  <2>3. CASE SymEnter(t)
    BY <2>3
    DEF SymEnter, OnItsWay, OnPath, Holding, At, Kind, IntRow, StrRow, SymRow, Incremental
  <2>4. CASE SymReturn(t)
    BY <2>4
    DEF SymReturn, OnItsWay, OnPath, Holding, At, Kind, IntRow, StrRow, SymRow, Incremental
  <2>5. CASE SymRestore(t)
    BY <2>5
    DEF SymRestore, OnItsWay, OnPath, Holding, At, Kind, IntRow, StrRow, SymRow, Incremental
  <2> QED
    BY <1>5, <2>1, <2>2, <2>3, <2>4, <2>5 DEF SymCall
<1>6. CASE SetDeltaCallback(t)
  <2>1. CASE CbTest(t)
    BY <2>1 DEF CbTest, OnItsWay, OnPath, Holding, At, Kind, IntRow, StrRow, SymRow, Incremental
  <2>2. CASE CbCreate(t)
    BY <2>2
    DEF CbCreate, OnItsWay, OnPath, Holding, At, Kind, IntRow, StrRow, SymRow, Incremental
  <2>3. CASE CbSetUserFn(t)
    BY <2>3
    DEF CbSetUserFn, OnItsWay, OnPath, Holding, At, Kind, IntRow, StrRow, SymRow, Incremental
  <2>4. CASE SetCbEnter(t)
    BY <2>4, SetCbEntered
    DEF Keeps, OnItsWay, OnPath, Holding, At, Kind, IntRow, StrRow, SymRow, Incremental
  <2>5. CASE SetCbReturn(t)
    BY <2>5
    DEF SetCbReturn, OnItsWay, OnPath, Holding, At, Kind, IntRow, StrRow, SymRow, Incremental
  <2>6. CASE ClearTest(t)
    BY <2>6
    DEF ClearTest, OnItsWay, OnPath, Holding, At, Kind, IntRow, StrRow, SymRow, Incremental
  <2>7. CASE ClearEnter(t)
    BY <2>7
    DEF ClearEnter, EnterEngine, OnItsWay, OnPath, Holding, At, Kind, IntRow, StrRow, SymRow,
        Incremental
  <2>8. CASE ClearReturn(t)
    BY <2>8
    DEF ClearReturn, OnItsWay, OnPath, Holding, At, Kind, IntRow, StrRow, SymRow, Incremental
  <2>9. CASE ClearDrop(t)
    BY <2>9
    DEF ClearDrop, OnItsWay, OnPath, Holding, At, Kind, IntRow, StrRow, SymRow, Incremental
  <2>10. CASE ClearNull(t)
    BY <2>10
    DEF ClearNull, OnItsWay, OnPath, Holding, At, Kind, IntRow, StrRow, SymRow, Incremental
  <2> QED
    BY <1>6, <2>1, <2>2, <2>3, <2>4, <2>5, <2>6, <2>7, <2>8, <2>9, <2>10 DEF SetDeltaCallback
<1>7. CASE Step(t)
  <2>1. CASE StepEnter(t)
    BY <2>1
    DEF StepEnter, EnterEngine, OnItsWay, OnPath, Holding, At, Kind, IntRow, StrRow, SymRow,
        Incremental
  <2>2. CASE StepReturn(t)
    BY <2>2
    DEF StepReturn, Evaluated, OnItsWay, OnPath, Holding, At, Kind, IntRow, StrRow, SymRow,
        Incremental
  <2>3. CASE DrainCopy(t)
    BY <2>3, DrainCopied
    DEF Keeps, OnItsWay, OnPath, Holding, At, Kind, IntRow, StrRow, SymRow, Incremental
  <2>4. CASE DrainClear(t)
    BY <2>4
    DEF DrainClear, OnItsWay, OnPath, Holding, At, Kind, IntRow, StrRow, SymRow, Incremental
  <2>5. CASE ClearPending(t)
    BY <2>5
    DEF ClearPending, OnItsWay, OnPath, Holding, At, Kind, IntRow, StrRow, SymRow, Incremental
  <2>6. CASE Decode(t)
    BY <2>6 DEF Decode, OnItsWay, OnPath, Holding, At, Kind, IntRow, StrRow, SymRow, Incremental
  <2>7. CASE SchemaEnter(t)
    BY <2>7
    DEF SchemaEnter, EnterProgram, OnItsWay, OnPath, Holding, At, Kind, IntRow, StrRow, SymRow,
        Incremental
  <2>8. CASE SchemaReturn(t)
    BY <2>8
    DEF SchemaReturn, OnItsWay, OnPath, Holding, At, Kind, IntRow, StrRow, SymRow, Incremental
  <2>9. CASE LookupRows(t)
    BY <2>9
    DEF LookupRows, OnItsWay, OnPath, Holding, At, Kind, IntRow, StrRow, SymRow, Incremental
  <2>10. CASE Dispatch(t)
    BY <2>10
    DEF Dispatch, OnItsWay, OnPath, Holding, At, Kind, IntRow, StrRow, SymRow, Incremental
  <2> QED
    BY <1>7, <2>1, <2>2, <2>3, <2>4, <2>5, <2>6, <2>7, <2>8, <2>9, <2>10 DEF Step
<1>8. CASE Snapshot(t)
  <2>1. CASE SnapshotEnter(t)
    BY <2>1
    DEF SnapshotEnter, EnterEngine, OnItsWay, OnPath, Holding, At, Kind, IntRow, StrRow, SymRow,
        Incremental
  <2>2. CASE SnapshotReturn(t)
    BY <2>2, SnapshotReturned
    DEF Keeps, OnItsWay, OnPath, Holding, At, Kind, IntRow, StrRow, SymRow, Incremental
  <2> QED
    BY <1>8, <2>1, <2>2 DEF Snapshot
<1>9. CASE MakeCompound(t)
  <2>1. CASE CaptureHandle(t)
    BY <2>1
    DEF CaptureHandle, OnItsWay, OnPath, Holding, At, Kind, IntRow, StrRow, SymRow, Incremental
  <2>2. CASE MakeEnter(t)
    BY <2>2
    DEF MakeEnter, OnItsWay, OnPath, Holding, At, Kind, IntRow, StrRow, SymRow, Incremental
  <2>3. CASE MakeReturn(t)
    BY <2>3
    DEF MakeReturn, OnItsWay, OnPath, Holding, At, Kind, IntRow, StrRow, SymRow, Incremental
  <2>4. CASE MakeAppend(t)
    BY <2>4
    DEF MakeAppend, OnItsWay, OnPath, Holding, At, Kind, IntRow, StrRow, SymRow, Incremental
  <2> QED
    BY <1>9, <2>1, <2>2, <2>3, <2>4 DEF MakeCompound
<1>10. CASE PreviewInlineFacts(t)
  <2>1. CASE Preview(t)
    BY <2>1
    DEF Preview, AfterPreview, Dedupe, OnItsWay, OnPath, Holding, At, Kind, IntRow, StrRow, SymRow,
        Incremental
  <2>2. CASE FactsEnter(t)
    BY <2>2
    DEF FactsEnter, EnterProgram, OnItsWay, OnPath, Holding, At, Kind, IntRow, StrRow, SymRow,
        Incremental
  <2>3. CASE FactsReturn(t)
    BY <2>3
    DEF FactsReturn, OnItsWay, OnPath, Holding, At, Kind, IntRow, StrRow, SymRow, Incremental
  <2>4. CASE FactsLookup(t)
    BY <2>4
    DEF FactsLookup, AfterPreview, Dedupe, OnItsWay, OnPath, Holding, At, Kind, IntRow, StrRow, SymRow,
        Incremental
  <2> QED
    BY <1>10, <2>1, <2>2, <2>3, <2>4 DEF PreviewInlineFacts
<1>11. CASE Close(t)
  <2>1. CASE CloseTest(t)
    BY <2>1
    DEF CloseTest, OnItsWay, OnPath, Holding, At, Kind, IntRow, StrRow, SymRow, Incremental
  <2>2. CASE CloseLock(t)
    BY <2>2
    DEF CloseLock, OnItsWay, OnPath, Holding, At, Kind, IntRow, StrRow, SymRow, Incremental
  <2>3. CASE CloseCb(t)
    BY <2>3
    DEF CloseCb, OnItsWay, OnPath, Holding, At, Kind, IntRow, StrRow, SymRow, Incremental
  <2>4. CASE CloseCbReturn(t)
    BY <2>4
    DEF CloseCbReturn, OnItsWay, OnPath, Holding, At, Kind, IntRow, StrRow, SymRow, Incremental
  <2>5. CASE CloseDrop(t)
    BY <2>5
    DEF CloseDrop, OnItsWay, OnPath, Holding, At, Kind, IntRow, StrRow, SymRow, Incremental
  <2>6. CASE CloseNull(t)
    BY <2>6
    DEF CloseNull, OnItsWay, OnPath, Holding, At, Kind, IntRow, StrRow, SymRow, Incremental
  <2>7. CASE CloseHandle(t)
    BY <2>7
    DEF CloseHandle, OnItsWay, OnPath, Holding, At, Kind, IntRow, StrRow, SymRow, Incremental
  <2>8. CASE CloseReturn(t)
    BY <2>8
    DEF CloseReturn, OnItsWay, OnPath, Holding, At, Kind, IntRow, StrRow, SymRow, Incremental
  <2>9. CASE CloseFinish(t)
    BY <2>9
    DEF CloseFinish, OnItsWay, OnPath, Holding, At, Kind, IntRow, StrRow, SymRow, Incremental
  <2> QED
    BY <1>11, <2>1, <2>2, <2>3, <2>4, <2>5, <2>6, <2>7, <2>8, <2>9 DEF Close
<1> QED
  BY <1>1, <1>2, <1>3, <1>4, <1>5, <1>6, <1>7, <1>8, <1>9, <1>10, <1>11 DEF Run

(* Every thread is on its way in every reachable state. *)
LEMMA PathsHold == Spec => []Paths
<1>1. Init => Paths
  BY DEF Init, Paths, OnPath, OnItsWay, At, Kind, Blank, Holding
<1>2. (SharedOK /\ LocalsOK) /\ Paths /\ [Next]_vars => Paths'
  <2> SUFFICES ASSUME SharedOK, LocalsOK, Paths, [Next]_vars PROVE Paths'
    OBVIOUS
  <2>1. ASSUME NEW t \in Threads, Begin(t) \/ Run(t)
        PROVE  Paths'
    <3>1. OnPath(t)'
      BY <2>1, StepOnPath DEF Paths
    <3>2. ASSUME NEW u \in Threads \ {t} PROVE OnPath(u)'
      BY <2>1, OthersStay DEF Paths, Stays, OnPath, At, Kind
    <3> QED
      BY <3>1, <3>2 DEF Paths
  <2>2. CASE UNCHANGED vars
    BY <2>2 DEF vars, Paths, OnPath, At, Kind
  <2> QED
    BY <2>1, <2>2 DEF Next, Finished
<1> QED
  BY <1>1, <1>2, Typed, PTL DEF Spec

(* The one caller, and what the calls of the others can be. *)
LEMMA MainCalls ==
  ASSUME OneCaller
  PROVE  Main \in Threads /\ \A u \in Threads \ {Main} : Calls[u] \subseteq {"intern"}
BY DEF OneCaller, Main

(* The others are outside of any call or inside intern(). *)
LEMMA OthersIntern ==
  ASSUME LocalsOK, Paths, Beside, NEW u \in Threads \ {Main}
  PROVE  /\ pc[u] \in {"idle", "intern_begin", "intern_lock", "in_intern"}
         /\ frame[u].events = {}
BY DEF LocalsOK, Labels, Paths, OnPath, OnItsWay, Beside, Kind, Holding, IntRow, StrRow, SymRow,
       Incremental, Dedupe

(* A step of one of them changes nothing but the locks and the strings     *)
(* that are known, which are never forgotten.                              *)
LEMMA OtherStep ==
  ASSUME SharedOK, LocalsOK, Paths, Beside, OneCaller, NEW t \in Threads \ {Main},
         Begin(t) \/ Run(t)
  PROVE  /\ UNCHANGED <<engine, self, registry, argtypes, returned>> /\ Stays(Main) /\ Beside'
         /\ interns.known \subseteq interns'.known
         /\ frame'[t].events = {} /\ (frame[t].missed = {} => frame'[t].missed = {})
<1>1. Main \in Threads /\ \A u \in Threads \ {Main} : Calls[u] \subseteq {"intern"}
  BY MainCalls
<1>2. Stays(Main) /\ \A u \in Threads \ {t} : Stays(u)
  BY <1>1, OthersStay
<1>3. CASE Begin(t)
  <2>1. /\ frame'[t].kind = "intern" /\ frame'[t].events = {} /\ frame'[t].missed = {}
        /\ UNCHANGED shared
    BY <1>1, <1>3, Begun
  <2>2. Beside'
    BY <1>2, <2>1 DEF Beside, Stays, Kind
  <2> QED
    BY <1>2, <2>1, <2>2 DEF shared
<1>4. CASE Run(t)
  <2>1. pc[t] \in {"idle", "intern_begin", "intern_lock", "in_intern"} /\ frame[t].events = {}
    BY OthersIntern
  <2>2. Intern(t)
    BY <1>4, <2>1
    DEF Run, At, Mode, TestMode, SetMode, Iud, IudEnter, IudReturn, AppendPending, SymCall,
        SymSavePrev, SymSetArgtypes, SymEnter, SymReturn, SymRestore, SetDeltaCallback, CbTest,
        CbCreate, CbSetUserFn, SetCbEnter, SetCbReturn, ClearTest, ClearEnter, ClearReturn,
        ClearDrop, ClearNull, Step, StepEnter, StepReturn, DrainCopy, DrainClear, ClearPending,
        Decode, SchemaEnter, SchemaReturn, LookupRows, Dispatch, Snapshot, SnapshotEnter,
        SnapshotReturn, MakeCompound, CaptureHandle, MakeEnter, MakeReturn, MakeAppend,
        PreviewInlineFacts, Preview, FactsEnter, FactsReturn, FactsLookup, Close, CloseTest,
        CloseLock, CloseCb, CloseCbReturn, CloseDrop, CloseNull, CloseHandle, CloseReturn,
        CloseFinish, EnterEngine, EnterProgram
  <2>3. /\ UNCHANGED <<engine, self, registry, argtypes, returned>>
        /\ interns.known \subseteq interns'.known
    BY <2>2 DEF Intern, InternBegin, InternLookup, InternReturn, SharedOK
  <2>4. /\ frame'[t].kind = frame[t].kind /\ frame'[t].events = {}
        /\ frame'[t].missed = {} \/ frame'[t].missed = frame[t].missed
    BY <2>1, <2>2, GotoWent, ReturnWent
    DEF Intern, InternBegin, InternLookup, InternReturn, InternDone
  <2>5. Beside'
    BY <1>2, <2>4 DEF Beside, Stays, Kind
  <2> QED
    BY <1>2, <2>3, <2>4, <2>5
<1> QED
  BY <1>3, <1>4

(* Beside is kept, whoever takes the step. *)
LEMMA BesideHolds == ASSUME OneCaller PROVE Spec => []Beside
<1>1. Init => Beside
  BY DEF Init, Beside, Kind, Blank
<1>2. (SharedOK /\ LocalsOK) /\ Paths /\ Beside /\ [Next]_vars => Beside'
  <2> SUFFICES ASSUME SharedOK, LocalsOK, Paths, Beside, [Next]_vars PROVE Beside'
    OBVIOUS
  <2>1. ASSUME Begin(Main) \/ Run(Main)
        PROVE  Beside'
    BY <2>1, MainCalls, OthersStay DEF Beside, Stays, Kind
  <2>2. ASSUME NEW t \in Threads \ {Main}, Begin(t) \/ Run(t)
        PROVE  Beside'
    BY <2>2, OtherStep
  <2>3. CASE UNCHANGED vars
    BY <2>3 DEF vars, Beside, Kind
  <2> QED
    BY <2>1, <2>2, <2>3 DEF Next, Finished
<1> QED
  BY <1>1, <1>2, Typed, PathsHold, PTL DEF Spec

(* Ids of rows. *)
LEMMA RowIds ==
  ASSUME SharedOK, LocalsOK, Main \in Threads
  PROVE  /\ Row(Main).id[1] = Main /\ Row(Main).id[2] = frame[Main].n /\ frame[Main].n \in Nat
         /\ \A r \in engine.staged \cup engine.evaluated : r.id[2] \in Nat
BY ConstantsAssumption DEF SharedOK, LocalsOK, EngineType, FrameType, Rows, Ids, Row, Me

(* The handle, and what close() has freed, follow the calls of one thread. *)
LEMMA AliveByMain ==
  ASSUME SharedOK, LocalsOK, OnPath(Main), Alive, Main \in Threads, Begin(Main) \/ Run(Main)
  PROVE  Alive'
<1> USE DEF LocalsOK, SharedOK, EngineType, SelfType, Goto, Jump, Return, Blank, shared,
            EnterEngine, Alive, Checked, Closing, At, OnPath, OnItsWay, Kind, IntRow, StrRow,
            SymRow, Incremental
<1>1. CASE Begin(Main)
  <2>1. /\ UNCHANGED <<engine, self, interns, registry, argtypes, returned>> /\ pc[Main] = "idle"
        /\ frame'[Main].events = {} /\ frame'[Main].missed = {} /\ frame'[Main].ok = FALSE
        /\ pc'[Main] \in {"iud", "intern_lock", "mode", "intern_begin", "capture", "close_test",
                           "preview"}
    BY <1>1, Begun
  <2> QED
    BY <2>1
<1>2. CASE Mode(Main)
  BY <1>2 DEF Mode, TestMode, AfterMode, SetMode
<1>3. CASE Intern(Main)
  BY <1>3 DEF Intern, InternBegin, InternLookup, InternDone, InternReturn
<1>4. CASE Iud(Main)
  BY <1>4 DEF Iud, IudEnter, IudReturn, AppendPending
<1>5. CASE SymCall(Main)
  <2>1. CASE SymSavePrev(Main)
    BY <2>1 DEF SymSavePrev
  <2>2. CASE SymSetArgtypes(Main)
    BY <2>2 DEF SymSetArgtypes
  <2>3. CASE SymEnter(Main)
    BY <2>3 DEF SymEnter
  <2>4. CASE SymReturn(Main)
    BY <2>4 DEF SymReturn
  <2>5. CASE SymRestore(Main)
    BY <2>5 DEF SymRestore
  <2> QED
    BY <1>5, <2>1, <2>2, <2>3, <2>4, <2>5 DEF SymCall
<1>6. CASE SetDeltaCallback(Main)
  <2>1. CASE CbTest(Main) \/ CbCreate(Main) \/ CbSetUserFn(Main) \/ SetCbReturn(Main)
             \/ ClearTest(Main) \/ ClearEnter(Main) \/ ClearReturn(Main) \/ ClearDrop(Main)
             \/ ClearNull(Main)
    BY <2>1
    DEF CbTest, CbCreate, CbSetUserFn, SetCbReturn, ClearTest, ClearEnter, ClearReturn, ClearDrop,
        ClearNull
  <2>2. CASE SetCbEnter(Main)
    BY <2>2, SetCbEntered DEF Keeps
  <2> QED
    BY <1>6, <2>1, <2>2 DEF SetDeltaCallback
<1>7. CASE Step(Main)
  <2>1. CASE StepEnter(Main) \/ DrainClear(Main) \/ ClearPending(Main) \/ Decode(Main)
             \/ SchemaEnter(Main) \/ SchemaReturn(Main)
    BY <2>1
    DEF StepEnter, DrainClear, ClearPending, Decode, SchemaEnter, EnterProgram, SchemaReturn
  <2>2. CASE StepReturn(Main)
    BY <2>2, StepReturned DEF EvaluatesNow
  <2>3. CASE DrainCopy(Main)
    BY <2>3, DrainCopied DEF Keeps
  <2>4. CASE LookupRows(Main)
    BY <2>4, LookedUp DEF Keeps
  <2>5. CASE Dispatch(Main)
    BY <2>5, Dispatched
  <2> QED
    BY <1>7, <2>1, <2>2, <2>3, <2>4, <2>5 DEF Step
<1>8. CASE Snapshot(Main)
  <2>1. CASE SnapshotEnter(Main)
    BY <2>1 DEF SnapshotEnter
  <2>2. CASE SnapshotReturn(Main)
    BY <2>2, SnapshotReturned DEF Keeps, EvaluatesNow
  <2> QED
    BY <1>8, <2>1, <2>2 DEF Snapshot
<1>9. CASE MakeCompound(Main)
  <2>1. CASE CaptureHandle(Main)
    BY <2>1 DEF CaptureHandle
  <2>2. CASE MakeEnter(Main)
    BY <2>2 DEF MakeEnter
  <2>3. CASE MakeReturn(Main)
    BY <2>3 DEF MakeReturn
  <2>4. CASE MakeAppend(Main)
    BY <2>4 DEF MakeAppend
  <2> QED
    BY <1>9, <2>1, <2>2, <2>3, <2>4 DEF MakeCompound
<1>10. CASE PreviewInlineFacts(Main)
  BY <1>10
  DEF PreviewInlineFacts, Preview, AfterPreview, FactsEnter, EnterProgram, FactsReturn,
      FactsLookup
<1>11. CASE Close(Main)
  <2>1. CASE CloseTest(Main)
    BY <2>1 DEF CloseTest
  <2>2. CASE CloseLock(Main)
    BY <2>2 DEF CloseLock
  <2>3. CASE CloseCb(Main)
    BY <2>3 DEF CloseCb
  <2>4. CASE CloseCbReturn(Main)
    BY <2>4 DEF CloseCbReturn
  <2>5. CASE CloseDrop(Main)
    BY <2>5 DEF CloseDrop
  <2>6. CASE CloseNull(Main)
    BY <2>6 DEF CloseNull
  <2>7. CASE CloseHandle(Main)
    BY <2>7 DEF CloseHandle
  <2>8. CASE CloseReturn(Main)
    BY <2>8 DEF CloseReturn
  <2>9. CASE CloseFinish(Main)
    BY <2>9 DEF CloseFinish
  <2> QED
    BY <1>11, <2>1, <2>2, <2>3, <2>4, <2>5, <2>6, <2>7, <2>8, <2>9 DEF Close
<1> QED
  BY <1>1, <1>2, <1>3, <1>4, <1>5, <1>6, <1>7, <1>8, <1>9, <1>10, <1>11 DEF Run

(* The argtypes are replaced for a call and put back. *)
LEMMA ArgtypesInvByMain ==
  ASSUME SharedOK, LocalsOK, OnPath(Main), ArgtypesInv, Main \in Threads,
         Begin(Main) \/ Run(Main)
  PROVE  ArgtypesInv'
<1> USE DEF LocalsOK, SharedOK, EngineType, SelfType, Goto, Jump, Return, Blank, shared,
            EnterEngine, ArgtypesInv, At, OnPath, OnItsWay, Kind, IntRow, StrRow, SymRow,
            Incremental
<1>1. CASE Begin(Main)
  <2>1. /\ UNCHANGED <<engine, self, interns, registry, argtypes, returned>> /\ pc[Main] = "idle"
        /\ frame'[Main].events = {} /\ frame'[Main].missed = {} /\ frame'[Main].ok = FALSE
        /\ pc'[Main] \in {"iud", "intern_lock", "mode", "intern_begin", "capture", "close_test",
                           "preview"}
    BY <1>1, Begun
  <2> QED
    BY <2>1
<1>2. CASE Mode(Main)
  BY <1>2 DEF Mode, TestMode, AfterMode, SetMode
<1>3. CASE Intern(Main)
  BY <1>3 DEF Intern, InternBegin, InternLookup, InternDone, InternReturn
<1>4. CASE Iud(Main)
  BY <1>4 DEF Iud, IudEnter, IudReturn, AppendPending
<1>5. CASE SymCall(Main)
  <2>1. CASE SymSavePrev(Main)
    BY <2>1 DEF SymSavePrev
  <2>2. CASE SymSetArgtypes(Main)
    BY <2>2 DEF SymSetArgtypes
  <2>3. CASE SymEnter(Main)
    BY <2>3 DEF SymEnter
  <2>4. CASE SymReturn(Main)
    BY <2>4 DEF SymReturn
  <2>5. CASE SymRestore(Main)
    BY <2>5 DEF SymRestore
  <2> QED
    BY <1>5, <2>1, <2>2, <2>3, <2>4, <2>5 DEF SymCall
<1>6. CASE SetDeltaCallback(Main)
  <2>1. CASE CbTest(Main) \/ CbCreate(Main) \/ CbSetUserFn(Main) \/ SetCbReturn(Main)
             \/ ClearTest(Main) \/ ClearEnter(Main) \/ ClearReturn(Main) \/ ClearDrop(Main)
             \/ ClearNull(Main)
    BY <2>1
    DEF CbTest, CbCreate, CbSetUserFn, SetCbReturn, ClearTest, ClearEnter, ClearReturn, ClearDrop,
        ClearNull
  <2>2. CASE SetCbEnter(Main)
    BY <2>2, SetCbEntered DEF Keeps
  <2> QED
    BY <1>6, <2>1, <2>2 DEF SetDeltaCallback
<1>7. CASE Step(Main)
  <2>1. CASE StepEnter(Main) \/ DrainClear(Main) \/ ClearPending(Main) \/ Decode(Main)
             \/ SchemaEnter(Main) \/ SchemaReturn(Main)
    BY <2>1
    DEF StepEnter, DrainClear, ClearPending, Decode, SchemaEnter, EnterProgram, SchemaReturn
  <2>2. CASE StepReturn(Main)
    BY <2>2, StepReturned DEF EvaluatesNow
  <2>3. CASE DrainCopy(Main)
    BY <2>3, DrainCopied DEF Keeps
  <2>4. CASE LookupRows(Main)
    BY <2>4, LookedUp DEF Keeps
  <2>5. CASE Dispatch(Main)
    BY <2>5, Dispatched
  <2> QED
    BY <1>7, <2>1, <2>2, <2>3, <2>4, <2>5 DEF Step
<1>8. CASE Snapshot(Main)
  <2>1. CASE SnapshotEnter(Main)
    BY <2>1 DEF SnapshotEnter
  <2>2. CASE SnapshotReturn(Main)
    BY <2>2, SnapshotReturned DEF Keeps, EvaluatesNow
  <2> QED
    BY <1>8, <2>1, <2>2 DEF Snapshot
<1>9. CASE MakeCompound(Main)
  BY <1>9 DEF MakeCompound, CaptureHandle, MakeEnter, MakeReturn, MakeAppend
<1>10. CASE PreviewInlineFacts(Main)
  BY <1>10
  DEF PreviewInlineFacts, Preview, AfterPreview, FactsEnter, EnterProgram, FactsReturn,
      FactsLookup
<1>11. CASE Close(Main)
  BY <1>11
  DEF Close, CloseTest, CloseLock, CloseCb, CloseCbReturn, CloseDrop, CloseNull, CloseHandle,
      CloseReturn, CloseFinish
<1> QED
  BY <1>1, <1>2, <1>3, <1>4, <1>5, <1>6, <1>7, <1>8, <1>9, <1>10, <1>11 DEF Run

(* A buffer is referenced from Python for as long as the engine points to it. *)
LEMMA BuffersByMain ==
  ASSUME SharedOK, LocalsOK, OnPath(Main), Alive, Buffers, Main \in Threads,
         Begin(Main) \/ Run(Main)
  PROVE  Buffers'
<1> USE DEF LocalsOK, SharedOK, EngineType, SelfType, Goto, Jump, Return, Blank, shared,
            EnterEngine, Buffers, Alive, Closing, Checked, Inserted, Accepted, Row, Me, At,
            OnPath, OnItsWay, Kind, IntRow, StrRow, SymRow, Incremental
<1>1. CASE Begin(Main)
  <2>1. /\ UNCHANGED <<engine, self, interns, registry, argtypes, returned>> /\ pc[Main] = "idle"
        /\ frame'[Main].events = {} /\ frame'[Main].missed = {} /\ frame'[Main].ok = FALSE
        /\ pc'[Main] \in {"iud", "intern_lock", "mode", "intern_begin", "capture", "close_test",
                           "preview"}
    BY <1>1, Begun
  <2> QED
    BY <2>1
<1>2. CASE Mode(Main)
  BY <1>2 DEF Mode, TestMode, AfterMode, SetMode
<1>3. CASE Intern(Main)
  BY <1>3 DEF Intern, InternBegin, InternLookup, InternDone, InternReturn
<1>4. CASE Iud(Main)
  BY <1>4 DEF Iud, IudEnter, IudReturn, AppendPending
<1>5. CASE SymCall(Main)
  <2>1. CASE SymSavePrev(Main)
    BY <2>1 DEF SymSavePrev
  <2>2. CASE SymSetArgtypes(Main)
    BY <2>2 DEF SymSetArgtypes
  <2>3. CASE SymEnter(Main)
    BY <2>3 DEF SymEnter
  <2>4. CASE SymReturn(Main)
    BY <2>4 DEF SymReturn
  <2>5. CASE SymRestore(Main)
    BY <2>5 DEF SymRestore
  <2> QED
    BY <1>5, <2>1, <2>2, <2>3, <2>4, <2>5 DEF SymCall
<1>6. CASE SetDeltaCallback(Main)
  <2>1. CASE CbTest(Main) \/ CbCreate(Main) \/ CbSetUserFn(Main) \/ SetCbReturn(Main)
             \/ ClearTest(Main) \/ ClearEnter(Main) \/ ClearReturn(Main) \/ ClearDrop(Main)
             \/ ClearNull(Main)
    BY <2>1
    DEF CbTest, CbCreate, CbSetUserFn, SetCbReturn, ClearTest, ClearEnter, ClearReturn, ClearDrop,
        ClearNull
  <2>2. CASE SetCbEnter(Main)
    BY <2>2, SetCbEntered DEF Keeps
  <2> QED
    BY <1>6, <2>1, <2>2 DEF SetDeltaCallback
<1>7. CASE Step(Main)
  <2>1. CASE StepEnter(Main) \/ DrainClear(Main) \/ ClearPending(Main) \/ Decode(Main)
             \/ SchemaEnter(Main) \/ SchemaReturn(Main)
    BY <2>1
    DEF StepEnter, DrainClear, ClearPending, Decode, SchemaEnter, EnterProgram, SchemaReturn
  <2>2. CASE StepReturn(Main)
    BY <2>2, StepReturned DEF EvaluatesNow
  <2>3. CASE DrainCopy(Main)
    BY <2>3, DrainCopied DEF Keeps
  <2>4. CASE LookupRows(Main)
    BY <2>4, LookedUp DEF Keeps
  <2>5. CASE Dispatch(Main)
    BY <2>5, Dispatched
  <2> QED
    BY <1>7, <2>1, <2>2, <2>3, <2>4, <2>5 DEF Step
<1>8. CASE Snapshot(Main)
  <2>1. CASE SnapshotEnter(Main)
    BY <2>1 DEF SnapshotEnter
  <2>2. CASE SnapshotReturn(Main)
    BY <2>2, SnapshotReturned DEF Keeps, EvaluatesNow
  <2> QED
    BY <1>8, <2>1, <2>2 DEF Snapshot
<1>9. CASE MakeCompound(Main)
  <2>1. CASE CaptureHandle(Main)
    BY <2>1 DEF CaptureHandle
  <2>2. CASE MakeEnter(Main)
    BY <2>2 DEF MakeEnter
  <2>3. CASE MakeReturn(Main)
    BY <2>3 DEF MakeReturn
  <2>4. CASE MakeAppend(Main)
    BY <2>4 DEF MakeAppend
  <2> QED
    BY <1>9, <2>1, <2>2, <2>3, <2>4 DEF MakeCompound
<1>10. CASE PreviewInlineFacts(Main)
  BY <1>10
  DEF PreviewInlineFacts, Preview, AfterPreview, FactsEnter, EnterProgram, FactsReturn,
      FactsLookup
<1>11. CASE Close(Main)
  <2>1. CASE CloseTest(Main)
    BY <2>1 DEF CloseTest
  <2>2. CASE CloseLock(Main)
    BY <2>2 DEF CloseLock
  <2>3. CASE CloseCb(Main)
    BY <2>3 DEF CloseCb
  <2>4. CASE CloseCbReturn(Main)
    BY <2>4 DEF CloseCbReturn
  <2>5. CASE CloseDrop(Main)
    BY <2>5 DEF CloseDrop
  <2>6. CASE CloseNull(Main)
    BY <2>6 DEF CloseNull
  <2>7. CASE CloseHandle(Main)
    BY <2>7 DEF CloseHandle
  <2>8. CASE CloseReturn(Main)
    BY <2>8 DEF CloseReturn
  <2>9. CASE CloseFinish(Main)
    BY <2>9 DEF CloseFinish
  <2> QED
    BY <1>11, <2>1, <2>2, <2>3, <2>4, <2>5, <2>6, <2>7, <2>8, <2>9 DEF Close
<1> QED
  BY <1>1, <1>2, <1>3, <1>4, <1>5, <1>6, <1>7, <1>8, <1>9, <1>10, <1>11 DEF Run

(* Every row the engine was given has an id of its own. *)
LEMMA FreshByMain ==
  ASSUME SharedOK, LocalsOK, OnPath(Main), Alive, Fresh, Main \in Threads,
         Begin(Main) \/ Run(Main)
  PROVE  Fresh'
<1> USE DEF LocalsOK, SharedOK, EngineType, SelfType, Goto, Jump, Return, Blank, shared,
            EnterEngine, Fresh, ToInsert, BeforeInsert, At, OnPath, OnItsWay, Kind, IntRow,
            StrRow, SymRow, Incremental
<1>1. CASE Begin(Main)
  <2>1. /\ UNCHANGED <<engine, self, interns, registry, argtypes, returned>>
        /\ frame'[Main].n = frame[Main].n + 1
    BY <1>1, Begun
  <2> QED
    BY <2>1, RowIds DEF Fresh
<1>2. CASE Mode(Main)
  BY <1>2 DEF Mode, TestMode, AfterMode, SetMode
<1>3. CASE Intern(Main)
  BY <1>3 DEF Intern, InternBegin, InternLookup, InternDone, InternReturn
<1>4. CASE Iud(Main)
  <2>1. CASE IudEnter(Main) \/ AppendPending(Main)
    BY <2>1 DEF IudEnter, AppendPending
  <2>2. CASE IudReturn(Main)
    <3>1. /\ At(Main, "in_iud") /\ ToInsert
          /\ UNCHANGED <<self, interns, registry, argtypes, returned>>
      BY <2>2 DEF IudReturn, ToInsert, BeforeInsert, At
    <3>2. CASE Goto(Main, "append") /\ engine' = [engine EXCEPT !.staged = @ \cup {Row(Main)}]
      <4>1. /\ engine'.staged = engine.staged \cup {Row(Main)}
            /\ engine'.evaluated = engine.evaluated
        BY <3>2
      <4>2. Row(Main) \notin engine.evaluated
        BY <3>1, RowIds DEF Fresh
      <4> QED
        BY <3>1, <3>2, <4>1, <4>2, RowIds
        DEF Fresh, ToInsert, BeforeInsert, At, OnPath, OnItsWay, Kind, IntRow, StrRow, SymRow
    <3>3. CASE Return(Main) /\ UNCHANGED engine
      BY <3>1, <3>3 DEF Fresh, ToInsert, BeforeInsert
    <3> QED
      BY <2>2, <3>2, <3>3 DEF IudReturn
  <2> QED
    BY <1>4, <2>1, <2>2 DEF Iud
<1>5. CASE SymCall(Main)
  <2>1. CASE SymSavePrev(Main)
    BY <2>1 DEF SymSavePrev
  <2>2. CASE SymSetArgtypes(Main)
    BY <2>2 DEF SymSetArgtypes
  <2>3. CASE SymEnter(Main)
    BY <2>3 DEF SymEnter
  <2>4. CASE SymReturn(Main)
    <3>1. /\ At(Main, "in_sym") /\ ToInsert
          /\ UNCHANGED <<self, interns, registry, argtypes, returned>>
      BY <2>4 DEF SymReturn, ToInsert, BeforeInsert, At
    <3>2. PICK ok \in BOOLEAN :
            /\ Jump(Main, "sym_restore", [frame[Main] EXCEPT !.ok = ok])
            /\ engine' = IF ok THEN [engine EXCEPT !.staged = @ \cup {Row(Main)}] ELSE engine
      BY <2>4 DEF SymReturn, Outcomes
    <3>3. /\ engine'.staged \in {engine.staged, engine.staged \cup {Row(Main)}}
          /\ engine'.evaluated = engine.evaluated
      BY <3>2
    <3>4. pc'[Main] = "sym_restore" /\ frame'[Main].n = frame[Main].n /\ Kind(Main)' = Kind(Main)
      BY <3>2 DEF FrameType, Kind
    <3>5. Row(Main) \notin engine.evaluated
      BY <3>1, RowIds DEF Fresh
    <3> QED
      BY <3>1, <3>3, <3>4, <3>5, RowIds
      DEF Fresh, ToInsert, BeforeInsert, OnPath, OnItsWay, At, Kind, StrRow, SymRow
  <2>5. CASE SymRestore(Main)
    BY <2>5 DEF SymRestore
  <2> QED
    BY <1>5, <2>1, <2>2, <2>3, <2>4, <2>5 DEF SymCall
<1>6. CASE SetDeltaCallback(Main)
  <2>1. CASE CbTest(Main) \/ CbCreate(Main) \/ CbSetUserFn(Main) \/ SetCbReturn(Main)
             \/ ClearTest(Main) \/ ClearEnter(Main) \/ ClearReturn(Main) \/ ClearDrop(Main)
             \/ ClearNull(Main)
    BY <2>1
    DEF CbTest, CbCreate, CbSetUserFn, SetCbReturn, ClearTest, ClearEnter, ClearReturn, ClearDrop,
        ClearNull
  <2>2. CASE SetCbEnter(Main)
    BY <2>2, SetCbEntered DEF Keeps
  <2> QED
    BY <1>6, <2>1, <2>2 DEF SetDeltaCallback
<1>7. CASE Step(Main)
  <2>1. CASE StepEnter(Main) \/ DrainClear(Main) \/ ClearPending(Main) \/ Decode(Main)
             \/ SchemaEnter(Main) \/ SchemaReturn(Main)
    BY <2>1
    DEF StepEnter, DrainClear, ClearPending, Decode, SchemaEnter, EnterProgram, SchemaReturn
  <2>2. CASE StepReturn(Main)
    BY <2>2, StepReturned DEF EvaluatesNow
  <2>3. CASE DrainCopy(Main)
    BY <2>3, DrainCopied DEF Keeps
  <2>4. CASE LookupRows(Main)
    BY <2>4, LookedUp DEF Keeps
  <2>5. CASE Dispatch(Main)
    BY <2>5, Dispatched
  <2> QED
    BY <1>7, <2>1, <2>2, <2>3, <2>4, <2>5 DEF Step
<1>8. CASE Snapshot(Main)
  <2>1. CASE SnapshotEnter(Main)
    BY <2>1 DEF SnapshotEnter
  <2>2. CASE SnapshotReturn(Main)
    BY <2>2, SnapshotReturned DEF Keeps, EvaluatesNow
  <2> QED
    BY <1>8, <2>1, <2>2 DEF Snapshot
<1>9. CASE MakeCompound(Main)
  <2>1. CASE CaptureHandle(Main)
    BY <2>1 DEF CaptureHandle
  <2>2. CASE MakeEnter(Main)
    BY <2>2 DEF MakeEnter
  <2>3. CASE MakeReturn(Main)
    BY <2>3 DEF MakeReturn
  <2>4. CASE MakeAppend(Main)
    BY <2>4 DEF MakeAppend
  <2> QED
    BY <1>9, <2>1, <2>2, <2>3, <2>4 DEF MakeCompound
<1>10. CASE PreviewInlineFacts(Main)
  BY <1>10
  DEF PreviewInlineFacts, Preview, AfterPreview, FactsEnter, EnterProgram, FactsReturn,
      FactsLookup
<1>11. CASE Close(Main)
  <2>1. CASE CloseTest(Main)
    BY <2>1 DEF CloseTest
  <2>2. CASE CloseLock(Main)
    BY <2>2 DEF CloseLock
  <2>3. CASE CloseCb(Main)
    BY <2>3 DEF CloseCb
  <2>4. CASE CloseCbReturn(Main)
    BY <2>4 DEF CloseCbReturn
  <2>5. CASE CloseDrop(Main)
    BY <2>5 DEF CloseDrop
  <2>6. CASE CloseNull(Main)
    BY <2>6 DEF CloseNull
  <2>7. CASE CloseHandle(Main)
    BY <2>7 DEF CloseHandle
  <2>8. CASE CloseReturn(Main)
    BY <2>8 DEF CloseReturn
  <2>9. CASE CloseFinish(Main)
    BY <2>9 DEF CloseFinish
  <2> QED
    BY <1>11, <2>1, <2>2, <2>3, <2>4, <2>5, <2>6, <2>7, <2>8, <2>9 DEF Close
<1> QED
  BY <1>1, <1>2, <1>3, <1>4, <1>5, <1>6, <1>7, <1>8, <1>9, <1>10, <1>11 DEF Run

(* The mode decides which call evaluates. *)
LEMMA ModesByMain ==
  ASSUME SharedOK, LocalsOK, OnPath(Main), Modes, Main \in Threads, Begin(Main) \/ Run(Main)
  PROVE  Modes'
<1> USE DEF LocalsOK, SharedOK, EngineType, SelfType, Goto, Jump, Return, Blank, shared,
            EnterEngine, Modes, Evaluating, Registering, WantedMode, At, OnPath, OnItsWay, Kind,
            IntRow, StrRow, SymRow, Incremental
<1>1. CASE Begin(Main)
  <2>1. /\ UNCHANGED <<engine, self, interns, registry, argtypes, returned>> /\ pc[Main] = "idle"
        /\ frame'[Main].events = {} /\ frame'[Main].missed = {} /\ frame'[Main].ok = FALSE
        /\ pc'[Main] \in {"iud", "intern_lock", "mode", "intern_begin", "capture", "close_test",
                           "preview"}
    BY <1>1, Begun
  <2> QED
    BY <2>1
<1>2. CASE Mode(Main)
  BY <1>2 DEF Mode, TestMode, AfterMode, SetMode
<1>3. CASE Intern(Main)
  BY <1>3 DEF Intern, InternBegin, InternLookup, InternDone, InternReturn
<1>4. CASE Iud(Main)
  BY <1>4 DEF Iud, IudEnter, IudReturn, AppendPending
<1>5. CASE SymCall(Main)
  BY <1>5 DEF SymCall, SymSavePrev, SymSetArgtypes, SymEnter, SymReturn, SymRestore
<1>6. CASE SetDeltaCallback(Main)
  <2>1. CASE CbTest(Main) \/ CbCreate(Main) \/ CbSetUserFn(Main) \/ SetCbReturn(Main)
             \/ ClearTest(Main) \/ ClearEnter(Main) \/ ClearReturn(Main) \/ ClearDrop(Main)
             \/ ClearNull(Main)
    BY <2>1
    DEF CbTest, CbCreate, CbSetUserFn, SetCbReturn, ClearTest, ClearEnter, ClearReturn, ClearDrop,
        ClearNull
  <2>2. CASE SetCbEnter(Main)
    BY <2>2, SetCbEntered DEF Keeps
  <2> QED
    BY <1>6, <2>1, <2>2 DEF SetDeltaCallback
<1>7. CASE Step(Main)
  <2>1. CASE StepEnter(Main) \/ DrainClear(Main) \/ ClearPending(Main) \/ Decode(Main)
             \/ SchemaEnter(Main) \/ SchemaReturn(Main)
    BY <2>1
    DEF StepEnter, DrainClear, ClearPending, Decode, SchemaEnter, EnterProgram, SchemaReturn
  <2>2. CASE StepReturn(Main)
    BY <2>2, StepReturned DEF EvaluatesNow
  <2>3. CASE DrainCopy(Main)
    BY <2>3, DrainCopied DEF Keeps
  <2>4. CASE LookupRows(Main)
    BY <2>4, LookedUp DEF Keeps
  <2>5. CASE Dispatch(Main)
    BY <2>5, Dispatched
  <2> QED
    BY <1>7, <2>1, <2>2, <2>3, <2>4, <2>5 DEF Step
<1>8. CASE Snapshot(Main)
  <2>1. CASE SnapshotEnter(Main)
    BY <2>1 DEF SnapshotEnter
  <2>2. CASE SnapshotReturn(Main)
    BY <2>2, SnapshotReturned DEF Keeps, EvaluatesNow
  <2> QED
    BY <1>8, <2>1, <2>2 DEF Snapshot
<1>9. CASE MakeCompound(Main)
  <2>1. CASE CaptureHandle(Main)
    BY <2>1 DEF CaptureHandle
  <2>2. CASE MakeEnter(Main)
    BY <2>2 DEF MakeEnter
  <2>3. CASE MakeReturn(Main)
    BY <2>3 DEF MakeReturn
  <2>4. CASE MakeAppend(Main)
    BY <2>4 DEF MakeAppend
  <2> QED
    BY <1>9, <2>1, <2>2, <2>3, <2>4 DEF MakeCompound
<1>10. CASE PreviewInlineFacts(Main)
  BY <1>10
  DEF PreviewInlineFacts, Preview, AfterPreview, FactsEnter, EnterProgram, FactsReturn,
      FactsLookup
<1>11. CASE Close(Main)
  <2>1. CASE CloseTest(Main)
    BY <2>1 DEF CloseTest
  <2>2. CASE CloseLock(Main)
    BY <2>2 DEF CloseLock
  <2>3. CASE CloseCb(Main)
    BY <2>3 DEF CloseCb
  <2>4. CASE CloseCbReturn(Main)
    BY <2>4 DEF CloseCbReturn
  <2>5. CASE CloseDrop(Main)
    BY <2>5 DEF CloseDrop
  <2>6. CASE CloseNull(Main)
    BY <2>6 DEF CloseNull
  <2>7. CASE CloseHandle(Main)
    BY <2>7 DEF CloseHandle
  <2>8. CASE CloseReturn(Main)
    BY <2>8 DEF CloseReturn
  <2>9. CASE CloseFinish(Main)
    BY <2>9 DEF CloseFinish
  <2> QED
    BY <1>11, <2>1, <2>2, <2>3, <2>4, <2>5, <2>6, <2>7, <2>8, <2>9 DEF Close
<1> QED
  BY <1>1, <1>2, <1>3, <1>4, <1>5, <1>6, <1>7, <1>8, <1>9, <1>10, <1>11 DEF Run

(* Rows queued or drained have been evaluated. *)
LEMMA HeldByMain ==
  ASSUME SharedOK, LocalsOK, OnPath(Main), Held, Main \in Threads, Begin(Main) \/ Run(Main)
  PROVE  Held'
<1> USE DEF LocalsOK, SharedOK, EngineType, SelfType, Goto, Jump, Return, Blank, shared,
            EnterEngine, Held, At, OnPath, OnItsWay, Kind, IntRow, StrRow, SymRow, Incremental
<1>1. CASE Begin(Main)
  <2>1. /\ UNCHANGED <<engine, self, interns, registry, argtypes, returned>> /\ pc[Main] = "idle"
        /\ frame'[Main].events = {} /\ frame'[Main].missed = {} /\ frame'[Main].ok = FALSE
        /\ pc'[Main] \in {"iud", "intern_lock", "mode", "intern_begin", "capture", "close_test",
                           "preview"}
    BY <1>1, Begun
  <2> QED
    BY <2>1
<1>2. CASE Mode(Main)
  BY <1>2 DEF Mode, TestMode, AfterMode, SetMode
<1>3. CASE Intern(Main)
  BY <1>3 DEF Intern, InternBegin, InternLookup, InternDone, InternReturn
<1>4. CASE Iud(Main)
  BY <1>4 DEF Iud, IudEnter, IudReturn, AppendPending
<1>5. CASE SymCall(Main)
  <2>1. CASE SymSavePrev(Main)
    BY <2>1 DEF SymSavePrev
  <2>2. CASE SymSetArgtypes(Main)
    BY <2>2 DEF SymSetArgtypes
  <2>3. CASE SymEnter(Main)
    BY <2>3 DEF SymEnter
  <2>4. CASE SymReturn(Main)
    BY <2>4 DEF SymReturn
  <2>5. CASE SymRestore(Main)
    BY <2>5 DEF SymRestore
  <2> QED
    BY <1>5, <2>1, <2>2, <2>3, <2>4, <2>5 DEF SymCall
<1>6. CASE SetDeltaCallback(Main)
  <2>1. CASE CbTest(Main) \/ CbCreate(Main) \/ CbSetUserFn(Main) \/ SetCbReturn(Main)
             \/ ClearTest(Main) \/ ClearEnter(Main) \/ ClearReturn(Main) \/ ClearDrop(Main)
             \/ ClearNull(Main)
    BY <2>1
    DEF CbTest, CbCreate, CbSetUserFn, SetCbReturn, ClearTest, ClearEnter, ClearReturn, ClearDrop,
        ClearNull
  <2>2. CASE SetCbEnter(Main)
    BY <2>2, SetCbEntered DEF Keeps
  <2> QED
    BY <1>6, <2>1, <2>2 DEF SetDeltaCallback
<1>7. CASE Step(Main)
  <2>1. CASE StepEnter(Main) \/ DrainClear(Main) \/ ClearPending(Main) \/ Decode(Main)
             \/ SchemaEnter(Main) \/ SchemaReturn(Main)
    BY <2>1
    DEF StepEnter, DrainClear, ClearPending, Decode, SchemaEnter, EnterProgram, SchemaReturn
  <2>2. CASE StepReturn(Main)
    <3> HIDE DEF Held, At, OnPath, OnItsWay, Kind, IntRow, StrRow, SymRow, Incremental
    <3>1. CASE Return(Main) /\ UNCHANGED <<registry, engine>>
      BY <3>1 DEF Held
    <3>2. CASE EvaluatesNow /\ frame'[Main] = frame[Main]
               /\ \A i \in Ids : registry'.queue[i] \subseteq registry.queue[i] \cup engine.staged
      BY <3>2 DEF Held, EvaluatesNow
    <3> QED
      BY <2>2, <3>1, <3>2, StepReturned
  <2>3. CASE DrainCopy(Main)
    BY <2>3, DrainCopied DEF Keeps
  <2>4. CASE LookupRows(Main)
    BY <2>4, LookedUp DEF Keeps
  <2>5. CASE Dispatch(Main)
    BY <2>5, Dispatched
  <2> QED
    BY <1>7, <2>1, <2>2, <2>3, <2>4, <2>5 DEF Step
<1>8. CASE Snapshot(Main)
  <2>1. CASE SnapshotEnter(Main)
    BY <2>1 DEF SnapshotEnter
  <2>2. CASE SnapshotReturn(Main)
    BY <2>2, SnapshotReturned DEF Keeps, EvaluatesNow
  <2> QED
    BY <1>8, <2>1, <2>2 DEF Snapshot
<1>9. CASE MakeCompound(Main)
  <2>1. CASE CaptureHandle(Main)
    BY <2>1 DEF CaptureHandle
  <2>2. CASE MakeEnter(Main)
    BY <2>2 DEF MakeEnter
  <2>3. CASE MakeReturn(Main)
    BY <2>3 DEF MakeReturn
  <2>4. CASE MakeAppend(Main)
    BY <2>4 DEF MakeAppend
  <2> QED
    BY <1>9, <2>1, <2>2, <2>3, <2>4 DEF MakeCompound
<1>10. CASE PreviewInlineFacts(Main)
  BY <1>10
  DEF PreviewInlineFacts, Preview, AfterPreview, FactsEnter, EnterProgram, FactsReturn,
      FactsLookup
<1>11. CASE Close(Main)
  <2>1. CASE CloseTest(Main)
    BY <2>1 DEF CloseTest
  <2>2. CASE CloseLock(Main)
    BY <2>2 DEF CloseLock
  <2>3. CASE CloseCb(Main)
    BY <2>3 DEF CloseCb
  <2>4. CASE CloseCbReturn(Main)
    BY <2>4 DEF CloseCbReturn
  <2>5. CASE CloseDrop(Main)
    BY <2>5 DEF CloseDrop
  <2>6. CASE CloseNull(Main)
    BY <2>6 DEF CloseNull
  <2>7. CASE CloseHandle(Main)
    BY <2>7 DEF CloseHandle
  <2>8. CASE CloseReturn(Main)
    BY <2>8 DEF CloseReturn
  <2>9. CASE CloseFinish(Main)
    BY <2>9 DEF CloseFinish
  <2> QED
    BY <1>11, <2>1, <2>2, <2>3, <2>4, <2>5, <2>6, <2>7, <2>8, <2>9 DEF Close
<1> QED
  BY <1>1, <1>2, <1>3, <1>4, <1>5, <1>6, <1>7, <1>8, <1>9, <1>10, <1>11 DEF Run

(* A string is known before a row that holds it is evaluated. *)
LEMMA KnownByMain ==
  ASSUME SharedOK, LocalsOK, OnPath(Main), Alive, Buffers, Held, "intern" \notin MayFail, Known,
         Main \in Threads, Begin(Main) \/ Run(Main)
  PROVE  Known'
<1> USE DEF LocalsOK, SharedOK, EngineType, SelfType, Goto, Jump, Return, Blank, shared,
            EnterEngine, Known, StringKnown, Alive, Checked, Unsent, Accepted, Mirroring, Row,
            Me, Held, Outcomes, At, OnPath, OnItsWay, Kind, IntRow, StrRow, SymRow, Incremental
<1>1. CASE Begin(Main)
  <2>1. /\ UNCHANGED <<engine, self, interns, registry, argtypes, returned>> /\ pc[Main] = "idle"
        /\ frame'[Main].missed = {}
        /\ pc'[Main] \in {"iud", "intern_lock", "mode", "intern_begin", "capture", "close_test",
                           "preview"}
    BY <1>1, Begun
  <2>2. /\ pc'[Main] = "iud" => frame'[Main].sym = NoSymbol
        /\ pc'[Main] = "intern_lock" => Kind(Main)' \notin SymRow
    BY <1>1, Begun DEF FirstLabel, Kind, IntRow, StrRow, SymRow, Incremental
  <2>3. \A r \in engine.staged : StringKnown(r)
    BY <2>1 DEF Known, Unsent, Accepted, Mirroring, At
  <2> QED
    BY <2>1, <2>2, <2>3 DEF Known, StringKnown, Mirroring
<1>2. CASE Mode(Main)
  BY <1>2 DEF Mode, TestMode, AfterMode, SetMode
<1>3. CASE Intern(Main)
  <2>1. CASE InternBegin(Main)
    BY <2>1 DEF InternBegin
  <2>2. CASE InternLookup(Main)
    BY <2>2 DEF InternLookup, InternDone
  <2>3. CASE InternReturn(Main)
    BY <2>3 DEF InternReturn, InternDone
  <2> QED
    BY <1>3, <2>1, <2>2, <2>3 DEF Intern
<1>4. CASE Iud(Main)
  <2>1. CASE IudEnter(Main)
    BY <2>1 DEF IudEnter
  <2>2. CASE IudReturn(Main)
    BY <2>2 DEF IudReturn
  <2>3. CASE AppendPending(Main)
    BY <2>3 DEF AppendPending
  <2> QED
    BY <1>4, <2>1, <2>2, <2>3 DEF Iud
<1>5. CASE SymCall(Main)
  <2>1. CASE SymSavePrev(Main)
    BY <2>1 DEF SymSavePrev
  <2>2. CASE SymSetArgtypes(Main)
    BY <2>2 DEF SymSetArgtypes
  <2>3. CASE SymEnter(Main)
    BY <2>3 DEF SymEnter
  <2>4. CASE SymReturn(Main)
    BY <2>4 DEF SymReturn
  <2>5. CASE SymRestore(Main)
    BY <2>5 DEF SymRestore
  <2> QED
    BY <1>5, <2>1, <2>2, <2>3, <2>4, <2>5 DEF SymCall
<1>6. CASE SetDeltaCallback(Main)
  <2>1. CASE CbTest(Main)
    BY <2>1 DEF CbTest
  <2>2. CASE CbCreate(Main)
    BY <2>2 DEF CbCreate
  <2>3. CASE CbSetUserFn(Main)
    BY <2>3 DEF CbSetUserFn
  <2>4. CASE SetCbEnter(Main)
    BY <2>4, SetCbEntered DEF Keeps
  <2>5. CASE SetCbReturn(Main)
    BY <2>5 DEF SetCbReturn
  <2>6. CASE ClearTest(Main)
    BY <2>6 DEF ClearTest
  <2>7. CASE ClearEnter(Main)
    BY <2>7 DEF ClearEnter
  <2>8. CASE ClearReturn(Main)
    BY <2>8 DEF ClearReturn
  <2>9. CASE ClearDrop(Main)
    BY <2>9 DEF ClearDrop
  <2>10. CASE ClearNull(Main)
    BY <2>10 DEF ClearNull
  <2> QED
    BY <1>6, <2>1, <2>2, <2>3, <2>4, <2>5, <2>6, <2>7, <2>8, <2>9, <2>10 DEF SetDeltaCallback
<1>7. CASE Step(Main)
  <2>1. CASE StepEnter(Main) \/ DrainClear(Main) \/ ClearPending(Main) \/ Decode(Main)
             \/ SchemaEnter(Main) \/ SchemaReturn(Main)
    BY <2>1
    DEF StepEnter, DrainClear, ClearPending, Decode, SchemaEnter, EnterProgram, SchemaReturn
  <2>2. CASE StepReturn(Main)
    BY <2>2, StepReturned DEF EvaluatesNow
  <2>3. CASE DrainCopy(Main)
    BY <2>3, DrainCopied DEF Keeps
  <2>4. CASE LookupRows(Main)
    BY <2>4, LookedUp DEF Keeps
  <2>5. CASE Dispatch(Main)
    <3> HIDE DEF Known, StringKnown, Alive, Checked, Unsent, Accepted, Mirroring, Row, Me, Held,
             Outcomes, At, OnPath, OnItsWay, Kind, IntRow, StrRow, SymRow, Incremental
    <3>1. \A d \in returned' : ~d.missed
      BY <2>5, Dispatched DEF Known
    <3> QED
      BY <2>5, <3>1, Dispatched
      DEF Known, StringKnown, Unsent, Accepted, Mirroring, At
  <2> QED
    BY <1>7, <2>1, <2>2, <2>3, <2>4, <2>5 DEF Step
<1>8. CASE Snapshot(Main)
  <2>1. CASE SnapshotEnter(Main)
    BY <2>1 DEF SnapshotEnter
  <2>2. CASE SnapshotReturn(Main)
    BY <2>2, SnapshotReturned DEF Keeps, EvaluatesNow
  <2> QED
    BY <1>8, <2>1, <2>2 DEF Snapshot
<1>9. CASE MakeCompound(Main)
  <2>1. CASE CaptureHandle(Main)
    BY <2>1 DEF CaptureHandle
  <2>2. CASE MakeEnter(Main)
    BY <2>2 DEF MakeEnter
  <2>3. CASE MakeReturn(Main)
    BY <2>3 DEF MakeReturn
  <2>4. CASE MakeAppend(Main)
    BY <2>4 DEF MakeAppend
  <2> QED
    BY <1>9, <2>1, <2>2, <2>3, <2>4 DEF MakeCompound
<1>10. CASE PreviewInlineFacts(Main)
  BY <1>10
  DEF PreviewInlineFacts, Preview, AfterPreview, FactsEnter, EnterProgram, FactsReturn,
      FactsLookup, Dedupe
<1>11. CASE Close(Main)
  <2>1. CASE CloseTest(Main)
    BY <2>1 DEF CloseTest
  <2>2. CASE CloseLock(Main)
    BY <2>2 DEF CloseLock
  <2>3. CASE CloseCb(Main)
    BY <2>3 DEF CloseCb
  <2>4. CASE CloseCbReturn(Main)
    BY <2>4 DEF CloseCbReturn
  <2>5. CASE CloseDrop(Main)
    BY <2>5 DEF CloseDrop
  <2>6. CASE CloseNull(Main)
    BY <2>6 DEF CloseNull
  <2>7. CASE CloseHandle(Main)
    BY <2>7 DEF CloseHandle
  <2>8. CASE CloseReturn(Main)
    BY <2>8 DEF CloseReturn
  <2>9. CASE CloseFinish(Main)
    BY <2>9 DEF CloseFinish
  <2> QED
    BY <1>11, <2>1, <2>2, <2>3, <2>4, <2>5, <2>6, <2>7, <2>8, <2>9 DEF Close
<1> QED
  BY <1>1, <1>2, <1>3, <1>4, <1>5, <1>6, <1>7, <1>8, <1>9, <1>10, <1>11 DEF Run

(* While there is a delta callback the engine has it, and its queue is drained whole. *)
LEMMA InstalledByMain ==
  ASSUME SharedOK, LocalsOK, OnPath(Main), Alive, "set_delta_cb" \notin MayFail, Installed,
         Main \in Threads, Begin(Main) \/ Run(Main)
  PROVE  Installed'
<1> USE DEF LocalsOK, SharedOK, EngineType, SelfType, Goto, Jump, Return, Blank, shared,
            EnterEngine, Installed, Swapping, Evaluating, Alive, Checked, Closing, Outcomes, At,
            OnPath, OnItsWay, Kind, IntRow, StrRow, SymRow, Incremental
<1>1. CASE Begin(Main)
  <2>1. /\ UNCHANGED <<engine, self, interns, registry, argtypes, returned>> /\ pc[Main] = "idle"
        /\ frame'[Main].events = {} /\ frame'[Main].missed = {} /\ frame'[Main].ok = FALSE
        /\ pc'[Main] \in {"iud", "intern_lock", "mode", "intern_begin", "capture", "close_test",
                           "preview"}
    BY <1>1, Begun
  <2> QED
    BY <2>1
<1>2. CASE Mode(Main)
  BY <1>2 DEF Mode, TestMode, AfterMode, SetMode
<1>3. CASE Intern(Main)
  <2>1. CASE InternBegin(Main)
    BY <2>1 DEF InternBegin
  <2>2. CASE InternLookup(Main)
    BY <2>2 DEF InternLookup, InternDone
  <2>3. CASE InternReturn(Main)
    BY <2>3 DEF InternReturn, InternDone
  <2> QED
    BY <1>3, <2>1, <2>2, <2>3 DEF Intern
<1>4. CASE Iud(Main)
  <2>1. CASE IudEnter(Main)
    BY <2>1 DEF IudEnter
  <2>2. CASE IudReturn(Main)
    BY <2>2 DEF IudReturn
  <2>3. CASE AppendPending(Main)
    BY <2>3 DEF AppendPending
  <2> QED
    BY <1>4, <2>1, <2>2, <2>3 DEF Iud
<1>5. CASE SymCall(Main)
  <2>1. CASE SymSavePrev(Main)
    BY <2>1 DEF SymSavePrev
  <2>2. CASE SymSetArgtypes(Main)
    BY <2>2 DEF SymSetArgtypes
  <2>3. CASE SymEnter(Main)
    BY <2>3 DEF SymEnter
  <2>4. CASE SymReturn(Main)
    BY <2>4 DEF SymReturn
  <2>5. CASE SymRestore(Main)
    BY <2>5 DEF SymRestore
  <2> QED
    BY <1>5, <2>1, <2>2, <2>3, <2>4, <2>5 DEF SymCall
<1>6. CASE SetDeltaCallback(Main)
  <2>1. CASE CbTest(Main)
    BY <2>1 DEF CbTest
  <2>2. CASE CbCreate(Main)
    <3>1. Me(Main) \in Ids /\ Me(Main) # NoId
      BY <2>2, MeTyped, ConstantsAssumption DEF CbCreate, At
    <3>2. /\ self'.deltaCb = Me(Main) /\ self'.schema = self.schema /\ Me(Main) \in registry'.slots
          /\ registry'.queue = registry.queue
          /\ At(Main, "cb_create") /\ pc'[Main] \in {"set_cb", "cb_user_fn"}
      BY <2>2, <3>1, GotoWent DEF CbCreate
    <3>3. \A i \in Ids : registry.queue[i] = {}
      BY <3>2 DEF Installed, At
    <3> QED
      BY <3>1, <3>2, <3>3 DEF Installed, Swapping, Evaluating, At
  <2>3. CASE CbSetUserFn(Main)
    BY <2>3 DEF CbSetUserFn
  <2>4. CASE SetCbEnter(Main)
    BY <2>4, SetCbEntered DEF Keeps
  <2>5. CASE SetCbReturn(Main)
    BY <2>5 DEF SetCbReturn
  <2>6. CASE ClearTest(Main)
    BY <2>6 DEF ClearTest
  <2>7. CASE ClearEnter(Main)
    BY <2>7 DEF ClearEnter
  <2>8. CASE ClearReturn(Main)
    BY <2>8 DEF ClearReturn
  <2>9. CASE ClearDrop(Main)
    BY <2>9 DEF ClearDrop
  <2>10. CASE ClearNull(Main)
    BY <2>10 DEF ClearNull
  <2> QED
    BY <1>6, <2>1, <2>2, <2>3, <2>4, <2>5, <2>6, <2>7, <2>8, <2>9, <2>10 DEF SetDeltaCallback
<1>7. CASE Step(Main)
  <2>1. CASE StepEnter(Main) \/ DrainClear(Main) \/ ClearPending(Main) \/ Decode(Main)
             \/ SchemaEnter(Main) \/ SchemaReturn(Main)
    BY <2>1
    DEF StepEnter, DrainClear, ClearPending, Decode, SchemaEnter, EnterProgram, SchemaReturn
  <2>2. CASE StepReturn(Main)
    <3> HIDE DEF Installed, Swapping, Evaluating, Alive, Checked, Closing, Outcomes, At, OnPath,
             OnItsWay, Kind, IntRow, StrRow, SymRow, Incremental
    <3>1. At(Main, "in_step") /\ UNCHANGED self /\ Kind(Main) = "step"
      BY <2>2, StepReturned DEF OnPath, OnItsWay, At
    <3>2. /\ engine.installed = self.deltaCb /\ self.deltaCb # NoId
          /\ \A i \in Ids : registry.queue[i] = {}
      BY <3>1 DEF Installed, Swapping, Alive, Checked, Evaluating, At
    <3>3. CASE Return(Main) /\ UNCHANGED <<registry, engine>>
      BY <3>1, <3>2, <3>3 DEF Installed, Swapping, Evaluating, At
    <3>4. CASE /\ pc'[Main] = "drain" /\ frame'[Main] = frame[Main] /\ EvaluatesNow
               /\ registry'.slots = registry.slots
               /\ \A i \in Ids : i # engine.installed => registry'.queue[i] = registry.queue[i]
      BY <3>1, <3>2, <3>4 DEF Installed, Swapping, Evaluating, At, EvaluatesNow, Kind
    <3> QED
      BY <2>2, <3>3, <3>4, StepReturned
  <2>3. CASE DrainCopy(Main)
    BY <2>3, DrainCopied DEF Keeps
  <2>4. CASE LookupRows(Main)
    BY <2>4, LookedUp DEF Keeps
  <2>5. CASE Dispatch(Main)
    BY <2>5, Dispatched
  <2> QED
    BY <1>7, <2>1, <2>2, <2>3, <2>4, <2>5 DEF Step
<1>8. CASE Snapshot(Main)
  <2>1. CASE SnapshotEnter(Main)
    BY <2>1 DEF SnapshotEnter
  <2>2. CASE SnapshotReturn(Main)
    BY <2>2, SnapshotReturned DEF Keeps, EvaluatesNow
  <2> QED
    BY <1>8, <2>1, <2>2 DEF Snapshot
<1>9. CASE MakeCompound(Main)
  <2>1. CASE CaptureHandle(Main)
    BY <2>1 DEF CaptureHandle
  <2>2. CASE MakeEnter(Main)
    BY <2>2 DEF MakeEnter
  <2>3. CASE MakeReturn(Main)
    BY <2>3 DEF MakeReturn
  <2>4. CASE MakeAppend(Main)
    BY <2>4 DEF MakeAppend
  <2> QED
    BY <1>9, <2>1, <2>2, <2>3, <2>4 DEF MakeCompound
<1>10. CASE PreviewInlineFacts(Main)
  BY <1>10
  DEF PreviewInlineFacts, Preview, AfterPreview, FactsEnter, EnterProgram, FactsReturn,
      FactsLookup
<1>11. CASE Close(Main)
  <2>1. CASE CloseTest(Main)
    BY <2>1 DEF CloseTest
  <2>2. CASE CloseLock(Main)
    BY <2>2 DEF CloseLock
  <2>3. CASE CloseCb(Main)
    BY <2>3 DEF CloseCb
  <2>4. CASE CloseCbReturn(Main)
    BY <2>4 DEF CloseCbReturn
  <2>5. CASE CloseDrop(Main)
    BY <2>5 DEF CloseDrop
  <2>6. CASE CloseNull(Main)
    BY <2>6 DEF CloseNull
  <2>7. CASE CloseHandle(Main)
    BY <2>7 DEF CloseHandle
  <2>8. CASE CloseReturn(Main)
    BY <2>8 DEF CloseReturn
  <2>9. CASE CloseFinish(Main)
    BY <2>9 DEF CloseFinish
  <2> QED
    BY <1>11, <2>1, <2>2, <2>3, <2>4, <2>5, <2>6, <2>7, <2>8, <2>9 DEF Close
<1> QED
  BY <1>1, <1>2, <1>3, <1>4, <1>5, <1>6, <1>7, <1>8, <1>9, <1>10, <1>11 DEF Run

(* What step() evaluates is queued, then drained, then returned, once. *)
LEMMA OnceByMain ==
  ASSUME SharedOK, LocalsOK, OnPath(Main), Alive, Held, Fresh, Modes, Installed, Once,
         Main \in Threads, Begin(Main) \/ Run(Main)
  PROVE  Once'
<1> USE DEF LocalsOK, SharedOK, EngineType, SelfType, Goto, Jump, Return, Blank, shared,
            EnterEngine, Once, Delivered, Underway, Modes, Evaluating, Registering, Installed,
            Holding, At, OnPath, OnItsWay, Kind, IntRow, StrRow, SymRow, Incremental
<1>1. CASE Begin(Main)
  <2>1. /\ UNCHANGED <<engine, self, interns, registry, argtypes, returned>> /\ pc[Main] = "idle"
        /\ frame'[Main].events = {} /\ pc'[Main] # "drain"
    BY <1>1, Begun
  <2>2. frame[Main].events = {}
    BY <2>1 DEF OnPath, Holding
  <2> QED
    BY <2>1, <2>2 DEF Once, Delivered, Underway, At
<1>2. CASE Mode(Main)
  BY <1>2 DEF Mode, TestMode, AfterMode, SetMode
<1>3. CASE Intern(Main)
  BY <1>3 DEF Intern, InternBegin, InternLookup, InternDone, InternReturn
<1>4. CASE Iud(Main)
  BY <1>4 DEF Iud, IudEnter, IudReturn, AppendPending
<1>5. CASE SymCall(Main)
  <2>1. CASE SymSavePrev(Main)
    BY <2>1 DEF SymSavePrev
  <2>2. CASE SymSetArgtypes(Main)
    BY <2>2 DEF SymSetArgtypes
  <2>3. CASE SymEnter(Main)
    BY <2>3 DEF SymEnter
  <2>4. CASE SymReturn(Main)
    BY <2>4 DEF SymReturn
  <2>5. CASE SymRestore(Main)
    BY <2>5 DEF SymRestore
  <2> QED
    BY <1>5, <2>1, <2>2, <2>3, <2>4, <2>5 DEF SymCall
<1>6. CASE SetDeltaCallback(Main)
  <2>1. CASE CbTest(Main) \/ CbCreate(Main) \/ CbSetUserFn(Main) \/ SetCbReturn(Main)
             \/ ClearTest(Main) \/ ClearEnter(Main) \/ ClearReturn(Main) \/ ClearDrop(Main)
             \/ ClearNull(Main)
    BY <2>1
    DEF CbTest, CbCreate, CbSetUserFn, SetCbReturn, ClearTest, ClearEnter, ClearReturn, ClearDrop,
        ClearNull
  <2>2. CASE SetCbEnter(Main)
    BY <2>2, SetCbEntered DEF Keeps
  <2> QED
    BY <1>6, <2>1, <2>2 DEF SetDeltaCallback
<1>7. CASE Step(Main)
  <2>1. CASE StepEnter(Main) \/ DrainClear(Main) \/ ClearPending(Main) \/ Decode(Main)
             \/ SchemaEnter(Main) \/ SchemaReturn(Main)
    BY <2>1
    DEF StepEnter, DrainClear, ClearPending, Decode, SchemaEnter, EnterProgram, SchemaReturn
  <2>2. CASE StepReturn(Main)
    <3> HIDE DEF Once, Delivered, Underway, Modes, Evaluating, Registering, Installed, Holding,
             At, OnPath, OnItsWay, Kind, IntRow, StrRow, SymRow, Incremental
    <3>1. /\ At(Main, "in_step") /\ UNCHANGED <<self, returned>> /\ Kind(Main) = "step"
          /\ frame[Main].events = {} /\ self.mode = "INCREMENTAL" /\ self.deltaCb \in Ids
      BY <2>2, StepReturned
      DEF OnPath, OnItsWay, At, Modes, Evaluating, Registering, Holding, Installed
    <3>2. CASE Return(Main) /\ UNCHANGED <<registry, engine>>
      BY <3>1, <3>2 DEF Once, Delivered, Underway, At
    <3>3. CASE /\ pc'[Main] = "drain" /\ frame'[Main] = frame[Main] /\ EvaluatesNow
               /\ registry'.queue[self.deltaCb] = engine.staged
      BY <3>1, <3>3 DEF Once, Delivered, Underway, At, EvaluatesNow, Fresh
    <3>4. /\ engine.installed = self.deltaCb /\ self.deltaCb \in registry.slots
          /\ registry.queue[self.deltaCb] = {}
      BY <3>1 DEF Installed, Swapping, Alive, Checked, Evaluating, At
    <3>5. Registered(engine.installed)
      BY <3>4 DEF Registered
    <3>6. CASE /\ pc'[Main] = "drain" /\ frame'[Main] = frame[Main] /\ EvaluatesNow
               /\ registry'.queue[self.deltaCb] = registry.queue[self.deltaCb] \cup engine.staged
      <4>1. registry'.queue[self.deltaCb] = engine.staged
        BY <3>4, <3>6
      <4> QED
        BY <3>3, <3>6, <4>1
    <3> QED
      BY <2>2, <3>1, <3>2, <3>4, <3>5, <3>6, StepReturned
  <2>3. CASE DrainCopy(Main)
    BY <2>3, DrainCopied DEF Keeps
  <2>4. CASE LookupRows(Main)
    BY <2>4, LookedUp DEF Keeps
  <2>5. CASE Dispatch(Main)
    <3>1. /\ At(Main, "dispatch") /\ Return(Main)
          /\ UNCHANGED <<engine, self, interns, registry, argtypes>>
      BY <2>5, Dispatched
    <3>2. pc'[Main] = "idle" /\ frame'[Main].events = {}
      BY <3>1, ReturnWent
    <3>3. \A d \in returned' : d.row \in engine.evaluated
      BY <2>5, Dispatched DEF Once, Held
    <3>4. ASSUME self.mode = "INCREMENTAL"
          PROVE  /\ \A c, d \in returned' : c.row = d.row => c = d
                 /\ \A r \in engine.evaluated : \E d \in returned' : d.row = r
      <4>1. Kind(Main) = "step" /\ self.deltaCb # NoId
        BY <3>1, <3>4 DEF Modes, Registering, Installed, Evaluating, OnPath, OnItsWay, At
      <4>2. \A r \in engine.evaluated : Delivered(r) <=> r \notin frame[Main].events
        BY <3>1, <3>4 DEF Once, Underway, At
      <4>3. \A c, d \in returned' : c.row = d.row => c = d
        BY <2>5, <3>4, <4>2, Dispatched DEF Once, Held, Delivered
      <4>4. \A r \in engine.evaluated : \E d \in returned' : d.row = r
        BY <2>5, <4>1, <4>2, Dispatched DEF Delivered
      <4> QED
        BY <4>3, <4>4
    <3> QED
      BY <3>1, <3>2, <3>3, <3>4 DEF Once, Delivered, Underway, At
  <2> QED
    BY <1>7, <2>1, <2>2, <2>3, <2>4, <2>5 DEF Step
<1>8. CASE Snapshot(Main)
  <2>1. CASE SnapshotEnter(Main)
    BY <2>1 DEF SnapshotEnter
  <2>2. CASE SnapshotReturn(Main)
    BY <2>2, SnapshotReturned DEF Keeps, EvaluatesNow
  <2> QED
    BY <1>8, <2>1, <2>2 DEF Snapshot
<1>9. CASE MakeCompound(Main)
  <2>1. CASE CaptureHandle(Main)
    BY <2>1 DEF CaptureHandle
  <2>2. CASE MakeEnter(Main)
    BY <2>2 DEF MakeEnter
  <2>3. CASE MakeReturn(Main)
    BY <2>3 DEF MakeReturn
  <2>4. CASE MakeAppend(Main)
    BY <2>4 DEF MakeAppend
  <2> QED
    BY <1>9, <2>1, <2>2, <2>3, <2>4 DEF MakeCompound
<1>10. CASE PreviewInlineFacts(Main)
  BY <1>10
  DEF PreviewInlineFacts, Preview, AfterPreview, FactsEnter, EnterProgram, FactsReturn,
      FactsLookup
<1>11. CASE Close(Main)
  <2>1. CASE CloseTest(Main)
    BY <2>1 DEF CloseTest
  <2>2. CASE CloseLock(Main)
    BY <2>2 DEF CloseLock
  <2>3. CASE CloseCb(Main)
    BY <2>3 DEF CloseCb
  <2>4. CASE CloseCbReturn(Main)
    BY <2>4 DEF CloseCbReturn
  <2>5. CASE CloseDrop(Main)
    BY <2>5 DEF CloseDrop
  <2>6. CASE CloseNull(Main)
    BY <2>6 DEF CloseNull
  <2>7. CASE CloseHandle(Main)
    BY <2>7 DEF CloseHandle
  <2>8. CASE CloseReturn(Main)
    BY <2>8 DEF CloseReturn
  <2>9. CASE CloseFinish(Main)
    BY <2>9 DEF CloseFinish
  <2> QED
    BY <1>11, <2>1, <2>2, <2>3, <2>4, <2>5, <2>6, <2>7, <2>8, <2>9 DEF Close
<1> QED
  BY <1>1, <1>2, <1>3, <1>4, <1>5, <1>6, <1>7, <1>8, <1>9, <1>10, <1>11 DEF Run

(* Whoever takes a step, the invariants of the one caller are kept. *)
LEMMA OneCallerKeeps ==
  ASSUME SharedOK, LocalsOK, Paths, Beside, OneCaller, SoloInv, KnownUnless, OnceUnless, [Next]_vars
  PROVE  SoloInv' /\ KnownUnless' /\ OnceUnless'
<1>1. Main \in Threads /\ OnPath(Main)
  BY MainCalls DEF Paths
<1>2. CASE Begin(Main) \/ Run(Main)
  <2>1. SoloInv'
    BY <1>1, <1>2, AliveByMain, ArgtypesInvByMain, BuffersByMain, HeldByMain, FreshByMain,
       ModesByMain DEF SoloInv
  <2>2. KnownUnless'
    BY <1>1, <1>2, KnownByMain DEF SoloInv, KnownUnless
  <2>3. OnceUnless'
    BY <1>1, <1>2, InstalledByMain, OnceByMain DEF SoloInv, OnceUnless
  <2> QED
    BY <2>1, <2>2, <2>3
<1>3. ASSUME UNCHANGED <<engine, self, registry, argtypes, returned>>, Stays(Main),
             interns.known \subseteq interns'.known
      PROVE  SoloInv' /\ KnownUnless' /\ OnceUnless'
  <2> USE <1>3 DEF Stays, At, Kind
  <2>1. Alive' /\ ArgtypesInv' /\ Held' /\ Modes'
    BY DEF SoloInv, Alive, ArgtypesInv, Held, Modes
  <2>2. Buffers'
    BY DEF SoloInv, Buffers, Inserted, Accepted, Row, Me
  <2>3. Fresh'
    BY DEF SoloInv, Fresh, ToInsert
  <2>4. KnownUnless'
    BY DEF KnownUnless, Known, StringKnown, Unsent, Accepted, Mirroring, Row, Me
  <2>5. OnceUnless'
    BY DEF OnceUnless, Installed, Once, Delivered, Underway
  <2> QED
    BY <2>1, <2>2, <2>3, <2>4, <2>5 DEF SoloInv
<1>4. ASSUME NEW t \in Threads \ {Main}, Begin(t) \/ Run(t)
      PROVE  SoloInv' /\ KnownUnless' /\ OnceUnless'
  BY <1>3, <1>4, OtherStep
<1>5. CASE UNCHANGED vars
  BY <1>3, <1>5 DEF vars, shared, Stays
<1> QED
  BY <1>2, <1>4, <1>5 DEF Next, Finished

(* A session just opened: nothing inserted, nothing evaluated. *)
LEMMA OneCallerInit ==
  ASSUME OneCaller, Init
  PROVE  SoloInv /\ KnownUnless /\ OnceUnless
<1>1. /\ Main \in Threads /\ pc[Main] = "idle" /\ frame[Main].events = {}
      /\ frame[Main].missed = {} /\ ~frame[Main].ok
  BY MainCalls DEF Init, Blank
<1>2. Alive /\ ArgtypesInv /\ Buffers /\ Held /\ Fresh /\ Modes
  BY <1>1 DEF Init, Alive, ArgtypesInv, Buffers, Held, Fresh, ToInsert, BeforeInsert, Modes, At,
              Closing, Checked, Evaluating, Registering
<1>3. Known
  BY <1>1 DEF Init, Known, Mirroring
<1>4. Installed /\ Once
  BY <1>1 DEF Init, Installed, Once, Evaluating, Underway, At
<1> QED
  BY <1>2, <1>3, <1>4 DEF SoloInv, KnownUnless, OnceUnless

LEMMA OneCallerHolds ==
  ASSUME OneCaller
  PROVE  Spec => [](SoloInv /\ KnownUnless /\ OnceUnless)
<1>1. Init => SoloInv /\ KnownUnless /\ OnceUnless
  BY OneCallerInit
<1>2. (SharedOK /\ LocalsOK) /\ Paths /\ Beside /\ (SoloInv /\ KnownUnless /\ OnceUnless)
      /\ [Next]_vars => (SoloInv /\ KnownUnless /\ OnceUnless)'
  BY OneCallerKeeps
<1> QED
  BY <1>1, <1>2, Typed, PathsHold, BesideHolds, PTL DEF Spec

-----------------------------------------------------------------------------
(* session.py on _pending_easy_inputs: no evaluation reads a buffer Python *)
(* has let go of, as long as one thread makes the calls.                   *)
THEOREM BuffersOutlive == ASSUME OneCaller PROVE Spec => []StagedBuffersAlive
<1>1. (SharedOK /\ LocalsOK) /\ Paths /\ Beside /\ SoloInv => StagedBuffersAlive
  <2> SUFFICES ASSUME LocalsOK, Paths, Beside, SoloInv, NEW t \in Threads,
                      pc[t] \in {"in_step", "in_snapshot"}, NEW r \in engine.staged
               PROVE  r \in self.pending
    BY DEF StagedBuffersAlive
  <2>1. t = Main
    BY OthersIntern
  <2> QED
    BY <2>1 DEF SoloInv, Buffers, Inserted, Accepted, Closing, At
<1> QED
  BY <1>1, Typed, PathsHold, BesideHolds, OneCallerHolds, PTL

(* Compound: from the moment the engine is freed no handle it issued can   *)
(* be read, also while close() has still to set _closed.                   *)
THEOREM CompoundsInvalid == ASSUME OneCaller PROVE Spec => []CompoundsDieWithEngine
<1>1. SoloInv => CompoundsDieWithEngine
  BY DEF SoloInv, Alive, CompoundsDieWithEngine, Readable
<1> QED
  BY <1>1, OneCallerHolds, PTL

(* _sym_call's finally: whatever the engine answers, the entry point is    *)
(* declared as before when the call is over.                               *)
THEOREM ArgtypesPutBack == ASSUME OneCaller PROVE Spec => []ArgtypesRestored
<1>1. (SharedOK /\ LocalsOK) /\ SoloInv => ArgtypesRestored
  BY MainCalls DEF SharedOK, SoloInv, ArgtypesInv, ArgtypesRestored, At
<1> QED
  BY <1>1, Typed, OneCallerHolds, PTL

(* step(): no row is returned with a raw id for a string of this session,  *)
(* if the engine accepts the strings it is given.                          *)
THEOREM StringsFound ==
  ASSUME OneCaller, "intern" \notin MayFail PROVE Spec => []NoSymbolMissed
<1>1. KnownUnless => NoSymbolMissed
  BY DEF KnownUnless, Known, NoSymbolMissed
<1> QED
  BY <1>1, OneCallerHolds, PTL

(* Every row step() makes the engine evaluate is returned exactly once, or *)
(* still queued or drained, if the engine accepts the callbacks.           *)
THEOREM ExactlyOnce ==
  ASSUME OneCaller, "set_delta_cb" \notin MayFail PROVE Spec => []DeltasExactlyOnce
<1>1. (SharedOK /\ LocalsOK) /\ Paths /\ Beside /\ SoloInv /\ OnceUnless => DeltasExactlyOnce
  <2> SUFFICES ASSUME SharedOK, LocalsOK, Paths, Beside, SoloInv, Installed, Once,
                      self.mode = "INCREMENTAL", NEW r \in engine.evaluated
               PROVE  \/ Deliveries(r) = {} /\ InTransit(r)
                      \/ Cardinality(Deliveries(r)) = 1 /\ ~InTransit(r)
    BY DEF DeltasExactlyOnce, OnceUnless
  <2>1. Delivered(r) <=> ~Underway(r)
    BY DEF Once
  <2>2. InTransit(r) <=> Underway(r)
    <3>1. Main \in Threads /\ OnPath(Main)
      BY MainCalls DEF Paths
    <3>2. \A t \in Threads : r \in frame[t].events => t = Main
      BY OthersIntern
    <3>3. At(Main, "drain") => self.deltaCb # NoId
      BY <3>1 DEF Installed, Evaluating, OnPath, OnItsWay, At
    <3>4. self.deltaCb # NoId /\ r \in registry.queue[self.deltaCb] => Underway(r)
      BY DEF Installed, SharedOK, SelfType, Underway, At
    <3> QED
      BY <3>1, <3>2, <3>3, <3>4 DEF InTransit, Underway
  <2>3. CASE Underway(r)
    BY <2>1, <2>2, <2>3 DEF Delivered, Deliveries
  <2>4. CASE ~Underway(r)
    <3>1. PICK d \in returned : d.row = r
      BY <2>1, <2>4 DEF Delivered
    <3>2. Deliveries(r) = {d}
      BY <3>1 DEF Deliveries, Once
    <3> QED
      BY <2>2, <2>4, <3>2, FS_Singleton
  <2> QED
    BY <2>3, <2>4
<1> QED
  BY <1>1, Typed, PathsHold, BesideHolds, OneCallerHolds, PTL

-----------------------------------------------------------------------------
(* close() under the lock, for threads that never clear the delta callback *)
(* (that drops _delta_cb outside the lock, under the feet of a close()).   *)
NoneClears == \A t \in Threads : "clear_delta_callback" \notin Calls[t]

(* NULL, closed and the end of close() all mean that the engine is freed;  *)
(* and _delta_cb is there for as long as close() works on it.              *)
FreedWhenClosed == (self.closed \/ ~self.handle) => engine.state = "freed"
CloseProgress(t) ==
  /\ Kind(t) # "clear_delta_callback"
  /\ At(t, "close_finish") => engine.state = "freed"
  /\ pc[t] \in {"in_close_cb", "close_drop", "close_null"} => self.deltaCb # NoId
  /\ At(t, "idle") /\ Kind(t) = "close" => engine.state = "freed"
CloseInv == FreedWhenClosed /\ \A t \in Threads : CloseProgress(t)

(* The engine stays freed, and _delta_cb goes in close() only. *)
Lasting(t) ==
  /\ engine.state = "freed" => engine'.state = "freed"
  /\ self.deltaCb # NoId => self'.deltaCb # NoId \/ At(t, "close_null")

(* A step of a thread keeps what close() relies on. *)
LEMMA StepCloses ==
  ASSUME SharedOK, LocalsOK, NEW t \in Threads, OnPath(t), FreedWhenClosed,
         CloseProgress(t), NoneClears, Begin(t) \/ Run(t)
  PROVE  FreedWhenClosed' /\ CloseProgress(t)' /\ Lasting(t)
<1> USE DEF LocalsOK, SharedOK, EngineType, SelfType, Goto, Jump, Return, Blank, shared,
            EnterEngine, FreedWhenClosed, CloseProgress, Lasting, At, OnPath, OnItsWay, Kind,
            IntRow, StrRow, SymRow, Incremental
<1>1. CASE Begin(t)
  <2>1. /\ UNCHANGED shared /\ frame'[t].kind \in Calls[t]
        /\ pc'[t] \in {"iud", "intern_lock", "mode", "intern_begin", "capture", "close_test",
                        "preview"}
    BY <1>1, Begun
  <2>2. frame'[t].kind # "clear_delta_callback"
    BY <2>1 DEF NoneClears
  <2> QED
    BY <2>1, <2>2
<1>2. CASE Mode(t)
  BY <1>2 DEF Mode, TestMode, AfterMode, SetMode
<1>3. CASE Intern(t)
  BY <1>3 DEF Intern, InternBegin, InternLookup, InternDone, InternReturn
<1>4. CASE Iud(t)
  BY <1>4 DEF Iud, IudEnter, IudReturn, AppendPending
<1>5. CASE SymCall(t)
  <2>1. CASE SymSavePrev(t)
    BY <2>1 DEF SymSavePrev
  <2>2. CASE SymSetArgtypes(t)
    BY <2>2 DEF SymSetArgtypes
  <2>3. CASE SymEnter(t)
    BY <2>3 DEF SymEnter
  <2>4. CASE SymReturn(t)
    BY <2>4 DEF SymReturn
  <2>5. CASE SymRestore(t)
    BY <2>5 DEF SymRestore
  <2> QED
    BY <1>5, <2>1, <2>2, <2>3, <2>4, <2>5 DEF SymCall
<1>6. CASE SetDeltaCallback(t)
  <2>1. CASE CbTest(t) \/ CbSetUserFn(t) \/ SetCbReturn(t) \/ ClearTest(t) \/ ClearEnter(t)
             \/ ClearReturn(t) \/ ClearDrop(t) \/ ClearNull(t)
    BY <2>1
    DEF CbTest, CbSetUserFn, SetCbReturn, ClearTest, ClearEnter, ClearReturn, ClearDrop, ClearNull
  <2>2. CASE CbCreate(t)
    BY <2>2, MeTyped, ConstantsAssumption DEF CbCreate
  <2>3. CASE SetCbEnter(t)
    BY <2>3, SetCbEntered DEF Keeps
  <2> QED
    BY <1>6, <2>1, <2>2, <2>3 DEF SetDeltaCallback
<1>7. CASE Step(t)
  <2>1. CASE StepEnter(t) \/ DrainClear(t) \/ ClearPending(t) \/ Decode(t) \/ SchemaEnter(t)
             \/ SchemaReturn(t)
    BY <2>1
    DEF StepEnter, DrainClear, ClearPending, Decode, SchemaEnter, EnterProgram, SchemaReturn
  <2>2. CASE StepReturn(t)
    BY <2>2, StepReturned DEF EvaluatesNow
  <2>3. CASE DrainCopy(t)
    BY <2>3, DrainCopied DEF Keeps
  <2>4. CASE LookupRows(t)
    BY <2>4, LookedUp DEF Keeps
  <2>5. CASE Dispatch(t)
    BY <2>5, Dispatched
  <2> QED
    BY <1>7, <2>1, <2>2, <2>3, <2>4, <2>5 DEF Step
<1>8. CASE Snapshot(t)
  <2>1. CASE SnapshotEnter(t)
    BY <2>1 DEF SnapshotEnter
  <2>2. CASE SnapshotReturn(t)
    BY <2>2, SnapshotReturned DEF Keeps, EvaluatesNow
  <2> QED
    BY <1>8, <2>1, <2>2 DEF Snapshot
<1>9. CASE MakeCompound(t)
  <2>1. CASE CaptureHandle(t)
    BY <2>1 DEF CaptureHandle
  <2>2. CASE MakeEnter(t)
    BY <2>2 DEF MakeEnter
  <2>3. CASE MakeReturn(t)
    BY <2>3 DEF MakeReturn
  <2>4. CASE MakeAppend(t)
    BY <2>4 DEF MakeAppend
  <2> QED
    BY <1>9, <2>1, <2>2, <2>3, <2>4 DEF MakeCompound
<1>10. CASE PreviewInlineFacts(t)
  BY <1>10
  DEF PreviewInlineFacts, Preview, AfterPreview, FactsEnter, EnterProgram, FactsReturn,
      FactsLookup, Dedupe
<1>11. CASE Close(t)
  <2>1. CASE CloseTest(t)
    BY <2>1 DEF CloseTest
  <2>2. CASE CloseLock(t)
    BY <2>2 DEF CloseLock
  <2>3. CASE CloseCb(t)
    BY <2>3 DEF CloseCb
  <2>4. CASE CloseCbReturn(t)
    BY <2>4 DEF CloseCbReturn
  <2>5. CASE CloseDrop(t)
    BY <2>5 DEF CloseDrop
  <2>6. CASE CloseNull(t)
    BY <2>6 DEF CloseNull
  <2>7. CASE CloseHandle(t)
    BY <2>7 DEF CloseHandle
  <2>8. CASE CloseReturn(t)
    BY <2>8 DEF CloseReturn
  <2>9. CASE CloseFinish(t)
    BY <2>9 DEF CloseFinish
  <2> QED
    BY <1>11, <2>1, <2>2, <2>3, <2>4, <2>5, <2>6, <2>7, <2>8, <2>9 DEF Close
<1> QED
  BY <1>1, <1>2, <1>3, <1>4, <1>5, <1>6, <1>7, <1>8, <1>9, <1>10, <1>11 DEF Run

LEMMA NextCloses ==
  ASSUME SharedOK, LocalsOK, Paths, LockedInv, CloseInv, NoneClears, [Next]_vars
  PROVE  CloseInv'
<1>1. ASSUME NEW t \in Threads, Begin(t) \/ Run(t)
      PROVE  CloseInv'
  <2>1. FreedWhenClosed' /\ CloseProgress(t)' /\ Lasting(t)
    BY <1>1, StepCloses DEF Paths, CloseInv
  <2>2. ASSUME NEW u \in Threads \ {t} PROVE CloseProgress(u)'
    <3>1. Stays(u)
      BY <1>1, OthersStay
    <3>2. ~(At(t, "close_null") /\ pc[u] \in {"in_close_cb", "close_drop", "close_null"})
      BY DEF LockedInv, OwnsLock, Guarded, At
    <3> QED
      BY <2>1, <3>1, <3>2 DEF CloseInv, CloseProgress, Stays, Lasting, At, Kind
  <2> QED
    BY <2>1, <2>2 DEF CloseInv
<1>2. CASE UNCHANGED vars
  BY <1>2 DEF vars, shared, CloseInv, FreedWhenClosed, CloseProgress, At, Kind
<1> QED
  BY <1>1, <1>2 DEF Next, Finished

(* However a close() ends, the engine has been freed: for calls that enter *)
(* the engine under the lock, when none of them clears the callback.       *)
THEOREM CloseFreesEngine ==
  ASSUME LockedOnly, NoneClears PROVE Spec => []CloseFrees
<1>1. Init => CloseInv
  <2> SUFFICES ASSUME Init PROVE CloseInv
    OBVIOUS
  <2>1. /\ \A t \in Threads : pc[t] = "idle" /\ Kind(t) = "none"
        /\ self.handle /\ ~self.closed
    BY DEF Init, Blank, Kind
  <2> QED
    BY <2>1 DEF CloseInv, FreedWhenClosed, CloseProgress, At
<1>2. (SharedOK /\ LocalsOK) /\ Paths /\ LockedInv /\ CloseInv /\ [Next]_vars => CloseInv'
  BY NextCloses
<1>3. CloseInv => CloseFrees
  BY DEF CloseInv, CloseProgress, CloseFrees
<1> QED
  BY <1>1, <1>2, <1>3, Typed, PathsHold, LockDiscipline, PTL DEF Spec

================================================================================
