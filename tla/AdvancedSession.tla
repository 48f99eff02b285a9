---------------------------- MODULE AdvancedSession ----------------------------
(***************************************************************************)
(* pyrewire.Session shared by several Python threads: the second class of  *)
(* session.py, with callbacks.py.  It differs from EasySession in what it  *)
(* does not do under no lock (it never interns, decodes or retains), in    *)
(* its two kinds of delta callback, and in _clear_delta_cb, which close()  *)
(* calls while it holds the RLock _clear_delta_cb takes once more.         *)
(*                                                                         *)
(* Steps are cut as in EasySession: at lock operations, at entries into    *)
(* and returns from libwirelog, and between two reads of one attribute.    *)
(*                                                                         *)
(* The engine is external: it keeps one delta callback, typed or not, and  *)
(* on a program that carries a FLOAT refuses to install the untyped one,   *)
(* an untyped insert and an untyped snapshot.  It may refuse others.       *)
(***************************************************************************)
EXTENDS Integers, FiniteSets

CONSTANTS
  Threads,       \* Python threads sharing the session
  Calls,         \* Calls[t]: the kinds of public call thread t may make
  MaxCalls,      \* bound: public calls per thread
  MayFail,       \* engine entry points that may return an error code
  Locking,       \* the constructor's lock= argument
  FloatProgram,  \* the program's schema carries a FLOAT
  NoThread, NoId

Steps == {"step", "step_typed"}
Settings == {"set_delta_callback", "set_typed_delta_callback"}
Incremental == Steps \cup Settings \cup {"insert", "insert_typed", "clear_delta_callback"}
Kinds == Incremental \cup {"snapshot", "snapshot_typed", "make_compound", "close"}
EntryPoints == {"iud", "set_cb", "step", "snapshot", "make_compound"}
Ids == Threads \X (1..MaxCalls)              \* one per public call

ASSUME ConstantsAssumption ==
  /\ Calls \in [Threads -> SUBSET Kinds]
  /\ MaxCalls \in Nat
  /\ MayFail \subseteq EntryPoints
  /\ Locking \in BOOLEAN /\ FloatProgram \in BOOLEAN
  /\ NoThread \notin Threads /\ NoId \notin Ids

VARIABLES
  engine,      \* external: the C session
  self,        \* the Session object's attributes
  lock,        \* _lock: its owner, and how many times it has taken it
  registry,    \* callbacks._REGISTRY: slots not popped, and each slot's queue
  returned,    \* history: rows handed to a caller, and to which call
  pc, frame    \* where each thread is, and the locals of the call it executes

shared == <<engine, self, lock, registry, returned>>
vars == <<shared, pc, frame>>

(* A CallbackHandle, or no handle at all *)
Handles == [token : Ids, kind : {"delta", "typed_delta"}]
NoHandle == [token |-> NoId, kind |-> "none"]

Labels ==
  {"idle", "mode", "set_mode", "build", "iud", "in_iud", "cb_test", "cb_kind", "cb_other",
   "cb_create", "cb_user_fn", "set_cb", "in_set_cb", "clear", "clear_cb", "in_clear_cb",
   "clear_drop", "clear_null", "step", "in_step", "drain", "drain_clear", "snapshot",
   "in_snapshot", "capture", "make", "in_make", "make_append", "close_test", "close_lock",
   "close_cb", "close_except", "close_except_drop", "close_handle", "in_close", "close_finish"}

EngineType ==
  [state : {"open", "freed"}, installed : Handles \cup {NoHandle},
   staged : SUBSET Ids, evaluated : SUBSET Ids]       \* a row is the insert that gave it

SelfType ==
  [handle : BOOLEAN, closed : BOOLEAN, mode : {"UNSET", "INCREMENTAL", "QUERY"},
   deltaCb : Handles \cup {NoHandle},
   made : SUBSET Ids, compounds : SUBSET Ids, invalid : SUBSET Ids]

FrameType ==
  [kind : Kinds \cup {"none"}, n : 0..MaxCalls, cb : Handles \cup {NoHandle},
   events : SUBSET Ids, ok : BOOLEAN]

Blank(kind, n) == [kind |-> kind, n |-> n, cb |-> NoHandle, events |-> {}, ok |-> FALSE]

TypeOK ==
  /\ engine \in EngineType
  /\ self \in SelfType
  /\ lock \in [owner : Threads \cup {NoThread}, depth : 0..2]
  /\ registry \in [slots : SUBSET Ids, queue : [Ids -> SUBSET Ids]]
  /\ returned \subseteq [row : Ids, to : Ids]
  /\ pc \in [Threads -> Labels]
  /\ frame \in [Threads -> FrameType]

Init ==
  /\ engine = [state |-> "open", installed |-> NoHandle, staged |-> {}, evaluated |-> {}]
  /\ self = [handle |-> TRUE, closed |-> FALSE, mode |-> "UNSET", deltaCb |-> NoHandle,
             made |-> {}, compounds |-> {}, invalid |-> {}]
  /\ lock = [owner |-> NoThread, depth |-> 0]
  /\ registry = [slots |-> {}, queue |-> [i \in Ids |-> {}]]
  /\ returned = {}
  /\ pc = [t \in Threads |-> "idle"]
  /\ frame = [t \in Threads |-> Blank("none", 0)]

-----------------------------------------------------------------------------
(* Every step ends in exactly one of Goto, Jump and Return. *)
At(t, label) == pc[t] = label
Jump(t, label, locals) == pc' = [pc EXCEPT ![t] = label] /\ frame' = [frame EXCEPT ![t] = locals]
Goto(t, label) == Jump(t, label, frame[t])
Return(t) == Jump(t, "idle", Blank(frame[t].kind, frame[t].n))

Kind(t) == frame[t].kind
Me(t) == <<t, frame[t].n>>                    \* the id of t's current call
Typed(t) == Kind(t) \in {"step_typed", "set_typed_delta_callback", "insert_typed", "snapshot_typed"}
WantedKind(t) == IF Typed(t) THEN "typed_delta" ELSE "delta"

(* MUTANTS: a plain Lock, not an RLock; an exit that gives the lock up    *)
(* whole, however often its owner has entered it.                         *)
LockFreePlain(t) == ~Locking \/ lock.owner = NoThread
(* `with self._serialize()`: the RLock lets its owner in again *)
LockFree(t) == ~Locking \/ lock.owner \in {NoThread, t}
Acquire(t) == lock' = IF Locking THEN [owner |-> t, depth |-> lock.depth + 1] ELSE lock
ReleaseWhole(t) == lock' = [owner |-> NoThread, depth |-> 0]
Release(t) ==
  lock' = IF lock.depth = 2 THEN [lock EXCEPT !.depth = 1] ELSE [owner |-> NoThread, depth |-> 0]

(* A FLOAT program refuses an untyped callback, and untyped rows of the     *)
(* relations that declare it.                                              *)
Outcomes(entry, t) ==
  IF FloatProgram /\ ~Typed(t) /\ entry \in {"set_cb", "snapshot"} THEN {FALSE}
  ELSE IF entry \in MayFail \/ (FloatProgram /\ ~Typed(t) /\ entry = "iud") THEN BOOLEAN
  ELSE {TRUE}

(* A thread makes its next public call. *)
Begin(t) ==
  /\ At(t, "idle") /\ frame[t].n < MaxCalls
  /\ \E kind \in Calls[t] :
       Jump(t, CASE kind = "make_compound" -> "capture" [] kind = "close" -> "close_test"
                 [] OTHER -> "mode",
            Blank(kind, frame[t].n + 1))
  /\ UNCHANGED shared

(* An entry point called under the lock with the handle read there: on a   *)
(* NULL handle the engine returns an error at once and the call raises.    *)
EnterEngine(t, from, to) ==
  /\ At(t, from) /\ LockFree(t)
  /\ IF self.handle THEN Goto(t, to) /\ Acquire(t) ELSE Return(t) /\ UNCHANGED lock
  /\ UNCHANGED <<engine, self, registry, returned>>

-----------------------------------------------------------------------------
(* MUTANT of WantedMode: the call's name, not its mode *)
WantedModeByName(t) == Kind(t)

(* _require_mode: tested, then committed, outside the lock *)
WantedMode(t) == IF Kind(t) \in {"snapshot", "snapshot_typed"} THEN "QUERY" ELSE "INCREMENTAL"

AfterMode(t) ==
  CASE Kind(t) \in {"insert", "insert_typed"} -> "build"
    [] Kind(t) = "clear_delta_callback" -> "clear"
    [] WantedMode(t) = "QUERY" -> "snapshot"
    [] OTHER -> "cb_test"

TestMode(t) ==
  /\ At(t, "mode")
  /\ \/ self.mode = "UNSET" /\ Goto(t, "set_mode")
     \/ self.mode = WantedMode(t) /\ Goto(t, AfterMode(t))
     \/ self.mode \notin {"UNSET", WantedMode(t)} /\ Return(t)      \* WirelogModeError
  /\ UNCHANGED shared

SetMode(t) ==
  /\ At(t, "set_mode") /\ Goto(t, AfterMode(t))
  /\ self' = [self EXCEPT !.mode = WantedMode(t)]
  /\ UNCHANGED <<engine, lock, registry, returned>>

-----------------------------------------------------------------------------
(* insert, remove, and their batch and typed forms.  The rows are built    *)
(* outside the lock; ragged rows, a value no lane takes or a relation with *)
(* no schema raise, and an empty batch returns: the mode stays committed.  *)
BuildRows(t) ==
  /\ At(t, "build") /\ (Goto(t, "iud") \/ Return(t))
  /\ UNCHANGED shared

IudEnter(t) == EnterEngine(t, "iud", "in_iud")

IudReturn(t) ==
  /\ At(t, "in_iud") /\ Release(t) /\ Return(t)
  /\ \E ok \in Outcomes("iud", t) :
       engine' = IF ok THEN [engine EXCEPT !.staged = @ \cup {Me(t)}] ELSE engine
  /\ UNCHANGED <<self, registry, returned>>

-----------------------------------------------------------------------------
(* set_*delta_callback and the lazy registration of step and step_typed:   *)
(* `self._delta_cb is None or self._delta_cb.kind != kind`, three reads.   *)
CbTest(t) ==
  /\ At(t, "cb_test")
  /\ Goto(t, IF self.deltaCb = NoHandle THEN "cb_other" ELSE "cb_kind")
  /\ UNCHANGED shared

(* MUTANT of CbKind: any handle will do *)
CbKindIgnored(t) ==
  /\ At(t, "cb_kind") /\ Goto(t, IF Kind(t) \in Steps THEN "step" ELSE "cb_user_fn")
  /\ UNCHANGED shared

(* `.kind` of None raises. *)
CbKind(t) ==
  /\ At(t, "cb_kind")
  /\ IF self.deltaCb = NoHandle THEN Return(t)
     ELSE Goto(t, IF self.deltaCb.kind # WantedKind(t) THEN "cb_other"
                  ELSE IF Kind(t) \in Steps THEN "step" ELSE "cb_user_fn")
  /\ UNCHANGED shared

(* A handle of the other kind is cleared before a new one is made. *)
CbOther(t) ==
  /\ At(t, "cb_other")
  /\ Goto(t, IF self.deltaCb = NoHandle THEN "cb_create" ELSE "clear")
  /\ UNCHANGED shared

CbCreate(t) ==
  /\ At(t, "cb_create") /\ Goto(t, IF Kind(t) \in Steps THEN "set_cb" ELSE "cb_user_fn")
  /\ self' = [self EXCEPT !.deltaCb = [token |-> Me(t), kind |-> WantedKind(t)]]
  /\ registry' = [registry EXCEPT !.slots = @ \cup {Me(t)}]
  /\ UNCHANGED <<engine, lock, returned>>

CbSetUserFn(t) ==
  /\ At(t, "cb_user_fn")
  /\ IF self.deltaCb = NoHandle THEN Return(t) ELSE Goto(t, "set_cb")
  /\ UNCHANGED shared

(* Raises on no handle, on one of the other kind (ctypes), and in C on a   *)
(* NULL session.                                                           *)
SetCbEnter(t) ==
  /\ At(t, "set_cb") /\ LockFree(t)
  /\ IF self.handle /\ self.deltaCb.kind = WantedKind(t)
       THEN Jump(t, "in_set_cb", [frame[t] EXCEPT !.cb = self.deltaCb]) /\ Acquire(t)
       ELSE Return(t) /\ UNCHANGED lock
  /\ UNCHANGED <<engine, self, registry, returned>>

SetCbReturn(t) ==
  /\ At(t, "in_set_cb") /\ Release(t)
  /\ \E ok \in Outcomes("set_cb", t) :
       /\ IF ok /\ Kind(t) \in Steps THEN Goto(t, "step") ELSE Return(t)
       /\ engine' = IF ok THEN [engine EXCEPT !.installed = frame[t].cb] ELSE engine
  /\ UNCHANGED <<self, registry, returned>>

-----------------------------------------------------------------------------
(* _clear_delta_cb, called by set_*delta_callback(None), by a call that    *)
(* needs a handle of the other kind, and by close under the lock.  It      *)
(* captures the handle; its finally pops that slot and nulls _delta_cb.    *)
AfterClear(t, ok) ==
  CASE Kind(t) = "close" -> IF ok THEN "close_handle" ELSE "close_except"
    [] Kind(t) \in Steps \cup Settings /\ ok -> "cb_create"
    [] OTHER -> "idle"

Clear(t) ==
  /\ At(t, "clear")
  /\ IF self.deltaCb # NoHandle THEN Jump(t, "clear_cb", [frame[t] EXCEPT !.cb = self.deltaCb])
     ELSE IF AfterClear(t, TRUE) = "idle" THEN Return(t) ELSE Goto(t, AfterClear(t, TRUE))
  /\ UNCHANGED shared

ClearEnter(t) ==
  /\ At(t, "clear_cb") /\ LockFree(t)
  /\ IF self.handle THEN Goto(t, "in_clear_cb") /\ Acquire(t)
     ELSE Jump(t, "clear_drop", [frame[t] EXCEPT !.ok = FALSE]) /\ UNCHANGED lock
  /\ UNCHANGED <<engine, self, registry, returned>>

(* MUTANT of ClearReturn: the entry point of the other kind is called, on an *)
(* engine whose setters clear their own slot only.                          *)
ClearReturnOther(t) ==
  /\ At(t, "in_clear_cb") /\ Release(t)
  /\ Jump(t, "clear_drop", [frame[t] EXCEPT !.ok = TRUE])
  /\ UNCHANGED <<engine, self, registry, returned>>

(* A NULL callback is never refused. *)
ClearReturn(t) ==
  /\ At(t, "in_clear_cb") /\ Release(t)
  /\ Jump(t, "clear_drop", [frame[t] EXCEPT !.ok = TRUE])
  /\ engine' = [engine EXCEPT !.installed = NoHandle]
  /\ UNCHANGED <<self, registry, returned>>

ClearDrop(t) ==
  /\ At(t, "clear_drop") /\ Goto(t, "clear_null")
  /\ registry' = [registry EXCEPT !.slots = @ \ {frame[t].cb.token}]
  /\ UNCHANGED <<engine, self, lock, returned>>

ClearNull(t) ==
  /\ At(t, "clear_null")
  /\ LET next == AfterClear(t, frame[t].ok) IN IF next = "idle" THEN Return(t) ELSE Goto(t, next)
  /\ self' = [self EXCEPT !.deltaCb = NoHandle]
  /\ UNCHANGED <<engine, lock, registry, returned>>

-----------------------------------------------------------------------------
(* MUTANT of StepEnter: without _serialize() *)
StepEnterUnlocked(t) ==
  /\ At(t, "step")
  /\ IF self.handle THEN Goto(t, "in_step") ELSE Return(t)
  /\ UNCHANGED shared

(* step and step_typed *)
StepEnter(t) == EnterEngine(t, "step", "in_step")

(* A CallbackHandle nothing refers to is collected and its __del__ pops    *)
(* its slot; besides _delta_cb, a thread inside drain or _clear_delta_cb   *)
(* holds one.  The trampoline drops an event whose token has no slot.      *)
Registered(token) ==
  /\ token \in registry.slots
  /\ \/ token = self.deltaCb.token
     \/ \E t \in Threads : /\ pc[t] \in {"drain_clear", "clear_cb", "in_clear_cb", "clear_drop"}
                           /\ frame[t].cb.token = token

Deliver(events) ==
  IF Registered(engine.installed.token)
    THEN [registry EXCEPT !.queue[engine.installed.token] = @ \cup events] ELSE registry

Evaluated == [engine EXCEPT !.evaluated = @ \cup engine.staged, !.staged = {}]

StepReturn(t) ==
  /\ At(t, "in_step") /\ Release(t)
  /\ \E ok \in Outcomes("step", t) :
       IF ok THEN Goto(t, "drain") /\ registry' = Deliver(engine.staged) /\ engine' = Evaluated
             ELSE Return(t) /\ UNCHANGED <<registry, engine>>
  /\ UNCHANGED <<self, returned>>

DrainCopy(t) ==
  /\ At(t, "drain")
  /\ IF self.deltaCb = NoHandle THEN Return(t)
     ELSE Jump(t, "drain_clear", [frame[t] EXCEPT !.cb = self.deltaCb,
                                     !.events = registry.queue[self.deltaCb.token]])
  /\ UNCHANGED shared

(* MUTANT of DrainClear: the queue is not cleared *)
DrainKeeps(t) ==
  /\ At(t, "drain_clear") /\ Return(t)
  /\ returned' = returned \cup {[row |-> r, to |-> Me(t)] : r \in frame[t].events}
  /\ UNCHANGED <<engine, self, lock, registry>>

(* The queue is cleared, and the copied events are returned as they are. *)
DrainClear(t) ==
  /\ At(t, "drain_clear") /\ Return(t)
  /\ registry' = [registry EXCEPT !.queue[frame[t].cb.token] = {}]
  /\ returned' = returned \cup {[row |-> r, to |-> Me(t)] : r \in frame[t].events}
  /\ UNCHANGED <<engine, self, lock>>

-----------------------------------------------------------------------------
(* snapshot, snapshot_arrays, snapshot_typed: a one-shot handle of its own *)
SnapshotEnter(t) == EnterEngine(t, "snapshot", "in_snapshot")

SnapshotReturn(t) ==
  /\ At(t, "in_snapshot") /\ Release(t) /\ Return(t)
  /\ \E ok \in Outcomes("snapshot", t) :
       /\ engine' = IF ok THEN Evaluated ELSE engine
       /\ returned' = IF ~ok THEN returned
                      ELSE returned \cup {[row |-> r, to |-> Me(t)] : r \in Evaluated.evaluated}
  /\ UNCHANGED <<self, registry>>

-----------------------------------------------------------------------------
(* make_compound: the handle is read before the lock is taken *)
CaptureHandle(t) ==
  /\ At(t, "capture") /\ Jump(t, "make", [frame[t] EXCEPT !.ok = self.handle])
  /\ UNCHANGED shared

MakeEnter(t) ==
  /\ At(t, "make") /\ LockFree(t)
  /\ IF frame[t].ok THEN Goto(t, "in_make") /\ Acquire(t) ELSE Return(t) /\ UNCHANGED lock
  /\ UNCHANGED <<engine, self, registry, returned>>

MakeReturn(t) ==
  /\ At(t, "in_make") /\ Release(t)
  /\ \E ok \in Outcomes("make_compound", t) : IF ok THEN Goto(t, "make_append") ELSE Return(t)
  /\ UNCHANGED <<engine, self, registry, returned>>

MakeAppend(t) ==
  /\ At(t, "make_append") /\ Return(t)
  /\ self' = [self EXCEPT !.made = @ \cup {Me(t)}, !.compounds = @ \cup {Me(t)}]
  /\ UNCHANGED <<engine, lock, registry, returned>>

-----------------------------------------------------------------------------
(* close: tested outside the lock, everything else under it *)
CloseTest(t) ==
  /\ At(t, "close_test")
  /\ IF self.closed THEN Return(t) ELSE Goto(t, "close_lock")
  /\ UNCHANGED shared

(* MUTANT of CloseLock: the session says it is closed before it has freed *)
(* anything.                                                               *)
CloseMarksFirst(t) ==
  /\ At(t, "close_lock") /\ LockFree(t) /\ Acquire(t) /\ Goto(t, "close_cb")
  /\ self' = [self EXCEPT !.invalid = @ \cup self.compounds, !.compounds = {}, !.closed = TRUE]
  /\ UNCHANGED <<engine, registry, returned>>

CloseLock(t) ==
  /\ At(t, "close_lock") /\ LockFree(t) /\ Acquire(t) /\ Goto(t, "close_cb")
  /\ self' = [self EXCEPT !.invalid = @ \cup self.compounds, !.compounds = {}]
  /\ UNCHANGED <<engine, registry, returned>>

CloseCb(t) ==
  /\ At(t, "close_cb")
  /\ Goto(t, IF self.deltaCb = NoHandle THEN "close_handle" ELSE "clear")
  /\ UNCHANGED shared

(* _clear_delta_cb raised: a handle another thread has put there since is  *)
(* closed too, an AttributeError if it is gone again.                      *)
CloseExcept(t) ==
  /\ At(t, "close_except")
  /\ Goto(t, IF self.deltaCb = NoHandle THEN "close_handle" ELSE "close_except_drop")
  /\ UNCHANGED shared

CloseExceptDrop(t) ==
  /\ At(t, "close_except_drop")
  /\ IF self.deltaCb = NoHandle THEN Return(t) /\ Release(t) /\ UNCHANGED <<self, registry>>
     ELSE /\ Goto(t, "close_handle") /\ UNCHANGED lock
          /\ registry' = [registry EXCEPT !.slots = @ \ {self.deltaCb.token}]
          /\ self' = [self EXCEPT !.deltaCb = NoHandle]
  /\ UNCHANGED <<engine, returned>>

CloseHandle(t) ==
  /\ At(t, "close_handle") /\ Goto(t, IF self.handle THEN "in_close" ELSE "close_finish")
  /\ UNCHANGED shared

CloseReturn(t) ==
  /\ At(t, "in_close") /\ Goto(t, "close_finish")
  /\ engine' = [engine EXCEPT !.state = "freed", !.installed = NoHandle, !.staged = {}]
  /\ UNCHANGED <<self, lock, registry, returned>>

(* MUTANT of CloseFinish: the freed pointer is left in _handle *)
CloseKeepsHandle(t) ==
  /\ At(t, "close_finish") /\ Release(t) /\ Return(t)
  /\ self' = [self EXCEPT !.closed = TRUE]
  /\ UNCHANGED <<engine, registry, returned>>

CloseFinish(t) ==
  /\ At(t, "close_finish") /\ Release(t) /\ Return(t)
  /\ self' = [self EXCEPT !.handle = FALSE, !.closed = TRUE]
  /\ UNCHANGED <<engine, registry, returned>>

-----------------------------------------------------------------------------
Mode(t) == TestMode(t) \/ SetMode(t)
Iud(t) == BuildRows(t) \/ IudEnter(t) \/ IudReturn(t)
Register(t) ==
  \/ CbTest(t) \/ CbKind(t) \/ CbOther(t) \/ CbCreate(t) \/ CbSetUserFn(t)
  \/ SetCbEnter(t) \/ SetCbReturn(t)
ClearDeltaCb(t) ==
  \/ Clear(t) \/ ClearEnter(t) \/ ClearReturn(t) \/ ClearDrop(t) \/ ClearNull(t)
Step(t) == StepEnter(t) \/ StepReturn(t) \/ DrainCopy(t) \/ DrainClear(t)
Snapshot(t) == SnapshotEnter(t) \/ SnapshotReturn(t)
MakeCompound(t) == CaptureHandle(t) \/ MakeEnter(t) \/ MakeReturn(t) \/ MakeAppend(t)
Close(t) ==
  \/ CloseTest(t) \/ CloseLock(t) \/ CloseCb(t) \/ CloseExcept(t) \/ CloseExceptDrop(t)
  \/ CloseHandle(t) \/ CloseReturn(t) \/ CloseFinish(t)

(* The rest of a public call, once it is made. *)
Run(t) ==
  \/ Mode(t) \/ Iud(t) \/ Register(t) \/ ClearDeltaCb(t) \/ Step(t) \/ Snapshot(t)
  \/ MakeCompound(t) \/ Close(t)

(* Every thread has used up its bound of calls. *)
Finished == (\A t \in Threads : At(t, "idle") /\ frame[t].n = MaxCalls) /\ UNCHANGED vars

Next == (\E t \in Threads : Begin(t) \/ Run(t)) \/ Finished

Spec == Init /\ [][Next]_vars

(* As in EasySession: a thread inside a call that can go on does so. *)
FairSpec == Spec /\ \A t \in Threads : WF_vars(Run(t))

-----------------------------------------------------------------------------
(* PROPERTIES *)

EngineLabels == {"in_iud", "in_set_cb", "in_clear_cb", "in_step", "in_snapshot", "in_make",
                 "in_close"}
InEngine(t) == pc[t] \in EngineLabels

(* session.py: "serialised through an internal RLock".  No two threads are *)
(* inside the engine on this session, whatever they call.                  *)
SingleCaller == \A t, u \in Threads : InEngine(t) /\ InEngine(u) => t = u

(* close() frees the engine under nobody, and nobody calls into it with a  *)
(* pointer read before close() freed it.                                   *)
NoUseAfterFree == engine.state = "freed" => \A t \in Threads : ~InEngine(t)

(* The contract of threading.md as a specification: see SingleCallerEngine. *)
Contract == INSTANCE SingleCallerEngine
              WITH callers <- {t \in Threads : InEngine(t)}, alive <- engine.state = "open"
ImplementsContract == Contract!Spec

(* How often a thread has taken the lock: once in a `with` of its own, and *)
(* once more in the _clear_delta_cb that close() calls.                    *)
Closing(t) == Kind(t) = "close" /\ pc[t] \notin {"idle", "close_test", "close_lock"}
Depth(t) == (IF Closing(t) THEN 1 ELSE 0) + (IF InEngine(t) /\ pc[t] # "in_close" THEN 1 ELSE 0)

(* The inductive invariant behind SingleCaller and ImplementsContract: the *)
(* lock is held by whoever is inside a `with`, as often as it has entered  *)
(* one; and from the moment the engine is freed until _handle is NULL, it  *)
(* is close() that holds it.                                               *)
OwnsLock == \A t \in Threads : Depth(t) > 0 => lock = [owner |-> t, depth |-> Depth(t)]
LockBalanced == lock.depth > 0 => lock.owner \in Threads /\ Depth(lock.owner) = lock.depth
FreedByClose ==
  engine.state = "freed" /\ self.handle => \E t \in Threads : At(t, "close_finish")
LockedInv == OwnsLock /\ LockBalanced /\ FreedByClose

(* However a close() ends, by returning or by raising, the engine has been *)
(* freed, whatever other threads register, clear or close meanwhile.       *)
CloseFrees ==
  \A t \in Threads : At(t, "idle") /\ Kind(t) = "close" => engine.state = "freed"

(* Every public call comes to an end: close() re-enters the lock it holds. *)
EveryCallReturns == \A t \in Threads : ~At(t, "idle") ~> At(t, "idle")

Deliveries(r) == {d \in returned : d.row = r}
InTransit(r) ==
  \/ self.deltaCb # NoHandle /\ r \in registry.queue[self.deltaCb.token]
  \/ \E t \in Threads : r \in frame[t].events

(* Every row an evaluation has seen is on its way to a caller or has       *)
(* reached exactly one, also when step() and step_typed() alternate and    *)
(* each replaces the callback of the other.                                *)
DeltasExactlyOnce ==
  self.mode # "QUERY" =>
    \A r \in engine.evaluated :
      \/ Deliveries(r) = {} /\ InTransit(r)
      \/ Cardinality(Deliveries(r)) = 1 /\ ~InTransit(r)

(* _clear_delta_cb clears wirelog's pointer before it tears the slot down: *)
(* the engine never holds the user_data of a slot that is gone.            *)
ArmedSlotAlive ==
  engine.installed # NoHandle => Registered(engine.installed.token)

(* step() returns what the untyped trampoline queued, step_typed() what    *)
(* the typed one did: rows of one are never unpacked as the other's.       *)
StepsDrainTheirKind ==
  \A t \in Threads : At(t, "drain_clear") => frame[t].cb.kind = WantedKind(t)

(* step_typed's docstring: on a program that declares a FLOAT column step() *)
(* raises ExecError.  It never gets past its calls into the engine.         *)
FloatStepRefused == \A t \in Threads : At(t, "drain") /\ FloatProgram => Kind(t) = "step_typed"
================================================================================
