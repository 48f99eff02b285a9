------------------------------ MODULE EasySession ------------------------------
(***************************************************************************)
(* One pyrewire.EasySession shared by several Python threads: session.py,  *)
(* with the parts of intern.py, callbacks.py and compound.py it drives.    *)
(*                                                                         *)
(* A step is a stretch of Python between two points where another thread   *)
(* can get in with an effect that matters: a lock operation, a call into   *)
(* libwirelog (ctypes drops the GIL), or a second read of an attribute     *)
(* whose first read was tested.  A call into libwirelog is two steps,      *)
(* entering it and returning from it, so two of them can overlap.  Taking  *)
(* a lock and entering the call it guards is one step: no unlocked step of *)
(* another thread looks at a lock.                                         *)
(*                                                                         *)
(* The C engine is external: it keeps the rows it was given until the next *)
(* evaluation, evaluates them all, reports each to the delta callback then *)
(* installed, rejects a NULL handle, and may refuse a call (MayFail).      *)
(***************************************************************************)
EXTENDS Integers, FiniteSets

CONSTANTS
  Threads,    \* Python threads sharing the session
  Symbols,    \* strings a row can hold
  Calls,      \* Calls[t]: the kinds of public call thread t may make
  MaxCalls,   \* bound: public calls per thread
  MayFail,    \* engine entry points that may return an error code
  Locking,    \* the constructor's lock= argument
  NoThread, NoSymbol, NoId

Dedupe == {"insert_with_dedupe_int", "insert_with_dedupe_str"}
IntRow == {"insert_int", "remove_int", "insert_with_dedupe_int"}    \* a row with no str
StrRow == {"insert_str", "remove_str", "insert_with_dedupe_str"}    \* a row with one str
SymRow == {"insert_sym", "remove_sym"}
Incremental == SymRow \cup {"step", "set_delta_callback", "clear_delta_callback"}
Kinds == IntRow \cup StrRow \cup Incremental \cup
         {"intern", "snapshot", "make_compound", "close", "preview_inline_facts"}
EntryPoints == {"intern", "iud", "sym", "set_delta_cb", "step", "snapshot", "make_compound"}
Ids == Threads \X (1..MaxCalls)              \* one per public call
Rows == [id : Ids, sym : Symbols \cup {NoSymbol}]

ASSUME ConstantsAssumption ==
  /\ Calls \in [Threads -> SUBSET Kinds]
  /\ MaxCalls \in Nat
  /\ MayFail \subseteq EntryPoints
  /\ Locking \in BOOLEAN
  /\ NoThread \notin Threads /\ NoSymbol \notin Symbols /\ NoId \notin Ids

VARIABLES
  engine,      \* external: the C session (fields below)
  self,        \* the EasySession object's attributes
  lock,        \* owner of _lock
  interns,     \* the InternTable: the strings it knows, the owner of its lock
  registry,    \* callbacks._REGISTRY: slots not popped, and each slot's queue
  argtypes,    \* argtypes of the variadic entry point: "declared" or "fixed"
  returned,    \* history: rows handed to a caller, to which call, and whether
               \*   the reverse lookup of the row's string missed
  pc, frame    \* where each thread is, and the locals of the call it executes

shared == <<engine, self, lock, interns, registry, argtypes, returned>>
vars == <<shared, pc, frame>>

Labels ==
  {"idle", "mode", "set_mode", "intern_begin", "intern_lock", "in_intern",
   "iud", "in_iud", "append", "sym_prev", "sym_lock", "sym_call", "in_sym",
   "sym_restore", "cb_test", "cb_create", "cb_user_fn", "set_cb", "in_set_cb", "clear_test",
   "clear_cb", "in_clear_cb", "clear_drop", "clear_null", "step", "in_step",
   "drain", "drain_clear", "snapshot", "in_snapshot", "pending_clear",
   "decode", "schema", "in_schema", "lookup", "dispatch", "capture", "make",
   "in_make", "make_append", "preview", "facts", "in_facts", "facts_lookup",
   "close_test", "close_lock", "close_cb", "in_close_cb", "close_drop",
   "close_null", "close_handle", "in_close", "close_finish"}

Blank(kind, n) == [kind |-> kind, n |-> n, sym |-> NoSymbol, token |-> NoId, events |-> {},
                   missed |-> {}, raw |-> FALSE, ok |-> FALSE, prev |-> "declared"]

EngineType ==
  [state : {"open", "freed"},                  \* the memory behind the handle
   installed : Ids \cup {NoId},                \* user_data of the delta callback
   staged : SUBSET Rows,                       \* rows whose buffers it still points to
   evaluated : SUBSET Rows]

SelfType ==
  [handle : BOOLEAN,                           \* _handle is not NULL
   closed : BOOLEAN, mode : {"UNSET", "INCREMENTAL", "QUERY"},
   deltaCb : Ids \cup {NoId},                  \* token of the handle in _delta_cb
   pending : SUBSET Rows,                      \* _pending_easy_inputs
   schema : BOOLEAN,                           \* _schema_program is not None
   cached : BOOLEAN,                           \* _schema_cache has the relation
   made : SUBSET Ids,                          \* Compound objects handed out
   compounds : SUBSET Ids, invalid : SUBSET Ids]

FrameType ==
  [kind : Kinds \cup {"none"}, n : 0..MaxCalls, sym : Symbols \cup {NoSymbol},
   token : Ids \cup {NoId}, events : SUBSET Rows, missed : SUBSET Rows,
   raw : BOOLEAN, ok : BOOLEAN, prev : {"declared", "fixed"}]

TypeOK ==
  /\ engine \in EngineType
  /\ self \in SelfType
  /\ lock \in Threads \cup {NoThread}
  /\ interns \in [known : SUBSET (Symbols \cup {NoSymbol}), owner : Threads \cup {NoThread}]
  /\ registry \in [slots : SUBSET Ids, queue : [Ids -> SUBSET Rows]]
  /\ argtypes \in {"declared", "fixed"}
  /\ returned \subseteq [row : Rows, to : Ids, missed : BOOLEAN]
  /\ pc \in [Threads -> Labels]
  /\ frame \in [Threads -> FrameType]

Init ==
  /\ engine = [state |-> "open", installed |-> NoId, staged |-> {}, evaluated |-> {}]
  /\ self \in [handle : {TRUE}, closed : {FALSE}, mode : {"UNSET"}, deltaCb : {NoId},
               pending : {{}}, schema : BOOLEAN, cached : {FALSE},
               made : {{}}, compounds : {{}}, invalid : {{}}]
  /\ lock = NoThread
  /\ interns = [known |-> {}, owner |-> NoThread]
  /\ registry = [slots |-> {}, queue |-> [i \in Ids |-> {}]]
  /\ argtypes = "declared"
  /\ returned = {}
  /\ pc = [t \in Threads |-> "idle"]
  /\ frame = [t \in Threads |-> Blank("none", 0)]

-----------------------------------------------------------------------------
(* Every step ends in exactly one of Goto, Jump and Return. *)
At(t, label) == pc[t] = label
Jump(t, label, locals) == pc' = [pc EXCEPT ![t] = label] /\ frame' = [frame EXCEPT ![t] = locals]
Goto(t, label) == Jump(t, label, frame[t])
Return(t) == Jump(t, "idle", Blank(frame[t].kind, frame[t].n))

Kind(t) == frame[t].kind
Me(t) == <<t, frame[t].n>>                    \* the id of t's current call
Row(t) == [id |-> Me(t), sym |-> frame[t].sym]

(* `with self._serialize()`; no session method re-enters the lock *)
LockFree(t) == ~Locking \/ lock = NoThread
Acquire(t) == lock' = IF Locking THEN t ELSE lock
Release(t) == lock' = NoThread

Outcomes(entry) == IF entry \in MayFail THEN BOOLEAN ELSE {TRUE}

FirstLabel(kind) ==
  CASE kind \in IntRow \ Dedupe -> "iud"
    [] kind \in StrRow \ Dedupe -> "intern_lock"
    [] kind \in Incremental \cup {"snapshot"} -> "mode"
    [] kind = "intern" -> "intern_begin"
    [] kind = "make_compound" -> "capture"
    [] kind = "close" -> "close_test"
    [] OTHER -> "preview"

(* A thread makes its next public call. *)
Begin(t) ==
  /\ At(t, "idle") /\ frame[t].n < MaxCalls
  /\ \E kind \in Calls[t], s \in Symbols \cup {NoSymbol} :
       /\ kind \in StrRow \cup SymRow \cup {"intern"} <=> s # NoSymbol
       /\ Jump(t, FirstLabel(kind), [Blank(kind, frame[t].n + 1) EXCEPT !.sym = s])
  /\ UNCHANGED shared

(* An entry point called under the lock with the handle read there: on a   *)
(* NULL handle the engine returns an error at once and the call raises.    *)
EnterEngine(t, from, to) ==
  /\ At(t, from) /\ LockFree(t)
  /\ IF self.handle THEN Goto(t, to) /\ Acquire(t) ELSE Return(t) /\ UNCHANGED lock
  /\ UNCHANGED <<engine, self, interns, registry, argtypes, returned>>

-----------------------------------------------------------------------------
(* MUTANT of WantedMode: the name of the call is committed as the mode *)
WantedModeByName(t) == Kind(t)

(* _require_mode: tested, then committed, outside the lock *)
WantedMode(t) == IF Kind(t) = "snapshot" THEN "QUERY" ELSE "INCREMENTAL"

AfterMode(t) ==
  CASE Kind(t) \in SymRow -> "sym_prev"
    [] Kind(t) = "clear_delta_callback" -> "clear_test"
    [] Kind(t) = "snapshot" -> "snapshot"
    [] OTHER -> "cb_test"

TestMode(t) ==
  /\ At(t, "mode")
  /\ \/ self.mode = "UNSET" /\ Goto(t, "set_mode")
     \/ self.mode = WantedMode(t) /\ Goto(t, AfterMode(t))
     \/ self.mode \notin {"UNSET", WantedMode(t)} /\ Return(t)      \* WirelogModeError
  /\ UNCHANGED shared

SetMode(t) ==
  /\ At(t, "set_mode") /\ Goto(t, AfterMode(t))
  /\ self' = [self EXCEPT !.mode = WantedMode(t)]
  /\ UNCHANGED <<engine, lock, interns, registry, argtypes, returned>>

-----------------------------------------------------------------------------
(* intern(), and InternTable.intern as insert and _sym_call reach it *)
InternBegin(t) ==
  /\ At(t, "intern_begin") /\ LockFree(t) /\ Acquire(t) /\ Goto(t, "intern_lock")
  /\ UNCHANGED <<engine, self, interns, registry, argtypes, returned>>

(* Out of InternTable.intern: insert goes on to the engine, intern() gives *)
(* the session lock back, _sym_call has mirrored its symbol and returns.   *)
InternDone(t, found) ==
  /\ IF found /\ Kind(t) \in StrRow THEN Goto(t, "iud") ELSE Return(t)
  /\ IF Kind(t) = "intern" THEN Release(t) ELSE UNCHANGED lock

(* A known string costs no call; otherwise _intern_raw passes _handle to   *)
(* the engine under the table's lock only.                                 *)
InternLookup(t) ==
  /\ At(t, "intern_lock") /\ interns.owner = NoThread
  /\ IF frame[t].sym \notin interns.known /\ self.handle
       THEN Goto(t, "in_intern") /\ interns' = [interns EXCEPT !.owner = t] /\ UNCHANGED lock
       ELSE InternDone(t, frame[t].sym \in interns.known) /\ UNCHANGED interns
  /\ UNCHANGED <<engine, self, registry, argtypes, returned>>

(* MUTANTS of InternReturn: the table's lock stays taken when the engine   *)
(* refuses the string; the string is not remembered.                       *)
InternReturnKeepsLock(t) ==
  /\ At(t, "in_intern")
  /\ \E ok \in Outcomes("intern") :
       /\ InternDone(t, ok)
       /\ interns' = IF ok THEN [known |-> interns.known \cup {frame[t].sym}, owner |-> NoThread]
                     ELSE interns
  /\ UNCHANGED <<engine, self, registry, argtypes, returned>>
InternReturnForgets(t) ==
  /\ At(t, "in_intern")
  /\ \E ok \in Outcomes("intern") : InternDone(t, ok)
  /\ interns' = [interns EXCEPT !.owner = NoThread]
  /\ UNCHANGED <<engine, self, registry, argtypes, returned>>

InternReturn(t) ==
  /\ At(t, "in_intern")
  /\ \E ok \in Outcomes("intern") :
       /\ InternDone(t, ok)
       /\ interns' = [known |-> IF ok THEN interns.known \cup {frame[t].sym} ELSE interns.known,
                      owner |-> NoThread]
  /\ UNCHANGED <<engine, self, registry, argtypes, returned>>

-----------------------------------------------------------------------------
(* insert / remove, once the row is a ctypes array *)
IudEnter(t) == EnterEngine(t, "iud", "in_iud")

IudReturn(t) ==
  /\ At(t, "in_iud") /\ Release(t)
  /\ \E ok \in Outcomes("iud") :
       IF ok THEN Goto(t, "append") /\ engine' = [engine EXCEPT !.staged = @ \cup {Row(t)}]
             ELSE Return(t) /\ UNCHANGED engine
  /\ UNCHANGED <<self, interns, registry, argtypes, returned>>

(* After check(rc), outside the lock.  _sym_call then mirrors its symbol.  *)
AppendPending(t) ==
  /\ At(t, "append")
  /\ self' = [self EXCEPT !.pending = @ \cup {Row(t)}]
  /\ IF Kind(t) \in SymRow THEN Goto(t, "intern_lock") ELSE Return(t)
  /\ UNCHANGED <<engine, lock, interns, registry, argtypes, returned>>

(* _sym_call saves the entry point's argtypes, replaces them under the lock *)
(* for the call, and restores them after the lock is released.              *)
SymSavePrev(t) ==
  /\ At(t, "sym_prev") /\ Jump(t, "sym_lock", [frame[t] EXCEPT !.prev = argtypes])
  /\ UNCHANGED shared

SymSetArgtypes(t) ==
  /\ At(t, "sym_lock") /\ LockFree(t) /\ Acquire(t) /\ Goto(t, "sym_call")
  /\ argtypes' = "fixed"
  /\ UNCHANGED <<engine, self, interns, registry, returned>>

SymEnter(t) ==
  /\ At(t, "sym_call")
  /\ IF self.handle THEN Goto(t, "in_sym") /\ UNCHANGED lock
                    ELSE Goto(t, "sym_restore") /\ Release(t)
  /\ UNCHANGED <<engine, self, interns, registry, argtypes, returned>>

SymReturn(t) ==
  /\ At(t, "in_sym") /\ Release(t)
  /\ \E ok \in Outcomes("sym") :
       /\ Jump(t, "sym_restore", [frame[t] EXCEPT !.ok = ok])
       /\ engine' = IF ok THEN [engine EXCEPT !.staged = @ \cup {Row(t)}] ELSE engine
  /\ UNCHANGED <<self, interns, registry, argtypes, returned>>

(* MUTANT of SymRestore: restored after the call instead of in a finally *)
SymRestoreOnSuccess(t) ==
  /\ At(t, "sym_restore")
  /\ argtypes' = IF frame[t].ok THEN frame[t].prev ELSE argtypes
  /\ IF frame[t].ok THEN Goto(t, "append") ELSE Return(t)
  /\ UNCHANGED <<engine, self, lock, interns, registry, returned>>

SymRestore(t) ==
  /\ At(t, "sym_restore")
  /\ argtypes' = frame[t].prev
  /\ IF frame[t].ok THEN Goto(t, "append") ELSE Return(t)
  /\ UNCHANGED <<engine, self, lock, interns, registry, returned>>

-----------------------------------------------------------------------------
(* set_delta_callback, and the lazy registration step shares with it *)
CbTest(t) ==
  /\ At(t, "cb_test")
  /\ Goto(t, IF self.deltaCb = NoId THEN "cb_create"
             ELSE IF Kind(t) = "step" THEN "step" ELSE "cb_user_fn")
  /\ UNCHANGED shared

(* A new handle has a fresh token, and its slot before it is in _delta_cb; *)
(* another thread's may be there by now.                                   *)
CbCreate(t) ==
  /\ At(t, "cb_create")
  /\ Goto(t, IF Kind(t) = "step" THEN "set_cb" ELSE "cb_user_fn")
  /\ self' = [self EXCEPT !.deltaCb = Me(t)]
  /\ registry' = [registry EXCEPT !.slots = @ \cup {Me(t)}]
  /\ UNCHANGED <<engine, lock, interns, argtypes, returned>>

(* `self._delta_cb._state.user_fn = fn` raises when it is None by now *)
CbSetUserFn(t) ==
  /\ At(t, "cb_user_fn")
  /\ IF self.deltaCb # NoId THEN Goto(t, "set_cb") ELSE Return(t)
  /\ UNCHANGED shared

(* The token is read under the lock, and may be None by now. *)
SetCbEnter(t) ==
  /\ At(t, "set_cb") /\ LockFree(t)
  /\ IF self.handle /\ self.deltaCb # NoId
       THEN Jump(t, "in_set_cb", [frame[t] EXCEPT !.token = self.deltaCb]) /\ Acquire(t)
       ELSE Return(t) /\ UNCHANGED lock
  /\ UNCHANGED <<engine, self, interns, registry, argtypes, returned>>

SetCbReturn(t) ==
  /\ At(t, "in_set_cb") /\ Release(t)
  /\ \E ok \in Outcomes("set_delta_cb") :
       /\ IF ok /\ Kind(t) = "step" THEN Goto(t, "step") ELSE Return(t)
       /\ engine' = IF ok THEN [engine EXCEPT !.installed = frame[t].token] ELSE engine
  /\ UNCHANGED <<self, interns, registry, argtypes, returned>>

(* set_delta_callback(None): the slot and the attribute go after the lock *)
ClearTest(t) ==
  /\ At(t, "clear_test")
  /\ IF self.deltaCb # NoId THEN Goto(t, "clear_cb") ELSE Return(t)
  /\ UNCHANGED shared

ClearEnter(t) == EnterEngine(t, "clear_cb", "in_clear_cb")

ClearReturn(t) ==
  /\ At(t, "in_clear_cb") /\ Release(t)
  /\ \E ok \in Outcomes("set_delta_cb") :
       IF ok THEN Goto(t, "clear_drop") /\ engine' = [engine EXCEPT !.installed = NoId]
             ELSE Return(t) /\ UNCHANGED engine
  /\ UNCHANGED <<self, interns, registry, argtypes, returned>>

ClearDrop(t) ==
  /\ At(t, "clear_drop")
  /\ registry' = [registry EXCEPT !.slots = @ \ {self.deltaCb}]
  /\ IF self.deltaCb # NoId THEN Goto(t, "clear_null") ELSE Return(t)
  /\ UNCHANGED <<engine, self, lock, interns, argtypes, returned>>

ClearNull(t) ==
  /\ At(t, "clear_null") /\ Return(t)
  /\ self' = [self EXCEPT !.deltaCb = NoId]
  /\ UNCHANGED <<engine, lock, interns, registry, argtypes, returned>>

-----------------------------------------------------------------------------
(* MUTANT of StepEnter: step() enters the engine without the lock *)
StepEnterUnlocked(t) ==
  /\ At(t, "step") /\ IF self.handle THEN Goto(t, "in_step") ELSE Return(t)
  /\ UNCHANGED shared

(* step *)
StepEnter(t) == EnterEngine(t, "step", "in_step")

(* A CallbackHandle nothing refers to is collected and its __del__ pops    *)
(* its slot; besides _delta_cb, only a thread inside drain() holds one.    *)
(* The trampoline drops an event whose token has no slot.                  *)
Registered(token) ==
  /\ token \in registry.slots
  /\ \/ token = self.deltaCb
     \/ \E t \in Threads : At(t, "drain_clear") /\ frame[t].token = token

Deliver(events) ==
  IF Registered(engine.installed)
    THEN [registry EXCEPT !.queue[engine.installed] = @ \cup events] ELSE registry

Evaluated == [engine EXCEPT !.evaluated = @ \cup engine.staged, !.staged = {}]

(* MUTANT of StepReturn: the retained inputs go before the result is checked *)
StepReturnClears(t) ==
  /\ At(t, "in_step") /\ Release(t)
  /\ \E ok \in Outcomes("step") :
       IF ok THEN Goto(t, "drain") /\ registry' = Deliver(engine.staged) /\ engine' = Evaluated
             ELSE Return(t) /\ UNCHANGED <<registry, engine>>
  /\ self' = [self EXCEPT !.pending = {}]
  /\ UNCHANGED <<interns, argtypes, returned>>

StepReturn(t) ==
  /\ At(t, "in_step") /\ Release(t)
  /\ \E ok \in Outcomes("step") :
       IF ok THEN Goto(t, "drain") /\ registry' = Deliver(engine.staged) /\ engine' = Evaluated
             ELSE Return(t) /\ UNCHANGED <<registry, engine>>
  /\ UNCHANGED <<self, interns, argtypes, returned>>

(* CallbackHandle.drain copies the queue in one statement and clears it in *)
(* the next; `self._delta_cb` may be None by now.                          *)
DrainCopy(t) ==
  /\ At(t, "drain")
  /\ IF self.deltaCb = NoId THEN Return(t)
     ELSE Jump(t, "drain_clear", [frame[t] EXCEPT !.token = self.deltaCb,
                                                  !.events = registry.queue[self.deltaCb]])
  /\ UNCHANGED shared

(* MUTANT of DrainClear: the queue is copied and never cleared *)
DrainKeeps(t) == At(t, "drain_clear") /\ Goto(t, "pending_clear") /\ UNCHANGED shared

DrainClear(t) ==
  /\ At(t, "drain_clear") /\ Goto(t, "pending_clear")
  /\ registry' = [registry EXCEPT !.queue[frame[t].token] = {}]
  /\ UNCHANGED <<engine, self, lock, interns, argtypes, returned>>

(* `self._pending_easy_inputs.clear()`, outside the lock (step, snapshot) *)
ClearPending(t) ==
  /\ At(t, "pending_clear")
  /\ Goto(t, IF frame[t].events = {} THEN "dispatch" ELSE "decode")
  /\ self' = [self EXCEPT !.pending = {}]
  /\ UNCHANGED <<engine, lock, interns, registry, argtypes, returned>>

(* _decode_row, _schema_for: without the side-program rows stay raw *)
Decode(t) ==
  /\ At(t, "decode")
  /\ Goto(t, IF self.cached THEN "lookup" ELSE IF self.schema THEN "schema" ELSE "dispatch")
  /\ UNCHANGED shared

(* A call into the side-program, without any lock: _schema_program has     *)
(* been tested, is read again, and may be None by now.                     *)
EnterProgram(t, from, to) ==
  /\ At(t, from)
  /\ IF self.schema THEN Goto(t, to) ELSE Return(t)
  /\ UNCHANGED shared

SchemaEnter(t) == EnterProgram(t, "schema", "in_schema")

SchemaReturn(t) ==
  /\ At(t, "in_schema") /\ Goto(t, "lookup")
  /\ self' = [self EXCEPT !.cached = TRUE]
  /\ UNCHANGED <<engine, lock, interns, registry, argtypes, returned>>

LookupRows(t) ==
  /\ At(t, "lookup") /\ interns.owner = NoThread
  /\ Jump(t, "dispatch", [frame[t] EXCEPT !.missed =
            {r \in frame[t].events : r.sym \notin interns.known \cup {NoSymbol}}])
  /\ UNCHANGED shared

(* step reads _delta_cb once more, for user_fn, before it returns the rows *)
Dispatch(t) ==
  /\ At(t, "dispatch") /\ Return(t)
  /\ returned' = IF Kind(t) = "step" /\ self.deltaCb = NoId THEN returned
                 ELSE returned \cup {[row |-> r, to |-> Me(t), missed |-> r \in frame[t].missed] :
                                       r \in frame[t].events}
  /\ UNCHANGED <<engine, self, lock, interns, registry, argtypes>>

-----------------------------------------------------------------------------
(* snapshot: a one-shot callback of its own, so nobody else sees its rows *)
SnapshotEnter(t) == EnterEngine(t, "snapshot", "in_snapshot")

SnapshotReturn(t) ==
  /\ At(t, "in_snapshot") /\ Release(t)
  /\ \E ok \in Outcomes("snapshot") :
       IF ok THEN /\ engine' = Evaluated
                  /\ Jump(t, "pending_clear", [frame[t] EXCEPT !.events = Evaluated.evaluated])
             ELSE Return(t) /\ UNCHANGED engine
  /\ UNCHANGED <<self, interns, registry, argtypes, returned>>

-----------------------------------------------------------------------------
(* make_compound: _make_compound_call is handed the handle before it takes *)
(* the lock, so close() can come in between.                               *)
CaptureHandle(t) ==
  /\ At(t, "capture") /\ Jump(t, "make", [frame[t] EXCEPT !.raw = self.handle])
  /\ UNCHANGED shared

MakeEnter(t) ==
  /\ At(t, "make") /\ LockFree(t)
  /\ IF frame[t].raw THEN Goto(t, "in_make") /\ Acquire(t) ELSE Return(t) /\ UNCHANGED lock
  /\ UNCHANGED <<engine, self, interns, registry, argtypes, returned>>

MakeReturn(t) ==
  /\ At(t, "in_make") /\ Release(t)
  /\ \E ok \in Outcomes("make_compound") : IF ok THEN Goto(t, "make_append") ELSE Return(t)
  /\ UNCHANGED <<engine, self, interns, registry, argtypes, returned>>

MakeAppend(t) ==
  /\ At(t, "make_append") /\ Return(t)
  /\ self' = [self EXCEPT !.made = @ \cup {Me(t)}, !.compounds = @ \cup {Me(t)}]
  /\ UNCHANGED <<engine, lock, interns, registry, argtypes, returned>>

(* Compound.handle answers instead of raising. *)
Readable(c) == c \in self.made \ self.invalid /\ ~self.closed

-----------------------------------------------------------------------------
(* preview_inline_facts, and insert_with_dedupe, which goes on to insert() *)
(* and there interns the string of its row outside the session's lock.     *)
AfterPreview(t, inserting) ==
  IF inserting /\ Kind(t) \in Dedupe
    THEN Goto(t, IF Kind(t) \in StrRow THEN "intern_lock" ELSE "iud")
    ELSE Return(t)

Preview(t) ==
  /\ At(t, "preview")
  /\ IF self.schema THEN Goto(t, "facts") ELSE AfterPreview(t, TRUE)
  /\ UNCHANGED shared

FactsEnter(t) == EnterProgram(t, "facts", "in_facts")

FactsReturn(t) == At(t, "in_facts") /\ Goto(t, "facts_lookup") /\ UNCHANGED shared

(* The strings are looked up; the row to insert is a duplicate or is not.  *)
FactsLookup(t) ==
  /\ At(t, "facts_lookup") /\ interns.owner = NoThread
  /\ \E inserting \in BOOLEAN : AfterPreview(t, inserting)
  /\ UNCHANGED shared

-----------------------------------------------------------------------------
(* close: tested outside the lock, everything else under it *)
CloseTest(t) ==
  /\ At(t, "close_test")
  /\ IF self.closed THEN Return(t) ELSE Goto(t, "close_lock")
  /\ UNCHANGED shared

(* MUTANTS of CloseLock: compounds stay valid; the session says it is      *)
(* closed before it has freed anything.                                    *)
CloseKeepsCompounds(t) ==
  /\ At(t, "close_lock") /\ LockFree(t) /\ Acquire(t) /\ Goto(t, "close_cb")
  /\ self' = [self EXCEPT !.schema = FALSE, !.cached = FALSE, !.pending = {}]
  /\ UNCHANGED <<engine, interns, registry, argtypes, returned>>
CloseMarksFirst(t) ==
  /\ At(t, "close_lock") /\ LockFree(t) /\ Acquire(t) /\ Goto(t, "close_cb")
  /\ self' = [self EXCEPT !.invalid = @ \cup self.compounds, !.compounds = {}, !.closed = TRUE,
                          !.schema = FALSE, !.cached = FALSE, !.pending = {}]
  /\ UNCHANGED <<engine, interns, registry, argtypes, returned>>

CloseLock(t) ==
  /\ At(t, "close_lock") /\ LockFree(t) /\ Acquire(t) /\ Goto(t, "close_cb")
  /\ self' = [self EXCEPT !.invalid = @ \cup self.compounds, !.compounds = {},
                          !.schema = FALSE, !.cached = FALSE, !.pending = {}]
  /\ UNCHANGED <<engine, interns, registry, argtypes, returned>>

CloseCb(t) ==
  /\ At(t, "close_cb")
  /\ Goto(t, IF self.deltaCb = NoId THEN "close_handle"
             ELSE IF self.handle THEN "in_close_cb" ELSE "close_drop")
  /\ UNCHANGED shared

CloseCbReturn(t) ==
  /\ At(t, "in_close_cb") /\ Goto(t, "close_drop")
  /\ engine' = [engine EXCEPT !.installed = NoId]
  /\ UNCHANGED <<self, lock, interns, registry, argtypes, returned>>

(* `self._delta_cb.close()`: an AttributeError, and so the end of close(), *)
(* when another thread's set_delta_callback(None) has nulled it by now.    *)
CloseDrop(t) ==
  /\ At(t, "close_drop")
  /\ registry' = [registry EXCEPT !.slots = @ \ {self.deltaCb}]
  /\ IF self.deltaCb # NoId THEN Goto(t, "close_null") /\ UNCHANGED lock
                            ELSE Return(t) /\ Release(t)
  /\ UNCHANGED <<engine, self, interns, argtypes, returned>>

CloseNull(t) ==
  /\ At(t, "close_null") /\ Goto(t, "close_handle")
  /\ self' = [self EXCEPT !.deltaCb = NoId]
  /\ UNCHANGED <<engine, lock, interns, registry, argtypes, returned>>

CloseHandle(t) ==
  /\ At(t, "close_handle") /\ Goto(t, IF self.handle THEN "in_close" ELSE "close_finish")
  /\ UNCHANGED shared

CloseReturn(t) ==
  /\ At(t, "in_close") /\ Goto(t, "close_finish")
  /\ engine' = [engine EXCEPT !.state = "freed", !.installed = NoId, !.staged = {}]
  /\ UNCHANGED <<self, lock, interns, registry, argtypes, returned>>

(* MUTANT of CloseFinish: the freed pointer is left in _handle *)
CloseKeepsHandle(t) ==
  /\ At(t, "close_finish") /\ Release(t) /\ Return(t)
  /\ self' = [self EXCEPT !.closed = TRUE]
  /\ UNCHANGED <<engine, interns, registry, argtypes, returned>>

CloseFinish(t) ==
  /\ At(t, "close_finish") /\ Release(t) /\ Return(t)
  /\ self' = [self EXCEPT !.handle = FALSE, !.closed = TRUE]
  /\ UNCHANGED <<engine, interns, registry, argtypes, returned>>

-----------------------------------------------------------------------------
Mode(t) == TestMode(t) \/ SetMode(t)
Intern(t) == InternBegin(t) \/ InternLookup(t) \/ InternReturn(t)
Iud(t) == IudEnter(t) \/ IudReturn(t) \/ AppendPending(t)
SymCall(t) == SymSavePrev(t) \/ SymSetArgtypes(t) \/ SymEnter(t) \/ SymReturn(t) \/ SymRestore(t)
SetDeltaCallback(t) ==
  \/ CbTest(t) \/ CbCreate(t) \/ CbSetUserFn(t) \/ SetCbEnter(t) \/ SetCbReturn(t)
  \/ ClearTest(t) \/ ClearEnter(t) \/ ClearReturn(t) \/ ClearDrop(t) \/ ClearNull(t)
Step(t) ==
  \/ StepEnter(t) \/ StepReturn(t) \/ DrainCopy(t) \/ DrainClear(t) \/ ClearPending(t)
  \/ Decode(t) \/ SchemaEnter(t) \/ SchemaReturn(t) \/ LookupRows(t) \/ Dispatch(t)
Snapshot(t) == SnapshotEnter(t) \/ SnapshotReturn(t)
MakeCompound(t) == CaptureHandle(t) \/ MakeEnter(t) \/ MakeReturn(t) \/ MakeAppend(t)
PreviewInlineFacts(t) == Preview(t) \/ FactsEnter(t) \/ FactsReturn(t) \/ FactsLookup(t)
Close(t) ==
  \/ CloseTest(t) \/ CloseLock(t) \/ CloseCb(t) \/ CloseCbReturn(t) \/ CloseDrop(t)
  \/ CloseNull(t) \/ CloseHandle(t) \/ CloseReturn(t) \/ CloseFinish(t)

(* The rest of a public call, once it is made. *)
Run(t) ==
  \/ Mode(t) \/ Intern(t) \/ Iud(t) \/ SymCall(t) \/ SetDeltaCallback(t) \/ Step(t)
  \/ Snapshot(t) \/ MakeCompound(t) \/ PreviewInlineFacts(t) \/ Close(t)

(* Every thread has used up its bound of calls. *)
Finished == (\A t \in Threads : At(t, "idle") /\ frame[t].n = MaxCalls) /\ UNCHANGED vars

Next == (\E t \in Threads : Begin(t) \/ Run(t)) \/ Finished

Spec == Init /\ [][Next]_vars

(* A thread inside a call that can go on does so: the interpreter schedules *)
(* every thread, every entry point of the engine returns, and no lock stays *)
(* contended for ever because the calls are bounded.                        *)
FairSpec == Spec /\ \A t \in Threads : WF_vars(Run(t))

-----------------------------------------------------------------------------
(* PROPERTIES *)

EngineLabels == {"in_intern", "in_iud", "in_sym", "in_set_cb", "in_clear_cb", "in_step",
                 "in_snapshot", "in_make", "in_close_cb", "in_close"}
InEngine(t) == pc[t] \in EngineLabels

(* A thread inside a call counts that call. *)
CallNumbered == \A t \in Threads : ~At(t, "idle") => frame[t].n \in 1..MaxCalls

(* docs/semantics/threading.md: calls "run one at a time, and never overlap *)
(* inside wirelog".  No two threads are inside the engine on this session.  *)
SingleCaller == \A t, u \in Threads : InEngine(t) /\ InEngine(u) => t = u

(* close() frees the engine under nobody, and nobody calls into it with a  *)
(* pointer read before close() freed it.                                   *)
NoUseAfterFree == engine.state = "freed" => \A t \in Threads : ~InEngine(t)

(* close() frees the side-program under nobody: no preview or schema read  *)
(* is inside it once close() has replaced it by None.                      *)
ProgramOutlivesReaders ==
  ~self.schema => \A t \in Threads : pc[t] \notin {"in_schema", "in_facts"}

(* The contract of threading.md as a specification: see SingleCallerEngine. *)
Contract == INSTANCE SingleCallerEngine
              WITH callers <- {t \in Threads : InEngine(t)}, alive <- engine.state = "open"
ImplementsContract == Contract!Spec

(* The labels where the lock is held, the ones of the calls that enter the *)
(* engine without it, and those calls: the ones that intern the strings of *)
(* a row on their way, insert_with_dedupe too, and make_compound.  intern() *)
(* takes the lock before the table's.                                      *)
Guarded == {"intern_lock", "in_intern", "in_iud", "in_set_cb", "in_clear_cb", "in_step",
            "in_snapshot", "close_cb", "in_close_cb", "close_drop", "close_null",
            "close_handle", "in_close", "close_finish"}
Unguarded == {"sym_prev", "sym_lock", "sym_call", "in_sym", "sym_restore",
              "capture", "make", "in_make", "make_append"}
InternPath == {"intern_begin", "intern_lock", "in_intern"}
UnlockedEntry == StrRow \cup SymRow \cup {"make_compound"}
LockedOnly == Locking /\ \A t \in Threads : Calls[t] \cap UnlockedEntry = {}

(* The inductive invariant behind SingleCaller and NoUseAfterFree, for     *)
(* threads that make no call which enters the engine without the lock.  A  *)
(* thread in a stretch of code the lock guards owns it; the table of       *)
(* interned strings is reached by intern() alone; and from the moment the  *)
(* engine is freed until _handle is NULL, close() holds the lock.          *)
OwnsLock == \A t \in Threads : pc[t] \in Guarded => lock = t
OnLockedPaths ==
  \A t \in Threads : /\ Kind(t) \notin UnlockedEntry
                     /\ pc[t] \notin Unguarded
                     /\ pc[t] \in InternPath => Kind(t) = "intern"
FreedByClose ==
  engine.state = "freed" => /\ self.handle => \E t \in Threads : At(t, "close_finish")
                            /\ \A t \in Threads : ~InEngine(t)
LockedInv == OwnsLock /\ OnLockedPaths /\ FreedByClose

(* However a close() ends, by returning or by raising, the engine's handle *)
(* has been freed: close() never leaves the engine behind.                 *)
CloseFrees ==
  \A t \in Threads : At(t, "idle") /\ Kind(t) = "close" => engine.state = "freed"

(* _Mode: a committed mode is never replaced by the other one. *)
ModeOneWay == [][self.mode # "UNSET" => self'.mode = self.mode]_vars

Deliveries(r) == {d \in returned : d.row = r}
InTransit(r) ==
  \/ self.deltaCb # NoId /\ r \in registry.queue[self.deltaCb]
  \/ \E t \in Threads : r \in frame[t].events

(* Every row step() has made the engine evaluate is on its way to a caller *)
(* (queued, or drained by a step under way) or has reached exactly one.    *)
(* (In QUERY mode every snapshot returns all rows again.)                  *)
DeltasExactlyOnce ==
  self.mode = "INCREMENTAL" =>
    \A r \in engine.evaluated :
      \/ Deliveries(r) = {} /\ InTransit(r)
      \/ Cardinality(Deliveries(r)) = 1 /\ ~InTransit(r)

(* session.py on _pending_easy_inputs: whenever an evaluation is under way, *)
(* each buffer the engine retained for it is still referenced from Python,  *)
(* by the session or by the call that is inserting it.                      *)
StagedBuffersAlive ==
  (\E t \in Threads : pc[t] \in {"in_step", "in_snapshot"}) =>
    \A r \in engine.staged :
      r \in self.pending \/ \E t \in Threads : r.id = Me(t) /\ ~At(t, "idle")

(* step(): STRING columns come back reverse-interned.  No row whose string *)
(* this session inserted is returned with a raw id because the lookup of   *)
(* the string missed.                                                      *)
NoSymbolMissed == \A d \in returned : ~d.missed

(* Compound: no handle can be read once the engine that issued it is freed, *)
(* not even while close() has still to set _closed.                         *)
CompoundsDieWithEngine == engine.state = "freed" => \A c \in self.made : ~Readable(c)

(* _sym_call: the variadic call is made with the fixed-argument argtypes.  *)
SymCallsUseFixedArgtypes == \A t \in Threads : At(t, "in_sym") => argtypes = "fixed"

(* _sym_call's finally: between calls the entry point is as it was declared, *)
(* also after a call the engine refused.                                     *)
ArgtypesRestored == (\A t \in Threads : At(t, "idle")) => argtypes = "declared"

(* Every public call comes to an end: no lock is left taken, and the two   *)
(* locks are never waited for in a circle.                                 *)
EveryCallReturns == \A t \in Threads : ~At(t, "idle") ~> At(t, "idle")
================================================================================
