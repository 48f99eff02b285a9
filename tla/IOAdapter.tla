------------------------------- MODULE IOAdapter -------------------------------
(***************************************************************************)
(* io_adapter.py: Python classes that wirelog calls to read the rows of an *)
(* `.input` relation.  wirelog keeps a pointer to each adapter; _REGISTRY  *)
(* keeps the Python objects behind it alive.  register_adapter calls into  *)
(* wirelog before it takes _REGISTRY_LOCK, unregister_adapter while it     *)
(* holds it, and a program that loads its inputs takes no lock at all.     *)
(*                                                                         *)
(* External: wirelog's table of schemes, and the program that reads.  What *)
(* wirelog does where its callers race is not in this repository: two      *)
(* constants name what is assumed of it.                                   *)
(***************************************************************************)
EXTENDS Integers, FiniteSets

CONSTANTS
  Threads, Schemes,
  Calls,        \* Calls[t]: what thread t may do
  MaxCalls,     \* bound: calls per thread
  RowKinds,     \* what an adapter's read() may come up with
  Replaces,     \* wirelog accepts a scheme that is taken, and replaces it
  Pins,         \* wirelog refuses to unregister an adapter it is calling
  NoThread, NoId

Kinds == {"register_adapter", "unregister_adapter", "load_input_files"}
AllRowKinds == {"raises", "empty", "no_memory", "ragged", "unconvertible", "good"}
Ids == Threads \X (1..MaxCalls)     \* one per call; a registration is its register_adapter

ASSUME ConstantsAssumption ==
  /\ Calls \in [Threads -> SUBSET Kinds] /\ MaxCalls \in Nat
  /\ RowKinds \subseteq AllRowKinds /\ Replaces \in BOOLEAN /\ Pins \in BOOLEAN
  /\ NoThread \notin Threads /\ NoId \notin Ids

VARIABLES
  adapters,   \* external: the registration wirelog has for each scheme
  registry,   \* _REGISTRY
  lock,       \* owner of _REGISTRY_LOCK
  leaked,     \* history: buffers malloc'd for reads and never handed to wirelog
  reads,      \* history: what each read() came up with, what wirelog was told
  pc, frame   \* where each thread is, and its locals

vars == <<adapters, registry, lock, leaked, reads, pc, frame>>

Labels == {"idle", "register", "in_register", "record", "unregister", "in_unregister", "forget",
           "read", "in_validate", "in_read"}

Reads == [by : Ids, rows : AllRowKinds, status : {0, -1}, given : BOOLEAN]

TypeOK ==
  /\ adapters \in [Schemes -> Ids \cup {NoId}]
  /\ registry \in [Schemes -> Ids \cup {NoId}]
  /\ lock \in Threads \cup {NoThread}
  /\ leaked \subseteq Ids /\ reads \subseteq Reads
  /\ pc \in [Threads -> Labels]
  /\ frame \in [Threads -> [n : 0..MaxCalls, scheme : Schemes, adapter : Ids \cup {NoId}]]

Init ==
  /\ adapters = [s \in Schemes |-> NoId]
  /\ registry = [s \in Schemes |-> NoId]
  /\ lock = NoThread
  /\ leaked = {} /\ reads = {}
  /\ pc = [t \in Threads |-> "idle"]
  /\ frame \in [Threads -> [n : {0}, scheme : Schemes, adapter : {NoId}]]

-----------------------------------------------------------------------------
At(t, label) == pc[t] = label
Goto(t, label) == pc' = [pc EXCEPT ![t] = label]
Me(t) == <<t, frame[t].n>>
Scheme(t) == frame[t].scheme

(* MUTANT of FirstLabel: the call's name for its first step *)
FirstLabelByName(kind) == kind

FirstLabel(kind) ==
  CASE kind = "register_adapter" -> "register"
    [] kind = "unregister_adapter" -> "unregister"
    [] kind = "load_input_files" -> "read"

Begin(t) ==
  /\ At(t, "idle") /\ frame[t].n < MaxCalls
  /\ \E kind \in Calls[t], s \in Schemes :
       /\ Goto(t, FirstLabel(kind))
       /\ frame' = [frame EXCEPT ![t] = [n |-> @.n + 1, scheme |-> s, adapter |-> NoId]]
  /\ UNCHANGED <<adapters, registry, lock, leaked, reads>>

-----------------------------------------------------------------------------
(* register_adapter: the trampolines are built and wirelog is called, both *)
(* outside the lock.                                                       *)
RegisterEnter(t) ==
  /\ At(t, "register") /\ Goto(t, "in_register")
  /\ UNCHANGED <<adapters, registry, lock, leaked, reads, frame>>

RegisterReturn(t) ==
  /\ At(t, "in_register")
  /\ \/ /\ adapters[Scheme(t)] = NoId \/ Replaces
        /\ adapters' = [adapters EXCEPT ![Scheme(t)] = Me(t)] /\ Goto(t, "record")
     \/ Goto(t, "idle") /\ UNCHANGED adapters                     \* WirelogIOError
  /\ UNCHANGED <<registry, lock, leaked, reads, frame>>

(* MUTANT of Record: the registration is not kept *)
RecordNot(t) ==
  /\ At(t, "record") /\ lock = NoThread /\ Goto(t, "idle")
  /\ UNCHANGED <<adapters, registry, lock, leaked, reads, frame>>

(* with _REGISTRY_LOCK: _REGISTRY[scheme] = ... *)
Record(t) ==
  /\ At(t, "record") /\ lock = NoThread /\ Goto(t, "idle")
  /\ registry' = [registry EXCEPT ![Scheme(t)] = Me(t)]
  /\ UNCHANGED <<adapters, lock, leaked, reads, frame>>

-----------------------------------------------------------------------------
(* MUTANT of UnregisterEnter: an early return that leaves the lock taken *)
UnregisterEnterLocks(t) ==
  /\ At(t, "unregister") /\ lock = NoThread /\ lock' = t
  /\ Goto(t, IF registry[Scheme(t)] = NoId THEN "idle" ELSE "in_unregister")
  /\ UNCHANGED <<adapters, registry, leaked, reads, frame>>

(* unregister_adapter: a no-op for a scheme _REGISTRY does not have *)
UnregisterEnter(t) ==
  /\ At(t, "unregister") /\ lock = NoThread
  /\ IF registry[Scheme(t)] = NoId THEN Goto(t, "idle") /\ UNCHANGED lock
     ELSE Goto(t, "in_unregister") /\ lock' = t
  /\ UNCHANGED <<adapters, registry, leaked, reads, frame>>

(* wirelog is calling the adapter it has for the scheme. *)
Calling(id) == \E u \in Threads : pc[u] \in {"in_validate", "in_read"} /\ frame[u].adapter = id

(* MUTANT of UnregisterReturn: a refusal is not noticed *)
UnregisterReturnAlways(t) ==
  /\ At(t, "in_unregister") /\ Goto(t, "forget")
  /\ \/ /\ ~(Pins /\ Calling(adapters[Scheme(t)]))
        /\ adapters' = [adapters EXCEPT ![Scheme(t)] = NoId]
     \/ UNCHANGED adapters
  /\ UNCHANGED <<registry, lock, leaked, reads, frame>>

UnregisterReturn(t) ==
  /\ At(t, "in_unregister")
  /\ \/ /\ ~(Pins /\ Calling(adapters[Scheme(t)])) /\ Goto(t, "forget")
        /\ adapters' = [adapters EXCEPT ![Scheme(t)] = NoId] /\ UNCHANGED lock
     \/ /\ Goto(t, "idle") /\ lock' = NoThread                    \* WirelogIOError
        /\ UNCHANGED adapters
  /\ UNCHANGED <<registry, leaked, reads, frame>>

(* del _REGISTRY[scheme] *)
Forget(t) ==
  /\ At(t, "forget") /\ Goto(t, "idle") /\ lock' = NoThread
  /\ registry' = [registry EXCEPT ![Scheme(t)] = NoId]
  /\ UNCHANGED <<adapters, leaked, reads, frame>>

-----------------------------------------------------------------------------
(* load_input_files: wirelog looks the scheme up, validates, then reads.   *)
ReadEnter(t) ==
  /\ At(t, "read")
  /\ IF adapters[Scheme(t)] = NoId THEN Goto(t, "idle") /\ UNCHANGED frame
     ELSE /\ Goto(t, "in_validate")
          /\ frame' = [frame EXCEPT ![t].adapter = adapters[Scheme(t)]]
  /\ UNCHANGED <<adapters, registry, lock, leaked, reads>>

(* _validate: 0, or -1 if the user's validate() raises *)
Validate(t) ==
  /\ At(t, "in_validate") /\ (Goto(t, "in_read") \/ Goto(t, "idle"))
  /\ UNCHANGED <<adapters, registry, lock, leaked, reads, frame>>

(* _read: an exception of read() is caught; one of int(v) is not, and a    *)
(* ctypes callback that raises returns 0 with its out-parameters unset.    *)
Status(rows) == IF rows \in {"raises", "no_memory", "ragged"} THEN -1 ELSE 0

(* MUTANT of Read: a row of the wrong width ends the loop, not the call *)
ReadRagged(t) ==
  /\ At(t, "in_read") /\ Goto(t, "idle")
  /\ \E rows \in RowKinds :
       /\ reads' = reads \cup {[by |-> Me(t), rows |-> rows, given |-> rows \in {"good", "ragged"},
                                status |-> IF rows = "ragged" THEN 0 ELSE Status(rows)]}
       /\ UNCHANGED leaked
  /\ UNCHANGED <<adapters, registry, lock, frame>>

(* The buffer is malloc'd before the rows are copied; only a read that is  *)
(* good to the last row hands it to wirelog, which frees it.               *)
Read(t) ==
  /\ At(t, "in_read") /\ Goto(t, "idle")
  /\ \E rows \in RowKinds :
       /\ reads' = reads \cup {[by |-> Me(t), rows |-> rows, status |-> Status(rows),
                                given |-> rows = "good"]}
       /\ leaked' = IF rows \in {"ragged", "unconvertible"} THEN leaked \cup {Me(t)} ELSE leaked
  /\ UNCHANGED <<adapters, registry, lock, frame>>

-----------------------------------------------------------------------------
Run(t) ==
  \/ RegisterEnter(t) \/ RegisterReturn(t) \/ Record(t)
  \/ UnregisterEnter(t) \/ UnregisterReturn(t) \/ Forget(t)
  \/ ReadEnter(t) \/ Validate(t) \/ Read(t)

(* Every thread has used up its bound of calls. *)
Finished == (\A t \in Threads : At(t, "idle") /\ frame[t].n = MaxCalls) /\ UNCHANGED vars

Next == (\E t \in Threads : Begin(t) \/ Run(t)) \/ Finished

Spec == Init /\ [][Next]_vars

(* The interpreter schedules every thread; every call into wirelog returns. *)
FairSpec == Spec /\ \A t \in Threads : WF_vars(Run(t))

-----------------------------------------------------------------------------
(* PROPERTIES *)

(* The registrations Python still refers to: from _REGISTRY, or from a     *)
(* register_adapter that has not recorded its own yet.                     *)
Alive(id) ==
  \/ \E s \in Schemes : registry[s] = id
  \/ \E t \in Threads : pc[t] \in {"in_register", "record"} /\ id = Me(t)

(* The module docstring: "keeps every piece of state alive for the lifetime *)
(* of the registration".  wirelog never has a pointer to an adapter whose   *)
(* trampolines may be collected, whoever registers and unregisters.         *)
AdaptersKeptAlive == \A s \in Schemes : adapters[s] # NoId => Alive(adapters[s])

(* _Registration: it outlives the call to wirelog_io_unregister_adapter.   *)
(* wirelog is never inside a trampoline that may be collected.             *)
NoCallIntoCollected ==
  \A t \in Threads : pc[t] \in {"in_validate", "in_read"} => Alive(frame[t].adapter)

(* When nobody is inside a call, Python and wirelog agree on the schemes,  *)
(* also after calls that failed half way.                                  *)
RegistriesAgree == (\A t \in Threads : At(t, "idle")) => registry = adapters

(* A read that could not deliver its rows is never taken for one that had  *)
(* none, and what is delivered is complete.                                *)
FailedReadsReported ==
  \A r \in reads : /\ r.status = 0 => r.rows \in {"empty", "good"}
                   /\ r.given => r.rows = "good"

(* Every call comes to an end: no way out of unregister_adapter keeps the  *)
(* lock, which is not re-entrant.                                          *)
EveryCallReturns == \A t \in Threads : ~At(t, "idle") ~> At(t, "idle")
================================================================================
