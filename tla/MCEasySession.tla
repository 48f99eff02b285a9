----------------------------- MODULE MCEasySession -----------------------------
(* Instances of EasySession: which calls each thread makes in which run. *)
EXTENDS EasySession, TLC

CONSTANTS t1, t2

Everyone(kinds) == [t \in Threads |-> kinds]
Pair(first, second) == (t1 :> first) @@ (t2 :> second)

(* Calls whose entries into the engine are all guarded by the lock, without *)
(* set_delta_callback(None): ClearAndClose is about that one.               *)
LockedCalls ==
  Everyone({"insert_int", "insert_with_dedupe_int", "intern", "step", "snapshot",
            "set_delta_callback", "close"})

(* One thread makes every kind of call, the other one interns beside it. *)
AllBesideIntern == Pair(Kinds, {"intern"})

(* The calls of the example in threading.md. *)
SymCalls == Everyone({"insert_sym"})

(* What sharing a session breaks besides: the README has, for each of these, *)
(* the property that does not hold.                                         *)
CompoundAndClose == Pair({"make_compound"}, {"close"})
DedupeStr == Everyone({"insert_with_dedupe_str"})
DedupeStrAndClose == Pair({"insert_with_dedupe_str"}, {"close"})
PreviewAndClose == Pair({"preview_inline_facts"}, {"close"})
StepAndSnapshot == Pair({"step"}, {"snapshot"})
TwoSteppers == Pair({"step", "insert_int"}, {"step"})
StepAndInsert == Pair({"step"}, {"insert_int"})
StepAndInsertSym == Pair({"step"}, {"insert_sym"})
ClearAndClose == Pair({"set_delta_callback", "clear_delta_callback"}, {"close"})
================================================================================
