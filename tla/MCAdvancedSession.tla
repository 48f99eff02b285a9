--------------------------- MODULE MCAdvancedSession ---------------------------
(* Instances of AdvancedSession: which calls each thread makes in which run. *)
EXTENDS AdvancedSession, TLC

CONSTANTS t1, t2

AllCalls == [t \in Threads |-> Kinds]
UntypedCalls == [t \in Threads |-> {"insert", "step", "snapshot"}]

(* Both threads close; they alternate the two kinds of callback. *)
ClosingCalls == (t1 :> {"close", "step"})
  @@ (t2 :> {"close", "step_typed", "set_typed_delta_callback", "clear_delta_callback"})
================================================================================
