----------------------------- MODULE MCAsyncBatch -----------------------------
(* Instances of AsyncBatch: what each task does with the proxy. *)
EXTENDS AsyncBatch, TLC

CONSTANTS main, helper

Bounds == [t \in Tasks |-> 3]

(* Both tasks evaluate; the helper closes the pool under the owner. *)
SharedCalls == (main :> {"load", "evaluate"}) @@ (helper :> {"optimize", "evaluate", "aclose"})
EvaluateOnly == [t \in Tasks |-> {"evaluate"}]
================================================================================
