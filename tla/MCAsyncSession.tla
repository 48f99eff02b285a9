---------------------------- MODULE MCAsyncSession ----------------------------
(* Instances of AsyncSession: what each task does with the proxy. *)
EXTENDS AsyncSession, TLC

CONSTANTS main, helper

Bounds == (main :> 3) @@ (helper :> 2)

(* Both tasks step; the helper feeds them, and may close the pool under the *)
(* owner.                                                                   *)
SharedCalls ==
  (main :> {"insert", "step", "preview_inline_facts"}) @@
  (helper :> {"insert", "step", "snapshot", "aclose"})
================================================================================
