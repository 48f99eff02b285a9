------------------------------ MODULE MCIOAdapter ------------------------------
(* Instances of IOAdapter: two threads that manage one scheme, and a reader. *)
EXTENDS IOAdapter, TLC

CONSTANTS t1, t2, reader

SharedCalls ==
  [t \in {t1, t2} |-> {"register_adapter", "unregister_adapter"}]
    @@ (reader :> {"load_input_files"})
================================================================================
