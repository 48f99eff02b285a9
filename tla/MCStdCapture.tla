----------------------------- MODULE MCStdCapture -----------------------------
(* An instance of StdCapture: both threads capture, and one of them prints, *)
(* inside its capture and outside.                                          *)
EXTENDS StdCapture, TLC

CONSTANTS t1, t2

Inside == t1 :> 2 @@ t2 :> 0
Beside == t1 :> 1 @@ t2 :> 0
================================================================================
