-------------------------- MODULE SingleCallerEngine --------------------------
(***************************************************************************)
(* What docs/semantics/threading.md promises the C engine about one        *)
(* session: the single-caller invariant, and no call after it is freed.    *)
(***************************************************************************)
CONSTANTS Threads

VARIABLES
  callers,   \* threads inside the engine on this session's handle
  alive      \* the memory behind the handle has not been freed

Init == callers = {} /\ alive = TRUE

Enter(t) == alive /\ callers = {} /\ callers' = {t} /\ UNCHANGED alive

Leave(t) == callers = {t} /\ callers' = {} /\ UNCHANGED alive

(* wirelog_easy_close returns *)
Free(t) == alive /\ callers = {t} /\ callers' = {} /\ alive' = FALSE

Next == \E t \in Threads : Enter(t) \/ Leave(t) \/ Free(t)

Spec == Init /\ [][Next]_<<callers, alive>>
================================================================================
