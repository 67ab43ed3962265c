------------------------------ MODULE Delegate ------------------------------
(***************************************************************************)
(* What a WorkerDelegate's run() promises to the thread that calls it: it  *)
(* returns a parameter map, or an interruption requested meanwhile unwinds *)
(* it and ends the thread, or the process goes down.  Module Worker uses a *)
(* delegate through these steps only.                                      *)
(***************************************************************************)
CONSTANT Outcomes   \* what run() may return

VARIABLES
    at,       \* "out", "run", "unwind", "returned" or "interrupted"
    intr,     \* the calling thread's interruption request
    outcome,  \* the returned map
    alive     \* the process has not gone down

vars == <<at, intr, outcome, alive>>

Init == at = "out" /\ intr = FALSE /\ outcome \in Outcomes /\ alive = TRUE

Call ==
    /\ alive /\ at = "out"
    /\ at' = "run"
    /\ UNCHANGED <<intr, outcome, alive>>

\* Somebody cancels the worker or destroys it.
Interrupt ==
    /\ alive
    /\ intr' = TRUE
    /\ UNCHANGED <<at, outcome, alive>>

Return ==
    /\ alive /\ at = "run"
    /\ at' = "returned"
    /\ outcome' \in Outcomes
    /\ UNCHANGED <<intr, alive>>

\* The request is consumed where the exception is thrown.
Unwind ==
    /\ alive /\ at = "run" /\ intr
    /\ at' = "unwind"
    /\ intr' = FALSE
    /\ UNCHANGED <<outcome, alive>>

Leave ==
    /\ alive /\ at = "unwind"
    /\ at' = "interrupted"
    /\ UNCHANGED <<intr, outcome, alive>>

\* At any time after the call, even when it is over.
Terminate ==
    /\ alive /\ at # "out"
    /\ alive' = FALSE
    /\ UNCHANGED <<at, intr, outcome>>

Next == Call \/ Interrupt \/ Return \/ Unwind \/ Leave \/ Terminate

Spec == Init /\ [][Next]_vars
=============================================================================
