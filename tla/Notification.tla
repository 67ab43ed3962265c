---------------------------- MODULE Notification ----------------------------
(***************************************************************************)
(* What an application relies on when it uses the background worker of     *)
(* HTTP-Background: an object that asked for a request in the background   *)
(* is called back once, with $completed or $canceled, unless it withdraws  *)
(* by being destroyed first.                                               *)
(***************************************************************************)
CONSTANT Objects

VARIABLES asked,      \* objects whose request is unanswered
          answering   \* objects inside the callback that answers them

vars == <<asked, answering>>

TypeOK == asked \subseteq Objects /\ answering \subseteq Objects

Init == asked = {} /\ answering = {}

\* $start.
Ask(o) ==
    /\ o \notin asked \cup answering
    /\ asked' = asked \cup {o}
    /\ UNCHANGED answering

\* The object is destroyed before it is answered.
Withdraw(o) ==
    /\ o \in asked
    /\ asked' = asked \ {o}
    /\ UNCHANGED answering

\* $completed or $canceled is called; one callback at a time.
Answer(o) ==
    /\ o \in asked
    /\ answering = {}
    /\ asked' = asked \ {o}
    /\ answering' = {o}

\* The callback returns.
Finish(o) ==
    /\ o \in answering
    /\ answering' = answering \ {o}
    /\ UNCHANGED asked

Next == \E o \in Objects : Ask(o) \/ Withdraw(o) \/ Answer(o) \/ Finish(o)

Spec == Init /\ [][Next]_vars
=============================================================================
