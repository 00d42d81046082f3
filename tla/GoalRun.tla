------------------------------ MODULE GoalRun ------------------------------
(***************************************************************************)
(* What the harness promises of one run after another: a run makes a       *)
(* bounded number of attempts, each attempt is judged at most once, the    *)
(* run completes only on an attempt judged PASS once the least number of   *)
(* attempts is made, and otherwise it is given up or crashes.              *)
(***************************************************************************)
EXTENDS Naturals

CONSTANTS
    Limit,      \* attempts a run may make
    Least       \* attempts a run must make before it may complete

VARIABLES
    attempts,   \* attempts made by the run
    verdict,    \* of the latest attempt
    outcome     \* what became of the run

goalVars == <<attempts, verdict, outcome>>

Init ==
    /\ attempts = 0
    /\ verdict = "NONE"
    /\ outcome = "idle"

Start ==
    /\ outcome # "running"
    /\ outcome' = "running"
    /\ attempts' = 0
    /\ verdict' = "NONE"

Attempt ==
    /\ outcome = "running"
    /\ attempts < Limit
    /\ attempts' = attempts + 1
    /\ verdict' = "NONE"
    /\ UNCHANGED outcome

Judge ==
    /\ outcome = "running"
    /\ attempts > 0
    /\ verdict = "NONE"
    /\ verdict' \in {"PASS", "FAIL"}
    /\ UNCHANGED <<attempts, outcome>>

Complete ==
    /\ outcome = "running"
    /\ verdict = "PASS"
    /\ attempts >= Least
    /\ outcome' = "COMPLETE"
    /\ UNCHANGED <<attempts, verdict>>

\* The run ends without completing, at any point.
GiveUp ==
    /\ outcome = "running"
    /\ outcome' \in {"ABORT", "crashed"}
    /\ UNCHANGED <<attempts, verdict>>

Next == Start \/ Attempt \/ Judge \/ Complete \/ GiveUp

Spec == Init /\ [][Next]_goalVars

\* A run does not go on for ever.
Ends == outcome = "running" ~> outcome # "running"
=============================================================================
