----------------------------- MODULE Purchases -----------------------------
(***************************************************************************)
(* What the payment path promises of one checkout session: once Stripe     *)
(* holds the money, the owner is granted the product at most once and is   *)
(* then sent at most one receipt, and neither happens before payment.      *)
(* Payments.tla, the code's threads, files and tables, implements it.      *)
(***************************************************************************)
EXTENDS Naturals

CONSTANT Sessions

VARIABLES
    paid,       \* sessions Stripe has completed
    grants,     \* grants[s]: how many times s has been turned into access
    receipts    \* receipts[s]: how many receipts were handed to the mailer

vars == <<paid, grants, receipts>>

Init ==
    /\ paid = {}
    /\ grants = [s \in Sessions |-> 0]
    /\ receipts = [s \in Sessions |-> 0]

Pay(s) ==
    /\ s \notin paid
    /\ paid' = paid \cup {s}
    /\ UNCHANGED <<grants, receipts>>

Grant(s) ==
    /\ s \in paid
    /\ grants[s] = 0
    /\ grants' = [grants EXCEPT ![s] = 1]
    /\ UNCHANGED <<paid, receipts>>

Notify(s) ==
    /\ grants[s] = 1
    /\ receipts[s] = 0
    /\ receipts' = [receipts EXCEPT ![s] = 1]
    /\ UNCHANGED <<paid, grants>>

Next == \E s \in Sessions : Pay(s) \/ Grant(s) \/ Notify(s)

Spec == Init /\ [][Next]_vars
=============================================================================
