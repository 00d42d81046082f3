----------------------------- MODULE MCPayments -----------------------------
(* Small instances of Payments: one owner who subscribes twice to the      *)
(* advisor pilot, with one pool thread or two racing the webhook.          *)
EXTENDS Payments, TLC

CONSTANTS o1, report, advisor, s1, s2, t1, t2

MCOwners == {o1}
MCOneTime == {report}
MCRecurring == {advisor}
MCSessions == {s1, s2}
MCOwnerOf == s1 :> o1 @@ s2 :> o1
MCTwoSubscriptions == s1 :> advisor @@ s2 :> advisor
MCPool == {t1}
MCTwoThreads == {t1, t2}

\* Two sessions of one owner for one product are interchangeable.
MCSame == Permutations(MCSessions)
=============================================================================
