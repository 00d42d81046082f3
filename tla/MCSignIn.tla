------------------------------ MODULE MCSignIn ------------------------------
(* Small instances of SignIn.  One lets two owners claim one project, the   *)
(* other lets one address collect challenges and guesses.  The lifetimes    *)
(* keep their order in both: the code dies before its link.                 *)
EXTENDS SignIn, TLC

CONSTANTS e1, e2, p1, t1, t2

MCEmails == {e1, e2}
MCOneEmail == {e1}
MCProjects == {p1}
MCNoProjects == {}
MCThreads == {t1, t2}
Requests == Permutations(MCThreads)
RequestsAndOwners == Requests \cup Permutations(MCEmails)
=============================================================================
