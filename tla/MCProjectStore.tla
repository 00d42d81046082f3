--------------------------- MODULE MCProjectStore ---------------------------
(* A small instance of ProjectStore: three requests, two at a time, on an  *)
(* intake state of two fields that keeps one snapshot.                     *)
EXTENDS ProjectStore, TLC

CONSTANTS r1, r2, r3, f1, f2

MCRequests == {r1, r2, r3}
MCFields == {f1,f2}
MCSame == Permutations(MCRequests) \cup Permutations(MCFields)
=============================================================================
