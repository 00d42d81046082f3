--------------------------- MODULE MCJobRegistry ---------------------------
(***************************************************************************)
(* An instance of JobRegistry: two callers, a goal job that requires       *)
(* approval and one kind or another beside it.                             *)
(***************************************************************************)
EXTENDS JobRegistry, TLC

CONSTANTS g1, p1, c1, c2

MCKindOf == g1 :> "harness_goal" @@ p1 :> "meta_publish"

\* the callers are alike
Symmetry == Permutations(Callers)
=============================================================================
