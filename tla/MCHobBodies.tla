----------------------------- MODULE MCHobBodies -----------------------------
(***************************************************************************)
(* Small instances of HobBodies: programs of a few bodies and statements.  *)
(* No action distinguishes loop names or local names.                      *)
(***************************************************************************)
EXTENDS HobBodiesRefines

Symmetry == Permutations(LoopNames) \cup Permutations(DeclNames)
=============================================================================
