--------------------------------- MODULE MCDraws --------------------------------
(***************************************************************************)
(* Symmetry for checking Draws: draws and clicks are interchangeable.      *)
(***************************************************************************)
EXTENDS DrawsProps, TLC

Symmetric == Permutations(Draw) \cup Permutations(Click) \cup Permutations(Terms)
=============================================================================
