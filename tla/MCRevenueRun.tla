------------------------------ MODULE MCRevenueRun -----------------------------
(***************************************************************************)
(* Symmetry for checking RevenueRun: runs, projects and planners are       *)
(* interchangeable.                                                        *)
(***************************************************************************)
EXTENDS RevenueRunProps, TLC

Symmetric == Permutations(Run) \cup Permutations(Project) \cup Permutations(Planner)
=============================================================================
