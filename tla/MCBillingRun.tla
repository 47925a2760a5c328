------------------------------ MODULE MCBillingRun -----------------------------
(***************************************************************************)
(* Model values and symmetry for checking BillingRun.                      *)
(***************************************************************************)
EXTENDS BillingRunProps, TLC

\* Runs, groups and clicks are interchangeable (groups only where no group is
\* singled out as carrying a placeholder).
Symmetric == Permutations(Run) \cup Permutations(Group) \cup Permutations(Worker)
SymmetricRuns == Permutations(Run) \cup Permutations(Worker)
=============================================================================
