------------------------------ MODULE MCGroupPlan ------------------------------
(***************************************************************************)
(* Symmetry for checking GroupPlan.                                        *)
(***************************************************************************)
EXTENDS GroupPlanProps, TLC

\* Forms, clients and lines are interchangeable, and so are groups that are
\* not manual.
Symmetric ==
    Permutations(Editor) \cup Permutations(Client) \cup Permutations(Line)
        \cup Permutations(Group \ Manual)
=============================================================================
