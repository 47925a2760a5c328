------------------------------- MODULE MCChatTurn ------------------------------
(***************************************************************************)
(* Symmetry for checking ChatTurn: posts, sessions and processes are       *)
(* interchangeable.                                                        *)
(***************************************************************************)
EXTENDS ChatTurnProps, TLC

Symmetric == Permutations(Turn) \cup Permutations(Session) \cup Permutations(Process)
=============================================================================
