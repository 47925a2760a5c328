------------------------------ MODULE MCAssistant ------------------------------
(***************************************************************************)
(* One chat turn of the registry's shape: the front door only delegates,   *)
(* one agent has tools of its own, one has none.                           *)
(***************************************************************************)
EXTENDS AssistantProps, TLC

CONSTANTS p1, p2, t1, chief, ops, bdr

MCBatches == [v \in Version |-> IF v = "proposed" THEN 2 ELSE 1]
MCTools == (chief :> {"ask_agent"}) @@ (ops :> {"data"}) @@ (bdr :> {})
MCDelegates == (chief :> {ops, bdr}) @@ (ops :> {}) @@ (bdr :> {})
MCLevel == (chief :> 1) @@ (ops :> 0) @@ (bdr :> 0)
=============================================================================
