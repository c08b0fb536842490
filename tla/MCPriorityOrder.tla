-------------------------- MODULE MCPriorityOrder --------------------------
(* The hybrid instance of TeddySched with the history of the walks. *)
EXTENDS MCTeddySched, PriorityOrder
=============================================================================
