---------------------------- MODULE MCPenaltyCards ----------------------------
(* Instances of PenaltyCards for TLC. *)
EXTENDS PenaltyCards
===============================================================================
