--------------------------- MODULE MCOperatorEdits ---------------------------
(* Instances of OperatorEdits for TLC. *)
EXTENDS OperatorEdits
==============================================================================
