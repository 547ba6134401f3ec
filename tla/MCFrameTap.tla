------------------------------ MODULE MCFrameTap ------------------------------
(* Instances of FrameTap for TLC. *)
EXTENDS FrameTap

CONSTANTS a, b, c
Two == <<a, b>>
Three == <<a, b, c>>
===============================================================================
