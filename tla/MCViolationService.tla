-------------------------- MODULE MCViolationService --------------------------
(* Instances of ViolationService for TLC. *)
EXTENDS ViolationService, TLC

\* cvi_ids are interchangeable; sound for the safety properties.
CviSymmetry == Permutations(Cvis)

\* So are zone ids, where any of them may be the one that is enabled.
ZoneSymmetry == Permutations(Zones)
===============================================================================
