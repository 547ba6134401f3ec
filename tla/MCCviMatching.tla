---------------------------- MODULE MCCviMatching ----------------------------
(* Instances of CviMatching for TLC. *)
EXTENDS CviMatching, TLC

\* Places in a row; a box overlaps with those next to it.
Adjacent == {p \in Boxes \X Boxes : p[1] - p[2] \in -1 .. 1}

\* Any two vehicles may look alike.
AllAlike == Vehicles \X Vehicles

Symmetry == Permutations(Cvis) \cup Permutations(Vehicles) \cup Permutations(Tracks)
===============================================================================
