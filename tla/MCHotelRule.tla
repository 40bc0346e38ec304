---------------------------- MODULE MCHotelRule ----------------------------
(* Instances of HotelRule for TLC, and its properties.                     *)
EXTENDS HotelRule, TLC

Symmetry == Permutations(Nodes) \cup Permutations(RuleIds)
=============================================================================
