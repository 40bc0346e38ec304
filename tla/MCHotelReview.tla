---------------------------- MODULE MCHotelReview ----------------------------
(* Instances of HotelReview for TLC, and its properties.                   *)
EXTENDS HotelReview, TLC

Symmetry == Permutations(Reviewers)
=============================================================================
