---------------------------- MODULE MCBillConfirm ----------------------------
(* Small instances of BillConfirm for TLC.                                 *)
EXTENDS BillConfirm, TLC

\* Users differ in nothing.
Symmetry == Permutations(Users)
=============================================================================
