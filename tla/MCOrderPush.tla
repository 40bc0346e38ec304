---------------------------- MODULE MCOrderPush ----------------------------
(* Small instances of OrderPush for TLC.                                   *)
EXTENDS OrderPush
=============================================================================
