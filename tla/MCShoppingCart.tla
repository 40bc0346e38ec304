--------------------------- MODULE MCShoppingCart ---------------------------
(* Small instances of ShoppingCart for TLC.                                *)
EXTENDS ShoppingCart
=============================================================================
