---------------------------- MODULE MCStockCount ----------------------------
(***************************************************************************)
(* StockCount on small instances.  Orders are taken by CHOOSE and are no   *)
(* symmetry set.                                                           *)
(***************************************************************************)
EXTENDS StockCount, TLC

ClerkSymmetry == Permutations(Clerks)

=============================================================================
