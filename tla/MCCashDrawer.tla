---------------------------- MODULE MCCashDrawer ----------------------------
(***************************************************************************)
(* CashDrawer on small instances.                                          *)
(***************************************************************************)
EXTENDS CashDrawer, TLC

WorkerSymmetry == Permutations(Workers)

=============================================================================
