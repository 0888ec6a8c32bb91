----------------------------- MODULE MCExpenses -----------------------------
(***************************************************************************)
(* Expenses on small instances.                                            *)
(***************************************************************************)
EXTENDS ExpenseRepair, TLC

Symmetries == Permutations(Workers) \union Permutations(Events)

=============================================================================
