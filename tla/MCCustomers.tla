---------------------------- MODULE MCCustomers ----------------------------
(***************************************************************************)
(* Customers on small instances.                                           *)
(***************************************************************************)
EXTENDS Customers

Symmetry == Permutations(Workers) \union Permutations(Phones)

=============================================================================
