--------------------------- MODULE MCStockLedger ---------------------------
(***************************************************************************)
(* StockLedger on small instances.                                         *)
(***************************************************************************)
EXTENDS StockLedger, TLC

CONSTANT cake  \* the option sold

L(option, qty, use) == [option |-> option, qty |-> qty, use |-> use]
F(source, lines) == [source |-> source, lines |-> lines]

\* Orders whose lines take from stock, each option on one line.
StockedForms == {F("pos", <<L(cake, 2, "unset")>>), F("online", <<L(cake, 1, "yes")>>)}
StockedLineLists == {<<L(cake, 1, "yes")>>, <<L(cake, 2, "yes")>>}

CounterForms == {F("pos", <<L(cake, 1, "unset")>>)}
UnstockedForms == {F("online", <<L(cake, 1, "unset")>>)}
NoLineLists == {}
OneLineLists == {<<L(cake, 1, "unset")>>}

\* The instance that the theorems of StockLedger_proofs are about.
ASSUME OrderlyInstance ==
  /\ Forms = StockedForms /\ LineLists = StockedLineLists
  /\ Practices = {} /\ BaseOptions = {} /\ Cardinality(Workers) = 1
  => OrderlyShop

\* The orders are interchangeable.
OrderSymmetry == Permutations(Orders)

=============================================================================
