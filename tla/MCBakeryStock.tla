--------------------------- MODULE MCBakeryStock ---------------------------
(***************************************************************************)
(* BakeryStock on small instances.                                         *)
(***************************************************************************)
EXTENDS BakeryStock, TLC

CONSTANTS cake, bread  \* two options

L(option, qty, use) == [option |-> option, qty |-> qty, use |-> use]
F(source, lines) == [source |-> source, lines |-> lines]

AnyForms == {F("pos", <<L(cake, 2, "unset")>>), F("online", <<L(bread, 1, "yes")>>)}
AnyLineLists == {<<L(cake, 1, "unset")>>, <<L(bread, 1, "yes"), L(bread, 1, "no")>>}

\* Workers are interchangeable; only safety is checked with this.
WorkerSymmetry == Permutations(Workers)

=============================================================================
