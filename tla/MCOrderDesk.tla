---------------------------- MODULE MCOrderDesk ----------------------------
(***************************************************************************)
(* OrderDesk on small instances.                                           *)
(***************************************************************************)
EXTENDS OrderDesk, TLC

\* A cake that is paid for, and one given away.
Cake == [kind |-> "main", amount |-> 1]
Candle == [kind |-> "gift", amount |-> 1]

P(forms, fee, holder) == [items |-> forms, fee |-> fee, holder |-> holder]

TwoForms == {Cake, Candle}
TwoLists == {<<Cake>>, <<Cake, Candle>>}
DeskPatches == {P(<<Cake>>, Same, Same), P(Same, 1, Same)}

NoForms == {}
EmptyList == {<<>>}
NoPatches == {}

WorkerSymmetry == Permutations(Workers)

=============================================================================
