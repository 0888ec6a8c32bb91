--------------------------- MODULE MCBooksRepair ---------------------------
(***************************************************************************)
(* BooksRepair on small instances: OrderBooks with the repair commands.    *)
(***************************************************************************)
EXTENDS BooksRepair, TLC

BusOrder == [status |-> "new", delivery |-> "bus", fee |-> 1, subtotal |-> 2, total |-> 3]
PickupOrder == [BusOrder EXCEPT !.delivery = "pickup", !.fee = 0, !.total = 2]

Fee(n) == [column \in {"fee"} |-> n]
Subtotal(n) == [column \in {"subtotal"} |-> n]
Delivery(type) == [column \in {"delivery"} |-> type]

FeePatches == {Fee(1), Fee(2), Subtotal(1)}
RacePatches == {Fee(2), Delivery("pickup")}

WorkerSymmetry == Permutations(Workers)

=============================================================================
