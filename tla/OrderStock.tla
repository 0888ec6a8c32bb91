----------------------------- MODULE OrderStock -----------------------------
(***************************************************************************)
(* What an order does to the stock tables:                                 *)
(* src/baker/services/order_stock.py.  The three services are loops over   *)
(* the order's lines or over its movements; each operator below is one     *)
(* iteration (or one statement before or after the loop), and BakeryStock  *)
(* runs the loops inside a write transaction.                              *)
(*                                                                         *)
(* The database has two more fields here:                                  *)
(*   movements  set of [id, type, option, qty, ref]: stock_movements       *)
(*   orders     for each order, [status, source, lines], a line being      *)
(*              [option, qty, use]: the display-product (trung_bay),       *)
(*              non-gift order_items, in the order they are read; use is   *)
(*              the line's useInventory attribute                          *)
(***************************************************************************)
EXTENDS InventoryFifo

CONSTANT Orders

\* reference_id of the movements that belong to no order.
NoRef == "none"

ASSUME OrdersAssumption == NoRef \notin Orders

MovementType ==
  {"sale", "negative_sale", "restore_sale", "restock", "waste", "adjustment"}

Movement == [id : Nat, type : MovementType, option : Options, qty : Int,
             ref : Orders \union {NoRef}]

\* Sources whose orders consume stock by default, and may oversell it.
CounterSources == {"pos", "reconciliation"}
Sources == CounterSources \union {"online"}

Line == [option : Options, qty : Nat \ {0}, use : {"unset", "yes", "no"}]

-----------------------------------------------------------------------------
MovementsOf(d, o, type) == {m \in d.movements : m.ref = o /\ m.type = type}

OrderSaleWasDeducted(d, o) == MovementsOf(d, o, "sale") # {}

LogMovement(d, type, b, q, ref) ==
  [d EXCEPT
     !.lastMovement = @ + 1,
     !.movements = @ \union {[id |-> d.lastMovement + 1, type |-> type,
                              option |-> b, qty |-> q, ref |-> ref]}]

-----------------------------------------------------------------------------
(***************************************************************************)
(* auto_decrement_stock: one line of the order.                            *)
(***************************************************************************)
AllowNegative(d, o) == d.orders[o].source \in CounterSources

ShouldConsumeFifo(d, o, line) ==
  \/ line.use = "yes"
  \/ line.use = "unset" /\ d.orders[o].source \in CounterSources

LineDeficit(d, o, line) ==
  IF ShouldConsumeFifo(d, o, line) THEN Deficit(d, line.option, line.qty) ELSE 0

\* consume_fifo_items raises, after it has consumed what there was.
LineRaises(d, o, line) == LineDeficit(d, o, line) > 0 /\ ~AllowNegative(d, o)

\* The 'sale' movement is written whether or not stock is consumed.
SellLine(d, o, line) ==
  LET sold == LogMovement(d, "sale", line.option, -line.qty, o)
  IN  IF ShouldConsumeFifo(d, o, line)
      THEN ConsumeFifoItems(sold, line.option, line.qty, sold.lastMovement)
      ELSE sold

OversellLine(d, o, line, deficit) ==
  UpsertNegativeBalance(
    LogMovement(d, "negative_sale", line.option, -deficit, o),
    line.option, deficit)

\* What a line leaves in the database, raised or not.
DeductLine(d, o, line) ==
  LET deficit == LineDeficit(d, o, line)
      sold == SellLine(d, o, line)
  IN  IF deficit > 0 /\ AllowNegative(d, o)
      THEN OversellLine(sold, o, line, deficit)
      ELSE sold

-----------------------------------------------------------------------------
(***************************************************************************)
(* reverse_order_stock_for_edit, for an order that has a sale movement:    *)
(* un-consume the items of its sales, add each oversold quantity to the    *)
(* balance, delete the movements.                                          *)
(***************************************************************************)
ConsumedBySales(d, o) ==
  LET sales == {m.id : m \in MovementsOf(d, o, "sale")}
  IN  {i \in DOMAIN d.items : d.items[i].by \in sales \ {NoMovement}}

\* Mutant: the lots do not get their counts back.
ReleaseItemsOnly(d, S) ==
  [d EXCEPT
     !.items = [i \in DOMAIN d.items |->
                  IF i \in S THEN [d.items[i] EXCEPT !.by = NoMovement]
                  ELSE d.items[i]]]

ReleaseItems(d, S) ==
  [d EXCEPT
     !.items = [i \in DOMAIN d.items |->
                  IF i \in S THEN [d.items[i] EXCEPT !.by = NoMovement]
                  ELSE d.items[i]],
     !.lots = [l \in DOMAIN d.lots |->
                 [d.lots[l] EXCEPT !.remaining =
                    @ + Cardinality({i \in S : d.items[i].lot = l})]]]

ReleaseSales(d, o) == ReleaseItems(d, ConsumedBySales(d, o))

\* qty = qty + deficit, as the code has it.
ReverseNegativeSale(d, m) ==
  IF m.qty < 0 THEN AddToBalance(d, m.option, -m.qty) ELSE d

DeleteSales(d, o) ==
  [d EXCEPT !.movements = @ \ {m \in @ : /\ m.ref = o
                                         /\ m.type \in {"sale", "negative_sale"}}]

-----------------------------------------------------------------------------
(***************************************************************************)
(* restore_stock_for_order: one sale movement.                             *)
(***************************************************************************)
AlreadyRestored(d, o, m) ==
  \E r \in MovementsOf(d, o, "restore_sale") : r.option = m.option

\* The oversold part of sale m: the first negative_sale row of its option.
OversoldOf(d, o, m) ==
  LET rows == {n \in MovementsOf(d, o, "negative_sale") : n.option = m.option}
  IN  IF rows = {} THEN 0 ELSE -(CHOOSE n \in rows : ById(n, rows)).qty

\* Every row of the option is reduced, then those at zero are deleted.
ReduceNegativeBalance(d, b, k) ==
  LET reduced == AddToBalance(d, b, -k)
  IN  [reduced EXCEPT !.negative = {r \in @ : r.option # b \/ r.qty > 0}]

\* Mutant: the oversold part comes back as stock.
RestoreWholeSale(d, o, m, deficit) ==
  CreateLotWithItems(LogMovement(d, "restore_sale", m.option, -m.qty, o),
                     m.option, -m.qty)

\* Mutant: the oversold part comes back as stock and off the balance too.
RestoreSaleTwice(d, o, m, deficit) ==
  LET restored == RestoreWholeSale(d, o, m, deficit)
  IN  IF deficit > 0 THEN ReduceNegativeBalance(restored, m.option, deficit)
      ELSE restored

RestoreSale(d, o, m, deficit) ==
  LET logged == LogMovement(d, "restore_sale", m.option, -m.qty, o)
      returned == -m.qty - deficit
      stocked == IF returned > 0
                 THEN CreateLotWithItems(logged, m.option, returned) ELSE logged
  IN  IF deficit > 0 THEN ReduceNegativeBalance(stocked, m.option, deficit)
      ELSE stocked

=============================================================================
