----------------------------- MODULE StockLedger -----------------------------
(***************************************************************************)
(* The accounts of BakeryStock: what orders hold, what they oversold, and  *)
(* the refinement of StockPosition.  These hold of an OrderlyShop: one     *)
(* that serves one request at a time and keeps to certain practices.       *)
(***************************************************************************)
EXTENDS BakeryStock, FiniteSetsExt

Total(movements) == SumFunctionOnSet([m \in movements |-> m.qty], movements)

OfOption(S, b) == {m \in S : m.option = b}

\* What order o took of option b by its sales and has not given back.
HeldBy(o, b) ==
  -Total(OfOption(MovementsOf(db, o, "sale")
                  \union MovementsOf(db, o, "restore_sale"), b))

Ordered(o, b) ==
  LET lines == db.orders[o].lines
  IN  SumFunctionOnSet([k \in DOMAIN lines |-> lines[k].qty],
                       {k \in DOMAIN lines : lines[k].option = b})

\* What order o sold of option b without having it.
OversoldBy(o, b) == -Total(OfOption(MovementsOf(db, o, "negative_sale"), b))

OutstandingBalance(b) == Total(BalanceRows(db, b))

Live == {"confirmed", "in_progress", "ready", "delivered", "completed"}

-----------------------------------------------------------------------------
(***************************************************************************)
(* The shop.  An option is on one line of an order; every line takes from  *)
(* stock; no order is reopened, stepped back, moved past confirmed or      *)
(* edited once oversold, nor confirmed when its stock is missing; options  *)
(* have a price chip, so that their balance has one row.                   *)
(***************************************************************************)
Stocked(source, line) ==
  line.use = "yes" \/ (line.use = "unset" /\ source \in CounterSources)

OneLineEach(lines) ==
  \A j, k \in DOMAIN lines : lines[j].option = lines[k].option => j = k

OrderlyForm(form) ==
  /\ \A k \in DOMAIN form.lines : Stocked(form.source, form.lines[k])
  /\ OneLineEach(form.lines)

OrderlyShop ==
  /\ \A v, w \in Workers : v = w
  /\ Practices = {}
  /\ BaseOptions = {}
  /\ IsFiniteSet(Orders)
  /\ \A form \in Forms : OrderlyForm(form)
  /\ \A lines \in LineLists :
       OneLineEach(lines) /\ \A k \in DOMAIN lines : lines[k].use = "yes"

-----------------------------------------------------------------------------
(***************************************************************************)
(* An order in production or handed over has taken from stock exactly the  *)
(* lines it lists now, once; an order that is new or cancelled holds       *)
(* nothing.                                                                *)
(***************************************************************************)
OrdersHoldTheirLines ==
  \A o \in Orders, b \in Options :
    HeldBy(o, b) = IF db.orders[o].status \in Live THEN Ordered(o, b) ELSE 0

(***************************************************************************)
(* The negative balance of an option is what live orders oversold of it:   *)
(* each oversold unit is owed once, until its order gives it back.         *)
(***************************************************************************)
BalanceIsOwedByOrders ==
  \A b \in Options :
    OutstandingBalance(b) =
      SumFunctionOnSet([o \in Orders |-> OversoldBy(o, b)],
                       {o \in Orders : db.orders[o].status \in Live})

(***************************************************************************)
(* The shelf holds what restocks, wastes and adjustments left of it, less  *)
(* the items that live orders consumed: an order that is cancelled puts    *)
(* back what it took from the lots, and nothing else.                      *)
(***************************************************************************)
StockIsConserved ==
  \A b \in Options :
    AvailableQuantity(db, b) =
      Total(OfOption({m \in db.movements : m.ref = NoRef}, b))
      - SumFunctionOnSet([m \in db.movements |-> Cardinality(ConsumedBy(db, m))],
                         {m \in OfOption(db.movements, b) :
                            m.type = "sale" /\ db.orders[m.ref].status # "cancelled"})

(***************************************************************************)
(* At most one sale is deducted for each line of an order: what            *)
(* auto_decrement_stock calls idempotent.                                  *)
(***************************************************************************)
DeductedOnce ==
  \A o \in Orders :
    Cardinality(MovementsOf(db, o, "sale")) <= Len(db.orders[o].lines)

(***************************************************************************)
(* An option has one negative_balance row, which counts what it oversold.  *)
(***************************************************************************)
OneBalancePerOption == \A b \in Options : Cardinality(BalanceRows(db, b)) <= 1

(***************************************************************************)
(* Editing an order leaves the balance of an option no larger than what    *)
(* orders now owe: its deficit was given back before it was taken again.   *)
(***************************************************************************)
EditGivesBackTheBalance ==
  \A b \in Options :
    OutstandingBalance(b) <=
      SumFunctionOnSet([o \in Orders |-> OversoldBy(o, b)], Orders)

-----------------------------------------------------------------------------
Position ==
  INSTANCE StockPosition WITH
    net <- [b \in Options |-> NetAvailableQuantity(db, b)],
    held <- [o \in Orders |-> [b \in Options |-> HeldBy(o, b)]]

(***************************************************************************)
(* Every commit moves net_available_quantity by what a stock request       *)
(* brought in or took out, or by exactly what one order came to hold more  *)
(* or less of.                                                             *)
(***************************************************************************)
ImplementsStockPosition == Position!Spec

=============================================================================
