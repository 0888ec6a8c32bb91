----------------------------- MODULE BakeryStock -----------------------------
(***************************************************************************)
(* The request handlers that move stock, running concurrently over one     *)
(* SQLite database: api/stock.py (restock, waste, adjust), the stock side  *)
(* of api/orders.py (create, edit, status), services/order_lifecycle.py    *)
(* and the order update that api/work_items.py derives from its items.     *)
(*                                                                         *)
(* db/connection.py opens a connection per request and commits when the    *)
(* handler returns.  Python's sqlite3 begins the transaction at the first  *)
(* INSERT, UPDATE or DELETE, so a handler is                               *)
(*   a read phase   SELECTs that each see the committed database and lock  *)
(*                  nothing: a Read action, whose results pending[w] keeps *)
(*   a write phase  from the first write to the commit, alone: a Begin     *)
(*                  action, the loop steps of the services, and Commit or  *)
(*                  Rollback.  Meanwhile the writes are in tx.             *)
(* All SELECTs of a read phase are taken at one instant, and no request    *)
(* reads while a write phase runs: it would read db, which is then what it *)
(* was before that phase began.                                            *)
(***************************************************************************)
EXTENDS OrderStock

CONSTANTS
  Workers,       \* request threads
  Forms,         \* [source, lines] an order can be created with
  LineLists,     \* the lines an edit can give an order
  Targets,       \* the statuses requests ask for
  MaxQty,        \* bound on the quantity of one stock request
  MaxMovements,  \* bound on the movements ever logged, past which none starts
  Practices      \* what the staff do, of AllPractices

(***************************************************************************)
(* Ways of working that the API accepts and a run may rule out:            *)
(*   reopen         moving an order out of cancelled                       *)
(*   step_back      moving an order back to new                            *)
(*   skip_confirm   moving an order past confirmed without confirming it   *)
(*   short_stock    confirming or editing an order whose stock is missing  *)
(*                  and may not be oversold                                *)
(*   edit_oversold  editing an order that was oversold                     *)
(***************************************************************************)
AllPractices ==
  {"reopen", "step_back", "skip_confirm", "short_stock", "edit_oversold"}

Rank == [new |-> 0, confirmed |-> 1, in_progress |-> 2, ready |-> 3,
         delivered |-> 4, completed |-> 5, cancelled |-> 5]
Statuses == DOMAIN Rank

\* An order reference no order has been created with yet.
Absent == [status |-> "absent", source |-> "online", lines |-> <<>>]

ASSUME StockAssumption ==
  /\ Forms \subseteq [source : Sources, lines : Seq(Line)]
  /\ LineLists \subseteq Seq(Line)
  /\ Targets \subseteq Statuses
  /\ MaxQty \in Nat /\ MaxMovements \in Nat
  /\ Practices \subseteq AllPractices

VARIABLES
  db,       \* the committed database
  tx,       \* the database as the writing request sees it
  pending,  \* what each worker's request has read, or Idle
  wr        \* what is left to do of the write phase that runs, or NoWrite

vars == <<db, tx, pending, wr>>

Idle == [op |-> "idle"]
NoWrite == [op |-> "none"]

Init ==
  /\ db = [lots |-> <<>>, items |-> <<>>, negative |-> {}, movements |-> {},
           lastMovement |-> 0, orders |-> [o \in Orders |-> Absent]]
  /\ tx = db
  /\ pending = [w \in Workers |-> Idle]
  /\ wr = NoWrite

-----------------------------------------------------------------------------
LockFree == wr = NoWrite

\* A request that reads nothing before its first write finds a thread and the lock.
Served == LockFree /\ \E w \in Workers : pending[w] = Idle

Room == db.lastMovement < MaxMovements

Exists(o) == db.orders[o].status # "absent"
IsBackward(from, to) == Rank[to] < Rank[from]
SetStatus(d, o, s) == [d EXCEPT !.orders[o].status = s]

\* One statement, or a transaction of its own that the handler completes.
CommitNow(d) == db' = d /\ tx' = d /\ UNCHANGED wr

\* The write phase begins with d; what remains of the handler is w.
BeginWith(d, w) == LockFree /\ tx' = d /\ wr' = w /\ UNCHANGED db

Answered(w) == pending' = [pending EXCEPT ![w] = Idle]

-----------------------------------------------------------------------------
(***************************************************************************)
(* api/stock.py                                                            *)
(***************************************************************************)
RestockProduct(b, q) ==
  /\ Served /\ Room
  /\ CommitNow(LogMovement(CreateLotWithItems(db, b, q), "restock", b, q, NoRef))
  /\ UNCHANGED pending

\* Short of stock, consume_fifo_items raises and the request is undone.
TakeOut(d, type, b, q) ==
  LET logged == LogMovement(d, type, b, -q, NoRef)
  IN  ConsumeFifoItems(logged, b, q, logged.lastMovement)

WasteStock(b, q) ==
  /\ Served /\ Room
  /\ Deficit(db, b, q) = 0
  /\ CommitNow(TakeOut(db, "waste", b, q))
  /\ UNCHANGED pending

ReadAdjust(w, b, target) ==
  /\ LockFree /\ pending[w] = Idle
  /\ pending' = [pending EXCEPT ![w] =
       [op |-> "adjust", option |-> b, delta |-> target - AvailableQuantity(db, b)]]
  /\ UNCHANGED <<db, tx, wr>>

WriteAdjust(w) ==
  LET b == pending[w].option
      delta == pending[w].delta
  IN  /\ pending[w].op = "adjust"
      /\ LockFree /\ Room
      /\ \/ /\ delta >= 0
            /\ CommitNow(LogMovement(
                 IF delta > 0 THEN CreateLotWithItems(db, b, delta) ELSE db,
                 "adjustment", b, delta, NoRef))
         \/ /\ delta < 0
            /\ Deficit(db, b, -delta) = 0
            /\ CommitNow(TakeOut(db, "adjustment", b, -delta))
      /\ Answered(w)

-----------------------------------------------------------------------------
(***************************************************************************)
(* What is left of a write phase: the negative_sale movements to reverse,  *)
(* whether the order's sales are then to be deleted, the lines to deduct,  *)
(* the sales to restore; swallow says whether the handler catches what the *)
(* stock service raises, recheck whether update_status still has to look   *)
(* at the status.                                                          *)
(***************************************************************************)
Nothing(op, o) ==
  [op |-> op, order |-> o, target |-> "new", reason |-> FALSE,
   recheck |-> FALSE, swallow |-> FALSE, negatives |-> {}, forget |-> FALSE,
   lines |-> <<>>, sales |-> {}]

(***************************************************************************)
(* create_order.  A counter sale is created delivered and deducted at      *)
(* once; the call is not wrapped, so a line that raises undoes the order.  *)
(***************************************************************************)
CreateOrder(o, form, status) ==
  /\ ~Exists(o) /\ Served /\ Room
  /\ BeginWith(
       [db EXCEPT !.orders[o] = [status |-> status, source |-> form.source,
                                 lines |-> form.lines]],
       [Nothing("create", o) EXCEPT
          !.lines = IF status = "delivered" THEN form.lines ELSE <<>>])
  /\ UNCHANGED pending

-----------------------------------------------------------------------------
(***************************************************************************)
(* transition_status                                                       *)
(***************************************************************************)
Short(o, lines) == \E k \in DOMAIN lines : LineRaises(db, o, lines[k])

\* What Practices rules out of a request that asks for a status.
Practised(o, target) ==
  LET from == db.orders[o].status IN
  /\ from = "cancelled" /\ target # "cancelled" => "reopen" \in Practices
  /\ from # "new" /\ target = "new" => "step_back" \in Practices
  /\ from = "new" /\ target \notin {"new", "confirmed", "cancelled"}
       => "skip_confirm" \in Practices
  /\ target = "confirmed" /\ Short(o, db.orders[o].lines)
       => "short_stock" \in Practices

\* The order's sales from the first that is not restored yet.
SalesToRestore(d, o) ==
  LET sales == MovementsOf(d, o, "sale")
      due == {m \in sales : ~AlreadyRestored(d, o, m)}
  IN  {m \in sales : \E first \in due : ById(first, due) /\ first.id <= m.id}

(***************************************************************************)
(* A backward move needs a reason.  auto_decrement_stock and               *)
(* restore_stock_for_order both read before their first write: whether a   *)
(* sale exists and the lines, or the sales, the first one's restore_sale   *)
(* and its oversold quantity.  Where they find nothing to write,           *)
(* update_status reads the status too before it writes.                    *)
(***************************************************************************)
ReadStatus(w, o, target, reason) ==
  LET sales == IF target = "cancelled" THEN SalesToRestore(db, o) ELSE {}
  IN
  /\ LockFree /\ pending[w] = Idle
  /\ Exists(o) /\ Practised(o, target)
  /\ IsBackward(db.orders[o].status, target) => reason
  /\ pending' = [pending EXCEPT ![w] =
       [op |-> "status", order |-> o, target |-> target, reason |-> reason,
        lines |-> IF target = "confirmed" /\ ~OrderSaleWasDeducted(db, o)
                  THEN db.orders[o].lines ELSE <<>>,
        sales |-> sales,
        oversold |-> {OversoldOf(db, o, m) : m \in {n \in sales : ById(n, sales)}}]]
  /\ UNCHANGED <<db, tx, wr>>

\* Nothing to do to the stock: the status alone is written.
BeginPlainStatus(w) ==
  LET r == pending[w] IN
  /\ r.op = "status" /\ r.lines = <<>> /\ r.sales = {}
  /\ BeginWith(db, [Nothing("status", r.order) EXCEPT !.target = r.target])
  /\ Answered(w)

BeginDeduct(w) ==
  LET r == pending[w] IN
  /\ r.op = "status" /\ r.lines # <<>> /\ Room
  /\ BeginWith(db, [Nothing("status", r.order) EXCEPT
                      !.target = r.target, !.reason = r.reason, !.recheck = TRUE,
                      !.swallow = TRUE, !.lines = r.lines])
  /\ Answered(w)

\* The first sale is restored by what was read of it.
BeginRestore(w) ==
  LET r == pending[w] IN
  /\ r.op = "status" /\ Room
  /\ \E first \in r.sales, oversold \in r.oversold :
       /\ ById(first, r.sales)
       /\ BeginWith(RestoreSale(db, r.order, first, oversold),
                    [Nothing("status", r.order) EXCEPT
                       !.target = r.target, !.reason = r.reason,
                       !.recheck = TRUE, !.sales = r.sales \ {first}])
  /\ Answered(w)

-----------------------------------------------------------------------------
(***************************************************************************)
(* edit_order, for a patch that gives the order other items.  The status   *)
(* is the one read at the start; the first write stores the items.         *)
(***************************************************************************)
\* Mutant: an order that does not exist is edited.
ReadAnyEdit(w, o, lines) ==
  /\ LockFree /\ pending[w] = Idle
  /\ pending' = [pending EXCEPT ![w] =
       [op |-> "edit", order |-> o, from |-> db.orders[o].status, lines |-> lines]]
  /\ UNCHANGED <<db, tx, wr>>

ReadEdit(w, o, lines) ==
  /\ LockFree /\ pending[w] = Idle
  /\ Exists(o) /\ db.orders[o].status # "cancelled"
  /\ MovementsOf(db, o, "negative_sale") # {} => "edit_oversold" \in Practices
  /\ Short(o, lines) => "short_stock" \in Practices
  /\ pending' = [pending EXCEPT ![w] =
       [op |-> "edit", order |-> o, from |-> db.orders[o].status, lines |-> lines]]
  /\ UNCHANGED <<db, tx, wr>>

\* Mutant: from the status after it on.
IsPastConfirmed(status) == Rank[status] > Rank["confirmed"]

\* The stock of an order is taken from confirmed on.
HasTakenStock(status) == Rank[status] >= Rank["confirmed"]

BeginEdit(w) ==
  LET r == pending[w]
      o == r.order
      edited == [db EXCEPT !.orders[o].lines = r.lines]
      redo == HasTakenStock(r.from)
      reverse == redo /\ OrderSaleWasDeducted(db, o)
  IN
  /\ r.op = "edit" /\ Room
  /\ BeginWith(
       IF reverse THEN ReleaseSales(edited, o) ELSE edited,
       [Nothing("edit", o) EXCEPT
          !.swallow = TRUE, !.forget = reverse,
          !.negatives = IF reverse THEN MovementsOf(db, o, "negative_sale") ELSE {},
          !.lines = IF redo THEN r.lines ELSE <<>>])
  /\ Answered(w)

-----------------------------------------------------------------------------
(***************************************************************************)
(* transition_work_item_status, when the statuses of the order's items     *)
(* come to imply another status for the order.  Its first write is the     *)
(* item's, so it reads nothing beforehand that matters here; it carries a  *)
(* reason, and catches nothing.  Every derived status is possible: the     *)
(* items of an order with one main item go to any status, and an item that *)
(* is added to a cancelled order moves it again.                           *)
(***************************************************************************)
SyncFromItems(o, derived) ==
  LET confirming == derived \in {"confirmed", "delivered"}
                    /\ ~OrderSaleWasDeducted(db, o)
  IN
  /\ Exists(o) /\ Served /\ Room
  /\ derived \notin {db.orders[o].status, "completed"}
  /\ Practised(o, derived)
  /\ BeginWith(
       SetStatus(db, o, derived),
       [Nothing("sync", o) EXCEPT
          !.lines = IF confirming THEN db.orders[o].lines ELSE <<>>,
          !.sales = IF derived = "cancelled"
                    THEN MovementsOf(db, o, "sale") ELSE {}])
  /\ UNCHANGED pending

-----------------------------------------------------------------------------
(***************************************************************************)
(* The steps of a write phase.                                             *)
(***************************************************************************)
Writing == ~LockFree

Undo == tx' = db /\ wr' = NoWrite /\ UNCHANGED <<db, pending>>

ReverseNegative ==
  /\ Writing
  /\ \E m \in wr.negatives :
       /\ ById(m, wr.negatives)
       /\ tx' = ReverseNegativeSale(tx, m)
       /\ wr' = [wr EXCEPT !.negatives = @ \ {m}]
  /\ UNCHANGED <<db, pending>>

ForgetSales ==
  /\ Writing /\ wr.negatives = {} /\ wr.forget
  /\ tx' = DeleteSales(tx, wr.order)
  /\ wr' = [wr EXCEPT !.forget = FALSE]
  /\ UNCHANGED <<db, pending>>

NextLine == Writing /\ wr.negatives = {} /\ ~wr.forget /\ wr.lines # <<>>

\* Caught: what the line had written stays, and the lines after it are skipped.
DeductOne ==
  LET line == Head(wr.lines)
      raises == LineRaises(tx, wr.order, line)
  IN
  /\ NextLine
  /\ raises => wr.swallow
  /\ tx' = DeductLine(tx, wr.order, line)
  /\ wr' = [wr EXCEPT !.lines = IF raises THEN <<>> ELSE Tail(@)]
  /\ UNCHANGED <<db, pending>>

RaiseOut ==
  /\ NextLine
  /\ LineRaises(tx, wr.order, Head(wr.lines)) /\ ~wr.swallow
  /\ Undo

RestoreOne ==
  /\ Writing
  /\ \E m \in wr.sales :
       /\ ById(m, wr.sales)
       /\ tx' = IF AlreadyRestored(tx, wr.order, m) THEN tx
                ELSE RestoreSale(tx, wr.order, m, OversoldOf(tx, wr.order, m))
       /\ wr' = [wr EXCEPT !.sales = @ \ {m}]
  /\ UNCHANGED <<db, pending>>

StockDone ==
  /\ Writing /\ wr.negatives = {} /\ ~wr.forget /\ wr.lines = <<>> /\ wr.sales = {}

\* Order.update_status looks at the status again.
Refused == /\ wr.recheck /\ ~wr.reason
           /\ IsBackward(tx.orders[wr.order].status, wr.target)

Commit ==
  /\ StockDone /\ ~Refused
  /\ db' = IF wr.op = "status" THEN SetStatus(tx, wr.order, wr.target) ELSE tx
  /\ tx' = db'
  /\ wr' = NoWrite
  /\ UNCHANGED pending

Refuse == StockDone /\ Refused /\ Undo

\* The client goes away, or the lock is not had within the timeout.
Drop(w) == /\ LockFree /\ pending[w] # Idle
           /\ Answered(w)
           /\ UNCHANGED <<db, tx, wr>>

-----------------------------------------------------------------------------
Next ==
  \/ \E b \in Options, q \in 1..MaxQty : RestockProduct(b, q) \/ WasteStock(b, q)
  \/ \E w \in Workers, b \in Options, target \in 0..MaxQty : ReadAdjust(w, b, target)
  \/ \E w \in Workers : WriteAdjust(w)
  \/ \E o \in Orders, form \in Forms, status \in {"new", "delivered"} :
       CreateOrder(o, form, status)
  \/ \E w \in Workers, o \in Orders, target \in Targets, reason \in BOOLEAN :
       ReadStatus(w, o, target, reason)
  \/ \E w \in Workers : BeginPlainStatus(w) \/ BeginDeduct(w) \/ BeginRestore(w)
  \/ \E w \in Workers, o \in Orders, lines \in LineLists : ReadEdit(w, o, lines)
  \/ \E w \in Workers : BeginEdit(w) \/ Drop(w)
  \/ \E o \in Orders, derived \in Targets : SyncFromItems(o, derived)
  \/ ReverseNegative \/ ForgetSales \/ DeductOne \/ RaiseOut \/ RestoreOne
  \/ Commit \/ Refuse

Spec == Init /\ [][Next]_vars

-----------------------------------------------------------------------------
(***************************************************************************)
(* Types                                                                   *)
(***************************************************************************)
Order == [status : Statuses \union {"absent"}, source : Sources, lines : Seq(Line)]

Database == [lots : Seq(Lot), items : Seq(InventoryItem),
             negative : SUBSET BalanceRow, movements : SUBSET Movement,
             lastMovement : Nat, orders : [Orders -> Order]]

AdjustRequest == [op : {"adjust"}, option : Options, delta : Int]
StatusRequest == [op : {"status"}, order : Orders, target : Statuses,
                  reason : BOOLEAN, lines : Seq(Line), sales : SUBSET Movement,
                  oversold : SUBSET Int]
EditRequest == [op : {"edit"}, order : Orders, from : Statuses, lines : Seq(Line)]
Request == {Idle} \union AdjustRequest \union StatusRequest \union EditRequest

WriteRest == [op : {"create", "status", "edit", "sync"}, order : Orders,
              target : Statuses, reason : BOOLEAN, recheck : BOOLEAN,
              swallow : BOOLEAN, negatives : SUBSET Movement, forget : BOOLEAN,
              lines : Seq(Line), sales : SUBSET Movement]

(***************************************************************************)
(* Every table row, every request in its read phase and the write phase    *)
(* hold values of their columns and fields.                                *)
(***************************************************************************)
TypeOK ==
  /\ db \in Database
  /\ tx \in Database
  /\ pending \in [Workers -> Request]
  /\ wr \in {NoWrite} \union WriteRest

-----------------------------------------------------------------------------
(***************************************************************************)
(* Safety that no interleaving and no way of working may break.            *)
(***************************************************************************)

\* Every item belongs to a lot, and a lot's remaining_qty is its available items.
LotsCountTheirItems(d) ==
  /\ \A i \in DOMAIN d.items : d.items[i].lot \in DOMAIN d.lots
  /\ \A l \in DOMAIN d.lots :
       d.lots[l].remaining = Cardinality(AvailableOfLot(d, l))

(***************************************************************************)
(* stock_lots.remaining_qty, which FIFO trusts to skip a lot, never drifts *)
(* from the lot's available inventory_items, which the stock screens       *)
(* count: neither in what is committed nor inside a write phase.           *)
(***************************************************************************)
LotCountsMatch == LotsCountTheirItems(db) /\ LotsCountTheirItems(tx)

ConsumedBy(d, m) == {i \in DOMAIN d.items : d.items[i].by = m.id}

(***************************************************************************)
(* A consumed item names an outflow that is still recorded, of its lot's   *)
(* own option, and no outflow consumed more than its quantity; what left   *)
(* by waste or adjustment is exactly what the movement says.               *)
(***************************************************************************)
ConsumptionIsRecorded ==
  /\ \A i \in DOMAIN db.items : db.items[i].by # NoMovement =>
       \E m \in db.movements : /\ m.id = db.items[i].by
                               /\ m.option = db.lots[db.items[i].lot].option
                               /\ m.type \in {"sale", "waste", "adjustment"}
  /\ \A m \in db.movements :
       LET taken == Cardinality(ConsumedBy(db, m)) IN
       /\ m.type = "sale" => taken <= -m.qty
       /\ m.type = "waste" => taken = -m.qty
       /\ m.type = "adjustment" => taken = IF m.qty < 0 THEN -m.qty ELSE 0

=============================================================================
