----------------------------- MODULE OrderBooks -----------------------------
(***************************************************************************)
(* The request handlers that move the money of one order, concurrently     *)
(* over one database: api/payment_transactions.py, the payment, edit and   *)
(* status routes of api/orders.py, the status that api/work_items.py       *)
(* derives, and the journal lock of api/accounts.py.                       *)
(*                                                                         *)
(* Requests run as in BakeryStock: a Read action keeps in pending[w] what  *)
(* the handler read before its first write, and the write phase is alone.  *)
(* Here a write phase is a single step, except for the edit's loop over    *)
(* the transactions.  run_journal_sync catches what a sync raises; a sync  *)
(* raises when the chart of accounts is incomplete, which is not modelled. *)
(***************************************************************************)
EXTENDS OrderJournal

CONSTANTS
  Workers,     \* request threads
  Amounts,     \* the amounts of a payment
  Patches,     \* what an edit may change, of subtotal, fee and delivery
  FirstOrder,  \* the order as it was created
  Targets,     \* the statuses requests ask for
  MaxTxns,     \* bound on the transactions ever created
  MaxEntries,  \* bound on the journal entries ever posted, past which none starts
  Practices    \* what the staff do, of AllPractices

(***************************************************************************)
(* Ways of working that the API accepts and a run may rule out:            *)
(*   unbooked      recording a payment by the routes that post no entry    *)
(*   touch_void    changing what was invalidated, or an order that has     *)
(*                 invalidated transactions, other than by restoring them  *)
(*   unpay         taking a payment back after the hand-over, or from a    *)
(*                 bus order                                               *)
(*   over_refund   refunding more than the deposits                        *)
(*   late_payment  taking a payment or cash to hold after the hand-over    *)
(*   step_back     leaving delivered or cancelled for an earlier status    *)
(*   by_items      moving the order by moving its items                    *)
(*   switch        changing the delivery type of an order with payments    *)
(*   close_books   locking the journal                                     *)
(*   unbook        see BooksRepair                                         *)
(***************************************************************************)
AllPractices == {"unbooked", "touch_void", "unpay", "over_refund", "late_payment",
                 "step_back", "by_items", "switch", "close_books", "unbook"}

\* The repair commands, which are requests of BooksRepair.
AllCommands == {"payments", "receivable", "deposits", "cancelled", "release", "revenue",
                "tien_rut"}

Deliveries == {"pickup", "bus"}
Patch == [{"subtotal"} -> Nat] \union [{"fee"} -> Nat] \union [{"delivery"} -> Deliveries]

\* Assets 11xx and 12xx together, 2100, 2200, 2400, 1500 and 4100.
OrderAccounts == {"asset", "deposits", "shipping", "tien_rut", "receivable", "revenue"}

ASSUME BooksAssumption ==
  /\ Accounts = OrderAccounts
  /\ Amounts \subseteq Nat \ {0}
  /\ Patches \subseteq Patch
  /\ FirstOrder \in [status : {"new"}, delivery : Deliveries, fee : Nat,
                     subtotal : Nat, total : Nat]
  /\ Targets \subseteq Statuses
  /\ MaxTxns \in Nat /\ MaxEntries \in Nat
  /\ Practices \subseteq AllPractices

VARIABLES
  db,       \* the committed database
  tx,       \* the database as the writing request sees it
  pending,  \* what each worker's request has read, or Idle
  left      \* ids of the transactions an edit still has to re-sync

vars == <<db, tx, pending, left>>

Idle == [op |-> "idle"]

Init ==
  /\ db = [order |-> FirstOrder, txns |-> {}, lastTxn |-> 0,
           journal |-> {}, lastEntry |-> 0]
  /\ tx = db
  /\ pending = [w \in Workers |-> Idle]
  /\ left = {}

-----------------------------------------------------------------------------
LockFree == left = {}
Served == LockFree /\ \E w \in Workers : pending[w] = Idle
Room == db.lastEntry < MaxEntries

CommitNow(d) == db' = d /\ tx' = d /\ UNCHANGED left
Answered(w) == pending' = [pending EXCEPT ![w] = Idle]

\* The handler of w reads r and has not written yet.
Reads(w, r) ==
  /\ LockFree /\ pending[w] = Idle
  /\ pending' = [pending EXCEPT ![w] = r]
  /\ UNCHANGED <<db, tx, left>>

HasVoid(d) == \E t \in d.txns : ~t.valid
IsHandedOver == db.order.status \in HandedOver

\* What Practices rules out of a change that leaves the transactions txns.
PaysAsPractised(txns) ==
  LET after == [db EXCEPT !.txns = txns]
      paid(d) == TotalPaidExclOutflows(d) - TotalTienRut(d) - TotalOutflows(d)
  IN  /\ paid(after) < paid(db) /\ (IsHandedOver \/ IsBus(db))
           => "unpay" \in Practices
      /\ TotalTienRut(after) < TotalTienRut(db) /\ IsHandedOver => "unpay" \in Practices
      /\ paid(after) < 0 => "over_refund" \in Practices
      /\ txns # db.txns /\ IsHandedOver => "late_payment" \in Practices

-----------------------------------------------------------------------------
(***************************************************************************)
(* api/payment_transactions.py                                             *)
(***************************************************************************)
NewTransaction(d, type, amount) ==
  [id |-> d.lastTxn + 1, type |-> type, amount |-> amount, valid |-> TRUE]

Save(d, t) == [d EXCEPT !.lastTxn = t.id, !.txns = @ \union {t}]

CreateTransaction(type, amount) ==
  LET t == NewTransaction(db, type, amount) IN
  /\ Served /\ Room /\ db.lastTxn < MaxTxns
  /\ PaysAsPractised(db.txns \union {t})
  /\ CommitNow(SyncPayment(Save(db, t), t))
  /\ UNCHANGED pending

\* PATCH /payment, and the deposit of a new order: a row and no entry.
RecordPayment(amount) ==
  /\ Served /\ db.lastTxn < MaxTxns
  /\ "unbooked" \in Practices
  /\ CommitNow(Save(db, NewTransaction(db, "deposit", amount)))
  /\ UNCHANGED pending

(***************************************************************************)
(* The row is read before the UPDATE, which writes all of its columns; if  *)
(* it was deleted meanwhile the handler fails and is undone.               *)
(***************************************************************************)
UpdateTransaction(t, type, amount) ==
  LET u == [t EXCEPT !.type = type, !.amount = amount]
      txns == (db.txns \ {t}) \union {u}
  IN
  /\ Served /\ Room /\ t \in db.txns
  /\ ~t.valid => "touch_void" \in Practices
  /\ PaysAsPractised(txns)
  /\ CommitNow(SyncPayment([db EXCEPT !.txns = txns], u))
  /\ UNCHANGED pending

\* Invalidate and restore look at invalidated_at before they write.
ReadTransaction(w, op, t) ==
  /\ t \in db.txns
  /\ op = "invalidate" => t.valid
  /\ op = "restore" => ~t.valid
  /\ op = "delete" /\ ~t.valid => "touch_void" \in Practices
  /\ op \in {"delete", "invalidate"} => PaysAsPractised(db.txns \ {t})
  /\ op = "restore" => PaysAsPractised(db.txns \union {[t EXCEPT !.valid = TRUE]})
  /\ Reads(w, [op |-> op, txn |-> t])

\* The row as it is now, whatever the handler read.
RowOf(d, t) == {u \in d.txns : u.id = t.id}

SetValid(d, t, valid) ==
  [d EXCEPT !.txns = (@ \ RowOf(d, t)) \union {[u EXCEPT !.valid = valid] : u \in RowOf(d, t)}]

DeleteTransaction(w) ==
  LET t == pending[w].txn IN
  /\ pending[w].op = "delete" /\ LockFree /\ Room
  /\ CommitNow(UnsyncPayment([db EXCEPT !.txns = @ \ RowOf(db, t)], t))
  /\ Answered(w)

\* With the row gone the response cannot be built and nothing is committed.
InvalidateTransaction(w) ==
  LET t == pending[w].txn IN
  /\ pending[w].op = "invalidate" /\ LockFree /\ Room
  /\ RowOf(db, t) # {}
  /\ CommitNow(UnsyncPayment(SetValid(db, t, FALSE), t))
  /\ Answered(w)

\* Mutant: the restored transaction is not booked again.
RestoreRowOnly(w) ==
  LET t == pending[w].txn IN
  /\ pending[w].op = "restore" /\ LockFree /\ Room
  /\ RowOf(db, t) # {}
  /\ CommitNow(SetValid(db, t, TRUE))
  /\ Answered(w)

RestoreTransaction(w) ==
  LET t == pending[w].txn IN
  /\ pending[w].op = "restore" /\ LockFree /\ Room
  /\ RowOf(db, t) # {}
  /\ CommitNow(SyncPayment(SetValid(db, t, TRUE), t))
  /\ Answered(w)

-----------------------------------------------------------------------------
(***************************************************************************)
(* update_payment_method: the latest transaction, invalidated or not, is   *)
(* booked again with the type and the amount that were read.               *)
(***************************************************************************)
ReadPaymentMethod(w, t) ==
  /\ t \in db.txns /\ \A u \in db.txns : u.id <= t.id
  /\ ~t.valid => "touch_void" \in Practices
  /\ Reads(w, [op |-> "method", txn |-> t])

UpdatePaymentMethod(w) ==
  /\ pending[w].op = "method" /\ LockFree /\ Room
  /\ CommitNow(SyncPayment(db, pending[w].txn))
  /\ Answered(w)

-----------------------------------------------------------------------------
(***************************************************************************)
(* edit_order.  Status, delivery type, fee and items are those read at the *)
(* start: they say whether to reconcile and to re-sync, and give the total *)
(* what the patch does not.                                                *)
(***************************************************************************)
ReadEdit(w, patch) ==
  /\ db.order.status # "cancelled"
  /\ HasVoid(db) => "touch_void" \in Practices
  /\ "delivery" \in DOMAIN patch /\ db.lastTxn > 0 => "switch" \in Practices
  /\ Reads(w, [op |-> "edit", was |-> db.order, patch |-> patch])

\* A column of the order after the patch, from its value before.
Patched(patch, column, before) ==
  IF column \in DOMAIN patch THEN patch[column] ELSE before

Reprices(patch) == DOMAIN patch \intersect {"subtotal", "fee"} # {}

EditedOrder(order, was, patch) ==
  [order EXCEPT
     !.delivery = Patched(patch, "delivery", @),
     !.fee = Patched(patch, "fee", @),
     !.subtotal = Patched(patch, "subtotal", @),
     !.total = IF Reprices(patch)
               THEN Patched(patch, "subtotal", was.subtotal) + Patched(patch, "fee", was.fee)
               ELSE @]

\* Mutant: the payments are left as they were split before.
NeverResplits(was, patch) == FALSE

Resplits(was, patch) ==
  /\ was.delivery = "bus"
  /\ "fee" \in DOMAIN patch \/ Patched(patch, "delivery", was.delivery) # was.delivery

BeginEdit(w) ==
  LET was == pending[w].was
      patch == pending[w].patch
      edited == [db EXCEPT !.order = EditedOrder(@, was, patch)]
      settled == IF was.status \in HandedOver /\ Reprices(patch)
                 THEN ReconcileRevenue(edited) ELSE edited
      again == IF Resplits(was, patch) THEN {t.id : t \in db.txns} ELSE {}
  IN
  /\ pending[w].op = "edit" /\ LockFree /\ Room
  /\ tx' = settled /\ left' = again
  /\ db' = IF again = {} THEN settled ELSE db
  /\ Answered(w)

\* One iteration; the edit commits after the last.
ResyncOne ==
  /\ ~LockFree
  /\ \E t \in tx.txns :
       /\ t.id \in left /\ \A id \in left : t.id <= id
       /\ tx' = SyncPayment(tx, t)
       /\ left' = left \ {t.id}
       /\ db' = IF left' = {} THEN tx' ELSE db
  /\ UNCHANGED pending

-----------------------------------------------------------------------------
(***************************************************************************)
(* transition_status.  A move back carries its reason.                     *)
(***************************************************************************)
SetStatus(d, status) == [d EXCEPT !.order.status = status]

\* An order that was handed over or cancelled goes back to an earlier status.
StepsBack(from, target) ==
  \/ from = "cancelled" /\ target # "cancelled"
  \/ from \in HandedOver /\ target \notin HandedOver \union {"cancelled"}
  \/ from = "completed" /\ target = "delivered"

ReadStatus(w, target) ==
  LET from == db.order.status IN
  /\ target = "completed" => TotalPaidExclOutflows(db) >= db.order.total
  /\ StepsBack(from, target) => "step_back" \in Practices
  /\ Reads(w, [op |-> "status", from |-> from, target |-> target])

WriteStatus(w) ==
  LET target == pending[w].target
      before == IF target = "cancelled" THEN SyncCancelled(db) ELSE db
      moved == SetStatus(before, target)
  IN
  /\ pending[w].op = "status" /\ LockFree /\ Room
  /\ CommitNow(IF target \in HandedOver \ {pending[w].from}
               THEN SyncHandedOver(moved) ELSE moved)
  /\ Answered(w)

\* The work-item route writes the status, of a cancelled order too when items are
\* added to it, and posts nothing.
SyncFromItems(derived) ==
  /\ Served /\ "by_items" \in Practices
  /\ derived \notin {db.order.status, "completed"}
  /\ CommitNow(SetStatus(db, derived))
  /\ UNCHANGED pending

-----------------------------------------------------------------------------
LockJournal ==
  /\ Served /\ "close_books" \in Practices
  /\ CommitNow(LockRange(db))
  /\ UNCHANGED pending

Drop(w) == /\ LockFree /\ pending[w] # Idle
           /\ Answered(w)
           /\ UNCHANGED <<db, tx, left>>

Next ==
  \/ \E type \in TransactionType, amount \in Amounts :
       \/ CreateTransaction(type, amount)
       \/ \E t \in db.txns : UpdateTransaction(t, type, amount)
  \/ \E amount \in Amounts : RecordPayment(amount)
  \/ \E w \in Workers, t \in db.txns, op \in {"delete", "invalidate", "restore"} :
       ReadTransaction(w, op, t)
  \/ \E w \in Workers : \/ DeleteTransaction(w) \/ InvalidateTransaction(w)
                        \/ RestoreTransaction(w)
  \/ \E w \in Workers, t \in db.txns : ReadPaymentMethod(w, t)
  \/ \E w \in Workers : UpdatePaymentMethod(w)
  \/ \E w \in Workers, patch \in Patches : ReadEdit(w, patch)
  \/ \E w \in Workers : BeginEdit(w)
  \/ ResyncOne
  \/ \E w \in Workers, target \in Targets : ReadStatus(w, target)
  \/ \E w \in Workers : WriteStatus(w)
  \/ \E derived \in Targets : SyncFromItems(derived)
  \/ LockJournal
  \/ \E w \in Workers : Drop(w)

Spec == Init /\ [][Next]_vars

-----------------------------------------------------------------------------
Entry == [id : Nat, source : {"payment_transaction", "order", "order_shipping_release"},
          of : Nat, text : {"payment", "revenue", "receivable", "return", "release",
                            "reversal"},
          lines : [Accounts -> Int], locked : BOOLEAN]
Transaction == [id : Nat, type : TransactionType, amount : Amounts, valid : BOOLEAN]
Order == [status : Statuses, delivery : Deliveries, fee : Nat, subtotal : Nat, total : Nat]
Database == [order : Order, txns : SUBSET Transaction, lastTxn : Nat,
             journal : SUBSET Entry, lastEntry : Nat]
Request ==
  {Idle} \union [op : {"delete", "invalidate", "restore", "method"}, txn : Transaction]
  \union [op : {"edit"}, was : Order, patch : Patches]
  \union [op : {"status"}, from : Statuses, target : Targets]
  \union [op : {"repair"}, command : AllCommands, rows : SUBSET Transaction]

(***************************************************************************)
(* The order, its transactions, its journal and every request in its read  *)
(* phase hold values of their columns and fields.                          *)
(***************************************************************************)
TypeOK ==
  /\ db \in Database /\ tx \in Database
  /\ pending \in [Workers -> Request]
  /\ left \subseteq 1..db.lastTxn

-----------------------------------------------------------------------------
(***************************************************************************)
(* The books of a closed period stand: whatever is synced, reversed or     *)
(* raced, a locked entry is never changed and never removed.               *)
(***************************************************************************)
ClosedBooksStand ==
  [][\A e \in db.journal : e.locked => e \in db'.journal]_vars

\* What the payment t should have brought into the asset accounts.
CashOf(t) == IF ~t.valid THEN 0 ELSE IF t.type = "refund" THEN -t.amount ELSE t.amount

(***************************************************************************)
(* The ledger agrees with the payments: each transaction has moved its own *)
(* amount of cash, an invalidated or deleted one has moved none.           *)
(***************************************************************************)
PaymentsAreBooked ==
  \A id \in 1..db.lastTxn :
    NetOf(EntriesOf(db, "payment_transaction", id), "asset")
      = MapThenSumSet(CashOf, {t \in db.txns : t.id = id})

(***************************************************************************)
(* However payments come, change and go, and whatever the fee becomes, the *)
(* payments of a bus order never hold more than its fee for the carrier.   *)
(***************************************************************************)
HeldWithinFee ==
  db.order.delivery = "bus" =>
    HeldShipping(db, {}) <= db.order.fee

Balance(a) == NetOf(db.journal, a)

(***************************************************************************)
(* A hand-over settles the order: no deposit stays a debt to the customer, *)
(* the cash that was held is returned, and the revenue is the deposits,    *)
(* or the total when nothing was paid.                                     *)
(***************************************************************************)
Settled ==
  /\ Balance("deposits") = 0 /\ Balance("tien_rut") = 0
  /\ -Balance("revenue") = IF IsUnpaid(db) THEN db.order.total ELSE DepositBalance(db)
  /\ Balance("receivable") = IF IsUnpaid(db) THEN db.order.total ELSE 0

HandOverSettles ==
  [][db'.order.status # db.order.status /\ db'.order.status \in HandedOver => Settled']_vars

(***************************************************************************)
(* A cancelled order has no revenue, no receivable and no shipping paid    *)
(* out; only its payments are left, which take a decision of their own.    *)
(***************************************************************************)
CancelledOwesNothing ==
  db.order.status = "cancelled" =>
    /\ Balance("revenue") = 0 /\ Balance("receivable") = 0
    /\ NetOf(Releases(db), "shipping") = 0

(***************************************************************************)
(* Revenue is recognised once, as money received or as money owed: while   *)
(* no period is closed, no order carries a revenue and a receivable entry. *)
(***************************************************************************)
RevenueRecognisedOnce ==
  OrderEntries(db, "revenue") = {} \/ OrderEntries(db, "receivable") = {}

=============================================================================
