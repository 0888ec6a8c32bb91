--------------------------- MODULE OrderJournal ---------------------------
(***************************************************************************)
(* What the payments and the status of an order do to its journal:         *)
(* services/journal_sync/payment.py and order.py.                          *)
(*                                                                         *)
(* The database has these fields too:                                      *)
(*   order  [status, delivery, fee, subtotal, total]: the orders row, the  *)
(*          subtotal being what its items come to                          *)
(*   txns   set of [id, type, amount, valid]: payment_transactions, valid  *)
(*          when invalidated_at is NULL                                    *)
(*   lastTxn  its autoincrement counter                                    *)
(* The types deposit, payment and full_payment are booked alike and are    *)
(* all "deposit" here; the method and the payment source only choose among *)
(* asset accounts.  Entries of COGS are left out: no step below reads them.*)
(***************************************************************************)
EXTENDS Journal

Statuses == {"new", "confirmed", "delivered", "completed", "cancelled"}
HandedOver == {"delivered", "completed"}
TransactionType == {"deposit", "refund", "tien_rut"}

Smaller(x, y) == IF x <= y THEN x ELSE y
Larger(x, y) == IF x <= y THEN y ELSE x

-----------------------------------------------------------------------------
\* Totals of the transactions that are not invalidated.
TotalOf(d, types) ==
  MapThenSumSet(LAMBDA t : t.amount, {t \in d.txns : t.valid /\ t.type \in types})

TotalPaidExclOutflows(d) == TotalOf(d, {"deposit", "tien_rut"})
TotalTienRut(d) == TotalOf(d, {"tien_rut"})
TotalOutflows(d) == TotalOf(d, {"refund"})

\* Entries of the order's transactions, those that still have a row.
PaymentEntries(d) ==
  {e \in d.journal : /\ e.source = "payment_transaction"
                     /\ \E t \in d.txns : t.id = e.of}

HeldShipping(d, S) == -NetOf(PaymentEntries(d) \ S, "shipping")
HeldTienRut(d) == -NetOf(PaymentEntries(d), "tien_rut")

-----------------------------------------------------------------------------
(***************************************************************************)
(* The bus shipping release: 2200 to cash, always the whole fee.           *)
(***************************************************************************)
Releases(d) == EntriesOf(d, "order_shipping_release", TheOrder)

IsBus(d) == d.order.delivery = "bus" /\ d.order.fee > 0

PostRelease(d) ==
  Insert(d, "order_shipping_release", TheOrder, "release",
         Lines([shipping |-> d.order.fee, asset |-> -d.order.fee]))

SyncBusShippingRelease(d) ==
  LET existing == Releases(d) IN
  IF ~IsBus(d) THEN d
  ELSE IF existing = {} THEN PostRelease(d)
  ELSE IF Debit(Latest(existing), "shipping") = d.order.fee THEN d
  ELSE PostRelease(ReverseOrDelete(d, Latest(existing)))

ReleaseDue(d) == d.order.delivery = "bus" /\ d.order.status \in HandedOver

\* _maybe_retrigger_bus_shipping_release; deleted: a payment went away.
RetriggerRelease(d, deleted) ==
  IF ~ReleaseDue(d) THEN d
  ELSE IF deleted /\ Releases(d) # {} /\ HeldShipping(d, {}) <= 0
       THEN ReverseOrDelete(d, Latest(Releases(d)))
       ELSE SyncBusShippingRelease(d)

-----------------------------------------------------------------------------
(***************************************************************************)
(* _sync_payment_journal                                                   *)
(***************************************************************************)
OwnEntries(d, t) == EntriesOf(d, "payment_transaction", t.id)

\* Mutant: what this transaction itself holds is not left out.
ShippingLeftOverAll(d, t) ==
  IF IsBus(d) THEN Smaller(t.amount, Larger(0, d.order.fee - HeldShipping(d, {})))
  ELSE 0

\* The first payments of a bus order cover its shipping.
ShippingPortion(d, t) ==
  IF IsBus(d)
  THEN Smaller(t.amount, Larger(0, d.order.fee - HeldShipping(d, OwnEntries(d, t))))
  ELSE 0

PaymentLines(d, t) ==
  LET shipping == ShippingPortion(d, t) IN
  CASE t.type = "tien_rut" -> Lines([asset |-> t.amount, tien_rut |-> -t.amount])
    [] t.type = "refund" -> Lines([deposits |-> t.amount, asset |-> -t.amount])
    [] OTHER -> Lines([asset |-> t.amount, deposits |-> shipping - t.amount,
                       shipping |-> -shipping])

PostPayment(d, t, lines) == Insert(d, "payment_transaction", t.id, "payment", lines)

\* Mutant: an entry that is there already is not looked for.
AlwaysPosts(d, t) == RetriggerRelease(PostPayment(d, t, PaymentLines(d, t)), FALSE)

\* The entry of t, as the handler knows t, is created, corrected or updated.
SyncPayment(d, t) ==
  LET own == OwnEntries(d, t)
      lines == PaymentLines(d, t)
      posted == IF own = {} THEN PostPayment(d, t, lines)
                ELSE IF Latest(own).locked
                THEN PostPayment(Reverse(d, Latest(own)), t, lines)
                ELSE UpdateInPlace(d, Latest(own), "payment", lines)
  IN  RetriggerRelease(posted, FALSE)

\* deleted = True: t was deleted or invalidated.
UnsyncPayment(d, t) ==
  LET own == OwnEntries(d, t)
  IN  RetriggerRelease(IF own = {} THEN d ELSE ReverseOrDelete(d, Latest(own)), TRUE)

-----------------------------------------------------------------------------
(***************************************************************************)
(* _reconcile_order_revenue_entry.  Entries of the order are found by the  *)
(* prefix of their description, which a reversal does not have.            *)
(***************************************************************************)
OrderEntries(d, text) ==
  {e \in EntriesOf(d, "order", TheOrder) : e.text = text}

\* The entry that is there is reversed or deleted.
DropOrderEntry(d, text) ==
  LET existing == OrderEntries(d, text)
  IN  IF existing = {} THEN d ELSE ReverseOrDelete(d, Latest(existing))

PostOrderEntry(d, text, lines) == Insert(d, "order", TheOrder, text, lines)

\* Another entry in its place, unless the one that is there has these lines.
ReplaceOrderEntry(d, text, lines) ==
  LET existing == OrderEntries(d, text)
  IN  IF existing # {} /\ Latest(existing).lines = lines THEN d
      ELSE PostOrderEntry(DropOrderEntry(d, text), text, lines)

\* For a bus order the whole fee counts as held, whatever was allocated.
DepositBalance(d) ==
  Larger(0, TotalPaidExclOutflows(d) - TotalTienRut(d) - TotalOutflows(d)
            - (IF IsBus(d) THEN d.order.fee ELSE 0))

IsUnpaid(d) == DepositBalance(d) = 0 /\ TotalPaidExclOutflows(d) <= TotalTienRut(d)

\* Mutant: the receivable of an earlier sync stays.
KeepReceivable(d) ==
  IF DepositBalance(d) = 0 THEN DropOrderEntry(d, "revenue")
  ELSE ReplaceOrderEntry(d, "revenue",
         Lines([deposits |-> DepositBalance(d), revenue |-> -DepositBalance(d)]))

RecogniseDeposits(d) ==
  LET cleared == DropOrderEntry(d, "receivable")
  IN  IF DepositBalance(d) = 0 THEN DropOrderEntry(cleared, "revenue")
      ELSE ReplaceOrderEntry(cleared, "revenue",
             Lines([deposits |-> DepositBalance(d), revenue |-> -DepositBalance(d)]))

RecogniseReceivable(d) ==
  IF d.order.total <= 0 THEN d
  ELSE ReplaceOrderEntry(d, "receivable",
         Lines([receivable |-> d.order.total, revenue |-> -d.order.total]))

ReturnTienRut(d) ==
  LET held == HeldTienRut(d) IN
  IF held <= 0 THEN DropOrderEntry(d, "return")
  ELSE ReplaceOrderEntry(d, "return", Lines([tien_rut |-> held, asset |-> -held]))

ReconcileRevenue(d) ==
  ReturnTienRut(IF IsUnpaid(d) THEN RecogniseReceivable(d) ELSE RecogniseDeposits(d))

\* _sync_delivered_order_journal and _sync_completed_order_journal.
SyncHandedOver(d) == SyncBusShippingRelease(ReconcileRevenue(d))

DropRelease(d) ==
  IF Releases(d) = {} THEN d ELSE ReverseOrDelete(d, Latest(Releases(d)))

\* Mutant: the receivable is not looked for.
CancelRevenue(d) == DropRelease(DropOrderEntry(DropOrderEntry(d, "revenue"), "return"))

\* _sync_cancelled_order_journal.
SyncCancelled(d) ==
  DropRelease(DropOrderEntry(DropOrderEntry(DropOrderEntry(d, "revenue"),
                                            "receivable"), "return"))

=============================================================================
