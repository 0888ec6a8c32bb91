---------------------------- MODULE BooksRepair ----------------------------
(***************************************************************************)
(* The repair commands of commands/repair/ over the books of OrderBooks,   *)
(* run by an operator while the shop works.  A command is run with --all:  *)
(* it first reads which orders it has to do with, here whether it is this  *)
(* one, and then deals with them in one transaction.                       *)
(*                                                                         *)
(* The commands that look at other books (costs, expenses, drawers, bank   *)
(* accounts, dates) are left out, and so are --order-id and --dry-run.     *)
(***************************************************************************)
EXTENDS OrderBooks, BooksAudit

CONSTANT Commands  \* the commands the operator runs

(***************************************************************************)
(*   payments    repair-payment-journal                                    *)
(*   receivable  repair-ar-entries                                         *)
(*   deposits    repair-deposit-balance                                    *)
(*   cancelled   repair-cancelled-orders                                   *)
(*   release     repair-order-revenue --shipping-release                   *)
(*   revenue     repair-order-revenue                                      *)
(*   tien_rut    repair-tien-rut-gap                                       *)
(* The practice "unbook" is to run repair-deposit-balance while the        *)
(* cancelled order holds deposits: it takes valid payments off the books.  *)
(***************************************************************************)
ASSUME RepairAssumption == Commands \subseteq AllCommands

-----------------------------------------------------------------------------
HasOrderEntry(d) == EntriesOf(d, "order", TheOrder) # {}

IsHandedOverIn(d) == d.order.status \in HandedOver

\* A valid tien_rut transaction has an entry that credits nothing to 2400.
Misrouted(d, t) ==
  /\ t.type = "tien_rut" /\ t.valid
  /\ \E e \in OwnEntries(d, t) : Credit(e, "tien_rut") = 0

\* The command has to do with this order; overdue: see DepositIssue.
Flags(command, d, overdue) ==
  CASE command = "payments" -> UnbookedPayments(d) # {}
    [] command = "receivable" ->
         /\ IsHandedOverIn(d) /\ d.order.total > 0 /\ ~HasOrderEntry(d)
         /\ TotalPaidExclOutflows(d) <= TotalTienRut(d)
    [] command = "deposits" -> DepositIssue(d, overdue)
    [] command = "cancelled" -> d.order.status = "cancelled" /\ NetDeposits(d) # 0
    [] command = "release" -> IsHandedOverIn(d) /\ IsBus(d)
    [] command = "revenue" -> IsHandedOverIn(d)
    [] command = "tien_rut" -> \E t \in d.txns : Misrouted(d, t)

-----------------------------------------------------------------------------
\* SyncPayment for each transaction of rows, as it was read, by id.
SyncEach(d, rows) ==
  LET synced[n \in 0..d.lastTxn] ==
        IF n = 0 THEN d
        ELSE IF \E t \in rows : t.id = n
        THEN SyncPayment(synced[n - 1], CHOOSE t \in rows : t.id = n)
        ELSE synced[n - 1]
  IN  synced[d.lastTxn]

\* The entry a SELECT without ORDER BY finds.
Earliest(S) == CHOOSE e \in S : \A f \in S : e.id <= f.id

DropEarliest(d, t) ==
  IF OwnEntries(d, t) = {} THEN d ELSE ReverseOrDelete(d, Earliest(OwnEntries(d, t)))

DropSome(d, t, times) ==
  LET dropped[k \in 0..times] ==
        IF k = 0 THEN d ELSE DropEarliest(dropped[k - 1], t)
  IN  dropped[times]

(***************************************************************************)
(* The loop of repair-deposit-balance over a cancelled order: its rows are *)
(* a join, so a transaction comes as often as it has entries.              *)
(***************************************************************************)
UnbookPayments(d) ==
  LET times(n) == Cardinality({e \in ValidPaymentEntries(d) : e.of = n})
      unbooked[n \in 0..d.lastTxn] ==
        IF n = 0 THEN d ELSE DropSome(unbooked[n - 1], [id |-> n], times(n))
  IN  unbooked[d.lastTxn]

\* Some entry of the order has recognised a receivable.
HasReceivable(d) ==
  \E e \in EntriesOf(d, "order", TheOrder) : Debit(e, "receivable") > 0

RepairDeposits(d) ==
  IF d.order.status = "cancelled"
  THEN IF DepositsIn(d) > 0 THEN UnbookPayments(d) ELSE d
  ELSE IF HasReceivable(d) THEN d
  ELSE ReconcileRevenue(d)

\* Cash entries are left for a person to decide about.
RepairCancelled(d) == IF RevenueCleared(d) # 0 THEN SyncCancelled(d) ELSE d

\* Mutant: the release that is there is not looked at.
ReleaseAgain(d) == PostRelease(d)

RepairRelease(d) ==
  IF /\ Releases(d) # {}
     /\ Debit(Latest(Releases(d)), "shipping") = d.order.fee \/ Latest(Releases(d)).locked
  THEN d ELSE SyncBusShippingRelease(d)

\* The stale receivable goes whether it is locked or not.
DeleteReceivable(d) ==
  IF OrderEntries(d, "receivable") = {} THEN d
  ELSE DeleteCascade(d, Latest(OrderEntries(d, "receivable")))

RepairRevenue(d) ==
  LET moving == {e \in EntriesOf(d, "order", TheOrder) : e.lines["deposits"] # 0} IN
  IF moving = {}
  THEN IF DepositBalance(d) = 0 THEN d ELSE SyncHandedOver(d)
  ELSE IF Debit(Earliest(moving), "deposits") = DepositBalance(d) THEN DeleteReceivable(d)
  ELSE IF Earliest(moving).locked THEN d
  ELSE SyncHandedOver(DeleteCascade(d, Earliest(moving)))

RepairTienRut(d) ==
  ReconcileRevenue(SyncEach(d, {t \in d.txns : t.type = "tien_rut" /\ t.valid}))

\* rows: the transactions repair-payment-journal has read.
Process(command, d, rows) ==
  CASE command = "payments" -> SyncEach(d, rows)
    [] command = "receivable" -> ReconcileRevenue(d)
    [] command = "deposits" -> RepairDeposits(d)
    [] command = "cancelled" -> RepairCancelled(d)
    [] command = "release" -> RepairRelease(d)
    [] command = "revenue" -> RepairRevenue(d)
    [] command = "tien_rut" -> RepairTienRut(d)

-----------------------------------------------------------------------------
ReadRepair(w, command, overdue) ==
  /\ Flags(command, db, overdue)
  /\ command = "deposits" /\ db.order.status = "cancelled" => "unbook" \in Practices
  /\ Reads(w, [op |-> "repair", command |-> command, rows |-> UnbookedPayments(db)])

RunRepair(w) ==
  /\ pending[w].op = "repair" /\ LockFree /\ Room
  /\ CommitNow(Process(pending[w].command, db, pending[w].rows))
  /\ Answered(w)

RepairNext ==
  \/ Next
  \/ \E w \in Workers, command \in Commands, overdue \in BOOLEAN :
       ReadRepair(w, command, overdue)
  \/ \E w \in Workers : RunRepair(w)

RepairSpec == Init /\ [][RepairNext]_vars

-----------------------------------------------------------------------------
\* The books when the command has run, whether or not it had anything to do.
Repaired(command, d, overdue) ==
  IF Flags(command, d, overdue) THEN Process(command, d, UnbookedPayments(d)) ELSE d

(***************************************************************************)
(* Whatever the routes and the commands do in ordinary business, the audit *)
(* finds every entry balanced, every payment booked and booked once, and   *)
(* no deposit that went to revenue short.  (An order whose payments only   *)
(* cover its shipping is handed over with no entry of its own, which the   *)
(* audit reports.)                                                         *)
(***************************************************************************)
AuditFindsNothing ==
  /\ FailedChecks(db, FALSE) \intersect
       {"double_entry_integrity", "accounting_equation", "duplicate_entries",
        "deposit_revenue_integrity"} = {}
  /\ UnbookedPayments(db) = {}

\* The books, and the books with an entry that a failed sync did not post.
Damaged == {db} \union {[db EXCEPT !.journal = @ \ {e}] : e \in db.journal}

(***************************************************************************)
(* The commands are idempotent, as their help says: over books that miss   *)
(* an entry a failed sync never posted, a second run changes nothing.      *)
(***************************************************************************)
RepairsSettle ==
  \A d \in Damaged, command \in Commands :
    LET once == Repaired(command, d, TRUE)
    IN  Repaired(command, once, TRUE) = once

=============================================================================
