---------------------------- MODULE BooksAudit ----------------------------
(***************************************************************************)
(* What services/accounting_validation.py (baker validate-accounts) finds  *)
(* in the books of one order.  Each operator gives the findings of a check,*)
(* a set that is empty when the check passes, or whether it passes.        *)
(*                                                                         *)
(* Left out with what they look at: costs, waste, expenses, dates, actors, *)
(* lines of accounts that do not exist, and order_shipping_hold entries,   *)
(* which nothing posts any more.                                           *)
(***************************************************************************)
EXTENDS OrderJournal

Credit(e, a) == IF e.lines[a] < 0 THEN -e.lines[a] ELSE 0

DebitsOf(S, a) == MapThenSumSet(LAMBDA e : Debit(e, a), S)
CreditsOf(S, a) == MapThenSumSet(LAMBDA e : Credit(e, a), S)

\* description NOT LIKE 'Reversal:%'.
Posted(S) == {e \in S : e.text # "reversal"}

ValidPaymentEntries(d) ==
  {e \in d.journal : /\ e.source = "payment_transaction"
                     /\ \E t \in d.txns : t.id = e.of /\ t.valid}

-----------------------------------------------------------------------------
Unbalanced(d) == {e \in d.journal : MapThenSumSet(LAMBDA a : e.lines[a], Accounts) # 0}

\* Assets = liabilities + income; the order moves no equity and no expense.
EquationHolds(d) ==
  LET net(a) == NetOf(d.journal, a) IN
  net("asset") + net("receivable")
    = -(net("deposits") + net("shipping") + net("tien_rut")) - net("revenue")

UnbookedPayments(d) == {t \in d.txns : t.valid /\ OwnEntries(d, t) = {}}

LacksOrderEntry(d) ==
  d.order.status \in HandedOver /\ EntriesOf(d, "order", TheOrder) = {}

SourcesComplete(d) == UnbookedPayments(d) = {} /\ ~LacksOrderEntry(d)

NegativeAssets(d) == {a \in {"asset", "receivable"} : NetOf(d.journal, a) < 0}

\* Two entries of one source, neither a reversal; an order may have two.
Duplicated(d) ==
  {e \in Posted(d.journal) :
     /\ e.source # "order"
     /\ \E f \in Posted(d.journal) : f # e /\ f.source = e.source /\ f.of = e.of}

\* A revenue entry that moves more deposits than it recognises.
DepositRevenueGaps(d) ==
  {e \in EntriesOf(d, "order", TheOrder) :
     Debit(e, "deposits") > 0 /\ Debit(e, "deposits") # Credit(e, "revenue")}

-----------------------------------------------------------------------------
(***************************************************************************)
(* deposit_balance_integrity: what 2100 still owes for the order.  The     *)
(* reversals of payments count, those of the order's entries do not.       *)
(***************************************************************************)
DepositsIn(d) == CreditsOf(ValidPaymentEntries(d), "deposits")
RefundsOut(d) == DebitsOf(ValidPaymentEntries(d), "deposits")
RevenueCleared(d) == DebitsOf(Posted(EntriesOf(d, "order", TheOrder)), "deposits")

NetDeposits(d) == DepositsIn(d) - RefundsOut(d) - RevenueCleared(d)

\* overdue: the due date of an order that is still open has passed.
DepositIssue(d, overdue) ==
  /\ DepositsIn(d) > 0 \/ RevenueCleared(d) > 0
  /\ NetDeposits(d) # 0
  /\ d.order.status \in HandedOver \union {"cancelled"} \/ overdue

-----------------------------------------------------------------------------
(***************************************************************************)
(* source_ledger_totals: for each class of source what it comes to, and    *)
(* what the entries of the class come to.                                  *)
(***************************************************************************)
WhenHandedOver(d, amount) == IF d.order.status \in HandedOver THEN amount ELSE 0

RevenueSource(d) == WhenHandedOver(d, DepositBalance(d))

ReceivableSource(d) ==
  WhenHandedOver(d, IF TotalPaidExclOutflows(d) <= TotalTienRut(d)
                    THEN Larger(0, d.order.total) ELSE 0)

ReturnSource(d) == WhenHandedOver(d, Larger(0, HeldTienRut(d)))

ReleaseSource(d) ==
  WhenHandedOver(d, IF IsBus(d) THEN Larger(0, Smaller(d.order.fee, HeldShipping(d, {})))
                    ELSE 0)

SourceTotal(d) ==
  [order_revenue |-> RevenueSource(d),
   order_ar |-> ReceivableSource(d),
   order_tien_rut_return |-> ReturnSource(d),
   order_shipping_release |-> ReleaseSource(d),
   payment_transaction |-> TotalOf(d, TransactionType)]

JournalTotal(d) ==
  LET entries(source) == {e \in Posted(d.journal) : e.source = source} IN
  [order_revenue |-> DebitsOf(OrderEntries(d, "revenue"), "deposits"),
   order_ar |-> DebitsOf(OrderEntries(d, "receivable"), "receivable"),
   order_tien_rut_return |-> DebitsOf(OrderEntries(d, "return"), "tien_rut"),
   order_shipping_release |-> DebitsOf(entries("order_shipping_release"), "shipping"),
   payment_transaction |->
     MapThenSumSet(LAMBDA a : DebitsOf(entries("payment_transaction"), a), Accounts)]

LedgerGaps(d) ==
  {class \in DOMAIN SourceTotal(d) : SourceTotal(d)[class] # JournalTotal(d)[class]}

-----------------------------------------------------------------------------
\* run_validation: the checks that fail.
FailedChecks(d, overdue) ==
  {check \in {"double_entry_integrity", "accounting_equation", "source_completeness",
              "account_balance_sanity", "duplicate_entries", "deposit_revenue_integrity",
              "deposit_balance_integrity", "source_ledger_totals"} :
     CASE check = "double_entry_integrity" -> Unbalanced(d) # {}
       [] check = "accounting_equation" -> ~EquationHolds(d)
       [] check = "source_completeness" -> ~SourcesComplete(d)
       [] check = "account_balance_sanity" -> NegativeAssets(d) # {}
       [] check = "duplicate_entries" -> Duplicated(d) # {}
       [] check = "deposit_revenue_integrity" -> DepositRevenueGaps(d) # {}
       [] check = "deposit_balance_integrity" -> DepositIssue(d, overdue)
       [] check = "source_ledger_totals" -> LedgerGaps(d) # {}}

=============================================================================
