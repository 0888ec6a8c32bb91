--------------------------- MODULE ExpenseRepair ---------------------------
(***************************************************************************)
(* What looks after the entries of expenses when a sync has failed: the    *)
(* checks of services/accounting_validation.py that read expenses, and     *)
(* baker repair-debt-expenses --all, commands/repair/debt_expenses.py.     *)
(***************************************************************************)
EXTENDS Expenses

\* Entries of expenses that are no reversal.
ExpenseEntries(d) == {x \in d.journal : x.source = "expense" /\ x.text # "reversal"}

Credits(x, a) == x.lines[a] < 0

AmountsOf(d, S) == MapThenSumSet(LAMBDA e : d.events[e].amount, S)
Debits(S, a) == MapThenSumSet(LAMBDA x : Debit(x, a), S)

AliveIn(d) == {e \in Events : ~d.events[e].deleted}

-----------------------------------------------------------------------------
(***************************************************************************)
(* The checks of the audit                                                 *)
(***************************************************************************)
\* Entries that debit something else than what the category stands for.
CategoryMismatches(d) ==
  {x \in d.journal : /\ x.source = "expense" /\ d.events[x.of].known
                     /\ Debit(x, "expense") = 0}

\* Entries that credit another account than that of who paid, or is owed.
PaymentMismatches(d) ==
  {x \in ExpenseEntries(d) : ~Credits(x, d.events[x.of].by)}

\* An event of no category of the books counts as well.
WithoutEntry(d) == {e \in AliveIn(d) : EntriesOf(d, "expense", e) = {}}

\* Mutant: an event of no category counts, though none books it.
GapOfAll(d) ==
  AmountsOf(d, AliveIn(d))
    - MapThenSumSet(LAMBDA a : Debits(ExpenseEntries(d), a), Accounts)

ExpenseGap(d) ==
  AmountsOf(d, {e \in AliveIn(d) : d.events[e].known})
    - MapThenSumSet(LAMBDA a : Debits(ExpenseEntries(d), a), Accounts)

SettlementsListed(d) ==
  MapThenSumSet(LAMBDA e : Settled(d.events[e]),
                {e \in AliveIn(d) : IsDebt(d.events[e])})

SettlementGap(d) ==
  LET booked == {x \in d.journal : x.source = "expense_settlement" /\ x.text # "reversal"}
  IN  SettlementsListed(d) - MapThenSumSet(LAMBDA vendor : Debits(booked, vendor), Vendors)

AuditPasses(d) ==
  /\ CategoryMismatches(d) = {} /\ PaymentMismatches(d) = {}
  /\ \A e \in WithoutEntry(d) : ~d.events[e].known
  /\ ExpenseGap(d) = 0 /\ SettlementGap(d) = 0

-----------------------------------------------------------------------------
(***************************************************************************)
(* The repair                                                              *)
(***************************************************************************)
Booked(d, e) == {x \in ExpenseEntries(d) : x.of = e}

\* The event has to be created in the books, or its entry is to be fixed.
Unbooked(d, e) == Booked(d, e) = {}

Misbooked(d, e) ==
  /\ Booked(d, e) # {} /\ ~Latest(Booked(d, e)).locked
  /\ ~Credits(Latest(Booked(d, e)), d.events[e].by)

NeedRepair(d) ==
  {e \in AliveIn(d) : d.events[e].known /\ (Unbooked(d, e) \/ Misbooked(d, e))}

\* Event e, with the data v that were read of it; fix: it was Misbooked then.
RepairEvent(d, e, v, fix) ==
  LET cleared == IF fix /\ Booked(d, e) # {}
                 THEN DeleteCascade(d, Latest(Booked(d, e))) ELSE d
  IN  [SyncExpense(cleared, e, v) EXCEPT !.missed = @ \ {e}]

\* The events of which the data seen were read, in some order.
Repaired(d, seen, fix, order) ==
  LET after[k \in 0..Cardinality(DOMAIN seen)] ==
        IF k = 0 THEN d
        ELSE RepairEvent(after[k - 1], order[k], seen[order[k]], order[k] \in fix)
  IN  after[Cardinality(DOMAIN seen)]

ReadRepair(w) ==
  /\ NeedRepair(db) # {}
  /\ Reads(w, [op |-> "repair", seen |-> [e \in NeedRepair(db) |-> db.events[e]],
               fix |-> {e \in NeedRepair(db) : Misbooked(db, e)}])

WriteRepair(w) ==
  LET r == pending[w] IN
  /\ r.op = "repair"
  /\ \/ \A e \in DOMAIN r.seen : e \in db.missed /\ db.events[e] = r.seen[e]
     \/ "stale_repair" \in Practices
  /\ \E order \in Bijection(1..Cardinality(DOMAIN r.seen), DOMAIN r.seen) :
       Answers(w, Repaired(db, r.seen, r.fix, order))

RepairNext == Next \/ \E w \in Workers : ReadRepair(w) \/ WriteRepair(w)

RepairSpec == Init /\ [][RepairNext]_vars

-----------------------------------------------------------------------------
LinesOf(d, source, of) == {x.lines : x \in EntriesOf(d, source, of)}

\* The expense stands as its last sync would leave it, and is gone with its event.
AsSynced(e) ==
  LinesOf(db, "expense", e)
    = IF Live(e) THEN LinesOf(SyncExpense(db, e, db.events[e]), "expense", e) ELSE {}

\* The settlements stand as they are listed, whatever they were paid from.
AsListed(e) ==
  LET v == db.events[e] IN
  \A k \in DOMAIN v.settlements :
    LinesOf(db, "expense_settlement", k)
      = IF Live(e) THEN {Movement(v.by, "asset", v.settlements[k].amount)} ELSE {}

(***************************************************************************)
(* Until a period is closed the audit passes exactly when the books are    *)
(* what the events say: it tells of every failed sync that left an expense *)
(* otherwise or left it there when its event was deleted, of every         *)
(* settlement that is listed and not booked, because its sync failed or    *)
(* its source is of no account, and of every one that outlived its debt.   *)
(***************************************************************************)
AuditTells ==
  (\A x \in db.journal : ~x.locked) =>
    (AuditPasses(db) <=> \A e \in Events : AsSynced(e) /\ AsListed(e))

=============================================================================
