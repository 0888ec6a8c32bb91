------------------------------ MODULE Expenses ------------------------------
(***************************************************************************)
(* Expenses and debts to vendors: the expense events of api/events.py and  *)
(* their entries, services/journal_sync/expense.py.                        *)
(*                                                                         *)
(* A request keeps in pending[w] the row it read before its first write,   *)
(* and its write phase is one step.  Of the data of an event its amount,   *)
(* who is owed or paid, whether the books know its category, and its       *)
(* settlements are kept: the settlement with id n is settlements[n], of an *)
(* amount and from a payment source that the books know or do not: a name  *)
(* of no account, or the advance of a member of staff.  What the failure   *)
(* log of the syncs tells is kept in missed, the event whose last sync     *)
(* failed, and lost, the ids of the settlements whose last sync failed.    *)
(***************************************************************************)
EXTENDS Journal, Sequences, Functions

CONSTANTS
  Workers,     \* request threads
  Events,      \* the events ever created
  Vendors,     \* who may be owed, each with an account under 2500
  Amounts,     \* what an expense, or a settlement, may come to
  MaxEntries,  \* bound on the entries ever posted, past which no request starts
  Practices    \* what the staff do, of AllPractices

(***************************************************************************)
(* Ways of working that the API accepts and a run may rule out:            *)
(*   second_debt    settling a debt by a number that another debt has used *)
(*   edit_settled   editing a debt that is settled in part: the app sends  *)
(*                  the data without its settlements                       *)
(*   unknown        a category that is not in the books, of a debt or of   *)
(*                  an expense whose period is closed                      *)
(*   stale_settle   settling a debt that changes meanwhile                 *)
(*   stale_delete   deleting an event that changes meanwhile               *)
(*   stale_rename   renaming an event that changes meanwhile               *)
(*   late_edit      editing an event that is deleted meanwhile             *)
(*   stale_repair   repairing an event that changes, or is synced,         *)
(*                  meanwhile                                              *)
(*   fail_corrected the sync of an expense fails whose closed entry has    *)
(*                  been corrected already                                 *)
(***************************************************************************)
AllPractices == {"second_debt", "edit_settled", "unknown", "stale_settle",
                 "stale_delete", "stale_rename", "late_edit", "stale_repair",
                 "fail_corrected"}

\* What a category or an inventory purchase debits, and 11xx, 12xx and 23xx.
ExpenseAccounts == {"expense", "asset"} \union Vendors

ASSUME ExpensesAssumption ==
  /\ Accounts = ExpenseAccounts /\ {"expense", "asset"} \intersect Vendors = {}
  /\ IsFiniteSet(Events) /\ IsFiniteSet(Vendors)
  /\ Amounts \subseteq Nat \ {0} /\ MaxEntries \in Nat
  /\ Practices \subseteq AllPractices

VARIABLES
  db,      \* the committed database
  pending  \* what each worker's request has read, or Idle

vars == <<db, pending>>

Idle == [op |-> "idle"]
Absent == [amount |-> 0, by |-> "asset", known |-> FALSE, settlements |-> <<>>,
           deleted |-> TRUE]

\* The data that the form sends.
Forms == [amount : Amounts, by : {"asset"} \union Vendors, known : BOOLEAN]

WithData(v, form) ==
  [v EXCEPT !.amount = form.amount, !.by = form.by, !.known = form.known,
            !.settlements = <<>>]

Init ==
  /\ db = [events |-> [e \in Events |-> Absent], journal |-> {}, lastEntry |-> 0,
            missed |-> {}, lost |-> {}]
  /\ pending = [w \in Workers |-> Idle]

-----------------------------------------------------------------------------
IsDebt(v) == v.by \in Vendors

\* What the settlements with these ids come to.
Paid(v, ids) == MapThenSumSet(LAMBDA k : v.settlements[k].amount, ids)
Settled(v) == Paid(v, DOMAIN v.settlements)

\* A purchase, or a settlement, of one account by another.
Movement(debit, credit, amount) ==
  Lines([a \in {debit, credit} |-> IF a = debit THEN amount ELSE -amount])

Resync(d, source, of, lines) ==
  LET found == EntriesOf(d, source, of)
      e == Latest(found)
  IN  IF found = {} THEN Insert(d, source, of, source, lines)
      ELSE IF e.locked THEN Insert(Reverse(d, e), source, of, source, lines)
      ELSE UpdateInPlace(d, e, source, lines)

Unsync(d, source, of) ==
  LET found == EntriesOf(d, source, of)
  IN  IF found = {} THEN d ELSE ReverseOrDelete(d, Latest(found))

\* The entries of the settlements 1 to n are taken back one after the other, but
\* for those of which the sync fails.
Unsettled(d, n, failing) ==
  LET after[k \in 0..n] ==
        IF k = 0 THEN d
        ELSE IF k \in failing THEN after[k - 1]
        ELSE Unsync(after[k - 1], "expense_settlement", k)
  IN  [after[n] EXCEPT !.lost = (@ \ (1..n)) \union failing]

\* Mutant: an entry stays when its expense is none that is booked any more.
KeepStale(d, e, v) ==
  IF v.known THEN Resync(d, "expense", e, Movement("expense", v.by, v.amount)) ELSE d

SyncExpense(d, e, v) ==
  LET found == EntriesOf(d, "expense", e)
  IN  IF v.known THEN Resync(d, "expense", e, Movement("expense", v.by, v.amount))
      ELSE IF found = {} \/ Latest(found).locked THEN d
      ELSE DeleteCascade(d, Latest(found))

Corrected(d, e) == \E x \in EntriesOf(d, "expense", e) : x.text = "reversal"

\* run_journal_sync: what comes of it, a failure being logged and no more.
AfterSync(d, e, v) ==
  {[SyncExpense(d, e, v) EXCEPT !.missed = @ \ {e}]} \union
  {f \in {[d EXCEPT !.missed = {e}]} :
     /\ d.missed = {}
     /\ Corrected(d, e) => "fail_corrected" \in Practices}

AfterUnsync(d, e) ==
  {[Unsync(d, "expense", e) EXCEPT !.missed = @ \ {e}]} \union
  {f \in {[d EXCEPT !.missed = {e}]} : d.missed \subseteq {e}}

\* The event is not part of what the entry is found by.
SyncSettlement(d, id, vendor, s) ==
  LET found == EntriesOf(d, "expense_settlement", id)
  IN  IF s.known
      THEN Resync(d, "expense_settlement", id, Movement(vendor, "asset", s.amount))
      ELSE IF found = {} \/ Latest(found).locked THEN d
      ELSE DeleteCascade(d, Latest(found))

AfterSettle(d, id, vendor, s) ==
  {SyncSettlement(d, id, vendor, s), [d EXCEPT !.lost = @ \union {id}]}

-----------------------------------------------------------------------------
Room == db.lastEntry < MaxEntries

Reads(w, request) ==
  /\ Room /\ pending[w] = Idle
  /\ pending' = [pending EXCEPT ![w] = request]
  /\ UNCHANGED db

Answers(w, d) == db' = d /\ pending' = [pending EXCEPT ![w] = Idle]

Live(e) == ~db.events[e].deleted
Closed(e) == \E x \in EntriesOf(db, "expense", e) : x.locked

KnowsCategory(e, form) ==
  ~form.known /\ (IsDebt(form) \/ Closed(e)) => "unknown" \in Practices

(***************************************************************************)
(* POST /events                                                            *)
(***************************************************************************)
CreateEvent(e, form) ==
  LET v == [WithData(Absent, form) EXCEPT !.deleted = FALSE] IN
  /\ Room /\ db.events[e] = Absent
  /\ \E w \in Workers : pending[w] = Idle
  /\ KnowsCategory(e, form)
  /\ db' \in AfterSync([db EXCEPT !.events[e] = v], e, v)
  /\ UNCHANGED pending

(***************************************************************************)
(* PATCH /events/{id}: with data, which replaces what was there, or with   *)
(* a summary alone, when the entry is synced with the data that were read. *)
(***************************************************************************)
ReadEvent(w, op, e) ==
  /\ Live(e)
  /\ Reads(w, IF op = "edit" THEN [op |-> op, event |-> e]
              ELSE [op |-> op, event |-> e, seen |-> db.events[e]])

WriteEdit(w, form) ==
  LET r == pending[w]
      v == WithData(db.events[r.event], form)
  IN
  /\ r.op = "edit"
  /\ KnowsCategory(r.event, form)
  /\ db.events[r.event].settlements # <<>> => "edit_settled" \in Practices
  /\ ~Live(r.event) => "late_edit" \in Practices
  /\ \E d \in AfterSync([db EXCEPT !.events[r.event] = v], r.event, v) : Answers(w, d)

WriteRename(w) ==
  LET r == pending[w] IN
  /\ r.op = "rename"
  /\ KnowsCategory(r.event, r.seen)
  /\ db.events[r.event] # r.seen => "stale_rename" \in Practices
  /\ \E d \in AfterSync(db, r.event, r.seen) : Answers(w, d)

(***************************************************************************)
(* DELETE /events/{id}, with the entries of the settlements it read: each  *)
(* is taken back by a sync of its own, which may fail.                     *)
(***************************************************************************)
Removed(e) == [db EXCEPT !.events[e].deleted = TRUE]

\* Mutant: the settlements of a debt are left in the books.
DeleteExpenseOnly(w) ==
  LET r == pending[w] IN
  /\ r.op = "delete"
  /\ db.events[r.event] # r.seen => "stale_delete" \in Practices
  /\ \E d \in AfterUnsync(Removed(r.event), r.event) : Answers(w, d)

WriteDelete(w) ==
  LET r == pending[w]
      n == IF IsDebt(r.seen) THEN Len(r.seen.settlements) ELSE 0
  IN
  /\ r.op = "delete"
  /\ db.events[r.event] # r.seen => "stale_delete" \in Practices
  /\ \E d \in AfterUnsync(Removed(r.event), r.event), failing \in SUBSET (1..n) :
       Answers(w, Unsettled(d, n, failing))

(***************************************************************************)
(* POST /expenses/{id}/settle                                              *)
(***************************************************************************)
Settlements == [amount : Amounts, known : BOOLEAN]

ReadSettle(w, e, s) ==
  LET v == db.events[e] IN
  /\ Live(e) /\ IsDebt(v) /\ s.amount <= v.amount - Settled(v)
  /\ Reads(w, [op |-> "settle", event |-> e, seen |-> v, settlement |-> s])

\* The data are written back as they were read, and the vendor is read again.
WriteSettle(w) ==
  LET r == pending[w]
      settlements == Append(r.seen.settlements, r.settlement)
      id == Len(settlements)
      v == [r.seen EXCEPT !.settlements = settlements,
                          !.deleted = db.events[r.event].deleted]
  IN
  /\ r.op = "settle"
  /\ db.events[r.event] # r.seen => "stale_settle" \in Practices
  /\ (\E e \in Events \ {r.event} : Len(db.events[e].settlements) >= id)
       => "second_debt" \in Practices
  /\ \E d \in AfterSettle([db EXCEPT !.events[r.event] = v], id, v.by, r.settlement) :
       Answers(w, d)

-----------------------------------------------------------------------------
LockJournal ==
  /\ db' = LockRange(db)
  /\ UNCHANGED pending

\* The row that was read is refused, or the request ends in an error.
Refuse(w) == pending[w] # Idle /\ Answers(w, db)

Next ==
  \/ \E e \in Events, form \in Forms : CreateEvent(e, form)
  \/ \E w \in Workers, e \in Events :
       \/ \E op \in {"edit", "rename", "delete"} : ReadEvent(w, op, e)
       \/ \E s \in Settlements : ReadSettle(w, e, s)
  \/ \E w \in Workers :
       \/ \E form \in Forms : WriteEdit(w, form)
       \/ WriteRename(w) \/ WriteDelete(w) \/ WriteSettle(w) \/ Refuse(w)
  \/ LockJournal

Spec == Init /\ [][Next]_vars

-----------------------------------------------------------------------------
(***************************************************************************)
(* Properties                                                              *)
(***************************************************************************)
LiveEvents == {e \in Events : Live(e)}

(* After any sequence of creations, edits and deletions, before and after a *)
(* period is closed, the entries of an expense come to its amount, and to   *)
(* nothing once it is deleted or of no category of the books: unless its    *)
(* last sync failed and the repair command has not found it since.          *)
ExpensesAreBooked ==
  \A e \in Events \ db.missed :
    NetOf(EntriesOf(db, "expense", e), "expense")
      = IF Live(e) /\ db.events[e].known THEN db.events[e].amount ELSE 0

NothingFailed == db.missed = {} /\ db.lost = {}

DebtsTo(vendor) == {e \in LiveEvents : db.events[e].by = vendor}

SettledAsKnown(v) == Paid(v, {k \in DOMAIN v.settlements : v.settlements[k].known})

(* What the account of a vendor has is what is left to pay of the debts to  *)
(* that vendor, by the settlements that the debts list and whose source the *)
(* books know, unless a sync failed and nothing has made up for it.         *)
VendorOwed ==
  NothingFailed => \A vendor \in Vendors :
    NetOf(db.journal, vendor)
      + MapThenSumSet(LAMBDA e : db.events[e].amount - SettledAsKnown(db.events[e]),
                      DebtsTo(vendor)) = 0

(* "A full settlement nets that sub-account to zero",                       *)
(* _sync_debt_settlement_journal: when every settlement of the vendor's     *)
(* debts is from a source the books know, and no sync failed.               *)
SettledIsCleared ==
  NothingFailed => \A vendor \in Vendors :
    (\A e \in DebtsTo(vendor) : SettledAsKnown(db.events[e]) = db.events[e].amount)
      => NetOf(db.journal, vendor) = 0

(* "Records the settlement in the expense data JSON settlements array and   *)
(* creates a settlement journal entry: DR 2500 (Accounts Payable) / CR      *)
(* Asset", settle_debt.                                                     *)
SettlementsAreBooked ==
  NothingFailed => \A e \in LiveEvents : \A k \in DOMAIN db.events[e].settlements :
    EntriesOf(db, "expense_settlement", k) # {}

=============================================================================
