----------------------------- MODULE CashDrawer -----------------------------
(***************************************************************************)
(* The cash drawer, its days and its counts: models/cash_drawer.py and     *)
(* api/cash_drawer.py, with the payments and expenses in cash that are     *)
(* booked to the drawer open at the time (_active_drawer_id in             *)
(* services/journal_sync/_common.py).                                      *)
(*                                                                         *)
(* Of the journal only account 1101, the cash in the drawer, is kept: an   *)
(* entry is [id, source, of, cash, drawer, locked], where cash is what it  *)
(* debits 1101 and drawer the drawer that cash_drawer_journal_entries      *)
(* links it to, or NoDrawer.  The other account of an entry is chosen by   *)
(* what the owner answers and does not matter here.                        *)
(***************************************************************************)
EXTENDS Integers, Sequences, FiniteSetsExt

CONSTANTS
  Workers,     \* request threads
  Counts,      \* what a count of the drawer may come to
  Amounts,     \* what is moved, paid or put right at once
  MaxDrawers,  \* bound on the drawers ever opened
  MaxEntries,  \* bound on the entries ever posted, past which no request starts
  MaxDay,      \* bound on the days that pass
  Practices    \* what the staff do, of AllPractices

(***************************************************************************)
(* Ways of working that the API accepts and a run may rule out:            *)
(*   two_openers     opening a drawer while another request opens one      *)
(*   moving_count    opening or closing a drawer while cash moves, or a    *)
(*                   drawer closes, between its sum and its writing        *)
(*   late_cash       cash put in or taken out as the drawer is closed      *)
(*   edit_earlier    changing, while a drawer is open, cash that was not   *)
(*                   booked to it or whose period is closed                *)
(***************************************************************************)
AllPractices == {"two_openers", "moving_count", "late_cash", "edit_earlier"}

ASSUME DrawerAssumption ==
  /\ Counts \subseteq Nat /\ Amounts \subseteq Nat \ {0}
  /\ MaxDrawers \in Nat /\ MaxEntries \in Nat /\ MaxDay \in Nat
  /\ Practices \subseteq AllPractices

VARIABLES
  db,      \* the committed database
  day,     \* the local day
  pending  \* what each worker's request has read, or Idle

vars == <<db, day, pending>>

Idle == [op |-> "idle"]
NoDrawer == 0

Sources == {"payment", "expense", "cash_in", "cash_out", "open", "close_adjust"}
Categories == {"sale", "refund", "expense", "cashIn", "cashOut", "open", "close"}

Init ==
  /\ db = [drawers |-> <<>>, entries |-> {}, lastEntry |-> 0]
  /\ day = 1
  /\ pending = [w \in Workers |-> Idle]

-----------------------------------------------------------------------------
(***************************************************************************)
(* Balances                                                                *)
(***************************************************************************)
CashOf(S) == MapThenSumSet(LAMBDA e : e.cash, S)

Linked(d, i) == {e \in d.entries : e.drawer = i}

\* _get_account_balance of 1101.
Cash(d) == CashOf(d.entries)

\* expected_balance of a drawer that is open.
Expected(d, i) == d.drawers[i].opening + CashOf(Linked(d, i))

Drawers(d) == DOMAIN d.drawers
OpenDrawers(d) == {i \in Drawers(d) : d.drawers[i].status = "open"}

\* get_active: the last of them.
Active(d) ==
  IF OpenDrawers(d) = {} THEN NoDrawer
  ELSE CHOOSE i \in OpenDrawers(d) : \A j \in OpenDrawers(d) : j <= i

\* get_stale_open_before the start of the day.
Stale(d) == {i \in OpenDrawers(d) : d.drawers[i].day < day}

-----------------------------------------------------------------------------
(***************************************************************************)
(* Writes                                                                  *)
(***************************************************************************)
Post(d, source, of, cash, i) ==
  [d EXCEPT !.lastEntry = @ + 1,
            !.entries = @ \union {[id |-> d.lastEntry + 1, source |-> source, of |-> of,
                                   cash |-> cash, drawer |-> i, locked |-> FALSE]}]

\* The held shipping within a sale is not told apart.
Category(e) ==
  CASE e.source = "payment" -> IF e.cash < 0 THEN "refund" ELSE "sale"
    [] e.source = "expense" -> "expense"
    [] e.source = "cash_in" -> "cashIn"
    [] e.source = "cash_out" -> "cashOut"
    [] e.source = "open" -> "open"
    [] e.source = "close_adjust" -> "close"

Breakdown(d, i) ==
  [c \in Categories |-> CashOf({e \in Linked(d, i) : Category(e) = c})]

SaveBreakdown(d, i) == [d EXCEPT !.drawers[i].snapshot = Breakdown(d, i)]

CloseRow(d, i, counted, expected) ==
  [d EXCEPT !.drawers[i] = [@ EXCEPT !.status = "closed", !.counted = counted,
                                     !.closing = expected,
                                     !.discrepancy = counted - expected]]

\* The UPDATE matches a row that is open still; the snapshot is taken anyway.
AutoClose(d, i, expected) ==
  SaveBreakdown(IF i \in OpenDrawers(d) THEN CloseRow(d, i, expected, expected) ELSE d, i)

\* Mutant: the snapshot is not taken.
CloseWithoutSnapshot(d, i, counted, expected, explained) ==
  LET closed == CloseRow(d, i, counted, expected)
  IN  IF counted # expected /\ explained
      THEN Post(closed, "close_adjust", 0, counted - expected, i) ELSE closed

\* The discrepancy is booked after the snapshot, and if its nature was said.
CloseDrawer(d, i, counted, expected, explained) ==
  LET closed == SaveBreakdown(CloseRow(d, i, counted, expected), i)
  IN  IF counted # expected /\ explained
      THEN Post(closed, "close_adjust", 0, counted - expected, i) ELSE closed

NewDrawer(start, reference) ==
  [status |-> "open", day |-> day, opening |-> reference, start |-> start,
   counted |-> 0, closing |-> 0, discrepancy |-> 0, reconciled |-> FALSE,
   snapshot |-> [c \in Categories |-> 0]]

\* Mutant: the whole count is booked on top of what 1101 has.
OpenWithCount(d, start, reference) ==
  LET i == Len(d.drawers) + 1
      opened == [d EXCEPT !.drawers = Append(@, NewDrawer(start, reference))]
  IN  Post(opened, "open", 0, start, i)

\* What the count differs from the reference, which is all of it the first time.
OpenDrawer(d, start, reference) ==
  LET i == Len(d.drawers) + 1
      opened == [d EXCEPT !.drawers = Append(@, NewDrawer(start, reference))]
  IN  IF reference = 0 \/ start # reference
      THEN Post(opened, "open", 0, start - reference, i) ELSE opened

-----------------------------------------------------------------------------
Reads(w, request) ==
  /\ pending[w] = Idle
  /\ pending' = [pending EXCEPT ![w] = request]
  /\ UNCHANGED <<db, day>>

Answers(w, d) ==
  /\ db' = d
  /\ pending' = [pending EXCEPT ![w] = Idle]
  /\ UNCHANGED day

Serves(d) ==
  /\ \E w \in Workers : pending[w] = Idle
  /\ db' = d
  /\ UNCHANGED <<day, pending>>

\* One entry more is left for closing the drawer, or for opening one.
Room == db.lastEntry + 1 < MaxEntries

Midnight == day < MaxDay /\ day' = day + 1 /\ UNCHANGED <<db, pending>>

-----------------------------------------------------------------------------
(***************************************************************************)
(* open_drawer, with every proposal confirmed.  Of an unclosed day the     *)
(* expected balance is the reference, and the write phase begins with its  *)
(* closing; else the balance of 1101 is.                                   *)
(***************************************************************************)
ExpectedOf(S) == [i \in S |-> Expected(db, i)]

ReadOpen(w, start) ==
  /\ Len(db.drawers) < MaxDrawers /\ db.lastEntry < MaxEntries
  /\ Stale(db) = {} => OpenDrawers(db) = {}
  /\ Reads(w, [op |-> "open", start |-> start, cash |-> Cash(db),
               stale |-> ExpectedOf(Stale(db))])

\* All of the drawers in the domain of stale, in one transaction.
AutoCloseAll(d, stale) ==
  LET first == CHOOSE i \in DOMAIN stale : \A j \in DOMAIN stale : i <= j
      one == AutoClose(d, first, stale[first])
  IN  IF stale = <<>> THEN d
      ELSE [one EXCEPT !.drawers =
              [j \in Drawers(d) |-> IF j \in DOMAIN stale \ {first}
                                    THEN AutoClose(d, j, Expected(d, j)).drawers[j]
                                    ELSE one.drawers[j]]]

\* What was summed up before the first write is so still.
SumsHold(stale) ==
  \A i \in DOMAIN stale : i \in OpenDrawers(db) /\ stale[i] = Expected(db, i)

WriteOpen(w) ==
  LET r == pending[w]
      closed == AutoCloseAll(db, r.stale)
      latest == CHOOSE i \in DOMAIN r.stale : \A j \in DOMAIN r.stale : j <= i
      reference == IF r.stale = <<>> THEN r.cash ELSE r.stale[latest]
  IN
  /\ r.op = "open" /\ Len(db.drawers) < MaxDrawers
  /\ r.stale # <<>> => OpenDrawers(closed) = {}
  /\ OpenDrawers(closed) # {} => "two_openers" \in Practices
  /\ (r.cash = Cash(db) /\ SumsHold(r.stale)) \/ "moving_count" \in Practices
  /\ Answers(w, OpenDrawer(closed, r.start, reference))

-----------------------------------------------------------------------------
(***************************************************************************)
(* _auto_close_stale_drawers, with which every other request and the       *)
(* status page begin, and which commits by itself.                         *)
(***************************************************************************)
ReadAutoClose(w) ==
  /\ Stale(db) # {}
  /\ Reads(w, [op |-> "auto_close", stale |-> ExpectedOf(Stale(db))])

WriteAutoClose(w) ==
  /\ pending[w].op = "auto_close"
  /\ SumsHold(pending[w].stale) \/ "moving_count" \in Practices
  /\ Answers(w, AutoCloseAll(db, pending[w].stale))

\* What is read of the drawer after that.
ReadActive(w, request) == Stale(db) = {} /\ OpenDrawers(db) # {} /\ Reads(w, request)

(***************************************************************************)
(* cash_in and cash_out                                                    *)
(***************************************************************************)
ReadCash(w, source, amount) ==
  /\ Room
  /\ ReadActive(w, [op |-> source, amount |-> amount, drawer |-> Active(db)])

WriteCash(w) ==
  LET r == pending[w] IN
  /\ r.op \in {"cash_in", "cash_out"}
  /\ r.drawer \in OpenDrawers(db) \/ "late_cash" \in Practices
  /\ Answers(w, Post(db, r.op, 0, IF r.op = "cash_in" THEN r.amount ELSE -r.amount,
                     r.drawer))

(***************************************************************************)
(* close_drawer.  A drawer that is closed by the time of the UPDATE        *)
(* raises, and so does a discrepancy that nobody confirmed.                *)
(***************************************************************************)
ReadClose(w, counted, explained) ==
  /\ db.lastEntry < MaxEntries
  /\ ReadActive(w, [op |-> "close", counted |-> counted, explained |-> explained,
                    drawer |-> Active(db), expected |-> Expected(db, Active(db))])

\* Mutant: the UPDATE asks for the drawer, and not for status = 'open'.
WriteAnyClose(w) ==
  LET r == pending[w] IN
  /\ r.op = "close"
  /\ Answers(w, CloseDrawer(db, r.drawer, r.counted, r.expected, r.explained))

WriteClose(w) ==
  LET r == pending[w] IN
  /\ r.op = "close" /\ r.drawer \in OpenDrawers(db)
  /\ r.expected = Expected(db, r.drawer) \/ "moving_count" \in Practices
  /\ Answers(w, CloseDrawer(db, r.drawer, r.counted, r.expected, r.explained))

-----------------------------------------------------------------------------
(***************************************************************************)
(* edit_transaction, of an amount: the entry keeps its side.  Of a closed  *)
(* drawer the close is made up anew when its discrepancy is edited, and    *)
(* not when its opening is.  A locked entry is edited like another.        *)
(***************************************************************************)
ReadEdit(w, e, amount) ==
  /\ e.source \in {"open", "close_adjust"} /\ e.cash # 0
  /\ ~db.drawers[e.drawer].reconciled
  /\ Reads(w, [op |-> "edit", entry |-> e.id, amount |-> amount])

Changed(d, e, cash) == [d EXCEPT !.entries = (@ \ {e}) \union {[e EXCEPT !.cash = cash]}]

MakeUpClose(d, i, adjustment) ==
  LET closing == Expected(d, i)
  IN  SaveBreakdown([d EXCEPT !.drawers[i] =
        [@ EXCEPT !.closing = closing, !.counted = closing, !.discrepancy = adjustment]], i)

\* Changing entry e leaves the sum of the open drawer what it is of 1101.
OfTheOpenDrawer(e) ==
  OpenDrawers(db) # {} /\ (e.drawer # Active(db) \/ e.locked)
    => "edit_earlier" \in Practices

WriteEdit(w) ==
  /\ pending[w].op = "edit"
  /\ \E e \in db.entries :
       LET cash == IF e.cash > 0 THEN pending[w].amount ELSE -pending[w].amount
           changed == Changed(db, e, cash)
       IN
       /\ e.id = pending[w].entry
       /\ e.drawer # Active(db) => OfTheOpenDrawer(e)
       /\ Answers(w, IF e.source = "close_adjust"
                     THEN MakeUpClose(changed, e.drawer, cash) ELSE changed)

Reconcile(i) == Serves([db EXCEPT !.drawers[i].reconciled = TRUE])

-----------------------------------------------------------------------------
(***************************************************************************)
(* A payment of an order or an expense, in cash: the journal is synced     *)
(* after the first write of its request, which is therefore one action.    *)
(* Its document is the id of its first entry.                              *)
(***************************************************************************)
DocumentSources == {"payment", "expense"}

\* Mutant: the entry is not linked to the drawer.
BookUnlinked(source, cash) ==
  /\ Room
  /\ source = "expense" => cash < 0
  /\ Serves(Post(db, source, db.lastEntry + 1, cash, NoDrawer))

BookDocument(source, cash) ==
  /\ Room
  /\ source = "expense" => cash < 0
  /\ Serves(Post(db, source, db.lastEntry + 1, cash, Active(db)))

\* The last entry of each document, by which a sync finds it.
LastEntries ==
  {e \in db.entries : /\ e.source \in DocumentSources
                      /\ \A f \in db.entries : f.of = e.of => f.id <= e.id}

\* Neither the link nor the drawer it points to is looked at.
Reversed(d, e) == Post(d, e.source, e.of, -e.cash, NoDrawer)

\* cash is 0 once it is paid by transfer.
UpdateDocument(e, cash) ==
  /\ e.locked => Room
  /\ OfTheOpenDrawer(e)
  /\ Serves(IF e.locked THEN Post(Reversed(db, e), e.source, e.of, cash, Active(db))
            ELSE Changed(db, e, cash))

DeleteDocument(e) ==
  /\ e.locked => Room
  /\ OfTheOpenDrawer(e)
  /\ Serves(IF e.locked THEN Reversed(db, e) ELSE [db EXCEPT !.entries = @ \ {e}])

LockJournal ==
  Serves([db EXCEPT !.entries = {[e EXCEPT !.locked = TRUE] : e \in @}])

\* Refused, or the client does not come back with what was proposed to it.
Drop(w) == pending[w] # Idle /\ Answers(w, db)

-----------------------------------------------------------------------------
Paid == Amounts \union {-a : a \in Amounts}

Next ==
  \/ Midnight
  \/ \E w \in Workers, n \in Counts :
       ReadOpen(w, n) \/ \E explained \in BOOLEAN : ReadClose(w, n, explained)
  \/ \E w \in Workers, source \in {"cash_in", "cash_out"}, amount \in Amounts :
       ReadCash(w, source, amount)
  \/ \E w \in Workers, e \in db.entries, amount \in Amounts : ReadEdit(w, e, amount)
  \/ \E w \in Workers :
       \/ ReadAutoClose(w)
       \/ WriteOpen(w) \/ WriteAutoClose(w) \/ WriteCash(w) \/ WriteClose(w)
       \/ WriteEdit(w) \/ Drop(w)
  \/ \E i \in Drawers(db) : Reconcile(i)
  \/ \E source \in DocumentSources, cash \in Paid : BookDocument(source, cash)
  \/ \E e \in LastEntries :
       DeleteDocument(e) \/ \E cash \in Paid \union {0} : UpdateDocument(e, cash)
  \/ LockJournal

Spec == Init /\ [][Next]_vars

-----------------------------------------------------------------------------
(***************************************************************************)
(* Properties                                                              *)
(***************************************************************************)
(* While a drawer is open, account 1101 has what the drawer is expected to  *)
(* have: "1101's balance always equals the drawer's expected balance        *)
(* (NFR4)", api/cash_drawer.py.                                             *)
BooksMatchDrawer == OpenDrawers(db) # {} => Cash(db) = Expected(db, Active(db))

(* A count is what the books say at that moment: after the morning's count  *)
(* 1101 has the opening amount, whatever was booked since the last drawer   *)
(* was closed, and after the evening's count it has the counted amount.     *)
CountsAreBooked ==
  [][\A w \in Workers : pending'[w] # pending[w] /\ db' # db =>
       /\ pending[w].op = "open" => Cash(db') = pending[w].start
       /\ pending[w].op = "close" /\ pending[w].explained
            => Cash(db') = pending[w].counted]_vars

(* What a closed drawer says it should have held is its opening and what    *)
(* the report of that drawer lists, whoever closed it and whatever was      *)
(* changed in its books since.                                              *)
SnapshotExplainsClosing ==
  \A i \in Drawers(db) \ OpenDrawers(db) :
    LET r == db.drawers[i]
    IN  r.closing = r.opening + MapThenSumSet(LAMBDA c : r.snapshot[c], Categories)

(* A drawer is closed once: of two requests that close it, by hand or at    *)
(* the end of the day, the later one leaves the count of the first.  Only   *)
(* an edit of the discrepancy changes it.                                   *)
ClosedStands ==
  [][\A i \in Drawers(db) \ OpenDrawers(db) :
       \/ db'.drawers[i].counted = db.drawers[i].counted
       \/ \E w \in Workers : pending[w].op = "edit" /\ pending'[w] = Idle]_vars

(* "Only one active drawer may exist at a time", open_drawer.               *)
OneOpen == Cardinality(OpenDrawers(db)) <= 1

=============================================================================
