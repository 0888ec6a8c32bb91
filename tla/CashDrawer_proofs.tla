------------------------- MODULE CashDrawer_proofs -------------------------
(***************************************************************************)
(* For any workers, counts, amounts and days: that the count of a closed   *)
(* drawer stands whatever the staff do (two closers, an automatic closing  *)
(* by a request that read the drawer open, and late cash included), and    *)
(* which practices must be ruled out for the drawer to be one, for its     *)
(* report to add up, and for account 1101 to agree with it.                *)
(***************************************************************************)
EXTENDS CashDrawer, SequenceTheorems, SumTheorems

(***************************************************************************)
(* Typed(d): d has its tables, and the drawers their columns.  Stands(d,   *)
(* d2): d2 has them too, and what d has closed is closed in d2 on the same *)
(* count.                                                                  *)
(***************************************************************************)
Tables == {"drawers", "entries", "lastEntry"}
Columns == {"status", "day", "opening", "start", "counted", "closing", "discrepancy",
            "reconciled", "snapshot"}

Typed(d) ==
  /\ d = [t \in Tables |-> d[t]]
  /\ Len(d.drawers) \in Nat
  /\ d.drawers = [i \in 1..Len(d.drawers) |-> d.drawers[i]]
  /\ \A i \in Drawers(d) : d.drawers[i] = [c \in Columns |-> d.drawers[i][c]]

Stands(d, d2) ==
  /\ Typed(d2)
  /\ Drawers(d) \subseteq Drawers(d2)
  /\ \A i \in Drawers(d) :
       d.drawers[i].status # "open" =>
         /\ d2.drawers[i].status = d.drawers[i].status
         /\ d2.drawers[i].counted = d.drawers[i].counted

\* Standing passes on.
LEMMA StandsOn ==
  ASSUME NEW d, NEW d2, NEW d3, Stands(d, d2), Stands(d2, d3)
  PROVE  Stands(d, d3)
BY DEF Stands

LEMMA StandsStill ==
  ASSUME NEW d, Typed(d)
  PROVE  Stands(d, d)
BY DEF Stands

(***************************************************************************)
(* What each write does                                                    *)
(***************************************************************************)
\* A write of entries leaves the drawers.
LEMMA EntriesStand ==
  ASSUME NEW d, NEW d2, Typed(d), d2 = [t \in Tables |-> d2[t]], d2.drawers = d.drawers
  PROVE  Stands(d, d2)
<1>1. Drawers(d2) = Drawers(d)
  BY DEF Drawers
<1>2. Typed(d2)
  BY <1>1, Zenon DEF Typed
<1> QED
  BY <1>1, <1>2, Zenon DEF Stands

LEMMA PostStands ==
  ASSUME NEW d, Typed(d), NEW source, NEW of, NEW cash, NEW i
  PROVE  Stands(d, Post(d, source, of, cash, i))
<1> DEFINE d2 == Post(d, source, of, cash, i)
<1>1. d2 = [t \in Tables |-> d2[t]] /\ d2.drawers = d.drawers
  BY DEF Typed, Tables, Post
<1> QED
  BY <1>1, EntriesStand

\* A write of the row of one drawer.
LEMMA RowIs ==
  ASSUME NEW d, Typed(d), NEW i, NEW row,
         i \in Drawers(d) => row = [c \in Columns |-> row[c]]
  PROVE  LET d2 == [d EXCEPT !.drawers = [d.drawers EXCEPT ![i] = row]]
         IN  /\ Typed(d2) /\ Drawers(d2) = Drawers(d)
             /\ \A j \in Drawers(d) :
                  d2.drawers[j] = IF j = i THEN row ELSE d.drawers[j]
<1> DEFINE d2 == [d EXCEPT !.drawers = [d.drawers EXCEPT ![i] = row]]
<1>1. /\ d2 = [t \in Tables |-> d2[t]]
      /\ d2.drawers = [d.drawers EXCEPT ![i] = row]
  BY DEF Typed, Tables
<1>2. DOMAIN d.drawers = 1..Len(d.drawers) /\ Len(d.drawers) \in Nat
  BY DEF Typed
<1>3. /\ DOMAIN d2.drawers = 1..Len(d.drawers)
      /\ \A j \in DOMAIN d.drawers :
           d2.drawers[j] = IF j = i THEN row ELSE d.drawers[j]
      /\ d2.drawers = [j \in 1..Len(d.drawers) |-> d2.drawers[j]]
  BY <1>1, <1>2
<1>4. Len(d2.drawers) = Len(d.drawers)
  BY <1>2, <1>3, LenProperties
<1> HIDE DEF d2
<1>5. \A j \in DOMAIN d2.drawers : d2.drawers[j] = [c \in Columns |-> d2.drawers[j][c]]
  <2>1. \A j \in DOMAIN d.drawers : d.drawers[j] = [c \in Columns |-> d.drawers[j][c]]
    BY DEF Typed, Drawers
  <2> QED
    BY <1>2, <1>3, <2>1 DEF Drawers
<1>6. Typed(d2)
  BY <1>1, <1>2, <1>3, <1>4, <1>5 DEF Typed, Drawers
<1> QED
  BY <1>2, <1>3, <1>6 DEF Drawers, d2

LEMMA RowWrite ==
  ASSUME NEW d, Typed(d), NEW i, NEW row,
         i \in Drawers(d) =>
           /\ row = [c \in Columns |-> row[c]]
           /\ d.drawers[i].status # "open" =>
                row.status = d.drawers[i].status /\ row.counted = d.drawers[i].counted
  PROVE  Stands(d, [d EXCEPT !.drawers = [d.drawers EXCEPT ![i] = row]])
<1> DEFINE d2 == [d EXCEPT !.drawers = [d.drawers EXCEPT ![i] = row]]
<1>1. /\ Typed(d2) /\ Drawers(d2) = Drawers(d)
      /\ \A j \in Drawers(d) : d2.drawers[j] = IF j = i THEN row ELSE d.drawers[j]
  BY RowIs
<1> HIDE DEF d2
<1>2. Stands(d, d2)
  BY <1>1 DEF Stands
<1> QED
  BY <1>2 DEF d2

\* Snapshots, closings and the mark of a reconciled drawer.
LEMMA SnapshotStands ==
  ASSUME NEW d, Typed(d), NEW i
  PROVE  Stands(d, SaveBreakdown(d, i))
<1> DEFINE row == [d.drawers[i] EXCEPT !.snapshot = Breakdown(d, i)]
<1>1. SaveBreakdown(d, i) = [d EXCEPT !.drawers = [d.drawers EXCEPT ![i] = row]]
  BY DEF SaveBreakdown
<1>2. ASSUME i \in Drawers(d)
      PROVE  /\ row = [c \in Columns |-> row[c]]
             /\ row.status = d.drawers[i].status /\ row.counted = d.drawers[i].counted
  BY <1>2 DEF Typed, Columns
<1> HIDE DEF row
<1> QED
  BY <1>1, <1>2, RowWrite

LEMMA ReconciledStands ==
  ASSUME NEW d, Typed(d), NEW i
  PROVE  Stands(d, [d EXCEPT !.drawers[i].reconciled = TRUE])
<1> DEFINE row == [d.drawers[i] EXCEPT !.reconciled = TRUE]
<1>1. [d EXCEPT !.drawers[i].reconciled = TRUE]
        = [d EXCEPT !.drawers = [d.drawers EXCEPT ![i] = row]]
  OBVIOUS
<1>2. ASSUME i \in Drawers(d)
      PROVE  /\ row = [c \in Columns |-> row[c]]
             /\ row.status = d.drawers[i].status /\ row.counted = d.drawers[i].counted
  BY <1>2 DEF Typed, Columns
<1> HIDE DEF row
<1> QED
  BY <1>1, <1>2, RowWrite

\* Only a drawer that is open is closed.
LEMMA CloseRowStands ==
  ASSUME NEW d, Typed(d), NEW i \in OpenDrawers(d), NEW counted, NEW expected
  PROVE  Stands(d, CloseRow(d, i, counted, expected))
<1> DEFINE row == [d.drawers[i] EXCEPT !.status = "closed", !.counted = counted,
                                       !.closing = expected,
                                       !.discrepancy = counted - expected]
<1>1. CloseRow(d, i, counted, expected)
        = [d EXCEPT !.drawers = [d.drawers EXCEPT ![i] = row]]
  BY DEF CloseRow
<1>2. i \in Drawers(d) /\ d.drawers[i].status = "open"
  BY DEF OpenDrawers
<1>3. row = [c \in Columns |-> row[c]]
  BY <1>2 DEF Typed, Columns
<1> HIDE DEF row
<1> QED
  BY <1>1, <1>2, <1>3, RowWrite

\* A drawer that was closed meanwhile only has its snapshot taken again.
LEMMA AutoCloseStands ==
  ASSUME NEW d, Typed(d), NEW i, NEW expected
  PROVE  Stands(d, AutoClose(d, i, expected))
<1> DEFINE one == IF i \in OpenDrawers(d) THEN CloseRow(d, i, expected, expected) ELSE d
<1>1. Stands(d, one)
  BY CloseRowStands, StandsStill
<1>2. Stands(one, SaveBreakdown(one, i))
  BY <1>1, SnapshotStands DEF Stands
<1>3. AutoClose(d, i, expected) = SaveBreakdown(one, i)
  BY DEF AutoClose
<1> QED
  BY <1>1, <1>2, <1>3, StandsOn

LEMMA CloseDrawerStands ==
  ASSUME NEW d, Typed(d), NEW i \in OpenDrawers(d), NEW counted, NEW expected,
         NEW explained
  PROVE  Stands(d, CloseDrawer(d, i, counted, expected, explained))
<1> DEFINE row == CloseRow(d, i, counted, expected)
           closed == SaveBreakdown(row, i)
<1>1. Stands(d, row)
  BY CloseRowStands
<1>2. Stands(row, closed)
  BY <1>1, SnapshotStands DEF Stands
<1>3. Stands(d, closed) /\ Typed(closed)
  BY <1>1, <1>2, StandsOn DEF Stands
<1>4. Stands(closed, Post(closed, "close_adjust", 0, counted - expected, i))
  BY <1>3, PostStands
<1> HIDE DEF row
<1>5. CloseDrawer(d, i, counted, expected, explained)
        = IF counted # expected /\ explained
          THEN Post(closed, "close_adjust", 0, counted - expected, i) ELSE closed
  BY DEF CloseDrawer, row
<1> HIDE DEF closed
<1> QED
  BY <1>3, <1>4, <1>5, StandsOn

\* A row is appended.
LEMMA Appended ==
  ASSUME NEW d, Typed(d), NEW row, row = [c \in Columns |-> row[c]]
  PROVE  LET d2 == [d EXCEPT !.drawers = Append(@, row)]
             i == Len(d.drawers) + 1
         IN  /\ Typed(d2) /\ d2.entries = d.entries /\ d2.lastEntry = d.lastEntry
             /\ i \notin Drawers(d) /\ i # NoDrawer /\ Drawers(d2) = Drawers(d) \cup {i}
             /\ \A j \in Drawers(d) : d2.drawers[j] = d.drawers[j]
             /\ d2.drawers[i] = row
<1> DEFINE i == Len(d.drawers) + 1
           d2 == [d EXCEPT !.drawers = Append(@, row)]
<1>1. DOMAIN d.drawers = 1..Len(d.drawers) /\ Len(d.drawers) \in Nat
  BY DEF Typed
<1>2. /\ d2 = [t \in Tables |-> d2[t]] /\ d2.drawers = Append(d.drawers, row)
      /\ d2.entries = d.entries /\ d2.lastEntry = d.lastEntry
  BY DEF Typed, Tables
<1>3. /\ DOMAIN d2.drawers = 1..i
      /\ \A j \in 1..i : d2.drawers[j] = IF j = i THEN row ELSE d.drawers[j]
      /\ d2.drawers = [j \in 1..i |-> d2.drawers[j]]
  BY <1>1, <1>2
<1> HIDE DEF d2
<1>4. Len(d2.drawers) = i /\ i \in Nat
  BY <1>1, <1>3, LenProperties
<1>5. /\ i \notin Drawers(d) /\ i # NoDrawer /\ Drawers(d2) = Drawers(d) \cup {i}
      /\ \A j \in Drawers(d) : j \in 1..i /\ j # i
  BY <1>1, <1>3 DEF Drawers, NoDrawer
<1>6. \A j \in Drawers(d) : d.drawers[j] = [c \in Columns |-> d.drawers[j][c]]
  BY DEF Typed
<1>7. /\ \A j \in Drawers(d) : d2.drawers[j] = d.drawers[j]
      /\ d2.drawers[i] = row
  <2>1. i \in 1..i
    BY <1>4
  <2> HIDE DEF i
  <2> QED
    BY <1>3, <1>5, <2>1
<1>8. \A j \in Drawers(d2) : d2.drawers[j] = [c \in Columns |-> d2.drawers[j][c]]
  <2> HIDE DEF i
  <2> QED
    BY <1>5, <1>6, <1>7
<1>9. Typed(d2)
  BY <1>2, <1>3, <1>4, <1>8 DEF Typed
<1> QED
  BY <1>2, <1>5, <1>7, <1>9 DEF d2

LEMMA OpenDrawerStands ==
  ASSUME NEW d, Typed(d), NEW start, NEW reference
  PROVE  Stands(d, OpenDrawer(d, start, reference))
<1> DEFINE i == Len(d.drawers) + 1
           row == NewDrawer(start, reference)
           opened == [d EXCEPT !.drawers = Append(@, row)]
<1>1. row = [c \in Columns |-> row[c]]
  BY DEF NewDrawer, Columns
<1>2. OpenDrawer(d, start, reference)
        = IF reference = 0 \/ start # reference
          THEN Post(opened, "open", 0, start - reference, i) ELSE opened
  BY DEF OpenDrawer
<1> HIDE DEF row
<1>3. /\ Typed(opened) /\ Drawers(d) \subseteq Drawers(opened)
      /\ \A j \in Drawers(d) : opened.drawers[j] = d.drawers[j]
  BY <1>1, Appended
<1> HIDE DEF opened
<1>4. Stands(d, opened)
  BY <1>3 DEF Stands
<1>5. Stands(opened, Post(opened, "open", 0, start - reference, i))
  BY <1>3, PostStands
<1> QED
  BY <1>2, <1>4, <1>5, StandsOn

\* The drawers of several days are closed at once.
LEMMA AutoCloseAllStands ==
  ASSUME NEW d, Typed(d), NEW stale
  PROVE  Stands(d, AutoCloseAll(d, stale))
<1> DEFINE first == CHOOSE i \in DOMAIN stale : \A j \in DOMAIN stale : i <= j
           one == AutoClose(d, first, stale[first])
           Other(j) == AutoClose(d, j, Expected(d, j)).drawers[j]
           rows == [j \in Drawers(d) |-> IF j \in DOMAIN stale \ {first} THEN Other(j)
                                         ELSE one.drawers[j]]
           all == [one EXCEPT !.drawers = rows]
<1>1. AutoCloseAll(d, stale) = IF stale = <<>> THEN d ELSE all
  BY DEF AutoCloseAll
<1>2. Stands(d, one)
  BY AutoCloseStands
<1>3. ASSUME NEW j \in Drawers(d)
      PROVE  /\ Other(j) = [c \in Columns |-> Other(j)[c]]
             /\ d.drawers[j].status # "open" =>
                  Other(j).status = d.drawers[j].status
                    /\ Other(j).counted = d.drawers[j].counted
  <2> DEFINE e == AutoClose(d, j, Expected(d, j))
  <2>1. Stands(d, e)
    BY AutoCloseStands
  <2> HIDE DEF e
  <2>2. /\ e.drawers[j] = [c \in Columns |-> e.drawers[j][c]]
        /\ d.drawers[j].status # "open" =>
             e.drawers[j].status = d.drawers[j].status
               /\ e.drawers[j].counted = d.drawers[j].counted
    BY <2>1 DEF Stands, Typed
  <2> QED
    BY <2>2 DEF e
<1>4. ASSUME NEW j \in Drawers(d)
      PROVE  /\ one.drawers[j] = [c \in Columns |-> one.drawers[j][c]]
             /\ d.drawers[j].status # "open" =>
                  one.drawers[j].status = d.drawers[j].status
                    /\ one.drawers[j].counted = d.drawers[j].counted
  BY <1>2 DEF Stands, Typed
<1>5. one = [t \in Tables |-> one[t]]
  BY <1>2 DEF Stands, Typed
<1> HIDE DEF one, Other
<1>6. /\ all = [t \in Tables |-> all[t]] /\ all.drawers = rows
  BY <1>5 DEF Tables
<1>7. Drawers(d) = 1..Len(d.drawers) /\ Len(d.drawers) \in Nat
  BY DEF Typed, Drawers
<1>8. \A j \in Drawers(d) :
        /\ rows[j] = [c \in Columns |-> rows[j][c]]
        /\ d.drawers[j].status # "open" =>
             rows[j].status = d.drawers[j].status /\ rows[j].counted = d.drawers[j].counted
  BY <1>3, <1>4
<1>9. /\ rows = [j \in Drawers(d) |-> rows[j]] /\ DOMAIN rows = Drawers(d)
  OBVIOUS
<1> HIDE DEF rows, all
<1>10. Len(rows) = Len(d.drawers)
  BY <1>7, <1>9, LenProperties
<1>11. Typed(all)
  BY <1>6, <1>7, <1>8, <1>9, <1>10 DEF Typed, Drawers
<1>12. Stands(d, all)
  BY <1>6, <1>8, <1>9, <1>11 DEF Stands, Drawers
<1> QED
  BY <1>1, <1>12, StandsStill

\* An edit of the discrepancy keeps the tables.
LEMMA MakeUpCloseTyped ==
  ASSUME NEW d, Typed(d), NEW i, NEW adjustment
  PROVE  Typed(MakeUpClose(d, i, adjustment))
<1> DEFINE closing == Expected(d, i)
           row == [d.drawers[i] EXCEPT !.closing = closing, !.counted = closing,
                                       !.discrepancy = adjustment]
           d2 == [d EXCEPT !.drawers = [d.drawers EXCEPT ![i] = row]]
<1> HIDE DEF closing
<1>1. i \in Drawers(d) => row = [c \in Columns |-> row[c]]
  BY DEF Typed, Columns
<1>2. MakeUpClose(d, i, adjustment) = SaveBreakdown(d2, i)
  BY DEF MakeUpClose, closing
<1> HIDE DEF row
<1>3. Typed(d2)
  BY <1>1, RowIs
<1> HIDE DEF d2
<1> QED
  BY <1>2, <1>3, SnapshotStands DEF Stands

(***************************************************************************)
(* The steps.  An edit of an entry is the one that may change a count.     *)
(***************************************************************************)
DrawerInv ==
  /\ Typed(db)
  /\ pending = [w \in Workers |-> pending[w]]

Edits == \E w \in Workers : pending[w].op = "edit" /\ pending'[w] = Idle

LEMMA ServeStep ==
  ASSUME DrawerInv, NEW d, Stands(db, d), Serves(d)
  PROVE  DrawerInv' /\ Stands(db, db')
BY DEF DrawerInv, Serves, Stands

LEMMA AnswerStep ==
  ASSUME DrawerInv, NEW w \in Workers, NEW d, Typed(d), Answers(w, d)
  PROVE  DrawerInv' /\ db' = d /\ pending'[w] = Idle
BY DEF DrawerInv, Answers

LEMMA ReadStep ==
  ASSUME DrawerInv, NEW w \in Workers, NEW request, Reads(w, request)
  PROVE  DrawerInv' /\ Stands(db, db')
<1>1. db' = db /\ pending' = [pending EXCEPT ![w] = request]
  BY DEF Reads
<1> QED
  BY <1>1, StandsStill DEF DrawerInv

\* The first phase of every request.
LEMMA Reading ==
  ASSUME DrawerInv, NEW w \in Workers,
         \/ \E n \in Counts :
              ReadOpen(w, n) \/ \E explained \in BOOLEAN : ReadClose(w, n, explained)
         \/ \E source \in {"cash_in", "cash_out"}, amount \in Amounts :
              ReadCash(w, source, amount)
         \/ \E e \in db.entries, amount \in Amounts : ReadEdit(w, e, amount)
         \/ ReadAutoClose(w)
  PROVE  DrawerInv' /\ Stands(db, db')
<1>1. \E request : Reads(w, request)
  BY DEF ReadOpen, ReadClose, ReadCash, ReadEdit, ReadAutoClose, ReadActive
<1> QED
  BY <1>1, ReadStep

LEMMA OpenStep ==
  ASSUME DrawerInv, NEW w \in Workers, WriteOpen(w)
  PROVE  DrawerInv' /\ Stands(db, db')
<1> DEFINE closed == AutoCloseAll(db, pending[w].stale)
<1>1. Typed(db)
  BY DEF DrawerInv
<1>2. Stands(db, closed)
  BY <1>1, AutoCloseAllStands
<1>3. PICK start, reference : Answers(w, OpenDrawer(closed, start, reference))
  BY DEF WriteOpen
<1> HIDE DEF closed
<1>4. Stands(closed, OpenDrawer(closed, start, reference))
  BY <1>2, OpenDrawerStands DEF Stands
<1>5. Stands(db, OpenDrawer(closed, start, reference))
  BY <1>2, <1>4, StandsOn
<1> QED
  BY <1>3, <1>5, AnswerStep DEF Stands

LEMMA AutoCloseStep ==
  ASSUME DrawerInv, NEW w \in Workers, WriteAutoClose(w)
  PROVE  DrawerInv' /\ Stands(db, db')
<1>1. Stands(db, AutoCloseAll(db, pending[w].stale))
  BY AutoCloseAllStands DEF DrawerInv
<1>2. Answers(w, AutoCloseAll(db, pending[w].stale))
  BY DEF WriteAutoClose
<1> QED
  BY <1>1, <1>2, AnswerStep DEF Stands

LEMMA CashStep ==
  ASSUME DrawerInv, NEW w \in Workers, WriteCash(w)
  PROVE  DrawerInv' /\ Stands(db, db')
<1>1. PICK source, of, cash, i : Answers(w, Post(db, source, of, cash, i))
  BY DEF WriteCash
<1>2. Stands(db, Post(db, source, of, cash, i))
  BY PostStands DEF DrawerInv
<1> QED
  BY <1>1, <1>2, AnswerStep DEF Stands

\* The drawer is open when its count is written.
LEMMA CloseStep ==
  ASSUME DrawerInv, NEW w \in Workers, WriteClose(w)
  PROVE  DrawerInv' /\ Stands(db, db')
<1> DEFINE r == pending[w]
           d == CloseDrawer(db, r.drawer, r.counted, r.expected, r.explained)
<1>1. r.drawer \in OpenDrawers(db) /\ Answers(w, d)
  BY DEF WriteClose
<1>2. Stands(db, d)
  BY <1>1, CloseDrawerStands DEF DrawerInv
<1> HIDE DEF d
<1> QED
  BY <1>1, <1>2, AnswerStep DEF Stands

LEMMA EditStep ==
  ASSUME DrawerInv, NEW w \in Workers, WriteEdit(w)
  PROVE  DrawerInv' /\ Edits
<1>1. PICK e, cash, edited :
        LET changed == Changed(db, e, cash)
        IN  /\ edited = IF e.source = "close_adjust"
                        THEN MakeUpClose(changed, e.drawer, cash) ELSE changed
            /\ Answers(w, edited)
  BY DEF WriteEdit
<1> DEFINE changed == Changed(db, e, cash)
<1>2. changed = [t \in Tables |-> changed[t]] /\ changed.drawers = db.drawers
  BY DEF Changed, DrawerInv, Typed, Tables
<1> HIDE DEF changed
<1>3. Typed(changed)
  BY <1>2, EntriesStand DEF Stands, DrawerInv
<1>4. Typed(MakeUpClose(changed, e.drawer, cash))
  BY <1>3, MakeUpCloseTyped
<1>5. Typed(edited) /\ Answers(w, edited)
  BY <1>1, <1>3, <1>4 DEF changed
<1>6. pending[w].op = "edit"
  BY DEF WriteEdit
<1> QED
  BY <1>5, <1>6, AnswerStep DEF Edits

LEMMA DropStep ==
  ASSUME DrawerInv, NEW w \in Workers, Drop(w)
  PROVE  DrawerInv' /\ Stands(db, db')
BY AnswerStep, StandsStill DEF Drop, DrawerInv

LEMMA ReconcileStep ==
  ASSUME DrawerInv, NEW i, Reconcile(i)
  PROVE  DrawerInv' /\ Stands(db, db')
BY ServeStep, ReconciledStands DEF Reconcile, DrawerInv

\* Payments, expenses and the lock write entries.
LEMMA BookStep ==
  ASSUME DrawerInv, NEW source, NEW cash, BookDocument(source, cash)
  PROVE  DrawerInv' /\ Stands(db, db')
BY ServeStep, PostStands DEF BookDocument, DrawerInv

LEMMA DocumentStep ==
  ASSUME DrawerInv, NEW e, NEW cash, DeleteDocument(e) \/ UpdateDocument(e, cash)
  PROVE  DrawerInv' /\ Stands(db, db')
<1> DEFINE reversed == Reversed(db, e)
           again == Post(reversed, e.source, e.of, cash, Active(db))
           changed == Changed(db, e, cash)
           removed == [db EXCEPT !.entries = @ \ {e}]
<1>1. Typed(db)
  BY DEF DrawerInv
<1>2. Stands(db, reversed)
  BY <1>1, PostStands DEF Reversed
<1>3. Stands(db, changed)
  <2>1. changed = [t \in Tables |-> changed[t]] /\ changed.drawers = db.drawers
    BY <1>1 DEF Changed, Typed, Tables
  <2> HIDE DEF changed
  <2> QED
    BY <1>1, <2>1, EntriesStand
<1>4. Stands(db, removed)
  <2>1. removed = [t \in Tables |-> removed[t]] /\ removed.drawers = db.drawers
    BY <1>1 DEF Typed, Tables
  <2> HIDE DEF removed
  <2> QED
    BY <1>1, <2>1, EntriesStand
<1>5. Stands(db, again)
  BY <1>2, PostStands, StandsOn DEF Stands
<1>6. Serves(reversed) \/ Serves(again) \/ Serves(changed) \/ Serves(removed)
  BY DEF DeleteDocument, UpdateDocument
<1> HIDE DEF reversed, again, changed, removed
<1> QED
  BY <1>2, <1>3, <1>4, <1>5, <1>6, ServeStep

LEMMA LockStep ==
  ASSUME DrawerInv, LockJournal
  PROVE  DrawerInv' /\ Stands(db, db')
<1> DEFINE d == [db EXCEPT !.entries = {[e EXCEPT !.locked = TRUE] : e \in @}]
<1>1. d = [t \in Tables |-> d[t]] /\ d.drawers = db.drawers
  BY DEF DrawerInv, Typed, Tables
<1>2. Serves(d)
  BY DEF LockJournal
<1> HIDE DEF d
<1> QED
  BY <1>1, <1>2, EntriesStand, ServeStep DEF DrawerInv

LEMMA InitDrawer == Init => DrawerInv
<1> SUFFICES ASSUME Init PROVE DrawerInv
  OBVIOUS
<1>1. Len(db.drawers) = 0 /\ db.drawers = <<>>
  BY DEF Init
<1> QED
  BY <1>1 DEF Init, DrawerInv, Typed, Drawers, Tables

LEMMA NextDrawer ==
  ASSUME DrawerInv, [Next]_vars
  PROVE  DrawerInv' /\ (Stands(db, db') \/ Edits)
<1>1. CASE Midnight \/ UNCHANGED vars
  BY <1>1, StandsStill DEF Midnight, vars, DrawerInv
<1>2. CASE Next
  <2>1. CASE \E w \in Workers, n \in Counts :
               ReadOpen(w, n) \/ \E explained \in BOOLEAN : ReadClose(w, n, explained)
    BY <2>1, Reading
  <2>2. CASE \E w \in Workers, source \in {"cash_in", "cash_out"}, amount \in Amounts :
               ReadCash(w, source, amount)
    BY <2>2, Reading
  <2>3. CASE \E w \in Workers, e \in db.entries, amount \in Amounts : ReadEdit(w, e, amount)
    BY <2>3, Reading
  <2>4. CASE \E w \in Workers :
               \/ ReadAutoClose(w)
               \/ WriteOpen(w) \/ WriteAutoClose(w) \/ WriteCash(w) \/ WriteClose(w)
               \/ WriteEdit(w) \/ Drop(w)
    BY <2>4, Reading, OpenStep, AutoCloseStep, CashStep, CloseStep, EditStep, DropStep
  <2>5. CASE \E i \in Drawers(db) : Reconcile(i)
    BY <2>5, ReconcileStep
  <2>6. CASE \E source \in DocumentSources, cash \in Paid : BookDocument(source, cash)
    BY <2>6, BookStep
  <2>7. CASE \E e \in LastEntries :
               DeleteDocument(e) \/ \E cash \in Paid \union {0} : UpdateDocument(e, cash)
    BY <2>7, DocumentStep
  <2>8. CASE LockJournal
    BY <2>8, LockStep
  <2> QED
    BY <1>1, <1>2, <2>1, <2>2, <2>3, <2>4, <2>5, <2>6, <2>7, <2>8 DEF Next
<1> QED
  BY <1>1, <1>2

(***************************************************************************)
(* However requests, payments and days interleave, with any counts and     *)
(* amounts and whatever the staff do: the count a drawer was closed on is  *)
(* changed by an edit of an entry and by nothing else, so the later of two *)
(* requests that close it leaves the first one's count.                    *)
(***************************************************************************)
THEOREM FirstCountStands == Spec => ClosedStands
<1> DEFINE Stay == \A i \in Drawers(db) \ OpenDrawers(db) :
                      \/ db'.drawers[i].counted = db.drawers[i].counted
                      \/ Edits
<1>1. Init => DrawerInv
  BY InitDrawer
<1>2. DrawerInv /\ [Next]_vars => DrawerInv'
  BY NextDrawer
<1>3. DrawerInv /\ [Next]_vars => [Stay]_vars
  BY NextDrawer DEF Stands, OpenDrawers
<1>4. Spec => [][Stay]_vars
  BY <1>1, <1>2, <1>3, PTL DEF Spec
<1> QED
  BY <1>4 DEF ClosedStands, Edits

-----------------------------------------------------------------------------
(***************************************************************************)
(* The books: the entries have their columns, an id each that was handed   *)
(* out, a whole amount, and the drawer of a row that exists.               *)
(***************************************************************************)
EntryColumns == {"id", "source", "of", "cash", "drawer", "locked"}

EntryOK(d, e) ==
  /\ e = [c \in EntryColumns |-> e[c]]
  /\ e.id \in 1..d.lastEntry
  /\ e.source \in Sources
  /\ e.cash \in Int
  /\ e.drawer \in Drawers(d) \cup {NoDrawer}

EntriesOK(d) ==
  /\ IsFiniteSet(d.entries)
  /\ d.lastEntry \in Nat
  /\ \A e \in d.entries : EntryOK(d, e)
  /\ \A e, f \in d.entries : e.id = f.id => e = f

(***************************************************************************)
(* Sums of cash                                                            *)
(***************************************************************************)
CashIn(S) == [e \in S |-> e.cash]

\* CashOf is the sum of the column, over any set that has the entries.
LEMMA CashOfIs ==
  ASSUME NEW S, IsFiniteSet(S)
  PROVE  CashOf(S) = SumFunctionOnSet(CashIn(S), S)
<1>1. CashOf(S) = (CHOOSE g : SumStep(CashIn(S), S, g))[S]
  BY DEF CashOf, MapThenSumSet, MapThenFoldSet, SumStep, Pick, CashIn
<1>2. SumFunctionOnSet(CashIn(S), S) = (CHOOSE g : SumStep(CashIn(S), S, g))[S]
  BY DEF SumFunctionOnSet, FoldFunctionOnSet, MapThenFoldSet, SumStep, Pick
<1> QED
  BY <1>1, <1>2

LEMMA CashOfPart ==
  ASSUME NEW S, IsFiniteSet(S), NEW T \in SUBSET S
  PROVE  CashOf(T) = SumFunctionOnSet(CashIn(S), T) /\ IsFiniteSet(T)
<1>1. IsFiniteSet(T)
  BY FS_Subset
<1>2. \A e \in T : CashIn(T)[e] = CashIn(S)[e]
  BY DEF CashIn
<1> QED
  BY <1>1, <1>2, CashOfIs, SumEqual

Cashes(S) == IsFiniteSet(S) /\ \A e \in S : e.cash \in Int

LEMMA CashOfInt ==
  ASSUME NEW S, Cashes(S)
  PROVE  CashOf(S) \in Int
<1>1. \A e \in S : CashIn(S)[e] \in Int
  BY DEF CashIn, Cashes
<1> QED
  BY <1>1, CashOfIs, SumInt DEF Cashes

LEMMA CashOfRemove ==
  ASSUME NEW S, Cashes(S), NEW e
  PROVE  /\ Cashes(S \ {e})
         /\ CashOf(S \ {e}) = CashOf(S) - (IF e \in S THEN e.cash ELSE 0)
<1>1. IsFiniteSet(S) /\ \A x \in S : CashIn(S)[x] = x.cash /\ x.cash \in Int
  BY DEF CashIn, Cashes
<1>2. Cashes(S \ {e})
  BY <1>1, FS_Subset DEF Cashes
<1>3. CashOf(S) \in Int /\ CashOf(S \ {e}) \in Int
  BY <1>2, CashOfInt
<1>4. ASSUME e \in S PROVE CashOf(S) = e.cash + CashOf(S \ {e})
  BY <1>1, <1>4, CashOfIs, CashOfPart, SumRemove
<1>5. CASE e \in S
  BY <1>1, <1>2, <1>3, <1>4, <1>5
<1>6. CASE e \notin S
  <2>1. S \ {e} = S
    BY <1>6
  <2> QED
    BY <1>2, <1>3, <1>6, <2>1
<1> QED
  BY <1>5, <1>6

LEMMA CashOfAdd ==
  ASSUME NEW S, Cashes(S), NEW e, e \notin S, e.cash \in Int
  PROVE  /\ Cashes(S \cup {e})
         /\ CashOf(S \cup {e}) = CashOf(S) + e.cash
<1>1. Cashes(S \cup {e})
  BY FS_AddElement DEF Cashes
<1>2. (S \cup {e}) \ {e} = S
  OBVIOUS
<1>3. CashOf(S) = CashOf(S \cup {e}) - e.cash
  BY <1>1, <1>2, CashOfRemove
<1> QED
  BY <1>1, <1>3, CashOfInt

LEMMA CashOfNone == CashOf({}) = 0 /\ Cashes({})
BY CashOfIs, SumOfNone, FS_EmptySet DEF Cashes

(***************************************************************************)
(* What the writes do to the sums                                          *)
(***************************************************************************)
LEMMA LinkedCashes ==
  ASSUME NEW d, EntriesOK(d), NEW i
  PROVE  /\ Cashes(d.entries) /\ Cashes(Linked(d, i))
         /\ Cash(d) \in Int /\ CashOf(Linked(d, i)) \in Int
<1>1. Cashes(d.entries)
  BY DEF EntriesOK, EntryOK, Cashes
<1>2. Linked(d, i) \in SUBSET d.entries
  BY DEF Linked
<1>3. Cashes(Linked(d, i))
  BY <1>1, <1>2, FS_Subset DEF Cashes
<1> QED
  BY <1>1, <1>3, CashOfInt DEF Cash

LEMMA PostDrawers ==
  ASSUME NEW d, Typed(d), NEW source, NEW of, NEW cash, NEW i
  PROVE  Post(d, source, of, cash, i).drawers = d.drawers
BY DEF Post, Typed

LEMMA PostBooks ==
  ASSUME NEW d, Typed(d), EntriesOK(d), NEW source \in Sources, NEW of,
         NEW cash \in Int, NEW i \in Drawers(d) \cup {NoDrawer}
  PROVE  LET d2 == Post(d, source, of, cash, i)
         IN  /\ EntriesOK(d2) /\ d2.drawers = d.drawers
             /\ Cash(d2) = Cash(d) + cash
             /\ \A j : CashOf(Linked(d2, j))
                         = CashOf(Linked(d, j)) + (IF j = i THEN cash ELSE 0)
<1> DEFINE d2 == Post(d, source, of, cash, i)
           e == [id |-> d.lastEntry + 1, source |-> source, of |-> of,
                 cash |-> cash, drawer |-> i, locked |-> FALSE]
<1>1. /\ d2.drawers = d.drawers /\ d2.lastEntry = d.lastEntry + 1
      /\ d2.entries = d.entries \cup {e}
  BY DEF Typed, Tables, Post
<1>2. /\ e = [c \in EntryColumns |-> e[c]] /\ e.id = d.lastEntry + 1
      /\ e.source = source /\ e.cash = cash /\ e.drawer = i
  BY DEF EntryColumns
<1> HIDE DEF d2, e
<1>3. d.lastEntry \in Nat /\ \A f \in d.entries : f.id \in 1..d.lastEntry
  BY DEF EntriesOK, EntryOK
<1>4. e \notin d.entries
  BY <1>2, <1>3
<1>5. Drawers(d2) = Drawers(d)
  BY <1>1 DEF Drawers
<1>6. EntriesOK(d2)
  <2>1. IsFiniteSet(d2.entries)
    BY <1>1, FS_AddElement DEF EntriesOK
  <2>2. d2.lastEntry \in Nat /\ \A n \in 1..d.lastEntry : n \in 1..d2.lastEntry
    BY <1>1, <1>3
  <2>3. EntryOK(d2, e)
    BY <1>1, <1>2, <1>3, <1>5 DEF EntryOK
  <2>4. \A f \in d.entries : EntryOK(d2, f)
    BY <1>5, <2>2 DEF EntryOK, EntriesOK
  <2>5. \A f \in d.entries : f.id # e.id
    BY <1>2, <1>3
  <2> QED
    BY <1>1, <2>1, <2>2, <2>3, <2>4, <2>5 DEF EntriesOK
<1>7. Cash(d2) = Cash(d) + cash
  BY <1>1, <1>2, <1>4, LinkedCashes, CashOfAdd DEF Cash
<1>8. ASSUME NEW j
      PROVE  CashOf(Linked(d2, j)) = CashOf(Linked(d, j)) + (IF j = i THEN cash ELSE 0)
  <2>1. Cashes(Linked(d, j)) /\ e \notin Linked(d, j) /\ CashOf(Linked(d, j)) \in Int
    BY <1>4, LinkedCashes DEF Linked
  <2>2. Linked(d2, j) = IF j = i THEN Linked(d, j) \cup {e} ELSE Linked(d, j)
    BY <1>1, <1>2 DEF Linked
  <2>3. CashOf(Linked(d, j) \cup {e}) = CashOf(Linked(d, j)) + cash
    BY <1>2, <2>1, CashOfAdd
  <2> QED
    BY <2>1, <2>2, <2>3
<1> QED
  BY <1>1, <1>6, <1>7, <1>8 DEF d2

\* A document's entry gets another amount, which must stay in the books once.
LEMMA ChangedBooks ==
  ASSUME NEW d, Typed(d), EntriesOK(d), NEW e \in d.entries, NEW cash \in Int
  PROVE  LET d2 == Changed(d, e, cash)
         IN  /\ EntriesOK(d2) /\ d2.drawers = d.drawers
             /\ Cash(d2) = Cash(d) - e.cash + cash
             /\ \A j : CashOf(Linked(d2, j))
                         = CashOf(Linked(d, j)) + (IF j = e.drawer THEN cash - e.cash ELSE 0)
<1> DEFINE d2 == Changed(d, e, cash)
           new == [e EXCEPT !.cash = cash]
           rest == d.entries \ {e}
<1>1. /\ d2.drawers = d.drawers /\ d2.lastEntry = d.lastEntry
      /\ d2.entries = rest \cup {new}
  BY DEF Typed, Tables, Changed
<1>2. /\ new = [c \in EntryColumns |-> new[c]] /\ new.id = e.id
      /\ new.source = e.source /\ new.cash = cash /\ new.drawer = e.drawer
  BY DEF EntryColumns, EntriesOK, EntryOK
<1> HIDE DEF d2, new
<1>3. \A f \in rest : f.id # e.id
  BY DEF EntriesOK
<1>4. new \notin rest
  BY <1>2, <1>3
<1>5. Drawers(d2) = Drawers(d)
  BY <1>1 DEF Drawers
<1>6. EntriesOK(d2)
  <2>1. IsFiniteSet(d2.entries)
    <3>1. IsFiniteSet(rest)
      BY FS_RemoveElement DEF EntriesOK
    <3> QED
      BY <1>1, <3>1, FS_AddElement
  <2>2. EntryOK(d2, new)
    BY <1>1, <1>2, <1>5 DEF EntryOK, EntriesOK
  <2>3. \A f \in rest : EntryOK(d2, f)
    BY <1>1, <1>5 DEF EntryOK, EntriesOK
  <2> QED
    BY <1>1, <1>2, <1>3, <2>1, <2>2, <2>3 DEF EntriesOK
<1>7. e.cash \in Int
  BY DEF EntriesOK, EntryOK
<1>8. Cash(d2) = Cash(d) - e.cash + cash
  <2>1. Cashes(rest) /\ CashOf(rest) = Cash(d) - e.cash
    BY LinkedCashes, CashOfRemove DEF Cash
  <2> HIDE DEF rest
  <2> QED
    BY <1>1, <1>2, <1>4, <1>7, <2>1, CashOfAdd DEF Cash
<1>9. ASSUME NEW j
      PROVE  CashOf(Linked(d2, j))
               = CashOf(Linked(d, j)) + (IF j = e.drawer THEN cash - e.cash ELSE 0)
  <2> DEFINE L == Linked(d, j)
  <2>1. Cashes(L) /\ CashOf(L) \in Int
    BY LinkedCashes
  <2>2. CASE j = e.drawer
    <3>1. e \in L /\ new \notin L \ {e}
      BY <1>4, <2>2 DEF Linked
    <3>2. Linked(d2, j) = (L \ {e}) \cup {new}
      BY <1>1, <1>2, <2>2 DEF Linked
    <3> HIDE DEF L
    <3>3. Cashes(L \ {e}) /\ CashOf(L \ {e}) = CashOf(L) - e.cash
      BY <2>1, <3>1, CashOfRemove
    <3>4. CashOf((L \ {e}) \cup {new}) = CashOf(L) - e.cash + cash
      BY <1>2, <3>1, <3>3, CashOfAdd
    <3> QED
      BY <1>7, <2>1, <2>2, <3>2, <3>4 DEF L
  <2>3. CASE j # e.drawer
    <3>1. Linked(d2, j) = L
      BY <1>1, <1>2, <2>3 DEF Linked
    <3> QED
      BY <2>1, <2>3, <3>1
  <2> QED
    BY <2>2, <2>3
<1> QED
  BY <1>1, <1>6, <1>8, <1>9 DEF d2

LEMMA RemovedBooks ==
  ASSUME NEW d, Typed(d), EntriesOK(d), NEW e \in d.entries
  PROVE  LET d2 == [d EXCEPT !.entries = @ \ {e}]
         IN  /\ EntriesOK(d2) /\ d2.drawers = d.drawers
             /\ Cash(d2) = Cash(d) - e.cash
             /\ \A j : CashOf(Linked(d2, j))
                         = CashOf(Linked(d, j)) - (IF j = e.drawer THEN e.cash ELSE 0)
<1> DEFINE d2 == [d EXCEPT !.entries = @ \ {e}]
<1>1. /\ d2.drawers = d.drawers /\ d2.lastEntry = d.lastEntry
      /\ d2.entries = d.entries \ {e}
  BY DEF Typed, Tables
<1> HIDE DEF d2
<1>2. EntriesOK(d2)
  BY <1>1, FS_RemoveElement DEF EntriesOK, EntryOK, Drawers
<1>3. e.cash \in Int
  BY DEF EntriesOK, EntryOK
<1>4. Cash(d2) = Cash(d) - e.cash
  BY <1>1, LinkedCashes, CashOfRemove DEF Cash
<1>5. ASSUME NEW j
      PROVE  CashOf(Linked(d2, j))
               = CashOf(Linked(d, j)) - (IF j = e.drawer THEN e.cash ELSE 0)
  <2>1. Linked(d2, j) = Linked(d, j) \ {e} /\ (e \in Linked(d, j) <=> j = e.drawer)
    BY <1>1 DEF Linked
  <2> QED
    BY <1>3, <2>1, LinkedCashes, CashOfRemove
<1> QED
  BY <1>1, <1>2, <1>4, <1>5 DEF d2

\* Locking marks the entries, each of which has its own id.
LEMMA CashOfLocked ==
  ASSUME NEW d, EntriesOK(d), NEW S \in SUBSET d.entries
  PROVE  CashOf({[e EXCEPT !.locked = TRUE] : e \in S}) = CashOf(S)
<1> DEFINE lock == [e \in S |-> [e EXCEPT !.locked = TRUE]]
           T == {[e EXCEPT !.locked = TRUE] : e \in S}
<1>1. Cashes(S)
  BY LinkedCashes, FS_Subset DEF Cashes, EntriesOK
<1>2. ASSUME NEW e \in S
      PROVE  /\ lock[e] \in T /\ lock[e].id = e.id /\ lock[e].cash = e.cash
  <2>1. e = [c \in EntryColumns |-> e[c]]
    BY DEF EntriesOK, EntryOK
  <2> QED
    BY <2>1 DEF EntryColumns
<1>3. lock \in [S -> T] /\ \A t \in T : \E e \in S : t = lock[e]
  OBVIOUS
<1>4. \A e, f \in S : lock[e] = lock[f] => e = f
  <2> HIDE DEF lock
  <2> QED
    BY <1>2 DEF EntriesOK
<1>5. IsFiniteSet(T)
  <2>1. lock \in Surjection(S, T)
    BY <1>3 DEF Surjection
  <2> HIDE DEF lock, T
  <2> QED
    BY <1>1, <2>1, FS_Surjection DEF Cashes
<1>6. \A e \in S : CashIn(S)[e] \in Int /\ CashIn(T)[lock[e]] = CashIn(S)[e]
  <2> HIDE DEF lock, T
  <2> QED
    BY <1>1, <1>2 DEF CashIn, Cashes
<1>7. CashOf(T) = SumFunctionOnSet(CashIn(T), T) /\ CashOf(S) = SumFunctionOnSet(CashIn(S), S)
  BY <1>1, <1>5, CashOfIs DEF Cashes
<1>8. SumFunctionOnSet(CashIn(T), T) = SumFunctionOnSet(CashIn(S), S)
  <2> HIDE DEF lock, T
  <2>1. IsFiniteSet(S)
    BY <1>1 DEF Cashes
  <2> QED
    BY <1>3, <1>4, <1>6, <2>1, SumImage
<1> QED
  BY <1>7, <1>8

LEMMA LockedBooks ==
  ASSUME NEW d, Typed(d), EntriesOK(d)
  PROVE  LET d2 == [d EXCEPT !.entries = {[e EXCEPT !.locked = TRUE] : e \in @}]
         IN  /\ EntriesOK(d2) /\ d2.drawers = d.drawers
             /\ Cash(d2) = Cash(d)
             /\ \A j : CashOf(Linked(d2, j)) = CashOf(Linked(d, j))
<1> DEFINE Lock(e) == [e EXCEPT !.locked = TRUE]
           d2 == [d EXCEPT !.entries = {Lock(e) : e \in @}]
<1>1. /\ d2.drawers = d.drawers /\ d2.lastEntry = d.lastEntry
      /\ d2.entries = {Lock(e) : e \in d.entries}
  BY DEF Typed, Tables
<1>2. ASSUME NEW e \in d.entries
      PROVE  /\ Lock(e) = [c \in EntryColumns |-> Lock(e)[c]]
             /\ Lock(e).id = e.id /\ Lock(e).source = e.source
             /\ Lock(e).cash = e.cash /\ Lock(e).drawer = e.drawer
  <2>1. e = [c \in EntryColumns |-> e[c]]
    BY DEF EntriesOK, EntryOK
  <2> QED
    BY <2>1 DEF EntryColumns
<1> HIDE DEF d2
<1>3. Drawers(d2) = Drawers(d)
  BY <1>1 DEF Drawers
<1>4. IsFiniteSet(d2.entries)
  <2> DEFINE lock == [e \in d.entries |-> Lock(e)]
  <2>1. lock \in Surjection(d.entries, d2.entries)
    BY <1>1 DEF Surjection
  <2> HIDE DEF lock
  <2> QED
    BY <2>1, FS_Surjection DEF EntriesOK
<1>5. EntriesOK(d2)
  <2>1. \A f \in d2.entries : \E e \in d.entries :
           /\ f = Lock(e) /\ f.id = e.id /\ EntryOK(d2, f)
    <3> SUFFICES ASSUME NEW e \in d.entries PROVE EntryOK(d2, Lock(e)) /\ Lock(e).id = e.id
      BY <1>1
    <3>1. EntryOK(d, e)
      BY DEF EntriesOK
    <3> HIDE DEF Lock
    <3> QED
      BY <1>1, <1>2, <1>3, <3>1 DEF EntryOK
  <2>2. d2.lastEntry \in Nat
    BY <1>1 DEF EntriesOK
  <2> HIDE DEF Lock
  <2> QED
    BY <1>4, <2>1, <2>2 DEF EntriesOK
<1>6. Cash(d2) = Cash(d)
  BY <1>1, CashOfLocked DEF Cash
<1>7. ASSUME NEW j PROVE CashOf(Linked(d2, j)) = CashOf(Linked(d, j))
  <2>1. Linked(d2, j) = {Lock(e) : e \in Linked(d, j)}
    <3> HIDE DEF Lock
    <3> QED
      BY <1>1, <1>2 DEF Linked
  <2>2. Linked(d, j) \in SUBSET d.entries
    BY DEF Linked
  <2> QED
    BY <2>1, <2>2, CashOfLocked
<1> QED
  BY <1>1, <1>5, <1>6, <1>7 DEF d2

(***************************************************************************)
(* The snapshot of a drawer adds up to what is booked to it.               *)
(***************************************************************************)
LEMMA CategoryIs ==
  ASSUME NEW e, e.source \in Sources
  PROVE  Category(e) \in Categories
BY DEF Category, Sources, Categories

LEMMA CategoriesFinite == IsFiniteSet(Categories)
<1>1. \A S, x : IsFiniteSet(S) => IsFiniteSet(S \cup {x})
  BY FS_AddElement
<1>2. IsFiniteSet({"sale"} \cup {"refund"} \cup {"expense"} \cup {"cashIn"}
                    \cup {"cashOut"} \cup {"open"} \cup {"close"})
  BY <1>1, FS_Singleton, Zenon
<1>3. Categories = {"sale"} \cup {"refund"} \cup {"expense"} \cup {"cashIn"}
                    \cup {"cashOut"} \cup {"open"} \cup {"close"}
  BY DEF Categories
<1> QED
  BY <1>2, <1>3

SnapshotSum(s) == MapThenSumSet(LAMBDA c : s[c], Categories)

LEMMA SnapshotSumIs ==
  ASSUME NEW s
  PROVE  SnapshotSum(s) = SumFunctionOnSet(s, Categories)
<1>1. SnapshotSum(s) = (CHOOSE g : SumStep(s, Categories, g))[Categories]
  BY DEF SnapshotSum, MapThenSumSet, MapThenFoldSet, SumStep, Pick
<1>2. SumFunctionOnSet(s, Categories) = (CHOOSE g : SumStep(s, Categories, g))[Categories]
  BY DEF SumFunctionOnSet, FoldFunctionOnSet, MapThenFoldSet, SumStep, Pick
<1> QED
  BY <1>1, <1>2

LEMMA BreakdownAddsUp ==
  ASSUME NEW d, EntriesOK(d), NEW i
  PROVE  SnapshotSum(Breakdown(d, i)) = CashOf(Linked(d, i))
<1> DEFINE L == Linked(d, i)
           kind == [e \in L |-> Category(e)]
           f == CashIn(L)
           B == Breakdown(d, i)
<1>1. IsFiniteSet(L) /\ \A e \in L : f[e] \in Int
  BY LinkedCashes DEF Cashes, CashIn
<1>2. \A e \in L : kind[e] \in Categories
  BY CategoryIs DEF Linked, EntriesOK, EntryOK
<1>3. ASSUME NEW c \in Categories
      PROVE  B[c] = SumFunctionOnSet(f, OfKind(L, kind, c))
  <2> DEFINE those == {e \in L : Category(e) = c}
  <2>1. B[c] = CashOf(those)
    BY DEF Breakdown
  <2>2. those \in SUBSET L /\ those = OfKind(L, kind, c)
    BY DEF OfKind
  <2> HIDE DEF those, L
  <2>3. CashOf(those) = SumFunctionOnSet(f, those)
    BY <1>1, <2>2, CashOfPart
  <2> QED
    BY <2>1, <2>2, <2>3
<1>4. CashOf(L) = SumFunctionOnSet(f, L)
  BY <1>1, CashOfIs
<1> HIDE DEF L, kind, f, B
<1>5. SumFunctionOnSet(B, Categories) = SumFunctionOnSet(f, L)
  BY <1>1, <1>2, <1>3, CategoriesFinite, SumByKind
<1> QED
  BY <1>4, <1>5, SnapshotSumIs DEF L, B

(***************************************************************************)
(* Rows.  SameBooks(d, d2): only rows changed, and no opening amount.      *)
(***************************************************************************)
BooksTyped(d) ==
  /\ Typed(d) /\ EntriesOK(d)
  /\ \A i \in Drawers(d) : d.drawers[i].opening \in Int

SameBooks(d, d2) ==
  /\ Typed(d2)
  /\ d2.entries = d.entries /\ d2.lastEntry = d.lastEntry /\ Drawers(d2) = Drawers(d)
  /\ \A i \in Drawers(d) : d2.drawers[i].opening = d.drawers[i].opening

Explained(r) == r.closing = r.opening + SnapshotSum(r.snapshot)

LEMMA SameBooksSums ==
  ASSUME NEW d, BooksTyped(d), NEW d2, SameBooks(d, d2)
  PROVE  /\ BooksTyped(d2) /\ Cash(d2) = Cash(d)
         /\ \A i : Linked(d2, i) = Linked(d, i) /\ Breakdown(d2, i) = Breakdown(d, i)
         /\ \A i \in Drawers(d) : Expected(d2, i) = Expected(d, i)
<1>1. \A i : Linked(d2, i) = Linked(d, i)
  BY DEF SameBooks, Linked
<1>2. \A i : Breakdown(d2, i) = Breakdown(d, i)
  BY <1>1 DEF Breakdown
<1>3. EntriesOK(d2)
  BY DEF BooksTyped, SameBooks, EntriesOK, EntryOK
<1>4. BooksTyped(d2)
  BY <1>3 DEF BooksTyped, SameBooks
<1> QED
  BY <1>1, <1>2, <1>4 DEF SameBooks, Cash, Expected

LEMMA ExpectedInt ==
  ASSUME NEW d, BooksTyped(d), NEW i \in Drawers(d)
  PROVE  Expected(d, i) \in Int
BY LinkedCashes DEF BooksTyped, Expected

LEMMA SnapshotIs ==
  ASSUME NEW d, BooksTyped(d), NEW i \in Drawers(d)
  PROVE  LET d2 == SaveBreakdown(d, i)
         IN  /\ SameBooks(d, d2)
             /\ \A j \in Drawers(d) \ {i} : d2.drawers[j] = d.drawers[j]
             /\ d2.drawers[i].status = d.drawers[i].status
             /\ d2.drawers[i].closing = d.drawers[i].closing
             /\ d2.drawers[i].opening = d.drawers[i].opening
             /\ d2.drawers[i].snapshot = Breakdown(d, i)
<1> DEFINE row == [d.drawers[i] EXCEPT !.snapshot = Breakdown(d, i)]
           d2 == [d EXCEPT !.drawers = [d.drawers EXCEPT ![i] = row]]
<1>1. SaveBreakdown(d, i) = d2
  BY DEF SaveBreakdown
<1>2. Typed(d) /\ d.drawers[i] = [c \in Columns |-> d.drawers[i][c]]
  BY DEF BooksTyped, Typed
<1>3. /\ row = [c \in Columns |-> row[c]]
      /\ row.status = d.drawers[i].status /\ row.closing = d.drawers[i].closing
      /\ row.opening = d.drawers[i].opening /\ row.snapshot = Breakdown(d, i)
  BY <1>2 DEF Columns
<1>4. d2.entries = d.entries /\ d2.lastEntry = d.lastEntry
  BY <1>2 DEF Typed, Tables
<1> HIDE DEF row
<1>5. /\ Typed(d2) /\ Drawers(d2) = Drawers(d)
      /\ \A j \in Drawers(d) : d2.drawers[j] = IF j = i THEN row ELSE d.drawers[j]
  <2>1. row = [c \in Columns |-> row[c]] /\ Typed(d)
    BY <1>2, <1>3
  <2> QED
    BY ONLY <2>1, RowIs
<1> HIDE DEF d2
<1>6. SameBooks(d, d2)
  BY <1>3, <1>4, <1>5 DEF SameBooks
<1> QED
  BY <1>1, <1>3, <1>5, <1>6

LEMMA CloseRowIs ==
  ASSUME NEW d, BooksTyped(d), NEW i \in Drawers(d), NEW counted, NEW expected
  PROVE  LET d2 == CloseRow(d, i, counted, expected)
         IN  /\ SameBooks(d, d2)
             /\ \A j \in Drawers(d) \ {i} : d2.drawers[j] = d.drawers[j]
             /\ d2.drawers[i].status = "closed"
             /\ d2.drawers[i].closing = expected
<1> DEFINE row == [d.drawers[i] EXCEPT !.status = "closed", !.counted = counted,
                                       !.closing = expected,
                                       !.discrepancy = counted - expected]
           d2 == [d EXCEPT !.drawers = [d.drawers EXCEPT ![i] = row]]
<1>1. CloseRow(d, i, counted, expected) = d2
  BY DEF CloseRow
<1>2. Typed(d) /\ d.drawers[i] = [c \in Columns |-> d.drawers[i][c]]
  BY DEF BooksTyped, Typed
<1>3. /\ row = [c \in Columns |-> row[c]] /\ row.status = "closed"
      /\ row.closing = expected /\ row.opening = d.drawers[i].opening
  BY <1>2 DEF Columns
<1>4. d2.entries = d.entries /\ d2.lastEntry = d.lastEntry
  BY <1>2 DEF Typed, Tables
<1> HIDE DEF row
<1>5. /\ Typed(d2) /\ Drawers(d2) = Drawers(d)
      /\ \A j \in Drawers(d) : d2.drawers[j] = IF j = i THEN row ELSE d.drawers[j]
  BY <1>2, <1>3, RowIs
<1> HIDE DEF d2
<1>6. SameBooks(d, d2)
  BY <1>3, <1>4, <1>5 DEF SameBooks
<1> QED
  BY <1>1, <1>3, <1>5, <1>6

LEMMA SameBooksOn ==
  ASSUME NEW d, NEW d2, NEW d3, SameBooks(d, d2), SameBooks(d2, d3)
  PROVE  SameBooks(d, d3)
BY DEF SameBooks

\* A drawer that was open is explained if the sum was right.
LEMMA AutoCloseIs ==
  ASSUME NEW d, BooksTyped(d), NEW i \in Drawers(d), NEW expected
  PROVE  LET d2 == AutoClose(d, i, expected)
         IN  /\ SameBooks(d, d2)
             /\ \A j \in Drawers(d) \ {i} : d2.drawers[j] = d.drawers[j]
             /\ d2.drawers[i].status # "open"
             /\ i \in OpenDrawers(d) /\ expected = Expected(d, i)
                  => Explained(d2.drawers[i])
<1> DEFINE one == IF i \in OpenDrawers(d) THEN CloseRow(d, i, expected, expected) ELSE d
           d2 == SaveBreakdown(one, i)
<1>1. AutoClose(d, i, expected) = d2
  BY DEF AutoClose
<1>2. /\ SameBooks(d, one)
      /\ \A j \in Drawers(d) \ {i} : one.drawers[j] = d.drawers[j]
      /\ one.drawers[i].status # "open"
      /\ i \in OpenDrawers(d) => one.drawers[i].closing = expected
  <2>1. CASE i \in OpenDrawers(d)
    BY <2>1, CloseRowIs
  <2>2. CASE i \notin OpenDrawers(d)
    BY <2>2 DEF SameBooks, BooksTyped, OpenDrawers
  <2> QED
    BY <2>1, <2>2
<1> HIDE DEF one
<1>3. /\ BooksTyped(one) /\ i \in Drawers(one) /\ Drawers(one) = Drawers(d)
      /\ Breakdown(one, i) = Breakdown(d, i)
  BY <1>2, SameBooksSums DEF SameBooks
<1>4. /\ SameBooks(one, d2)
      /\ \A j \in Drawers(d) \ {i} : d2.drawers[j] = one.drawers[j]
      /\ d2.drawers[i].status = one.drawers[i].status
      /\ d2.drawers[i].closing = one.drawers[i].closing
      /\ d2.drawers[i].opening = one.drawers[i].opening
      /\ d2.drawers[i].snapshot = Breakdown(d, i)
  <2>1. \A j \in Drawers(one) \ {i} : d2.drawers[j] = one.drawers[j]
    BY <1>3, SnapshotIs
  <2>2. SameBooks(one, d2)
    BY <1>3, SnapshotIs
  <2>3. /\ d2.drawers[i].status = one.drawers[i].status
        /\ d2.drawers[i].closing = one.drawers[i].closing
        /\ d2.drawers[i].opening = one.drawers[i].opening
        /\ d2.drawers[i].snapshot = Breakdown(one, i)
    BY <1>3, SnapshotIs
  <2> HIDE DEF d2
  <2> QED
    BY <1>3, <2>1, <2>2, <2>3
<1> HIDE DEF d2
<1>5. SameBooks(d, d2)
  BY <1>2, <1>4, SameBooksOn
<1>6. ASSUME i \in OpenDrawers(d), expected = Expected(d, i)
      PROVE  Explained(d2.drawers[i])
  <2>1. d2.drawers[i].closing = d.drawers[i].opening + CashOf(Linked(d, i))
    BY <1>2, <1>4, <1>6 DEF Expected
  <2>2. SnapshotSum(Breakdown(d, i)) = CashOf(Linked(d, i))
    BY BreakdownAddsUp DEF BooksTyped
  <2> QED
    BY <1>4, <1>5, <2>1, <2>2 DEF Explained, SameBooks
<1> QED
  BY <1>1, <1>2, <1>4, <1>5, <1>6

LEMMA CloseDrawerIs ==
  ASSUME NEW d, BooksTyped(d), NEW i \in Drawers(d), NEW counted \in Int,
         NEW expected \in Int, NEW explained
  PROVE  LET d2 == CloseDrawer(d, i, counted, expected, explained)
         IN  /\ BooksTyped(d2) /\ Drawers(d2) = Drawers(d)
             /\ \A j \in Drawers(d) \ {i} : d2.drawers[j] = d.drawers[j]
             /\ d2.drawers[i].status # "open"
             /\ expected = Expected(d, i) => Explained(d2.drawers[i])
             /\ explained => Cash(d2) = Cash(d) + counted - expected
<1> DEFINE row == CloseRow(d, i, counted, expected)
           closed == SaveBreakdown(row, i)
           d2 == CloseDrawer(d, i, counted, expected, explained)
<1>1. /\ SameBooks(d, row)
      /\ \A j \in Drawers(d) \ {i} : row.drawers[j] = d.drawers[j]
      /\ row.drawers[i].status = "closed"
      /\ row.drawers[i].closing = expected
  BY CloseRowIs
<1> HIDE DEF row
<1>2. /\ BooksTyped(row) /\ i \in Drawers(row) /\ Drawers(row) = Drawers(d)
      /\ Breakdown(row, i) = Breakdown(d, i)
  BY <1>1, SameBooksSums DEF SameBooks
<1>3. /\ SameBooks(row, closed)
      /\ \A j \in Drawers(d) \ {i} : closed.drawers[j] = row.drawers[j]
      /\ closed.drawers[i].status = row.drawers[i].status
      /\ closed.drawers[i].closing = row.drawers[i].closing
      /\ closed.drawers[i].opening = row.drawers[i].opening
      /\ closed.drawers[i].snapshot = Breakdown(d, i)
  <2>1. \A j \in Drawers(row) \ {i} : closed.drawers[j] = row.drawers[j]
    BY <1>2, SnapshotIs
  <2>2. SameBooks(row, closed)
    BY <1>2, SnapshotIs
  <2>3. /\ closed.drawers[i].status = row.drawers[i].status
        /\ closed.drawers[i].closing = row.drawers[i].closing
        /\ closed.drawers[i].opening = row.drawers[i].opening
        /\ closed.drawers[i].snapshot = Breakdown(row, i)
    BY <1>2, SnapshotIs
  <2> HIDE DEF closed
  <2> QED
    BY <1>2, <2>1, <2>2, <2>3
<1>4. d2 = IF counted # expected /\ explained
           THEN Post(closed, "close_adjust", 0, counted - expected, i) ELSE closed
  BY DEF CloseDrawer, row
<1> HIDE DEF closed, d2
<1>5. SameBooks(d, closed)
  BY <1>1, <1>3, SameBooksOn
<1>6. /\ BooksTyped(closed) /\ Cash(closed) = Cash(d) /\ Drawers(closed) = Drawers(d)
  BY <1>5, SameBooksSums DEF SameBooks
<1>7. Cash(d) \in Int
  BY LinkedCashes DEF BooksTyped
<1>8. /\ BooksTyped(d2) /\ d2.drawers = closed.drawers
      /\ explained => Cash(d2) = Cash(d) + counted - expected
  <2>1. CASE counted # expected /\ explained
    <3> DEFINE p == Post(closed, "close_adjust", 0, counted - expected, i)
    <3>1. counted - expected \in Int /\ "close_adjust" \in Sources
      BY DEF Sources
    <3>2. /\ EntriesOK(p) /\ p.drawers = closed.drawers
          /\ Cash(p) = Cash(closed) + (counted - expected)
      BY <1>6, <3>1, PostBooks DEF BooksTyped
    <3>3. Typed(p)
      BY <1>6, PostStands DEF BooksTyped, Stands
    <3> HIDE DEF p
    <3>4. BooksTyped(p)
      BY <1>6, <3>2, <3>3 DEF BooksTyped, Drawers
    <3> QED
      BY <1>4, <1>6, <1>7, <2>1, <3>2, <3>4 DEF p
  <2>2. CASE ~ (counted # expected /\ explained)
    BY <1>4, <1>6, <1>7, <2>2
  <2> QED
    BY <2>1, <2>2
<1>9. ASSUME expected = Expected(d, i)
      PROVE  Explained(closed.drawers[i])
  <2>1. closed.drawers[i].closing = d.drawers[i].opening + CashOf(Linked(d, i))
    BY <1>1, <1>3, <1>9 DEF Expected
  <2>2. SnapshotSum(Breakdown(d, i)) = CashOf(Linked(d, i))
    BY BreakdownAddsUp DEF BooksTyped
  <2> QED
    BY <1>3, <1>5, <2>1, <2>2 DEF Explained, SameBooks
<1> QED
  BY <1>1, <1>3, <1>6, <1>8, <1>9 DEF d2, Drawers

\* The drawer opens on the count, and so does what is booked.
LEMMA OpenDrawerIs ==
  ASSUME NEW d, BooksTyped(d), NEW start \in Int, NEW reference \in Int
  PROVE  LET d2 == OpenDrawer(d, start, reference)
             i == Len(d.drawers) + 1
         IN  /\ BooksTyped(d2) /\ i \notin Drawers(d) /\ Drawers(d2) = Drawers(d) \cup {i}
             /\ \A j \in Drawers(d) : d2.drawers[j] = d.drawers[j]
             /\ d2.drawers[i].status = "open"
             /\ Cash(d2) = Cash(d) + start - reference
             /\ Expected(d2, i) = start
<1> DEFINE i == Len(d.drawers) + 1
           row == NewDrawer(start, reference)
           opened == [d EXCEPT !.drawers = Append(@, row)]
           d2 == OpenDrawer(d, start, reference)
           posted == Post(opened, "open", 0, start - reference, i)
<1>1. row = [c \in Columns |-> row[c]] /\ row.opening = reference /\ row.status = "open"
  BY DEF NewDrawer, Columns
<1>2. d2 = IF reference = 0 \/ start # reference THEN posted ELSE opened
  BY DEF OpenDrawer
<1> HIDE DEF row, d2
<1>3. /\ Typed(opened) /\ opened.entries = d.entries /\ opened.lastEntry = d.lastEntry
      /\ i \notin Drawers(d) /\ i # NoDrawer /\ Drawers(opened) = Drawers(d) \cup {i}
      /\ \A j \in Drawers(d) : opened.drawers[j] = d.drawers[j]
      /\ opened.drawers[i] = row
  BY <1>1, Appended DEF BooksTyped
<1> HIDE DEF opened, i
<1>4. EntriesOK(opened)
  BY <1>3 DEF BooksTyped, EntriesOK, EntryOK
<1>5. BooksTyped(opened)
  BY <1>1, <1>3, <1>4 DEF BooksTyped
<1>6. Linked(opened, i) = {}
  BY <1>3 DEF BooksTyped, EntriesOK, EntryOK, Linked
<1>7. CashOf(Linked(opened, i)) = 0 /\ Cash(opened) = Cash(d) /\ Cash(d) \in Int
  BY <1>3, <1>6, CashOfNone, LinkedCashes DEF Cash, BooksTyped
<1>8. /\ BooksTyped(d2) /\ d2.drawers = opened.drawers
      /\ Cash(d2) = Cash(d) + start - reference
      /\ CashOf(Linked(d2, i)) = start - reference
  <2>1. CASE reference = 0 \/ start # reference
    <3>1. start - reference \in Int /\ "open" \in Sources /\ i \in Drawers(opened)
      BY <1>3 DEF Sources
    <3>2. /\ EntriesOK(posted) /\ posted.drawers = opened.drawers
          /\ Cash(posted) = Cash(opened) + (start - reference)
          /\ CashOf(Linked(posted, i)) = CashOf(Linked(opened, i)) + (start - reference)
      BY <1>5, <3>1, PostBooks DEF BooksTyped
    <3>3. Typed(posted)
      BY <1>5, PostStands DEF BooksTyped, Stands
    <3> HIDE DEF posted
    <3>4. BooksTyped(posted)
      BY <1>5, <3>2, <3>3 DEF BooksTyped, Drawers
    <3> QED
      BY <1>2, <1>7, <2>1, <3>2, <3>4
  <2>2. CASE ~ (reference = 0 \/ start # reference)
    BY <1>2, <1>5, <1>7, <2>2
  <2> QED
    BY <2>1, <2>2
<1>9. Drawers(d2) = Drawers(opened)
  BY <1>8 DEF Drawers
<1>10. Expected(d2, i) = start
  BY <1>1, <1>3, <1>8 DEF Expected
<1> QED
  BY <1>1, <1>3, <1>8, <1>9, <1>10 DEF d2, i

(***************************************************************************)
(* What a request has summed up of the drawers it is to close.             *)
(***************************************************************************)
StaleOK(d, stale) ==
  /\ stale = [i \in DOMAIN stale |-> stale[i]]
  /\ DOMAIN stale \subseteq Drawers(d)
  /\ \A i \in DOMAIN stale : stale[i] \in Int

LEMMA StaleEnds ==
  ASSUME NEW d, Typed(d), NEW stale, StaleOK(d, stale), stale # <<>>
  PROVE  /\ DOMAIN stale # {}
         /\ \E i \in DOMAIN stale : \A j \in DOMAIN stale : i <= j
         /\ \E i \in DOMAIN stale : \A j \in DOMAIN stale : j <= i
<1> DEFINE D == DOMAIN stale
<1>1. D # {}
  <2>1. ASSUME D = {} PROVE stale = <<>>
    <3>1. stale = [i \in {} |-> stale[i]]
      BY <2>1 DEF StaleOK
    <3>2. [i \in {} |-> stale[i]] = <<>>
      OBVIOUS
    <3> QED
      BY <3>1, <3>2
  <2> QED
    BY <2>1
<1> DEFINE n == Len(d.drawers)
<1>2. D \in SUBSET (1..n) /\ n \in Nat
  <2>1. DOMAIN d.drawers = 1..n /\ n \in Nat
    BY DEF Typed
  <2> QED
    BY <2>1 DEF StaleOK, Drawers
<1> HIDE DEF n
<1>3. D \in SUBSET Nat /\ IsFiniteSet(D)
  <2>1. IsFiniteSet(1..n)
    <3>1. 1 \in Int /\ n \in Int
      BY <1>2
    <3> QED
      BY ONLY <3>1, FS_Interval
  <2>2. IsFiniteSet(D)
    <3> HIDE DEF D
    <3> QED
      BY ONLY <1>2, <2>1, FS_Subset
  <2> QED
    BY <1>2, <2>2
<1> HIDE DEF D
<1> QED
  BY <1>1, <1>3, LeastIs, GreatestOf DEF D

LEMMA AutoCloseAllIs ==
  ASSUME NEW d, BooksTyped(d), NEW stale, StaleOK(d, stale)
  PROVE  LET d2 == AutoCloseAll(d, stale)
         IN  /\ SameBooks(d, d2)
             /\ \A j \in Drawers(d) \ DOMAIN stale : d2.drawers[j] = d.drawers[j]
             /\ \A j \in DOMAIN stale :
                  /\ d2.drawers[j].status # "open"
                  /\ j \in OpenDrawers(d) /\ stale[j] = Expected(d, j)
                       => Explained(d2.drawers[j])
<1> DEFINE d2 == AutoCloseAll(d, stale)
<1>1. CASE stale = <<>>
  <2>1. d2 = d /\ DOMAIN stale = {}
    BY <1>1 DEF AutoCloseAll
  <2>2. SameBooks(d, d)
    BY DEF SameBooks, BooksTyped
  <2> QED
    BY <2>1, <2>2
<1>2. CASE stale # <<>>
  <2> DEFINE first == CHOOSE i \in DOMAIN stale : \A j \in DOMAIN stale : i <= j
             one == AutoClose(d, first, stale[first])
             Other(j) == AutoClose(d, j, Expected(d, j)).drawers[j]
             rows == [j \in Drawers(d) |-> IF j \in DOMAIN stale \ {first} THEN Other(j)
                                           ELSE one.drawers[j]]
             all == [one EXCEPT !.drawers = rows]
  <2>1. d2 = all
    BY <1>2 DEF AutoCloseAll
  <2>2. first \in DOMAIN stale
    BY <1>2, StaleEnds DEF BooksTyped
  <2> HIDE DEF first
  <2>3. /\ SameBooks(d, one)
        /\ \A j \in Drawers(d) \ {first} : one.drawers[j] = d.drawers[j]
        /\ one.drawers[first].status # "open"
        /\ first \in OpenDrawers(d) /\ stale[first] = Expected(d, first)
             => Explained(one.drawers[first])
    BY <2>2, AutoCloseIs DEF StaleOK
  <2>4. ASSUME NEW j \in Drawers(d)
        PROVE  /\ Other(j) = [c \in Columns |-> Other(j)[c]]
               /\ Other(j).opening = d.drawers[j].opening
               /\ Other(j).status # "open"
               /\ j \in OpenDrawers(d) => Explained(Other(j))
    <3> DEFINE e == AutoClose(d, j, Expected(d, j))
    <3>1. /\ SameBooks(d, e) /\ e.drawers[j].status # "open"
          /\ j \in OpenDrawers(d) => Explained(e.drawers[j])
      BY AutoCloseIs
    <3> HIDE DEF e
    <3> QED
      BY <3>1 DEF SameBooks, Typed, e
  <2> HIDE DEF one, Other
  <2>5. /\ all.drawers = rows /\ all.entries = d.entries /\ all.lastEntry = d.lastEntry
        /\ all = [t \in Tables |-> all[t]]
    BY <2>3 DEF SameBooks, Typed, Tables
  <2>6. Drawers(d) = 1..Len(d.drawers) /\ Len(d.drawers) \in Nat
    BY DEF BooksTyped, Typed, Drawers
  <2>7. ASSUME NEW j \in Drawers(d)
        PROVE  /\ rows[j] = [c \in Columns |-> rows[j][c]]
               /\ rows[j].opening = d.drawers[j].opening
    <3>1. /\ one.drawers[j] = [c \in Columns |-> one.drawers[j][c]]
          /\ one.drawers[j].opening = d.drawers[j].opening
      BY <2>3 DEF SameBooks, Typed
    <3> QED
      BY <2>4, <3>1
  <2>8. /\ \A j \in Drawers(d) \ DOMAIN stale : rows[j] = d.drawers[j]
        /\ \A j \in DOMAIN stale :
             /\ rows[j].status # "open"
             /\ j \in OpenDrawers(d) /\ stale[j] = Expected(d, j) => Explained(rows[j])
    BY <2>2, <2>3, <2>4 DEF StaleOK
  <2>9. rows = [j \in Drawers(d) |-> rows[j]] /\ DOMAIN rows = Drawers(d)
    OBVIOUS
  <2> HIDE DEF rows, all
  <2>10. Len(rows) = Len(d.drawers)
    BY <2>6, <2>9, LenProperties
  <2>11. Typed(all)
    BY <2>5, <2>6, <2>7, <2>9, <2>10 DEF Typed, Drawers
  <2>12. SameBooks(d, all)
    BY <2>5, <2>7, <2>9, <2>11 DEF SameBooks, Drawers
  <2> QED
    BY <2>1, <2>5, <2>8, <2>12
<1> QED
  BY <1>1, <1>2

(***************************************************************************)
(* The invariant: typed books, and what each request has read of them.     *)
(* Explains, Single and Matched are what is proved, of any database.       *)
(***************************************************************************)
RequestOK(d, r) ==
  /\ r.op = "open" => r.start \in Int /\ r.cash \in Int /\ StaleOK(d, r.stale)
  /\ r.op = "auto_close" => StaleOK(d, r.stale)
  /\ r.op \in {"cash_in", "cash_out"} => r.amount \in Int /\ r.drawer \in Drawers(d)
  /\ r.op = "close" =>
       r.counted \in Int /\ r.expected \in Int /\ r.drawer \in Drawers(d)
  /\ r.op = "edit" => r.amount \in Int

BooksInv ==
  /\ BooksTyped(db)
  /\ pending = [w \in Workers |-> pending[w]]
  /\ \A w \in Workers : RequestOK(db, pending[w])

Explains(d) ==
  \A i \in Drawers(d) : d.drawers[i].status # "open" => Explained(d.drawers[i])

Single(d) == \A i, j \in OpenDrawers(d) : i = j

Matched(d) ==
  /\ Single(d)
  /\ \A i \in OpenDrawers(d) : Cash(d) = Expected(d, i)

Writes(d, d2) == BooksTyped(d2) /\ Drawers(d) \subseteq Drawers(d2)

\* What every step comes down to.
Good(d, d2) ==
  /\ Writes(d, d2)
  /\ "moving_count" \notin Practices /\ Explains(d) => Explains(d2)
  /\ "two_openers" \notin Practices /\ Single(d) => Single(d2)
  /\ Practices = {} /\ Matched(d) => Matched(d2)

LEMMA GoodStill ==
  ASSUME NEW d, BooksTyped(d)
  PROVE  Good(d, d)
BY DEF Good, Writes

LEMMA RequestOn ==
  ASSUME NEW d, NEW d2, Drawers(d) \subseteq Drawers(d2), NEW r, RequestOK(d, r)
  PROVE  RequestOK(d2, r)
BY DEF RequestOK, StaleOK

LEMMA AnswerBooks ==
  ASSUME BooksInv, NEW w \in Workers, NEW d, Answers(w, d), Good(db, d)
  PROVE  BooksInv' /\ Good(db, db')
<1>1. db' = d /\ pending' = [pending EXCEPT ![w] = Idle]
  BY DEF Answers
<1>2. \A v \in Workers : pending'[v] = IF v = w THEN Idle ELSE pending[v]
  BY <1>1 DEF BooksInv
<1>3. RequestOK(d, Idle)
  BY DEF RequestOK, Idle
<1>4. \A v \in Workers : RequestOK(d, pending[v])
  BY RequestOn DEF BooksInv, Good, Writes
<1>5. \A v \in Workers : RequestOK(d, pending'[v])
  BY <1>2, <1>3, <1>4
<1>6. BooksTyped(d)
  BY DEF Good, Writes
<1> QED
  BY <1>1, <1>5, <1>6 DEF BooksInv

LEMMA ServeBooks ==
  ASSUME BooksInv, NEW d, Serves(d), Good(db, d)
  PROVE  BooksInv' /\ Good(db, db')
<1>1. db' = d /\ pending' = pending
  BY DEF Serves
<1>2. \A v \in Workers : RequestOK(d, pending[v])
  BY RequestOn DEF BooksInv, Good, Writes
<1>3. BooksTyped(d)
  BY DEF Good, Writes
<1> QED
  BY <1>1, <1>2, <1>3 DEF BooksInv

LEMMA ReadBooks ==
  ASSUME BooksInv, NEW w \in Workers, NEW r, Reads(w, r), RequestOK(db, r)
  PROVE  BooksInv' /\ Good(db, db')
<1>1. db' = db /\ pending' = [pending EXCEPT ![w] = r]
  BY DEF Reads
<1>2. Good(db, db)
  BY GoodStill DEF BooksInv
<1> QED
  BY <1>1, <1>2 DEF BooksInv

(***************************************************************************)
(* The reads                                                               *)
(***************************************************************************)
LEMMA ActiveIs ==
  ASSUME NEW d, Typed(d)
  PROVE  Active(d) \in OpenDrawers(d) \/ (OpenDrawers(d) = {} /\ Active(d) = NoDrawer)
<1> DEFINE n == Len(d.drawers)
           O == OpenDrawers(d)
<1>1. DOMAIN d.drawers = 1..n /\ n \in Nat
  BY DEF Typed
<1>2. O \subseteq 1..n
  BY <1>1 DEF OpenDrawers, Drawers
<1> HIDE DEF n
<1>3. IsFiniteSet(1..n)
  <2>1. 1 \in Int /\ n \in Int
    BY <1>1
  <2> QED
    BY ONLY <2>1, FS_Interval
<1>4. IsFiniteSet(O) /\ O \subseteq Nat
  <2>1. O \in SUBSET (1..n)
    BY <1>2
  <2>2. IsFiniteSet(O)
    <3> HIDE DEF O
    <3> QED
      BY ONLY <1>3, <2>1, FS_Subset
  <2>3. O \subseteq Nat
    BY <1>1, <1>2
  <2> QED
    BY <2>2, <2>3
<1>5. ASSUME O # {} PROVE Active(d) \in O
  <2>1. \E i \in O : \A j \in O : j <= i
    <3> HIDE DEF O
    <3> QED
      BY ONLY <1>4, <1>5, GreatestOf
  <2> QED
    BY <1>5, <2>1 DEF Active
<1> QED
  BY <1>5 DEF Active

LEMMA StaleRead ==
  ASSUME BooksInv
  PROVE  StaleOK(db, ExpectedOf(Stale(db)))
<1>1. Stale(db) \subseteq Drawers(db)
  BY DEF Stale, OpenDrawers
<1>2. \A i \in Stale(db) : Expected(db, i) \in Int
  BY <1>1, ExpectedInt DEF BooksInv
<1> QED
  BY <1>1, <1>2 DEF StaleOK, ExpectedOf

LEMMA ActiveRead ==
  ASSUME BooksInv, OpenDrawers(db) # {}
  PROVE  Active(db) \in Drawers(db) /\ Expected(db, Active(db)) \in Int
BY ActiveIs, ExpectedInt DEF BooksInv, BooksTyped, OpenDrawers

LEMMA ReadingBooks ==
  ASSUME BooksInv, NEW w \in Workers,
         \/ \E n \in Counts :
              ReadOpen(w, n) \/ \E explained \in BOOLEAN : ReadClose(w, n, explained)
         \/ \E source \in {"cash_in", "cash_out"}, amount \in Amounts :
              ReadCash(w, source, amount)
         \/ \E e \in db.entries, amount \in Amounts : ReadEdit(w, e, amount)
         \/ ReadAutoClose(w)
  PROVE  BooksInv' /\ Good(db, db')
<1>1. Counts \subseteq Int /\ Amounts \subseteq Int
  BY DrawerAssumption
<1>2. ASSUME NEW n \in Counts, ReadOpen(w, n) PROVE \E r : Reads(w, r) /\ RequestOK(db, r)
  <2> DEFINE r == [op |-> "open", start |-> n, cash |-> Cash(db),
                   stale |-> ExpectedOf(Stale(db))]
  <2>1. Reads(w, r)
    BY <1>2 DEF ReadOpen
  <2>2. Cash(db) \in Int
    BY LinkedCashes DEF BooksInv, BooksTyped
  <2>3. RequestOK(db, r)
    BY <1>1, <2>2, StaleRead DEF RequestOK
  <2> QED
    BY <2>1, <2>3
<1>3. ASSUME NEW n \in Counts, NEW explained \in BOOLEAN, ReadClose(w, n, explained)
      PROVE  \E r : Reads(w, r) /\ RequestOK(db, r)
  <2> DEFINE r == [op |-> "close", counted |-> n, explained |-> explained,
                   drawer |-> Active(db), expected |-> Expected(db, Active(db))]
  <2>1. Reads(w, r) /\ OpenDrawers(db) # {}
    BY <1>3 DEF ReadClose, ReadActive
  <2>2. RequestOK(db, r)
    BY <1>1, <2>1, ActiveRead DEF RequestOK
  <2> QED
    BY <2>1, <2>2
<1>4. ASSUME NEW source \in {"cash_in", "cash_out"}, NEW amount \in Amounts,
             ReadCash(w, source, amount)
      PROVE  \E r : Reads(w, r) /\ RequestOK(db, r)
  <2> DEFINE r == [op |-> source, amount |-> amount, drawer |-> Active(db)]
  <2>1. Reads(w, r) /\ OpenDrawers(db) # {}
    BY <1>4 DEF ReadCash, ReadActive
  <2>2. RequestOK(db, r)
    BY <1>1, <2>1, ActiveRead DEF RequestOK
  <2> QED
    BY <2>1, <2>2
<1>5. ASSUME NEW e \in db.entries, NEW amount \in Amounts, ReadEdit(w, e, amount)
      PROVE  \E r : Reads(w, r) /\ RequestOK(db, r)
  <2> DEFINE r == [op |-> "edit", entry |-> e.id, amount |-> amount]
  <2>1. Reads(w, r)
    BY <1>5 DEF ReadEdit
  <2>2. RequestOK(db, r)
    BY <1>1 DEF RequestOK
  <2> QED
    BY <2>1, <2>2
<1>6. ASSUME ReadAutoClose(w) PROVE \E r : Reads(w, r) /\ RequestOK(db, r)
  <2> DEFINE r == [op |-> "auto_close", stale |-> ExpectedOf(Stale(db))]
  <2>1. Reads(w, r)
    BY <1>6 DEF ReadAutoClose
  <2>2. RequestOK(db, r)
    BY StaleRead DEF RequestOK
  <2> QED
    BY <2>1, <2>2
<1>7. \E r : Reads(w, r) /\ RequestOK(db, r)
  BY <1>2, <1>3, <1>4, <1>5, <1>6
<1> QED
  BY <1>7, ReadBooks

(***************************************************************************)
(* Writes of entries: the open drawer's sum moves with that of 1101.       *)
(***************************************************************************)
LEMMA EntriesGood ==
  ASSUME NEW d, BooksTyped(d), NEW d2, Typed(d2), EntriesOK(d2), d2.drawers = d.drawers,
         NEW n \in Int, Cash(d2) = Cash(d) + n,
         Practices = {} /\ Matched(d) =>
           \A i \in OpenDrawers(d) : CashOf(Linked(d2, i)) = CashOf(Linked(d, i)) + n
  PROVE  Good(d, d2)
<1>1. Drawers(d2) = Drawers(d) /\ OpenDrawers(d2) = OpenDrawers(d)
  BY DEF Drawers, OpenDrawers
<1>2. BooksTyped(d2)
  BY <1>1 DEF BooksTyped
<1>3. ASSUME Practices = {}, Matched(d), NEW i \in OpenDrawers(d)
      PROVE  Cash(d2) = Expected(d2, i)
  <2>1. d2.drawers[i].opening \in Int /\ d2.drawers[i] = d.drawers[i]
    BY DEF BooksTyped, OpenDrawers
  <2>2. CashOf(Linked(d, i)) \in Int /\ Cash(d) \in Int
    BY LinkedCashes DEF BooksTyped
  <2>3. CashOf(Linked(d2, i)) = CashOf(Linked(d, i)) + n /\ Cash(d) = Expected(d, i)
    BY <1>3 DEF Matched
  <2> QED
    BY <2>1, <2>2, <2>3 DEF Expected
<1>4. (Single(d) => Single(d2)) /\ (Practices = {} /\ Matched(d) => Matched(d2))
  BY <1>1, <1>3 DEF Matched, Single
<1>5. Explains(d) => Explains(d2)
  BY <1>1 DEF Explains
<1> QED
  BY <1>1, <1>2, <1>4, <1>5 DEF Good, Writes

LEMMA PostGood ==
  ASSUME NEW d, BooksTyped(d), NEW source \in Sources, NEW of, NEW cash \in Int,
         NEW i \in Drawers(d) \cup {NoDrawer},
         Practices = {} /\ Matched(d) => \A j \in OpenDrawers(d) : j = i
  PROVE  Good(d, Post(d, source, of, cash, i))
<1> DEFINE d2 == Post(d, source, of, cash, i)
<1>1. /\ EntriesOK(d2) /\ d2.drawers = d.drawers /\ Cash(d2) = Cash(d) + cash
      /\ \A j : CashOf(Linked(d2, j))
                  = CashOf(Linked(d, j)) + (IF j = i THEN cash ELSE 0)
  BY PostBooks DEF BooksTyped
<1>2. Typed(d2)
  BY PostStands DEF BooksTyped, Stands
<1> HIDE DEF d2
<1>3. Good(d, d2)
  BY <1>1, <1>2, EntriesGood
<1> QED
  BY <1>3 DEF d2

LEMMA ChangedGood ==
  ASSUME NEW d, BooksTyped(d), NEW e \in d.entries, NEW cash \in Int,
         Practices = {} /\ Matched(d) => \A j \in OpenDrawers(d) : j = e.drawer
  PROVE  Good(d, Changed(d, e, cash))
<1> DEFINE d2 == Changed(d, e, cash)
<1>1. e.cash \in Int /\ Cash(d) \in Int
  BY LinkedCashes DEF BooksTyped, EntriesOK, EntryOK
<1>2. /\ EntriesOK(d2) /\ d2.drawers = d.drawers /\ Cash(d2) = Cash(d) + (cash - e.cash)
      /\ \A j : CashOf(Linked(d2, j))
                  = CashOf(Linked(d, j)) + (IF j = e.drawer THEN cash - e.cash ELSE 0)
  BY <1>1, ChangedBooks DEF BooksTyped
<1>3. Typed(d2)
  <2>1. d2 = [t \in Tables |-> d2[t]]
    BY DEF Changed, BooksTyped, Typed, Tables
  <2> HIDE DEF d2
  <2> QED
    BY <1>2, <2>1, EntriesStand DEF BooksTyped, Stands
<1> HIDE DEF d2
<1>4. Good(d, d2)
  BY <1>1, <1>2, <1>3, EntriesGood
<1> QED
  BY <1>4 DEF d2

LEMMA RemovedGood ==
  ASSUME NEW d, BooksTyped(d), NEW e \in d.entries,
         Practices = {} /\ Matched(d) => \A j \in OpenDrawers(d) : j = e.drawer
  PROVE  Good(d, [d EXCEPT !.entries = @ \ {e}])
<1> DEFINE d2 == [d EXCEPT !.entries = @ \ {e}]
<1>1. /\ e.cash \in Int /\ Cash(d) \in Int
      /\ \A j : CashOf(Linked(d, j)) \in Int
  BY LinkedCashes DEF BooksTyped, EntriesOK, EntryOK
<1>2. /\ EntriesOK(d2) /\ d2.drawers = d.drawers /\ Cash(d2) = Cash(d) - e.cash
      /\ \A j : CashOf(Linked(d2, j))
                  = CashOf(Linked(d, j)) - (IF j = e.drawer THEN e.cash ELSE 0)
  BY RemovedBooks DEF BooksTyped
<1>3. Typed(d2)
  <2>1. d2 = [t \in Tables |-> d2[t]]
    BY DEF BooksTyped, Typed, Tables
  <2> HIDE DEF d2
  <2> QED
    BY <1>2, <2>1, EntriesStand DEF BooksTyped, Stands
<1> HIDE DEF d2
<1>4. Good(d, d2)
  <2> DEFINE n == -e.cash
  <2>1. n \in Int /\ Cash(d2) = Cash(d) + n
    BY <1>1, <1>2
  <2>2. Practices = {} /\ Matched(d) =>
          \A j \in OpenDrawers(d) : CashOf(Linked(d2, j)) = CashOf(Linked(d, j)) + n
    BY <1>1, <1>2
  <2> HIDE DEF n
  <2> QED
    BY <1>2, <1>3, <2>1, <2>2, EntriesGood
<1> QED
  BY <1>4 DEF d2

LEMMA LockedGood ==
  ASSUME NEW d, BooksTyped(d)
  PROVE  Good(d, [d EXCEPT !.entries = {[e EXCEPT !.locked = TRUE] : e \in @}])
<1> DEFINE d2 == [d EXCEPT !.entries = {[e EXCEPT !.locked = TRUE] : e \in @}]
<1>1. /\ EntriesOK(d2) /\ d2.drawers = d.drawers /\ Cash(d2) = Cash(d)
      /\ \A j : CashOf(Linked(d2, j)) = CashOf(Linked(d, j))
  BY LockedBooks DEF BooksTyped
<1>2. Typed(d2)
  <2>1. d2 = [t \in Tables |-> d2[t]]
    BY DEF BooksTyped, Typed, Tables
  <2> HIDE DEF d2
  <2> QED
    BY <1>1, <2>1, EntriesStand DEF BooksTyped, Stands
<1> HIDE DEF d2
<1>3. Cash(d) \in Int /\ \A j : CashOf(Linked(d, j)) \in Int
  BY LinkedCashes DEF BooksTyped
<1>4. Cash(d2) = Cash(d) + 0 /\ \A j : CashOf(Linked(d2, j)) = CashOf(Linked(d, j)) + 0
  BY <1>1, <1>3
<1>5. Good(d, d2)
  BY <1>1, <1>2, <1>4, EntriesGood
<1> QED
  BY <1>5 DEF d2

(***************************************************************************)
(* Writes of rows                                                          *)
(***************************************************************************)
\* The discrepancy is made up anew, whatever the drawer's state.
LEMMA MakeUpCloseIs ==
  ASSUME NEW d, BooksTyped(d), NEW i, NEW adjustment
  PROVE  LET d2 == MakeUpClose(d, i, adjustment)
         IN  /\ SameBooks(d, d2)
             /\ \A j \in Drawers(d) :
                  /\ d2.drawers[j].status = d.drawers[j].status
                  /\ d2.drawers[j] = d.drawers[j] \/ Explained(d2.drawers[j])
<1> DEFINE closing == Expected(d, i)
           row == [d.drawers[i] EXCEPT !.closing = closing, !.counted = closing,
                                       !.discrepancy = adjustment]
           one == [d EXCEPT !.drawers = [d.drawers EXCEPT ![i] = row]]
           d2 == SaveBreakdown(one, i)
<1> HIDE DEF closing
<1>1. MakeUpClose(d, i, adjustment) = d2
  BY DEF MakeUpClose, closing
<1>2. Typed(d)
  BY DEF BooksTyped
<1>3. one.entries = d.entries /\ one.lastEntry = d.lastEntry
  BY <1>2 DEF Typed, Tables
<1>4. i \in Drawers(d) =>
        /\ row = [c \in Columns |-> row[c]] /\ row.status = d.drawers[i].status
        /\ row.closing = closing /\ row.opening = d.drawers[i].opening
  BY <1>2 DEF Typed, Columns
<1> HIDE DEF row
<1>5. /\ Typed(one) /\ Drawers(one) = Drawers(d)
      /\ \A j \in Drawers(d) : one.drawers[j] = IF j = i THEN row ELSE d.drawers[j]
  <2>1. i \in Drawers(d) => row = [c \in Columns |-> row[c]]
    BY <1>4
  <2> QED
    BY ONLY <1>2, <2>1, RowIs
<1> HIDE DEF one
<1>6. SameBooks(d, one)
  BY <1>3, <1>4, <1>5 DEF SameBooks
<1>7. BooksTyped(one) /\ \A j : Breakdown(one, j) = Breakdown(d, j)
  BY <1>6, SameBooksSums
<1>8. CASE i \in Drawers(d)
  <2>1. \A j \in Drawers(one) \ {i} : d2.drawers[j] = one.drawers[j]
    BY <1>5, <1>7, <1>8, SnapshotIs
  <2>2. SameBooks(one, d2)
    BY <1>5, <1>7, <1>8, SnapshotIs
  <2>3. /\ d2.drawers[i].status = one.drawers[i].status
        /\ d2.drawers[i].closing = one.drawers[i].closing
        /\ d2.drawers[i].opening = one.drawers[i].opening
        /\ d2.drawers[i].snapshot = Breakdown(one, i)
    BY <1>5, <1>7, <1>8, SnapshotIs
  <2> HIDE DEF d2
  <2>4. SameBooks(d, d2)
    BY <1>6, <2>2, SameBooksOn
  <2>5. Explained(d2.drawers[i])
    <3>1. SnapshotSum(Breakdown(d, i)) = CashOf(Linked(d, i))
      BY BreakdownAddsUp DEF BooksTyped
    <3> QED
      BY <1>4, <1>5, <1>7, <1>8, <2>3, <3>1 DEF Explained, closing, Expected
  <2> QED
    BY <1>1, <1>4, <1>5, <1>8, <2>1, <2>3, <2>4, <2>5
<1>9. CASE i \notin Drawers(d)
  <2> DEFINE snap == [one.drawers[i] EXCEPT !.snapshot = Breakdown(one, i)]
  <2>1. d2 = [one EXCEPT !.drawers = [one.drawers EXCEPT ![i] = snap]]
    BY DEF SaveBreakdown
  <2>2. Typed(one) /\ (i \in Drawers(one) => snap = [c \in Columns |-> snap[c]])
    BY <1>5, <1>9
  <2>3. d2.entries = one.entries /\ d2.lastEntry = one.lastEntry
    BY <1>5, <2>1 DEF Typed, Tables
  <2> HIDE DEF snap
  <2>4. /\ Typed(d2) /\ Drawers(d2) = Drawers(one)
        /\ \A j \in Drawers(one) : d2.drawers[j] = IF j = i THEN snap ELSE one.drawers[j]
    <3> HIDE DEF d2
    <3> QED
      BY ONLY <2>1, <2>2, RowIs
  <2> HIDE DEF d2
  <2>5. SameBooks(one, d2)
    BY <1>5, <1>9, <2>3, <2>4 DEF SameBooks
  <2>6. SameBooks(d, d2)
    BY <1>6, <2>5, SameBooksOn
  <2> QED
    BY <1>1, <1>5, <1>9, <2>4, <2>6
<1> QED
  BY <1>8, <1>9

LEMMA MakeUpGood ==
  ASSUME NEW d, BooksTyped(d), NEW i, NEW adjustment
  PROVE  Good(d, MakeUpClose(d, i, adjustment))
<1> DEFINE d2 == MakeUpClose(d, i, adjustment)
<1>1. /\ SameBooks(d, d2)
      /\ \A j \in Drawers(d) :
           /\ d2.drawers[j].status = d.drawers[j].status
           /\ d2.drawers[j] = d.drawers[j] \/ Explained(d2.drawers[j])
  BY MakeUpCloseIs
<1> HIDE DEF d2
<1>2. /\ BooksTyped(d2) /\ Drawers(d2) = Drawers(d) /\ Cash(d2) = Cash(d)
      /\ \A j \in Drawers(d) : Expected(d2, j) = Expected(d, j)
  BY <1>1, SameBooksSums DEF SameBooks
<1>3. OpenDrawers(d2) = OpenDrawers(d) /\ OpenDrawers(d) \subseteq Drawers(d)
  BY <1>1, <1>2 DEF OpenDrawers
<1>4. Explains(d) => Explains(d2)
  BY <1>1, <1>2 DEF Explains
<1>5. (Single(d) => Single(d2)) /\ (Matched(d) => Matched(d2))
  BY <1>2, <1>3 DEF Matched, Single
<1>6. Good(d, d2)
  BY <1>2, <1>4, <1>5 DEF Good, Writes
<1> QED
  BY <1>6 DEF d2

LEMMA ReconciledGood ==
  ASSUME NEW d, BooksTyped(d), NEW i \in Drawers(d)
  PROVE  Good(d, [d EXCEPT !.drawers[i].reconciled = TRUE])
<1> DEFINE row == [d.drawers[i] EXCEPT !.reconciled = TRUE]
           d2 == [d EXCEPT !.drawers = [d.drawers EXCEPT ![i] = row]]
<1>1. [d EXCEPT !.drawers[i].reconciled = TRUE] = d2
  OBVIOUS
<1>2. Typed(d)
  BY DEF BooksTyped
<1>3. /\ row = [c \in Columns |-> row[c]] /\ row.status = d.drawers[i].status
      /\ row.closing = d.drawers[i].closing /\ row.opening = d.drawers[i].opening
      /\ row.snapshot = d.drawers[i].snapshot
  BY <1>2 DEF Typed, Columns
<1>4. d2.entries = d.entries /\ d2.lastEntry = d.lastEntry
  BY <1>2 DEF Typed, Tables
<1> HIDE DEF row
<1>5. /\ Typed(d2) /\ Drawers(d2) = Drawers(d)
      /\ \A j \in Drawers(d) : d2.drawers[j] = IF j = i THEN row ELSE d.drawers[j]
  <2>1. row = [c \in Columns |-> row[c]]
    BY <1>3
  <2> QED
    BY ONLY <1>2, <2>1, RowIs
<1> HIDE DEF d2
<1>6. SameBooks(d, d2)
  BY <1>3, <1>4, <1>5 DEF SameBooks
<1>7. /\ BooksTyped(d2) /\ Cash(d2) = Cash(d)
      /\ \A j \in Drawers(d) : Expected(d2, j) = Expected(d, j)
  BY <1>6, SameBooksSums
<1>8. OpenDrawers(d2) = OpenDrawers(d) /\ OpenDrawers(d) \subseteq Drawers(d)
  BY <1>3, <1>5 DEF OpenDrawers
<1>9. Explains(d) => Explains(d2)
  BY <1>3, <1>5 DEF Explains, Explained
<1>10. (Single(d) => Single(d2)) /\ (Matched(d) => Matched(d2))
  BY <1>7, <1>8 DEF Matched, Single
<1> QED
  BY <1>1, <1>5, <1>7, <1>9, <1>10 DEF Good, Writes

\* Several drawers closed at once, each on what is booked to it.
LEMMA AutoCloseAllGood ==
  ASSUME NEW d, BooksTyped(d), NEW stale, StaleOK(d, stale),
         "moving_count" \notin Practices =>
           \A j \in DOMAIN stale : j \in OpenDrawers(d) /\ stale[j] = Expected(d, j)
  PROVE  Good(d, AutoCloseAll(d, stale)) /\ Cash(AutoCloseAll(d, stale)) = Cash(d)
<1> DEFINE d2 == AutoCloseAll(d, stale)
<1>1. /\ SameBooks(d, d2)
      /\ \A j \in Drawers(d) \ DOMAIN stale : d2.drawers[j] = d.drawers[j]
      /\ \A j \in DOMAIN stale :
           /\ d2.drawers[j].status # "open"
           /\ j \in OpenDrawers(d) /\ stale[j] = Expected(d, j)
                => Explained(d2.drawers[j])
  BY AutoCloseAllIs
<1> HIDE DEF d2
<1>2. /\ BooksTyped(d2) /\ Drawers(d2) = Drawers(d) /\ Cash(d2) = Cash(d)
      /\ \A j \in Drawers(d) : Expected(d2, j) = Expected(d, j)
  BY <1>1, SameBooksSums DEF SameBooks
<1>3. OpenDrawers(d2) \subseteq OpenDrawers(d) /\ OpenDrawers(d) \subseteq Drawers(d)
  BY <1>1, <1>2 DEF OpenDrawers
<1>4. "moving_count" \notin Practices /\ Explains(d) => Explains(d2)
  BY <1>1, <1>2 DEF Explains
<1>5. (Single(d) => Single(d2)) /\ (Matched(d) => Matched(d2))
  BY <1>2, <1>3 DEF Matched, Single
<1>6. Good(d, d2)
  BY <1>2, <1>4, <1>5 DEF Good, Writes
<1> QED
  BY <1>2, <1>6 DEF d2

(***************************************************************************)
(* The steps                                                               *)
(***************************************************************************)
LEMMA AutoCloseBooks ==
  ASSUME BooksInv, NEW w \in Workers, WriteAutoClose(w)
  PROVE  BooksInv' /\ Good(db, db')
<1> DEFINE stale == pending[w].stale
<1>1. /\ StaleOK(db, stale) /\ Answers(w, AutoCloseAll(db, stale))
      /\ SumsHold(stale) \/ "moving_count" \in Practices
  BY DEF WriteAutoClose, BooksInv, RequestOK
<1>2. Good(db, AutoCloseAll(db, stale))
  BY <1>1, AutoCloseAllGood DEF SumsHold, BooksInv
<1> QED
  BY <1>1, <1>2, AnswerBooks

LEMMA CashBooksStep ==
  ASSUME BooksInv, NEW w \in Workers, WriteCash(w)
  PROVE  BooksInv' /\ Good(db, db')
<1> DEFINE r == pending[w]
           cash == IF r.op = "cash_in" THEN r.amount ELSE -r.amount
<1>1. /\ r.op \in {"cash_in", "cash_out"} /\ r.op \in Sources
      /\ r.drawer \in OpenDrawers(db) \/ "late_cash" \in Practices
      /\ Answers(w, Post(db, r.op, 0, cash, r.drawer))
  BY DEF WriteCash, Sources
<1>2. cash \in Int /\ r.drawer \in Drawers(db)
  BY <1>1 DEF BooksInv, RequestOK
<1> HIDE DEF cash
<1>3. Good(db, Post(db, r.op, 0, cash, r.drawer))
  BY <1>1, <1>2, PostGood DEF BooksInv, Matched, Single
<1> QED
  BY <1>1, <1>3, AnswerBooks

\* The evening's count is what 1101 has then.
LEMMA CloseBooks ==
  ASSUME BooksInv, NEW w \in Workers, WriteClose(w)
  PROVE  /\ BooksInv' /\ Good(db, db')
         /\ Practices = {} /\ Matched(db) /\ pending[w].explained
              => Cash(db') = pending[w].counted
<1> DEFINE r == pending[w]
           i == r.drawer
           d == CloseDrawer(db, i, r.counted, r.expected, r.explained)
<1>1. /\ i \in OpenDrawers(db) /\ Answers(w, d) /\ r.op = "close"
      /\ r.expected = Expected(db, i) \/ "moving_count" \in Practices
  BY DEF WriteClose
<1>2. BooksTyped(db) /\ i \in Drawers(db) /\ r.counted \in Int /\ r.expected \in Int
  BY <1>1 DEF BooksInv, RequestOK
<1>3. /\ BooksTyped(d) /\ Drawers(d) = Drawers(db)
      /\ \A j \in Drawers(db) \ {i} : d.drawers[j] = db.drawers[j]
      /\ d.drawers[i].status # "open"
      /\ r.expected = Expected(db, i) => Explained(d.drawers[i])
      /\ r.explained => Cash(d) = Cash(db) + r.counted - r.expected
  BY <1>2, CloseDrawerIs
<1> HIDE DEF d
<1>4. "moving_count" \notin Practices /\ Explains(db) => Explains(d)
  BY <1>1, <1>3 DEF Explains
<1>5. OpenDrawers(d) \subseteq OpenDrawers(db) \ {i}
  BY <1>3 DEF OpenDrawers
<1>6. (Single(db) => Single(d)) /\ (Matched(db) => Matched(d))
  BY <1>1, <1>5 DEF Matched, Single
<1>7. Good(db, d)
  BY <1>3, <1>4, <1>6 DEF Good, Writes
<1>8. ASSUME Practices = {}, Matched(db), r.explained PROVE Cash(db') = r.counted
  <2>1. db' = d
    BY <1>1 DEF Answers
  <2>2. Cash(db) = r.expected
    BY <1>1, <1>8 DEF Matched
  <2>3. Cash(d) = Cash(db) + r.counted - r.expected
    BY <1>3, <1>8
  <2> QED
    BY <1>2, <2>1, <2>2, <2>3
<1> QED
  BY <1>1, <1>7, <1>8, AnswerBooks

\* The morning's count is what 1101 has then.
LEMMA OpenBooks ==
  ASSUME BooksInv, NEW w \in Workers, WriteOpen(w)
  PROVE  /\ BooksInv' /\ Good(db, db')
         /\ Practices = {} /\ Matched(db) => Cash(db') = pending[w].start
<1> DEFINE r == pending[w]
           closed == AutoCloseAll(db, r.stale)
           latest == CHOOSE i \in DOMAIN r.stale : \A j \in DOMAIN r.stale : j <= i
           reference == IF r.stale = <<>> THEN r.cash ELSE r.stale[latest]
           d == OpenDrawer(closed, r.start, reference)
           i == Len(closed.drawers) + 1
<1>1. /\ r.op = "open" /\ Answers(w, d)
      /\ OpenDrawers(closed) # {} => "two_openers" \in Practices
      /\ (r.cash = Cash(db) /\ SumsHold(r.stale)) \/ "moving_count" \in Practices
  BY DEF WriteOpen
<1>2. BooksTyped(db) /\ r.start \in Int /\ r.cash \in Int /\ StaleOK(db, r.stale)
  BY <1>1 DEF BooksInv, RequestOK
<1>3. r.stale # <<>> => latest \in DOMAIN r.stale
  BY <1>2, StaleEnds DEF BooksTyped
<1>4. reference \in Int
  BY <1>2, <1>3 DEF StaleOK
<1>5. Good(db, closed) /\ Cash(closed) = Cash(db)
  <2>1. "moving_count" \notin Practices =>
          \A j \in DOMAIN r.stale : j \in OpenDrawers(db) /\ r.stale[j] = Expected(db, j)
    BY <1>1 DEF SumsHold
  <2> QED
    BY <1>2, <2>1, AutoCloseAllGood
<1>6. Practices = {} /\ Matched(db) => reference = Cash(db)
  BY <1>1, <1>3 DEF SumsHold, Matched
<1> HIDE DEF closed, latest, reference
<1>7. BooksTyped(closed)
  BY <1>5 DEF Good, Writes
<1>8. /\ BooksTyped(d) /\ i \notin Drawers(closed) /\ Drawers(d) = Drawers(closed) \cup {i}
      /\ \A j \in Drawers(closed) : d.drawers[j] = closed.drawers[j]
      /\ d.drawers[i].status = "open"
      /\ Cash(d) = Cash(closed) + r.start - reference
      /\ Expected(d, i) = r.start
  BY <1>2, <1>4, <1>7, OpenDrawerIs
<1> HIDE DEF d, i
<1>9. Writes(db, d)
  BY <1>5, <1>8 DEF Good, Writes
<1>10. Explains(closed) => Explains(d)
  BY <1>8 DEF Explains
<1>11. OpenDrawers(d) = OpenDrawers(closed) \cup {i}
  BY <1>8 DEF OpenDrawers
<1>12. ASSUME Practices = {}, Matched(db)
       PROVE  Matched(d) /\ Cash(d) = r.start
  <2>1. OpenDrawers(d) = {i}
    BY <1>1, <1>11, <1>12
  <2>2. Cash(d) = r.start
    BY <1>2, <1>4, <1>5, <1>6, <1>8, <1>12
  <2> QED
    BY <1>8, <2>1, <2>2 DEF Matched, Single
<1>13. Good(db, d)
  <2>1. "two_openers" \notin Practices => Single(d)
    BY <1>1, <1>11 DEF Single
  <2> QED
    BY <1>5, <1>9, <1>10, <1>12, <2>1 DEF Good
<1>14. db' = d
  BY <1>1 DEF Answers
<1> QED
  BY <1>1, <1>12, <1>13, <1>14, AnswerBooks

LEMMA GoodOn ==
  ASSUME NEW d, NEW d2, NEW d3, Good(d, d2), Good(d2, d3)
  PROVE  Good(d, d3)
BY DEF Good, Writes

\* The only open drawer is the active one.
LEMMA ActiveIsIt ==
  ASSUME NEW d, BooksTyped(d), NEW d2, Typed(d2), d2.drawers = d.drawers
  PROVE  /\ Active(d) \in Drawers(d2) \cup {NoDrawer}
         /\ Matched(d2) => \A j \in OpenDrawers(d2) : j = Active(d)
<1>1. OpenDrawers(d2) = OpenDrawers(d) /\ Drawers(d2) = Drawers(d)
  BY DEF OpenDrawers, Drawers
<1>2. Active(d) \in OpenDrawers(d) \/ (OpenDrawers(d) = {} /\ Active(d) = NoDrawer)
  BY ActiveIs DEF BooksTyped
<1> QED
  BY <1>1, <1>2 DEF OpenDrawers, Matched, Single

\* What OfTheOpenDrawer says once nobody edits what was booked earlier.
LEMMA OfTheOpenDrawerIs ==
  ASSUME BooksInv, NEW e, e.drawer # Active(db) => OfTheOpenDrawer(e),
         Practices = {}, Matched(db)
  PROVE  \A j \in OpenDrawers(db) : j = e.drawer
<1>1. \A j \in OpenDrawers(db) : j = Active(db)
  BY ActiveIsIt DEF BooksInv, BooksTyped
<1> QED
  BY <1>1 DEF OfTheOpenDrawer

LEMMA EditBooks ==
  ASSUME BooksInv, NEW w \in Workers, WriteEdit(w)
  PROVE  BooksInv' /\ Good(db, db')
<1> DEFINE cash(e) == IF e.cash > 0 THEN pending[w].amount ELSE -pending[w].amount
           changed(e) == Changed(db, e, cash(e))
<1>1. PICK e \in db.entries :
        /\ e.drawer # Active(db) => OfTheOpenDrawer(e)
        /\ Answers(w, IF e.source = "close_adjust"
                      THEN MakeUpClose(changed(e), e.drawer, cash(e)) ELSE changed(e))
  BY DEF WriteEdit
<1>2. cash(e) \in Int
  BY DEF WriteEdit, BooksInv, RequestOK
<1> HIDE DEF cash
<1>3. Good(db, changed(e))
  BY <1>1, <1>2, OfTheOpenDrawerIs, ChangedGood DEF BooksInv
<1> HIDE DEF changed
<1>4. BooksTyped(changed(e))
  BY <1>3 DEF Good, Writes
<1>5. Good(db, MakeUpClose(changed(e), e.drawer, cash(e)))
  BY <1>3, <1>4, MakeUpGood, GoodOn
<1> QED
  BY <1>1, <1>3, <1>5, AnswerBooks

LEMMA BookBooks ==
  ASSUME BooksInv, NEW source \in DocumentSources, NEW cash \in Int,
         BookDocument(source, cash)
  PROVE  BooksInv' /\ Good(db, db')
<1> DEFINE d == Post(db, source, db.lastEntry + 1, cash, Active(db))
<1>1. BooksTyped(db) /\ Typed(db) /\ source \in Sources
  BY DEF BooksInv, BooksTyped, DocumentSources, Sources
<1>2. /\ Active(db) \in Drawers(db) \cup {NoDrawer}
      /\ Matched(db) => \A j \in OpenDrawers(db) : j = Active(db)
  BY <1>1, ActiveIsIt
<1>3. Good(db, d)
  BY <1>1, <1>2, PostGood
<1>4. Serves(d)
  BY DEF BookDocument
<1> HIDE DEF d
<1> QED
  BY <1>3, <1>4, ServeBooks

LEMMA DocumentBooks ==
  ASSUME BooksInv, NEW e \in LastEntries, NEW cash \in Int,
         DeleteDocument(e) \/ UpdateDocument(e, cash)
  PROVE  BooksInv' /\ Good(db, db')
<1> DEFINE reversed == Reversed(db, e)
           again == Post(reversed, e.source, e.of, cash, Active(db))
           changed == Changed(db, e, cash)
           removed == [db EXCEPT !.entries = @ \ {e}]
<1>1. BooksTyped(db) /\ Typed(db) /\ e \in db.entries /\ EntryOK(db, e)
  BY DEF BooksInv, BooksTyped, EntriesOK, LastEntries
<1>2. OfTheOpenDrawer(e)
  BY DEF DeleteDocument, UpdateDocument
<1>3. Practices = {} /\ Matched(db) => \A j \in OpenDrawers(db) : j = e.drawer
  BY <1>2, OfTheOpenDrawerIs
<1>4. Good(db, changed) /\ Good(db, removed)
  BY <1>1, <1>3, ChangedGood, RemovedGood
<1>5. ASSUME e.locked PROVE Good(db, reversed) /\ Good(db, again)
  <2>1. ASSUME Practices = {}, Matched(db) PROVE OpenDrawers(db) = {}
    BY <1>2, <1>5, <2>1 DEF OfTheOpenDrawer
  <2>2. e.source \in Sources /\ -e.cash \in Int /\ NoDrawer \in Drawers(db) \cup {NoDrawer}
    BY <1>1 DEF EntryOK
  <2>3. Good(db, reversed)
    BY <1>1, <2>1, <2>2, PostGood DEF Reversed
  <2>4. reversed.drawers = db.drawers
    BY <1>1, PostDrawers DEF Reversed
  <2> HIDE DEF reversed
  <2>5. BooksTyped(reversed) /\ Typed(reversed)
    BY <2>3 DEF Good, Writes, BooksTyped
  <2>6. /\ Active(db) \in Drawers(reversed) \cup {NoDrawer}
        /\ Matched(reversed) => \A j \in OpenDrawers(reversed) : j = Active(db)
    BY <1>1, <2>4, <2>5, ActiveIsIt
  <2>7. Good(reversed, again)
    BY <2>2, <2>5, <2>6, PostGood
  <2> HIDE DEF again
  <2> QED
    BY <2>3, <2>7, GoodOn
<1>6. \/ e.locked /\ (Serves(reversed) \/ Serves(again))
      \/ Serves(changed) \/ Serves(removed)
  BY DEF DeleteDocument, UpdateDocument
<1> HIDE DEF reversed, again, changed, removed
<1> QED
  BY <1>4, <1>5, <1>6, ServeBooks

LEMMA LockBooks ==
  ASSUME BooksInv, LockJournal
  PROVE  BooksInv' /\ Good(db, db')
BY LockedGood, ServeBooks DEF LockJournal, BooksInv

LEMMA ReconcileBooks ==
  ASSUME BooksInv, NEW i \in Drawers(db), Reconcile(i)
  PROVE  BooksInv' /\ Good(db, db')
BY ReconciledGood, ServeBooks DEF Reconcile, BooksInv

LEMMA DropBooks ==
  ASSUME BooksInv, NEW w \in Workers, Drop(w)
  PROVE  BooksInv' /\ Good(db, db')
BY GoodStill, AnswerBooks DEF Drop, BooksInv

LEMMA InitBooks == Init => BooksInv /\ Explains(db) /\ Single(db) /\ Matched(db)
<1> SUFFICES ASSUME Init PROVE BooksInv /\ Explains(db) /\ Single(db) /\ Matched(db)
  OBVIOUS
<1>1. Len(db.drawers) = 0 /\ db.drawers = <<>>
  BY DEF Init
<1>2. Drawers(db) = {} /\ OpenDrawers(db) = {}
  BY <1>1 DEF Drawers, OpenDrawers
<1>3. EntriesOK(db)
  BY FS_EmptySet DEF Init, EntriesOK
<1>4. Typed(db)
  BY InitDrawer DEF DrawerInv
<1>5. \A w \in Workers : RequestOK(db, pending[w])
  BY DEF Init, RequestOK, Idle
<1>6. pending = [w \in Workers |-> pending[w]]
  BY DEF Init
<1> QED
  BY <1>2, <1>3, <1>4, <1>5, <1>6 DEF BooksInv, BooksTyped, Explains, Single, Matched

LEMMA NextBooks ==
  ASSUME BooksInv, [Next]_vars
  PROVE  BooksInv' /\ Good(db, db')
<1>1. CASE Midnight \/ UNCHANGED vars
  <2>1. db' = db /\ pending' = pending
    BY <1>1 DEF Midnight, vars
  <2>2. Good(db, db)
    BY GoodStill DEF BooksInv
  <2> QED
    BY <2>1, <2>2 DEF BooksInv
<1>2. CASE Next
  <2>1. CASE \E w \in Workers, n \in Counts :
               ReadOpen(w, n) \/ \E explained \in BOOLEAN : ReadClose(w, n, explained)
    BY <2>1, ReadingBooks
  <2>2. CASE \E w \in Workers, source \in {"cash_in", "cash_out"}, amount \in Amounts :
               ReadCash(w, source, amount)
    BY <2>2, ReadingBooks
  <2>3. CASE \E w \in Workers, e \in db.entries, amount \in Amounts : ReadEdit(w, e, amount)
    BY <2>3, ReadingBooks
  <2>4. CASE \E w \in Workers :
               \/ ReadAutoClose(w)
               \/ WriteOpen(w) \/ WriteAutoClose(w) \/ WriteCash(w) \/ WriteClose(w)
               \/ WriteEdit(w) \/ Drop(w)
    BY <2>4, ReadingBooks, OpenBooks, AutoCloseBooks, CashBooksStep, CloseBooks, EditBooks,
       DropBooks
  <2>5. CASE \E i \in Drawers(db) : Reconcile(i)
    BY <2>5, ReconcileBooks
  <2>6. Paid \cup {0} \subseteq Int
    <3>1. \A a \in Amounts : a \in Int /\ -a \in Int
      BY DrawerAssumption
    <3> QED
      BY <3>1 DEF Paid
  <2>7. CASE \E source \in DocumentSources, cash \in Paid : BookDocument(source, cash)
    BY <2>6, <2>7, BookBooks
  <2>8. CASE \E e \in LastEntries :
               DeleteDocument(e) \/ \E cash \in Paid \union {0} : UpdateDocument(e, cash)
    <3>1. PICK e \in LastEntries :
            DeleteDocument(e) \/ \E cash \in Paid \union {0} : UpdateDocument(e, cash)
      BY <2>8
    <3>2. \E cash \in Int : DeleteDocument(e) \/ UpdateDocument(e, cash)
      BY <2>6, <3>1
    <3> QED
      BY <3>2, DocumentBooks
  <2>9. CASE LockJournal
    BY <2>9, LockBooks
  <2> QED
    BY <1>1, <1>2, <2>1, <2>2, <2>3, <2>4, <2>5, <2>7, <2>8, <2>9 DEF Next
<1> QED
  BY <1>1, <1>2

(***************************************************************************)
(* For any workers, counts and amounts, and with two openers, late cash    *)
(* and edits of earlier entries too: what a closed drawer says it should   *)
(* have held is its opening and what its report lists.  Only a count       *)
(* written after cash moved is excluded.                                   *)
(***************************************************************************)
THEOREM ReportAddsUp ==
  ASSUME "moving_count" \notin Practices
  PROVE  Spec => []SnapshotExplainsClosing
<1>1. Init => BooksInv /\ Explains(db)
  BY InitBooks
<1>2. (BooksInv /\ Explains(db)) /\ [Next]_vars => (BooksInv /\ Explains(db))'
  BY NextBooks DEF Good
<1>3. Explains(db) => SnapshotExplainsClosing
  BY DEF Explains, SnapshotExplainsClosing, OpenDrawers, Explained, SnapshotSum
<1> QED
  BY <1>1, <1>2, <1>3, PTL DEF Spec

(***************************************************************************)
(* Unless two requests open a drawer at once, one drawer at most is open,  *)
(* whatever else the staff do.                                             *)
(***************************************************************************)
THEOREM OneDrawerAtMost ==
  ASSUME "two_openers" \notin Practices
  PROVE  Spec => []OneOpen
<1>1. Init => BooksInv /\ Single(db)
  BY InitBooks
<1>2. (BooksInv /\ Single(db)) /\ [Next]_vars => (BooksInv /\ Single(db))'
  BY NextBooks DEF Good
<1>3. BooksInv /\ Single(db) => OneOpen
  <2> SUFFICES ASSUME Single(db) PROVE Cardinality(OpenDrawers(db)) <= 1
    BY DEF OneOpen
  <2>1. CASE OpenDrawers(db) = {}
    BY <2>1, FS_EmptySet
  <2>2. ASSUME NEW i \in OpenDrawers(db) PROVE Cardinality(OpenDrawers(db)) <= 1
    <3>1. OpenDrawers(db) = {i}
      BY DEF Single
    <3> QED
      BY <3>1, FS_Singleton
  <2> QED
    BY <2>1, <2>2
<1> QED
  BY <1>1, <1>2, <1>3, PTL DEF Spec

(***************************************************************************)
(* While a drawer is open, 1101 has what the drawer is expected to have,   *)
(* however the requests of the day interleave.  Each of the four practices *)
(* breaks this by itself, so all are excluded.                             *)
(***************************************************************************)
THEOREM BooksAgree ==
  ASSUME Practices = {}
  PROVE  Spec => []BooksMatchDrawer
<1>1. Init => BooksInv /\ Matched(db)
  BY InitBooks
<1>2. (BooksInv /\ Matched(db)) /\ [Next]_vars => (BooksInv /\ Matched(db))'
  BY NextBooks DEF Good
<1>3. BooksInv /\ Matched(db) => BooksMatchDrawer
  BY ActiveIs DEF BooksInv, BooksTyped, Matched, Single, BooksMatchDrawer
<1> QED
  BY <1>1, <1>2, <1>3, PTL DEF Spec

(***************************************************************************)
(* A count is what the books say at that moment: after the morning's count *)
(* 1101 has the opening amount, and after the evening's the counted one.   *)
(***************************************************************************)
THEOREM CountsStandInTheBooks ==
  ASSUME Practices = {}
  PROVE  Spec => CountsAreBooked
<1> DEFINE Inv == BooksInv /\ Matched(db)
           Booked == \A w \in Workers : pending'[w] # pending[w] /\ db' # db =>
                       /\ pending[w].op = "open" => Cash(db') = pending[w].start
                       /\ pending[w].op = "close" /\ pending[w].explained
                            => Cash(db') = pending[w].counted
<1>1. Init => Inv
  BY InitBooks
<1>2. Inv /\ [Next]_vars => Inv'
  BY NextBooks DEF Good
<1>3. Inv /\ [Next]_vars => [Booked]_vars
  <2> SUFFICES ASSUME Inv, Next, NEW w \in Workers, pending'[w] # pending[w], db' # db
               PROVE  /\ pending[w].op = "open" => Cash(db') = pending[w].start
                      /\ pending[w].op = "close" /\ pending[w].explained
                           => Cash(db') = pending[w].counted
    OBVIOUS
  <2>1. ASSUME NEW v \in Workers, NEW d, Answers(v, d) PROVE v = w
    BY <2>1 DEF Answers, BooksInv
  <2>2. \A d : ~ Serves(d)
    BY DEF Serves
  <2>3. \A v, r : ~ Reads(v, r)
    BY DEF Reads
  <2>4. \/ WriteOpen(w) \/ WriteAutoClose(w) \/ WriteCash(w) \/ WriteClose(w)
        \/ WriteEdit(w)
    <3>1. ~ Midnight /\ ~ LockJournal /\ (\A i : ~ Reconcile(i))
          /\ (\A source, cash : ~ BookDocument(source, cash))
          /\ (\A e : ~ DeleteDocument(e)) /\ (\A e, cash : ~ UpdateDocument(e, cash))
      BY <2>2 DEF Midnight, LockJournal, Reconcile, BookDocument, DeleteDocument, UpdateDocument
    <3>2. \A v, n, explained, source, e :
            /\ ~ ReadOpen(v, n) /\ ~ ReadClose(v, n, explained) /\ ~ ReadCash(v, source, n)
            /\ ~ ReadEdit(v, e, n) /\ ~ ReadAutoClose(v)
      BY <2>3 DEF ReadOpen, ReadClose, ReadCash, ReadEdit, ReadAutoClose, ReadActive
    <3>3. \A v : ~ Drop(v)
      BY DEF Drop, Answers
    <3>4. PICK v \in Workers :
            \/ WriteOpen(v) \/ WriteAutoClose(v) \/ WriteCash(v) \/ WriteClose(v)
            \/ WriteEdit(v)
      BY <3>1, <3>2, <3>3 DEF Next
    <3>5. \E d : Answers(v, d)
      BY <3>4 DEF WriteOpen, WriteAutoClose, WriteCash, WriteClose, WriteEdit
    <3> QED
      BY <2>1, <3>4, <3>5
  <2>5. pending[w].op = "open" => WriteOpen(w)
    BY <2>4 DEF WriteAutoClose, WriteCash, WriteClose, WriteEdit
  <2>6. pending[w].op = "close" => WriteClose(w)
    BY <2>4 DEF WriteOpen, WriteAutoClose, WriteCash, WriteEdit
  <2> QED
    BY <2>5, <2>6, OpenBooks, CloseBooks
<1>4. Spec => [][Booked]_vars
  BY <1>1, <1>2, <1>3, PTL DEF Spec
<1> QED
  BY <1>4 DEF CountsAreBooked

=============================================================================
