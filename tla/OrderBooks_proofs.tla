-------------------------- MODULE OrderBooks_proofs --------------------------
(***************************************************************************)
(* Theorems about OrderBooks, for any payments, patches, statuses and      *)
(* bounds.                                                                 *)
(*                                                                         *)
(* The first part holds for any requests at once and anything the staff    *)
(* do.  What it needs of a database is little: columns of their types, and *)
(* entries and rows with known ids.  Every helper the handlers are built   *)
(* from gives such a database again, with the same rows and with the       *)
(* locked entries of before; the relation composes, so every write phase   *)
(* has it, and between the committed database and the one an edit works on *)
(* it holds as well.                                                       *)
(*                                                                         *)
(* The second part is about requests that do not overlap and a journal in  *)
(* which no period is closed.  There an entry is found again by its key,   *)
(* since no two have the same; a sync changes the entries with one or two  *)
(* keys and no other; and what a request read is still so when it writes.  *)
(* Each write phase is then one of seven kinds (Phase), and four properties*)
(* of the books follow, each from an invariant of its own over the         *)
(* committed database and the one an edit works on.  The third part is of  *)
(* the hand-over, which settles the order.                                 *)
(*                                                                         *)
(* The rest is about the audit and the repair commands of BooksRepair.     *)
(* Each entry that is posted is Proper, so the audit finds nothing; and    *)
(* what a command does to such books is some of the syncs of the routes    *)
(* (Mends), so the invariants above are kept.  Then the first part again,  *)
(* with the commands beside the requests: their loops are functions, which *)
(* are found turn by turn (Iterates).  The last part takes each command    *)
(* over the books it has left: they hold what it would give (Given), or it *)
(* has nothing to do with them any more.                                   *)
(***************************************************************************)
EXTENDS BooksRepair, SumTheorems

Sources == {"payment_transaction", "order", "order_shipping_release"}
Texts == {"payment", "revenue", "receivable", "return", "release", "reversal"}
LinesSet == [Accounts -> Int]

Ledger(d) ==
  /\ d \in Database
  /\ IsFiniteSet(d.journal) /\ IsFiniteSet(d.txns)
  /\ \A e \in d.journal : e.id \in 1..d.lastEntry
  /\ \A t \in d.txns : t.id \in 1..d.lastTxn
  /\ \A t, u \in d.txns : t.id = u.id => t = u

\* No locked entry of d is lost or changed in d2.
Stands(d, d2) == \A e \in d.journal : e.locked => e \in d2.journal

SameRows(d, d2) == d2.order = d.order /\ d2.txns = d.txns /\ d2.lastTxn = d.lastTxn

Follows(d, d2) == Ledger(d2) /\ SameRows(d, d2) /\ Stands(d, d2)

LEMMA FollowsItself ==
  ASSUME NEW d, Ledger(d) PROVE Follows(d, d)
BY DEF Follows, SameRows, Stands

LEMMA FollowsThrough ==
  ASSUME NEW d, NEW d2, NEW d3, Follows(d, d2), Follows(d2, d3)
  PROVE  Follows(d, d3)
BY DEF Follows, SameRows, Stands

LEMMA LedgerEntry ==
  ASSUME NEW d, Ledger(d)
  PROVE  /\ d.journal \subseteq Entry /\ d.txns \subseteq Transaction
         /\ d.order \in Order /\ d.lastEntry \in Nat /\ d.lastTxn \in Nat
BY DEF Ledger, Database

\* The journal and its counter are all that the primitives write.
Written(d, journal, lastEntry) ==
  [d EXCEPT !.lastEntry = lastEntry, !.journal = journal]

LEMMA NewJournal ==
  ASSUME NEW d, Ledger(d), NEW journal, NEW lastEntry \in Nat,
         journal \subseteq Entry, IsFiniteSet(journal),
         \A e \in journal : e.id \in 1..lastEntry,
         \A e \in d.journal : e.locked => e \in journal
  PROVE  Follows(d, Written(d, journal, lastEntry))
<1> DEFINE d2 == Written(d, journal, lastEntry)
<1>1. d \in Database BY DEF Ledger
<1>2. /\ d2 \in Database
      /\ d2.order = d.order /\ d2.txns = d.txns /\ d2.lastTxn = d.lastTxn
      /\ d2.journal = journal /\ d2.lastEntry = lastEntry
  BY <1>1 DEF Database, Written
<1> HIDE DEF d2
<1> QED BY <1>2 DEF Follows, Ledger, SameRows, Stands, d2

-----------------------------------------------------------------------------
LEMMA InsertFollows ==
  ASSUME NEW d, Ledger(d), NEW source \in Sources, NEW of \in Nat, NEW text \in Texts,
         NEW lines \in LinesSet
  PROVE  Follows(d, Insert(d, source, of, text, lines))
<1> DEFINE new == [id |-> d.lastEntry + 1, source |-> source, of |-> of,
                   text |-> text, lines |-> lines, locked |-> FALSE]
           journal == d.journal \union {new}
           n == d.lastEntry + 1
<1>1. d.lastEntry \in Nat /\ d.journal \subseteq Entry BY LedgerEntry
<1>2. new \in Entry BY <1>1 DEF Entry, Sources, Texts, LinesSet
<1>3. new.id = n OBVIOUS
<1>4. Insert(d, source, of, text, lines) = Written(d, journal, n)
  <2>1. d \in Database BY DEF Ledger
  <2> QED BY <2>1 DEF Insert, Database, Written
<1> HIDE DEF new
<1>5. journal \subseteq Entry /\ IsFiniteSet(journal)
  BY <1>1, <1>2, FS_AddElement DEF Ledger
<1>6. \A e \in journal : e.id \in 1..n BY <1>1, <1>3 DEF Ledger
<1>7. n \in Nat /\ \A e \in d.journal : e.locked => e \in journal BY <1>1
<1> HIDE DEF journal, n
<1> QED BY <1>4, <1>5, <1>6, <1>7, NewJournal

LEMMA DeleteFollows ==
  ASSUME NEW d, Ledger(d), NEW e, ~e.locked
  PROVE  Follows(d, DeleteCascade(d, e))
<1> DEFINE journal == d.journal \ {e}
<1>1. DeleteCascade(d, e) = Written(d, journal, d.lastEntry)
  <2>1. d \in Database BY DEF Ledger
  <2> QED BY <2>1 DEF DeleteCascade, Database, Written
<1>2. d.lastEntry \in Nat /\ d.journal \subseteq Entry BY LedgerEntry
<1>3. IsFiniteSet(journal) BY FS_RemoveElement DEF Ledger
<1>4. /\ journal \subseteq Entry
      /\ \A f \in journal : f.id \in 1..d.lastEntry
      /\ \A f \in d.journal : f.locked => f \in journal
  BY <1>2 DEF Ledger
<1> HIDE DEF journal
<1> QED BY <1>1, <1>2, <1>3, <1>4, NewJournal

LEMMA ReverseFollows ==
  ASSUME NEW d, Ledger(d), NEW e \in d.journal
  PROVE  Follows(d, Reverse(d, e))
<1>1. e \in Entry BY LedgerEntry
<1>2. /\ e.source \in Sources /\ e.of \in Nat /\ "reversal" \in Texts
      /\ [a \in Accounts |-> -e.lines[a]] \in LinesSet
  BY <1>1 DEF Entry, Sources, Texts, LinesSet
<1> QED BY <1>2, InsertFollows DEF Reverse

LEMMA ReverseOrDeleteFollows ==
  ASSUME NEW d, Ledger(d), NEW e \in d.journal
  PROVE  Follows(d, ReverseOrDelete(d, e))
BY ReverseFollows, DeleteFollows DEF ReverseOrDelete

LEMMA UpdateFollows ==
  ASSUME NEW d, Ledger(d), NEW e \in d.journal, ~e.locked, NEW text \in Texts,
         NEW lines \in LinesSet
  PROVE  Follows(d, UpdateInPlace(d, e, text, lines))
<1> DEFINE new == [e EXCEPT !.text = text, !.lines = lines]
           journal == (d.journal \ {e}) \union {new}
<1>1. UpdateInPlace(d, e, text, lines)
        = Written(d, journal, d.lastEntry)
  <2>1. d \in Database BY DEF Ledger
  <2> QED BY <2>1 DEF UpdateInPlace, Database, Written
<1>2. d.lastEntry \in Nat /\ d.journal \subseteq Entry BY LedgerEntry
<1>3. new \in Entry /\ new.id = e.id BY <1>2 DEF Entry, Texts, LinesSet
<1> HIDE DEF new
<1>4. IsFiniteSet(journal) BY FS_RemoveElement, FS_AddElement DEF Ledger
<1>5. /\ journal \subseteq Entry
      /\ \A f \in journal : f.id \in 1..d.lastEntry
      /\ \A f \in d.journal : f.locked => f \in journal
  BY <1>2, <1>3 DEF Ledger
<1> HIDE DEF journal
<1> QED BY <1>1, <1>2, <1>4, <1>5, NewJournal

LEMMA LockRangeFollows ==
  ASSUME NEW d, Ledger(d)
  PROVE  Follows(d, LockRange(d))
<1> DEFINE Lock(e) == [e EXCEPT !.locked = TRUE]
           journal == {Lock(e) : e \in d.journal}
<1>1. LockRange(d) = Written(d, journal, d.lastEntry)
  <2>1. d \in Database BY DEF Ledger
  <2> QED BY <2>1 DEF LockRange, Database, Written
<1>2. d.lastEntry \in Nat /\ d.journal \subseteq Entry BY LedgerEntry
<1>3. \A e \in Entry : Lock(e) \in Entry /\ Lock(e).id = e.id /\ (e.locked => Lock(e) = e)
  BY DEF Entry
<1> HIDE DEF Lock
<1>4. IsFiniteSet(journal)
  <2>1. IsFiniteSet(d.journal) BY DEF Ledger
  <2> DEFINE f == [e \in d.journal |-> Lock(e)]
  <2>2. f \in Surjection(d.journal, journal) BY DEF Surjection
  <2> HIDE DEF f, journal
  <2> QED BY <2>1, <2>2, FS_Surjection
<1>5. /\ journal \subseteq Entry
      /\ \A f \in journal : f.id \in 1..d.lastEntry
      /\ \A f \in d.journal : f.locked => f \in journal
  BY <1>2, <1>3 DEF Ledger
<1> HIDE DEF journal
<1> QED BY <1>1, <1>2, <1>4, <1>5, NewJournal

(***************************************************************************)
(* ORDER BY id DESC LIMIT 1 finds an entry when there is one.              *)
(***************************************************************************)
LEMMA LatestIsThere ==
  ASSUME NEW d, Ledger(d), NEW S \in SUBSET d.journal, S # {}
  PROVE  Latest(S) \in S
<1> DEFINE n == d.lastEntry
           T == {n - e.id : e \in S}
<1>1. n \in Nat /\ \A e \in S : e.id \in Nat /\ e.id <= n
  BY LedgerEntry DEF Ledger
<1>2. T \subseteq Nat /\ T # {} BY <1>1
<1>3. PICK x \in T : \A y \in T : ~ (<<y, x>> \in OpToRel(<, Nat))
  BY <1>2, NatLessThanWellFounded, WFMin
<1>4. \A y \in T : ~(y < x) BY <1>2, <1>3 DEF OpToRel
<1>5. PICK e \in S : x = n - e.id OBVIOUS
<1>6. ASSUME NEW f \in S PROVE f.id <= e.id
  <2>1. ~(n - f.id < n - e.id) BY <1>4, <1>5
  <2>2. n \in Nat /\ f.id \in Nat /\ e.id \in Nat BY <1>1
  <2> HIDE DEF n
  <2> QED BY <2>1, <2>2
<1> QED BY <1>6 DEF Latest

-----------------------------------------------------------------------------
(***************************************************************************)
(* Sums of a journal.                                                      *)
(***************************************************************************)
On(S, a) == [e \in S |-> e.lines[a]]

Summable(S, a) == IsFiniteSet(S) /\ \A e \in S : e.lines[a] \in Int

\* NetOf is the library's sum of the column.
LEMMA NetIs ==
  ASSUME NEW S, IsFiniteSet(S), NEW a
  PROVE  NetOf(S, a) = SumFunctionOnSet(On(S, a), S)
<1>1. NetOf(S, a) = (CHOOSE g : SumStep(On(S, a), S, g))[S]
  BY DEF NetOf, MapThenSumSet, MapThenFoldSet, SumStep, Pick, On
<1>2. SumFunctionOnSet(On(S, a), S) = (CHOOSE g : SumStep(On(S, a), S, g))[S]
  BY DEF SumFunctionOnSet, FoldFunctionOnSet, MapThenFoldSet, SumStep, Pick
<1> QED BY <1>1, <1>2

LEMMA NetInt ==
  ASSUME NEW S, NEW a, Summable(S, a)
  PROVE  NetOf(S, a) \in Int
<1>1. IsFiniteSet(S) /\ \A e \in S : On(S, a)[e] \in Int BY DEF Summable, On
<1> QED BY <1>1, NetIs, SumInt

LEMMA NetPart ==
  ASSUME NEW S, NEW a, Summable(S, a), NEW T, T \subseteq S
  PROVE  Summable(T, a) /\ NetOf(T, a) = SumFunctionOnSet(On(S, a), T)
<1>1. IsFiniteSet(T)
  <2>1. T \in SUBSET S OBVIOUS
  <2> QED BY <2>1, FS_Subset DEF Summable
<1>2. \A e \in T : On(T, a)[e] = On(S, a)[e] BY DEF On
<1>3. SumFunctionOnSet(On(T, a), T) = SumFunctionOnSet(On(S, a), T)
  BY <1>1, <1>2, SumEqual
<1> QED BY <1>1, <1>3, NetIs DEF Summable

LEMMA NetNone == ASSUME NEW a PROVE NetOf({}, a) = 0
BY NetIs, SumOfNone, FS_EmptySet

\* Over two parts.
LEMMA NetUnion ==
  ASSUME NEW a, NEW S, Summable(S, a), NEW T, Summable(T, a), S \cap T = {}
  PROVE  Summable(S \cup T, a) /\ NetOf(S \cup T, a) = NetOf(S, a) + NetOf(T, a)
<1> DEFINE U == S \cup T
           f == On(U, a)
<1>1. Summable(U, a) BY FS_Union DEF Summable
<1>2. NetOf(S, a) = SumFunctionOnSet(f, S) /\ NetOf(T, a) = SumFunctionOnSet(f, T)
  BY <1>1, NetPart
<1>3. NetOf(U, a) = SumFunctionOnSet(f, U) BY <1>1, NetPart
<1>4. /\ IsFiniteSet(S) /\ IsFiniteSet(T)
      /\ \A e \in S \cup T : f[e] \in Int
  BY <1>1 DEF Summable, On
<1> HIDE DEF f
<1>5. SumFunctionOnSet(f, S \cup T) = SumFunctionOnSet(f, S) + SumFunctionOnSet(f, T)
  BY ONLY <1>4, S \cap T = {}, SumUnion
<1> QED BY <1>1, <1>2, <1>3, <1>5

LEMMA NetOne ==
  ASSUME NEW a, NEW e, e.lines[a] \in Int
  PROVE  Summable({e}, a) /\ NetOf({e}, a) = e.lines[a]
<1>1. IsFiniteSet({e}) BY FS_Singleton
<1>2. Summable({e}, a) BY <1>1 DEF Summable
<1>3. On({e}, a)[e] = e.lines[a] BY DEF On
<1>4. \A x \in {e} : On({e}, a)[x] \in Int BY <1>3
<1>5. SumFunctionOnSet(On({e}, a), {e})
        = On({e}, a)[e] + SumFunctionOnSet(On({e}, a), {e} \ {e})
  BY <1>1, <1>4, SumRemove
<1>6. {e} \ {e} = {} OBVIOUS
<1> QED BY <1>1, <1>2, <1>3, <1>5, <1>6, NetIs, SumOfNone

\* An account that no entry of S moves.
LEMMA NetZero ==
  ASSUME NEW a, NEW S, IsFiniteSet(S), \A e \in S : e.lines[a] = 0
  PROVE  NetOf(S, a) = 0
<1> DEFINE P == {s \in SUBSET S : NetOf(s, a) # 0}
<1>1. SUFFICES ASSUME P # {} PROVE FALSE OBVIOUS
<1>2. PICK m \in P : \A t \in P : t \subseteq m => t = m
  <2>1. P \in SUBSET (SUBSET S) OBVIOUS
  <2> HIDE DEF P
  <2> QED BY <1>1, <2>1, SmallestSubset
<1>3. m \subseteq S /\ NetOf(m, a) # 0 OBVIOUS
<1>4. PICK e \in m : TRUE BY <1>3, NetNone
<1>5. NetOf(m \ {e}, a) = 0
  <2>1. m \ {e} \notin P BY <1>2, <1>4
  <2> QED BY <1>3, <2>1
<1>6. Summable(m \ {e}, a) /\ e.lines[a] = 0
  <2>1. Summable(S, a) BY DEF Summable
  <2> QED BY <1>3, <1>4, <2>1, NetPart
<1>7. NetOf({e}, a) = 0 /\ Summable({e}, a)
  <2>1. e.lines[a] = 0 /\ e.lines[a] \in Int BY <1>6
  <2> QED BY ONLY <2>1, NetOne
<1>8. (m \ {e}) \cup {e} = m /\ (m \ {e}) \cap {e} = {} BY <1>4
<1> QED BY <1>3, <1>5, <1>6, <1>7, <1>8, NetUnion

\* An account that every entry of S credits: leaving entries out adds to it.
LEMMA NetOfPart ==
  ASSUME NEW a, NEW S, Summable(S, a), \A e \in S : e.lines[a] <= 0,
         NEW T, T \subseteq S
  PROVE  Summable(T, a) /\ NetOf(S, a) <= NetOf(T, a)
<1> DEFINE P == {s \in SUBSET S : ~ (NetOf(s, a) <= 0)}
<1>1. Summable(T, a) /\ Summable(S \ T, a) BY NetPart
<1>2. NetOf(S \ T, a) <= 0
  <2>1. SUFFICES ASSUME P # {} PROVE FALSE
    <3>1. S \ T \in SUBSET S OBVIOUS
    <3> QED BY <3>1
  <2>2. PICK m \in P : \A t \in P : t \subseteq m => t = m
    <3>1. P \in SUBSET (SUBSET S) /\ IsFiniteSet(S) BY DEF Summable
    <3> HIDE DEF P
    <3> QED BY <2>1, <3>1, SmallestSubset
  <2>3. m \subseteq S /\ ~ (NetOf(m, a) <= 0) OBVIOUS
  <2>4. PICK e \in m : TRUE BY <2>3, NetNone
  <2>5. NetOf(m \ {e}, a) <= 0
    <3>1. m \ {e} \notin P BY <2>2, <2>4
    <3> QED BY <2>3, <3>1
  <2>6. Summable(m \ {e}, a) /\ e.lines[a] \in Int /\ e.lines[a] <= 0
    BY <2>3, <2>4, NetPart DEF Summable
  <2>7. NetOf({e}, a) = e.lines[a] /\ Summable({e}, a) BY <2>6, NetOne
  <2>8. (m \ {e}) \cup {e} = m /\ (m \ {e}) \cap {e} = {} BY <2>4
  <2>9. NetOf(m, a) = NetOf(m \ {e}, a) + e.lines[a] BY <2>6, <2>7, <2>8, NetUnion
  <2>10. NetOf(m \ {e}, a) \in Int BY <2>6, NetInt
  <2> QED BY <2>3, <2>5, <2>6, <2>9, <2>10
<1>3. NetOf(T, a) \in Int /\ NetOf(S \ T, a) \in Int BY <1>1, NetInt
<1>4. T \cup (S \ T) = S /\ T \cap (S \ T) = {} OBVIOUS
<1>5. NetOf(S, a) = NetOf(T, a) + NetOf(S \ T, a) BY <1>1, <1>4, NetUnion
<1> QED BY <1>1, <1>2, <1>3, <1>5

-----------------------------------------------------------------------------
(***************************************************************************)
(* The amounts are whole numbers.                                          *)
(***************************************************************************)
LEMMA LinesAreWhole ==
  ASSUME NEW amounts, \A a \in DOMAIN amounts : amounts[a] \in Int
  PROVE  Lines(amounts) \in LinesSet
BY DEF Lines, LinesSet

LEMMA EntriesSummable ==
  ASSUME NEW d, Ledger(d), NEW S \in SUBSET d.journal, NEW a \in Accounts
  PROVE  Summable(S, a)
<1>1. IsFiniteSet(S) BY FS_Subset DEF Ledger
<1>2. \A e \in S : e.lines[a] \in Int BY LedgerEntry DEF Entry
<1> QED BY <1>1, <1>2 DEF Summable

LEMMA TotalIs ==
  ASSUME NEW d, NEW types
  PROVE  LET S == {t \in d.txns : t.valid /\ t.type \in types}
         IN  TotalOf(d, types) = SumFunctionOnSet([t \in S |-> t.amount], S)
<1> DEFINE S == {t \in d.txns : t.valid /\ t.type \in types}
           f == [t \in S |-> t.amount]
<1>1. TotalOf(d, types) = (CHOOSE g : SumStep(f, S, g))[S]
  BY DEF TotalOf, MapThenSumSet, MapThenFoldSet, SumStep, Pick
<1>2. SumFunctionOnSet(f, S) = (CHOOSE g : SumStep(f, S, g))[S]
  BY DEF SumFunctionOnSet, FoldFunctionOnSet, MapThenFoldSet, SumStep, Pick
<1> QED BY <1>1, <1>2

LEMMA TotalIsWhole ==
  ASSUME NEW d, Ledger(d), NEW types
  PROVE  TotalOf(d, types) \in Nat
<1> DEFINE S == {t \in d.txns : t.valid /\ t.type \in types}
           f == [t \in S |-> t.amount]
<1>1. TotalOf(d, types) = SumFunctionOnSet(f, S) BY TotalIs
<1>2. IsFiniteSet(S)
  <2>1. S \in SUBSET d.txns OBVIOUS
  <2> QED BY <2>1, FS_Subset DEF Ledger
<1>3. \A t \in S : f[t] \in Nat
  <2>1. d.txns \subseteq Transaction BY LedgerEntry
  <2>2. \A t \in Transaction : t.amount \in Nat BY BooksAssumption DEF Transaction
  <2> QED BY <2>1, <2>2
<1> HIDE DEF S, f
<1> QED BY <1>1, <1>2, <1>3, SumNat

LEMMA TheAccounts ==
  {"asset", "deposits", "shipping", "tien_rut", "receivable", "revenue"} = Accounts
BY BooksAssumption DEF OrderAccounts

LEMMA HeldIsWhole ==
  ASSUME NEW d, Ledger(d), NEW S
  PROVE  HeldShipping(d, S) \in Int /\ HeldTienRut(d) \in Int
<1>1. PaymentEntries(d) \in SUBSET d.journal /\ PaymentEntries(d) \ S \in SUBSET d.journal
  BY DEF PaymentEntries
<1>2. "shipping" \in Accounts /\ "tien_rut" \in Accounts BY TheAccounts
<1>3. /\ NetOf(PaymentEntries(d) \ S, "shipping") \in Int
      /\ NetOf(PaymentEntries(d), "tien_rut") \in Int
  BY <1>1, <1>2, EntriesSummable, NetInt
<1> QED BY <1>3 DEF HeldShipping, HeldTienRut

LEMMA DepositsAreWhole ==
  ASSUME NEW d, Ledger(d)
  PROVE  DepositBalance(d) \in Nat
<1>1. /\ TotalPaidExclOutflows(d) \in Nat /\ TotalTienRut(d) \in Nat
      /\ TotalOutflows(d) \in Nat
  BY TotalIsWhole DEF TotalPaidExclOutflows, TotalTienRut, TotalOutflows
<1>2. d.order.fee \in Nat BY LedgerEntry DEF Order
<1> QED BY <1>1, <1>2 DEF DepositBalance, Larger

LEMMA PortionIsWhole ==
  ASSUME NEW d, Ledger(d), NEW t \in Transaction
  PROVE  ShippingPortion(d, t) \in Nat /\ t.amount \in Nat
<1>1. t.amount \in Nat BY BooksAssumption DEF Transaction
<1>2. d.order.fee \in Nat BY LedgerEntry DEF Order
<1>3. HeldShipping(d, OwnEntries(d, t)) \in Int BY HeldIsWhole
<1> QED BY <1>1, <1>2, <1>3 DEF ShippingPortion, Smaller, Larger

LEMMA PaymentLinesAreWhole ==
  ASSUME NEW d, Ledger(d), NEW t \in Transaction
  PROVE  PaymentLines(d, t) \in LinesSet
<1> DEFINE shipping == ShippingPortion(d, t)
           rut == [asset |-> t.amount, tien_rut |-> -t.amount]
           refund == [deposits |-> t.amount, asset |-> -t.amount]
           other == [asset |-> t.amount, deposits |-> shipping - t.amount,
                     shipping |-> -shipping]
<1>1. shipping \in Nat /\ t.amount \in Nat BY PortionIsWhole
<1>2. /\ \A a \in DOMAIN rut : rut[a] \in Int
      /\ \A a \in DOMAIN refund : refund[a] \in Int
      /\ \A a \in DOMAIN other : other[a] \in Int
  <2> HIDE DEF shipping
  <2> QED BY <1>1
<1>3. /\ PaymentLines(d, t) \in {Lines(rut), Lines(refund), Lines(other)}
  BY DEF PaymentLines
<1> HIDE DEF rut, refund, other
<1> QED BY <1>2, <1>3, LinesAreWhole

-----------------------------------------------------------------------------
(***************************************************************************)
(* The syncs.                                                              *)
(***************************************************************************)
LEMMA ReleaseFollows ==
  ASSUME NEW d, Ledger(d)
  PROVE  Follows(d, SyncBusShippingRelease(d))
<1> DEFINE latest == Latest(Releases(d))
           cleared == ReverseOrDelete(d, latest)
<1>1. ASSUME NEW x, Ledger(x) PROVE Follows(x, PostRelease(x))
  <2> DEFINE amounts == [shipping |-> x.order.fee, asset |-> -x.order.fee]
  <2>1. x.order.fee \in Nat BY <1>1, LedgerEntry DEF Order
  <2>2. \A a \in DOMAIN amounts : amounts[a] \in Int BY <2>1
  <2>3. PostRelease(x) = Insert(x, "order_shipping_release", TheOrder, "release", Lines(amounts))
    BY DEF PostRelease
  <2> HIDE DEF amounts
  <2>4. Lines(amounts) \in LinesSet BY <2>2, LinesAreWhole
  <2>5. /\ "order_shipping_release" \in Sources /\ TheOrder \in Nat
        /\ "release" \in Texts
    BY DEF Sources, Texts, TheOrder
  <2> QED BY <1>1, <2>3, <2>4, <2>5, InsertFollows
<1>2. CASE Releases(d) = {}
  BY <1>1, <1>2, FollowsItself DEF SyncBusShippingRelease
<1>3. CASE Releases(d) # {}
  <2>1. Releases(d) \in SUBSET d.journal BY DEF Releases, EntriesOf
  <2>2. latest \in d.journal BY <1>3, <2>1, LatestIsThere
  <2>3. Follows(d, cleared) BY <2>2, ReverseOrDeleteFollows
  <2>4. SyncBusShippingRelease(d) \in {d, PostRelease(cleared)}
    BY <1>3 DEF SyncBusShippingRelease
  <2> HIDE DEF cleared
  <2>5. Follows(cleared, PostRelease(cleared)) BY <1>1, <2>3 DEF Follows
  <2> QED BY <2>3, <2>4, <2>5, FollowsItself, FollowsThrough
<1> QED BY <1>2, <1>3

LEMMA DropReleaseFollows ==
  ASSUME NEW d, Ledger(d), Releases(d) # {}
  PROVE  Follows(d, ReverseOrDelete(d, Latest(Releases(d))))
<1>1. Releases(d) \in SUBSET d.journal BY DEF Releases, EntriesOf
<1>2. Latest(Releases(d)) \in d.journal BY <1>1, LatestIsThere
<1> QED BY <1>2, ReverseOrDeleteFollows

LEMMA RetriggerFollows ==
  ASSUME NEW d, Ledger(d), NEW deleted \in BOOLEAN
  PROVE  Follows(d, RetriggerRelease(d, deleted))
BY ReleaseFollows, DropReleaseFollows, FollowsItself DEF RetriggerRelease

LEMMA SyncPaymentFollows ==
  ASSUME NEW d, Ledger(d), NEW t \in Transaction
  PROVE  Follows(d, SyncPayment(d, t))
<1> DEFINE own == OwnEntries(d, t)
           lines == PaymentLines(d, t)
           posted == IF own = {} THEN PostPayment(d, t, lines)
                     ELSE IF Latest(own).locked
                     THEN PostPayment(Reverse(d, Latest(own)), t, lines)
                     ELSE UpdateInPlace(d, Latest(own), "payment", lines)
<1>1. lines \in LinesSet BY PaymentLinesAreWhole
<1>2. own \in SUBSET d.journal BY DEF OwnEntries, EntriesOf
<1>3. own # {} => Latest(own) \in d.journal BY <1>2, LatestIsThere
<1>4. "payment_transaction" \in Sources /\ t.id \in Nat /\ "payment" \in Texts
  BY DEF Sources, Texts, Transaction
<1> HIDE DEF own, lines
<1>5. ASSUME NEW x, Ledger(x) PROVE Follows(x, PostPayment(x, t, lines))
  BY <1>1, <1>4, <1>5, InsertFollows DEF PostPayment
<1>6. Follows(d, posted)
  <2>1. CASE own = {} BY <1>5, <2>1
  <2>2. CASE own # {} /\ Latest(own).locked
    <3> DEFINE reversed == Reverse(d, Latest(own))
    <3>1. Follows(d, reversed) BY <1>3, <2>2, ReverseFollows
    <3> HIDE DEF reversed
    <3>2. Follows(reversed, PostPayment(reversed, t, lines)) BY <1>5, <3>1 DEF Follows
    <3> QED BY <2>2, <3>1, <3>2, FollowsThrough DEF reversed
  <2>3. CASE own # {} /\ ~Latest(own).locked
    BY <1>1, <1>3, <1>4, <2>3, UpdateFollows
  <2> QED BY <2>1, <2>2, <2>3
<1>7. SyncPayment(d, t) = RetriggerRelease(posted, FALSE) BY DEF SyncPayment, own, lines
<1> HIDE DEF posted
<1>8. Follows(posted, RetriggerRelease(posted, FALSE)) BY <1>6, RetriggerFollows DEF Follows
<1> QED BY <1>6, <1>7, <1>8, FollowsThrough

LEMMA UnsyncPaymentFollows ==
  ASSUME NEW d, Ledger(d), NEW t
  PROVE  Follows(d, UnsyncPayment(d, t))
<1> DEFINE own == OwnEntries(d, t)
           cleared == IF own = {} THEN d ELSE ReverseOrDelete(d, Latest(own))
<1>1. own \in SUBSET d.journal BY DEF OwnEntries, EntriesOf
<1>2. own # {} => Latest(own) \in d.journal BY <1>1, LatestIsThere
<1>3. Follows(d, cleared) BY <1>2, ReverseOrDeleteFollows, FollowsItself
<1>4. UnsyncPayment(d, t) = RetriggerRelease(cleared, TRUE) BY DEF UnsyncPayment
<1> HIDE DEF cleared
<1>5. Follows(cleared, RetriggerRelease(cleared, TRUE)) BY <1>3, RetriggerFollows DEF Follows
<1> QED BY <1>3, <1>4, <1>5, FollowsThrough

OrderTexts == {"revenue", "receivable", "return"}

LEMMA DropFollows ==
  ASSUME NEW d, Ledger(d), NEW text
  PROVE  Follows(d, DropOrderEntry(d, text)) /\ Follows(d, DropRelease(d))
<1>1. OrderEntries(d, text) \in SUBSET d.journal BY DEF OrderEntries, EntriesOf
<1>2. OrderEntries(d, text) # {} => Latest(OrderEntries(d, text)) \in d.journal
  BY <1>1, LatestIsThere
<1>3. Follows(d, DropOrderEntry(d, text))
  BY <1>2, ReverseOrDeleteFollows, FollowsItself DEF DropOrderEntry
<1> QED BY <1>3, DropReleaseFollows, FollowsItself DEF DropRelease

LEMMA ReplaceFollows ==
  ASSUME NEW d, Ledger(d), NEW text \in OrderTexts, NEW lines \in LinesSet
  PROVE  Follows(d, ReplaceOrderEntry(d, text, lines))
<1> DEFINE cleared == DropOrderEntry(d, text)
<1>1. Follows(d, cleared) BY DropFollows
<1>2. "order" \in Sources /\ TheOrder \in Nat /\ text \in Texts
  BY DEF Sources, Texts, OrderTexts, TheOrder
<1>3. ReplaceOrderEntry(d, text, lines) \in {d, PostOrderEntry(cleared, text, lines)}
  BY DEF ReplaceOrderEntry
<1> HIDE DEF cleared
<1>4. Follows(cleared, PostOrderEntry(cleared, text, lines))
  BY <1>1, <1>2, InsertFollows DEF Follows, PostOrderEntry
<1> QED BY <1>1, <1>3, <1>4, FollowsThrough, FollowsItself

LEMMA ReceivableFollows ==
  ASSUME NEW d, Ledger(d)
  PROVE  Follows(d, RecogniseReceivable(d))
<1> DEFINE amounts == [receivable |-> d.order.total, revenue |-> -d.order.total]
<1>1. d.order.total \in Nat BY LedgerEntry DEF Order
<1>2. \A a \in DOMAIN amounts : amounts[a] \in Int BY <1>1
<1>3. RecogniseReceivable(d) \in {d, ReplaceOrderEntry(d, "receivable", Lines(amounts))}
  BY DEF RecogniseReceivable
<1> HIDE DEF amounts
<1>4. Lines(amounts) \in LinesSet /\ "receivable" \in OrderTexts
  BY <1>2, LinesAreWhole DEF OrderTexts
<1> QED BY <1>3, <1>4, ReplaceFollows, FollowsItself

LEMMA DepositsFollow ==
  ASSUME NEW d, Ledger(d)
  PROVE  Follows(d, RecogniseDeposits(d))
<1> DEFINE amounts == [deposits |-> DepositBalance(d), revenue |-> -DepositBalance(d)]
           cleared == DropOrderEntry(d, "receivable")
<1>1. Follows(d, cleared) BY DropFollows
<1>2. \A a \in DOMAIN amounts : amounts[a] \in Int BY DepositsAreWhole
<1>3. RecogniseDeposits(d) \in {DropOrderEntry(cleared, "revenue"),
                                ReplaceOrderEntry(cleared, "revenue", Lines(amounts))}
  BY DEF RecogniseDeposits
<1> HIDE DEF amounts, cleared
<1>4. Lines(amounts) \in LinesSet /\ "revenue" \in OrderTexts
  BY <1>2, LinesAreWhole DEF OrderTexts
<1>5. /\ Follows(cleared, DropOrderEntry(cleared, "revenue"))
      /\ Follows(cleared, ReplaceOrderEntry(cleared, "revenue", Lines(amounts)))
  BY <1>1, <1>4, DropFollows, ReplaceFollows DEF Follows
<1> QED BY <1>1, <1>3, <1>5, FollowsThrough

LEMMA ReturnFollows ==
  ASSUME NEW d, Ledger(d)
  PROVE  Follows(d, ReturnTienRut(d))
<1> DEFINE amounts == [tien_rut |-> HeldTienRut(d), asset |-> -HeldTienRut(d)]
<1>1. \A a \in DOMAIN amounts : amounts[a] \in Int BY HeldIsWhole
<1>2. ReturnTienRut(d) \in {DropOrderEntry(d, "return"),
                            ReplaceOrderEntry(d, "return", Lines(amounts))}
  BY DEF ReturnTienRut
<1> HIDE DEF amounts
<1>3. Lines(amounts) \in LinesSet /\ "return" \in OrderTexts
  BY <1>1, LinesAreWhole DEF OrderTexts
<1> QED BY <1>2, <1>3, DropFollows, ReplaceFollows

LEMMA ReconcileFollows ==
  ASSUME NEW d, Ledger(d)
  PROVE  Follows(d, ReconcileRevenue(d))
<1> DEFINE recognised == IF IsUnpaid(d) THEN RecogniseReceivable(d) ELSE RecogniseDeposits(d)
<1>1. Follows(d, recognised) BY ReceivableFollows, DepositsFollow
<1>2. ReconcileRevenue(d) = ReturnTienRut(recognised) BY DEF ReconcileRevenue
<1> HIDE DEF recognised
<1>3. Follows(recognised, ReturnTienRut(recognised)) BY <1>1, ReturnFollows DEF Follows
<1> QED BY <1>1, <1>2, <1>3, FollowsThrough

LEMMA HandOverFollows ==
  ASSUME NEW d, Ledger(d)
  PROVE  Follows(d, SyncHandedOver(d))
<1>1. Follows(d, ReconcileRevenue(d)) BY ReconcileFollows
<1>2. Follows(ReconcileRevenue(d), SyncHandedOver(d))
  BY <1>1, ReleaseFollows DEF Follows, SyncHandedOver
<1> QED BY <1>1, <1>2, FollowsThrough

LEMMA CancelFollows ==
  ASSUME NEW d, Ledger(d)
  PROVE  Follows(d, SyncCancelled(d))
<1> DEFINE d1 == DropOrderEntry(d, "revenue")
           d2 == DropOrderEntry(d1, "receivable")
           d3 == DropOrderEntry(d2, "return")
<1>1. SyncCancelled(d) = DropRelease(d3) BY DEF SyncCancelled
<1>2. Follows(d, d1) BY DropFollows
<1> HIDE DEF d1
<1>3. Follows(d1, d2) BY <1>2, DropFollows DEF Follows
<1> HIDE DEF d2
<1>4. Follows(d2, d3) BY <1>3, DropFollows DEF Follows
<1> HIDE DEF d3
<1>5. Follows(d3, DropRelease(d3)) BY <1>4, DropFollows DEF Follows
<1> QED BY <1>1, <1>2, <1>3, <1>4, <1>5, FollowsThrough

-----------------------------------------------------------------------------
(***************************************************************************)
(* The induction.                                                          *)
(***************************************************************************)
BooksInv ==
  /\ Ledger(db) /\ Ledger(tx)
  /\ Stands(db, tx)
  /\ LockFree => tx = db
  /\ pending \in [Workers -> Request]
  /\ left \subseteq 1..db.lastTxn

LEMMA TypeOfBooks == BooksInv => TypeOK
BY DEF BooksInv, TypeOK, Ledger

\* What a request holds.
LEMMA RequestHolds ==
  ASSUME NEW p \in Request
  PROVE  /\ p.op \in {"delete", "invalidate", "restore", "method"} => p.txn \in Transaction
         /\ p.op = "edit" => p.was \in Order /\ p.patch \in Patches
         /\ p.op = "status" => p.from \in Statuses /\ p.target \in Targets
         /\ p.op = "idle" => p = Idle
BY DEF Request, Idle

LEMMA AnsweredIsTyped ==
  ASSUME NEW w \in Workers, Answered(w) \/ UNCHANGED pending, pending \in [Workers -> Request]
  PROVE  pending' \in [Workers -> Request]
BY DEF Answered, Request

\* A write phase that ends in d2 with a commit.
LEMMA CommitStep ==
  ASSUME NEW d2, Ledger(d2), Stands(db, d2), CommitNow(d2), LockFree,
         pending' \in [Workers -> Request], BooksInv
  PROVE  BooksInv' /\ Stands(db, db')
<1>1. db' = d2 /\ tx' = d2 /\ left' = {} BY DEF CommitNow, LockFree
<1>2. Stands(d2, d2) BY DEF Stands
<1>3. Ledger(db') /\ Ledger(tx') /\ Stands(db', tx') /\ Stands(db, db') BY <1>1, <1>2
<1> QED BY <1>1, <1>3 DEF BooksInv

\* A step that leaves the database alone.
LEMMA ReadStep ==
  ASSUME UNCHANGED <<db, tx, left>>, pending' \in [Workers -> Request], BooksInv
  PROVE  BooksInv' /\ Stands(db, db')
<1>1. Stands(db, db) BY DEF Stands
<1>2. /\ Ledger(db') /\ Ledger(tx') /\ Stands(db', tx') /\ (left' = {} => tx' = db')
  BY DEF BooksInv, LockFree
<1> QED BY <1>1, <1>2 DEF BooksInv, LockFree

\* Another row of the order, and other rows of its payments.
LEMMA OtherOrder ==
  ASSUME NEW d, Ledger(d), NEW order \in Order
  PROVE  /\ Ledger([d EXCEPT !.order = order])
         /\ Stands(d, [d EXCEPT !.order = order])
BY DEF Ledger, Stands, Database

Rows(d, txns, lastTxn) == [d EXCEPT !.lastTxn = lastTxn, !.txns = txns]

LEMMA OtherRows ==
  ASSUME NEW d, Ledger(d), NEW lastTxn \in Nat,
         NEW txns, txns \subseteq Transaction, IsFiniteSet(txns),
         \A t \in txns : t.id \in 1..lastTxn,
         \A t, u \in txns : t.id = u.id => t = u
  PROVE  Ledger(Rows(d, txns, lastTxn)) /\ Stands(d, Rows(d, txns, lastTxn))
<1> DEFINE d2 == Rows(d, txns, lastTxn)
<1>1. d \in Database BY DEF Ledger
<1>2. /\ d2 \in Database
      /\ d2.txns = txns /\ d2.lastTxn = lastTxn
      /\ d2.journal = d.journal /\ d2.lastEntry = d.lastEntry
  BY <1>1 DEF Database, Rows
<1> HIDE DEF d2
<1> QED BY <1>2 DEF Ledger, Stands, d2

LEMMA SaveKeeps ==
  ASSUME NEW d, Ledger(d), NEW type \in TransactionType, NEW amount \in Amounts
  PROVE  LET t == NewTransaction(d, type, amount)
         IN  t \in Transaction /\ Ledger(Save(d, t)) /\ Stands(d, Save(d, t))
<1> DEFINE t == NewTransaction(d, type, amount)
           txns == d.txns \union {t}
<1>1. d.lastTxn \in Nat /\ d.txns \subseteq Transaction BY LedgerEntry
<1>2. t \in Transaction /\ t.id = d.lastTxn + 1
  BY <1>1 DEF NewTransaction, Transaction
<1>3. Save(d, t) = Rows(d, txns, t.id)
  <2>1. d \in Database BY DEF Ledger
  <2> QED BY <2>1 DEF Save, Rows, Database
<1> HIDE DEF t
<1>4. IsFiniteSet(txns) BY FS_AddElement DEF Ledger
<1>5. /\ txns \subseteq Transaction /\ t.id \in Nat
      /\ \A u \in txns : u.id \in 1..t.id
      /\ \A u, v \in txns : u.id = v.id => u = v
  BY <1>1, <1>2 DEF Ledger
<1> HIDE DEF txns
<1>6. Ledger(Save(d, t)) /\ Stands(d, Save(d, t)) BY <1>3, <1>4, <1>5, OtherRows
<1> QED BY <1>2, <1>6 DEF t

\* A row takes the place of one with the same id.
LEMMA ReplaceRow ==
  ASSUME NEW d, Ledger(d), NEW t \in d.txns, NEW u \in Transaction, u.id = t.id
  PROVE  LET txns == (d.txns \ {t}) \union {u}
         IN  /\ Ledger([d EXCEPT !.txns = txns]) /\ Stands(d, [d EXCEPT !.txns = txns])
<1> DEFINE txns == (d.txns \ {t}) \union {u}
<1>1. d.lastTxn \in Nat /\ d.txns \subseteq Transaction BY LedgerEntry
<1>2. [d EXCEPT !.txns = txns] = Rows(d, txns, d.lastTxn)
  <2>1. d \in Database BY DEF Ledger
  <2> QED BY <2>1 DEF Rows, Database
<1>3. IsFiniteSet(txns) BY FS_RemoveElement, FS_AddElement DEF Ledger
<1>4. /\ txns \subseteq Transaction
      /\ \A v \in txns : v.id \in 1..d.lastTxn
      /\ \A v, x \in txns : v.id = x.id => v = x
  BY <1>1 DEF Ledger
<1> HIDE DEF txns
<1>5. Ledger([d EXCEPT !.txns = txns]) /\ Stands(d, [d EXCEPT !.txns = txns])
  BY <1>1, <1>2, <1>3, <1>4, OtherRows
<1> QED BY <1>5 DEF txns

LEMMA RemoveRow ==
  ASSUME NEW d, Ledger(d), NEW S
  PROVE  LET d2 == [d EXCEPT !.txns = d.txns \ S] IN Ledger(d2) /\ Stands(d, d2)
<1> DEFINE txns == d.txns \ S
<1>1. d.lastTxn \in Nat /\ d.txns \subseteq Transaction BY LedgerEntry
<1>2. [d EXCEPT !.txns = txns] = Rows(d, txns, d.lastTxn)
  <2>1. d \in Database BY DEF Ledger
  <2> QED BY <2>1 DEF Rows, Database
<1>3. IsFiniteSet(txns)
  <2>1. txns \in SUBSET d.txns OBVIOUS
  <2> QED BY <2>1, FS_Subset DEF Ledger
<1>4. /\ txns \subseteq Transaction
      /\ \A v \in txns : v.id \in 1..d.lastTxn
      /\ \A v, x \in txns : v.id = x.id => v = x
  BY <1>1 DEF Ledger
<1> HIDE DEF txns
<1>5. Ledger([d EXCEPT !.txns = txns]) /\ Stands(d, [d EXCEPT !.txns = txns])
  BY <1>1, <1>2, <1>3, <1>4, OtherRows
<1> QED BY <1>5 DEF txns

\* The row of a transaction, or none.
LEMMA SetValidIs ==
  ASSUME NEW d, Ledger(d), NEW t, NEW valid \in BOOLEAN
  PROVE  \/ RowOf(d, t) = {} /\ SetValid(d, t, valid) = d
         \/ \E u \in d.txns :
              /\ RowOf(d, t) = {u} /\ u.id = t.id
              /\ [u EXCEPT !.valid = valid] \in Transaction
              /\ [u EXCEPT !.valid = valid].id = u.id
              /\ SetValid(d, t, valid)
                   = [d EXCEPT !.txns = (d.txns \ {u}) \union {[u EXCEPT !.valid = valid]}]
<1>1. d \in Database /\ d.txns \subseteq Transaction BY LedgerEntry DEF Ledger
<1>2. CASE RowOf(d, t) = {}
  <2>1. SetValid(d, t, valid) = [d EXCEPT !.txns = d.txns] BY <1>2 DEF SetValid
  <2> QED BY <1>1, <1>2, <2>1 DEF Database
<1>3. CASE RowOf(d, t) # {}
  <2>1. PICK u \in d.txns : u.id = t.id BY <1>3 DEF RowOf
  <2>2. RowOf(d, t) = {u} BY <2>1 DEF RowOf, Ledger
  <2>3. /\ [u EXCEPT !.valid = valid] \in Transaction
        /\ [u EXCEPT !.valid = valid].id = u.id
    BY <1>1 DEF Transaction
  <2>4. {[x EXCEPT !.valid = valid] : x \in RowOf(d, t)} = {[u EXCEPT !.valid = valid]}
    BY <2>2
  <2>5. SetValid(d, t, valid)
          = [d EXCEPT !.txns = (d.txns \ {u}) \union {[u EXCEPT !.valid = valid]}]
    BY <2>2, <2>4 DEF SetValid
  <2> QED BY <2>1, <2>2, <2>3, <2>5
<1> QED BY <1>2, <1>3

LEMMA SetValidKeeps ==
  ASSUME NEW d, Ledger(d), NEW t, NEW valid \in BOOLEAN
  PROVE  Ledger(SetValid(d, t, valid)) /\ Stands(d, SetValid(d, t, valid))
<1>1. CASE SetValid(d, t, valid) = d BY <1>1 DEF Stands
<1>2. CASE SetValid(d, t, valid) # d
  <2>1. PICK u \in d.txns :
          /\ [u EXCEPT !.valid = valid] \in Transaction
          /\ [u EXCEPT !.valid = valid].id = u.id
          /\ SetValid(d, t, valid)
               = [d EXCEPT !.txns = (d.txns \ {u}) \union {[u EXCEPT !.valid = valid]}]
    BY <1>2, SetValidIs
  <2> DEFINE v == [u EXCEPT !.valid = valid]
  <2>2. /\ v \in Transaction /\ v.id = u.id
        /\ SetValid(d, t, valid) = [d EXCEPT !.txns = (d.txns \ {u}) \union {v}]
    BY <2>1
  <2> HIDE DEF v
  <2>3. LET txns == (d.txns \ {u}) \union {v}
        IN  /\ Ledger([d EXCEPT !.txns = txns]) /\ Stands(d, [d EXCEPT !.txns = txns])
    BY <2>2, ReplaceRow
  <2> QED BY <2>2, <2>3
<1> QED BY <1>1, <1>2

-----------------------------------------------------------------------------
(***************************************************************************)
(* The steps.                                                              *)
(***************************************************************************)
LEMMA ThroughSync ==
  ASSUME NEW d, NEW d2, NEW d3, Stands(d, d2), Follows(d2, d3)
  PROVE  Ledger(d3) /\ Stands(d, d3)
BY DEF Follows, Stands

\* RecordPayment keeps the row it makes, CreateTransaction books it too.
LEMMA CreateStep ==
  ASSUME NEW type \in TransactionType, NEW amount \in Amounts,
         CreateTransaction(type, amount), BooksInv
  PROVE  BooksInv' /\ Stands(db, db')
<1> DEFINE t == NewTransaction(db, type, amount)
           saved == Save(db, t)
<1>1. t \in Transaction /\ Ledger(saved) /\ Stands(db, saved)
  BY SaveKeeps DEF BooksInv
<1>2. /\ CommitNow(SyncPayment(saved, t)) /\ LockFree
      /\ pending' \in [Workers -> Request]
  BY DEF CreateTransaction, Served, BooksInv
<1> HIDE DEF t, saved
<1>3. Follows(saved, SyncPayment(saved, t)) BY <1>1, SyncPaymentFollows
<1>4. Ledger(SyncPayment(saved, t)) /\ Stands(db, SyncPayment(saved, t))
  BY <1>1, <1>3, ThroughSync
<1> QED BY <1>2, <1>4, CommitStep

LEMMA RecordStep ==
  ASSUME NEW amount \in Amounts, RecordPayment(amount), BooksInv
  PROVE  BooksInv' /\ Stands(db, db')
<1> DEFINE saved == Save(db, NewTransaction(db, "deposit", amount))
<1>1. Ledger(saved) /\ Stands(db, saved)
  BY SaveKeeps DEF BooksInv, TransactionType
<1>2. CommitNow(saved) /\ LockFree /\ pending' \in [Workers -> Request]
  BY DEF RecordPayment, Served, BooksInv
<1> HIDE DEF saved
<1> QED BY <1>1, <1>2, CommitStep

LEMMA UpdateStep ==
  ASSUME NEW t \in db.txns, NEW type \in TransactionType, NEW amount \in Amounts,
         UpdateTransaction(t, type, amount), BooksInv
  PROVE  BooksInv' /\ Stands(db, db')
<1> DEFINE u == [t EXCEPT !.type = type, !.amount = amount]
           txns == (db.txns \ {t}) \union {u}
           updated == [db EXCEPT !.txns = txns]
<1>1. /\ CommitNow(SyncPayment(updated, u)) /\ LockFree
      /\ pending' \in [Workers -> Request]
  BY DEF UpdateTransaction, Served, BooksInv
<1>2. u \in Transaction /\ u.id = t.id
  <2>1. t \in Transaction BY LedgerEntry DEF BooksInv
  <2> QED BY <2>1 DEF Transaction
<1> HIDE DEF u
<1>3. Ledger(updated) /\ Stands(db, updated) BY <1>2, ReplaceRow DEF BooksInv
<1> HIDE DEF updated
<1>4. Follows(updated, SyncPayment(updated, u)) BY <1>2, <1>3, SyncPaymentFollows
<1>5. Ledger(SyncPayment(updated, u)) /\ Stands(db, SyncPayment(updated, u))
  BY <1>3, <1>4, ThroughSync
<1> QED BY <1>1, <1>5, CommitStep

LEMMA TakeBackStep ==
  ASSUME NEW w \in Workers,
         DeleteTransaction(w) \/ InvalidateTransaction(w) \/ RestoreTransaction(w), BooksInv
  PROVE  BooksInv' /\ Stands(db, db')
<1> DEFINE t == pending[w].txn
           gone == [db EXCEPT !.txns = db.txns \ RowOf(db, t)]
           void == SetValid(db, t, FALSE)
           back == SetValid(db, t, TRUE)
<1>1. /\ pending[w].op \in {"delete", "invalidate", "restore", "method"} /\ LockFree
      /\ Answered(w)
  BY DEF DeleteTransaction, InvalidateTransaction, RestoreTransaction
<1>2. t \in Transaction /\ pending' \in [Workers -> Request]
  BY <1>1, RequestHolds, AnsweredIsTyped DEF BooksInv
<1>3. Ledger(gone) /\ Stands(db, gone) BY RemoveRow DEF BooksInv
<1>4. Ledger(void) /\ Stands(db, void) /\ Ledger(back) /\ Stands(db, back)
  BY SetValidKeeps DEF BooksInv
<1>5. \/ CommitNow(UnsyncPayment(gone, t))
      \/ CommitNow(UnsyncPayment(void, t))
      \/ CommitNow(SyncPayment(back, t))
  BY DEF DeleteTransaction, InvalidateTransaction, RestoreTransaction
<1> HIDE DEF t, gone, void, back
<1>6. /\ Follows(gone, UnsyncPayment(gone, t))
      /\ Follows(void, UnsyncPayment(void, t))
      /\ Follows(back, SyncPayment(back, t))
  BY <1>2, <1>3, <1>4, UnsyncPaymentFollows, SyncPaymentFollows
<1>7. /\ Ledger(UnsyncPayment(gone, t)) /\ Stands(db, UnsyncPayment(gone, t))
      /\ Ledger(UnsyncPayment(void, t)) /\ Stands(db, UnsyncPayment(void, t))
      /\ Ledger(SyncPayment(back, t)) /\ Stands(db, SyncPayment(back, t))
  BY <1>3, <1>4, <1>6, ThroughSync
<1> QED BY <1>1, <1>2, <1>5, <1>7, CommitStep

LEMMA MethodStep ==
  ASSUME NEW w \in Workers, UpdatePaymentMethod(w), BooksInv
  PROVE  BooksInv' /\ Stands(db, db')
<1>1. pending[w].op = "method" /\ LockFree /\ Answered(w)
  BY DEF UpdatePaymentMethod
<1>2. pending[w].txn \in Transaction /\ pending' \in [Workers -> Request]
  BY <1>1, RequestHolds, AnsweredIsTyped DEF BooksInv
<1>3. Follows(db, SyncPayment(db, pending[w].txn))
  BY <1>2, SyncPaymentFollows DEF BooksInv
<1>4. CommitNow(SyncPayment(db, pending[w].txn)) BY DEF UpdatePaymentMethod
<1> QED BY <1>1, <1>2, <1>3, <1>4, CommitStep DEF Follows

LEMMA EditedIsTyped ==
  ASSUME NEW order \in Order, NEW was \in Order, NEW patch \in Patches
  PROVE  EditedOrder(order, was, patch) \in Order
<1>1. patch \in Patch BY BooksAssumption
<1>2. /\ "delivery" \in DOMAIN patch => patch["delivery"] \in Deliveries
      /\ "fee" \in DOMAIN patch => patch["fee"] \in Nat
      /\ "subtotal" \in DOMAIN patch => patch["subtotal"] \in Nat
  BY <1>1 DEF Patch
<1> DEFINE delivery == Patched(patch, "delivery", order.delivery)
           fee == Patched(patch, "fee", order.fee)
           subtotal == Patched(patch, "subtotal", order.subtotal)
           total == IF Reprices(patch)
                    THEN Patched(patch, "subtotal", was.subtotal) + Patched(patch, "fee", was.fee)
                    ELSE order.total
<1>3. /\ delivery \in Deliveries /\ fee \in Nat /\ subtotal \in Nat
      /\ Patched(patch, "subtotal", was.subtotal) \in Nat
      /\ Patched(patch, "fee", was.fee) \in Nat
  BY <1>2 DEF Patched, Order
<1>4. total \in Nat BY <1>3 DEF Order
<1>5. EditedOrder(order, was, patch)
        = [order EXCEPT !.delivery = delivery, !.fee = fee, !.subtotal = subtotal,
                        !.total = total]
  BY DEF EditedOrder
<1> HIDE DEF delivery, fee, subtotal, total
<1> QED BY <1>3, <1>4, <1>5 DEF Order

\* The handler's edit, before the payments are split anew.
SettledEdit(d, was, patch) ==
  LET edited == [d EXCEPT !.order = EditedOrder(@, was, patch)]
  IN  IF was.status \in HandedOver /\ Reprices(patch) THEN ReconcileRevenue(edited) ELSE edited

LEMMA BeginEditStep ==
  ASSUME NEW w \in Workers, BeginEdit(w), BooksInv
  PROVE  BooksInv' /\ Stands(db, db')
<1> DEFINE was == pending[w].was
           patch == pending[w].patch
           edited == [db EXCEPT !.order = EditedOrder(db.order, was, patch)]
           settled == SettledEdit(db, was, patch)
           again == IF Resplits(was, patch) THEN {t.id : t \in db.txns} ELSE {}
<1>1. Ledger(db) BY DEF BooksInv
<1>2. /\ tx' = settled /\ left' = again
      /\ db' = IF again = {} THEN settled ELSE db
      /\ pending[w].op = "edit" /\ Answered(w)
  BY DEF BeginEdit, SettledEdit
<1>3. was \in Order /\ patch \in Patches /\ pending' \in [Workers -> Request]
  BY <1>2, RequestHolds, AnsweredIsTyped DEF BooksInv
<1>4. settled \in {edited, ReconcileRevenue(edited)} BY DEF SettledEdit
<1>5. again \subseteq 1..db.lastTxn BY <1>1 DEF Ledger
<1> HIDE DEF again, was, patch
<1>6. Ledger(edited) /\ Stands(db, edited) /\ edited.lastTxn = db.lastTxn
  <2>1. EditedOrder(db.order, was, patch) \in Order
    BY <1>1, <1>3, EditedIsTyped, LedgerEntry
  <2> QED BY <1>1, <2>1, OtherOrder DEF Ledger, Database
<1> HIDE DEF edited
<1>7. Follows(edited, ReconcileRevenue(edited)) BY <1>6, ReconcileFollows
<1>8. Ledger(settled) /\ Stands(db, settled) /\ settled.lastTxn = db.lastTxn
  BY <1>4, <1>6, <1>7, ThroughSync DEF Follows, SameRows
<1> HIDE DEF settled
<1>9. Stands(db, db) /\ Stands(settled, settled) BY DEF Stands
<1>10. /\ Ledger(db') /\ Ledger(tx') /\ Stands(db', tx') /\ Stands(db, db')
       /\ (left' = {} => tx' = db') /\ left' \subseteq 1..db'.lastTxn
  BY <1>1, <1>2, <1>5, <1>8, <1>9
<1> QED BY <1>3, <1>10 DEF BooksInv, LockFree

LEMMA ResyncStep ==
  ASSUME ResyncOne, BooksInv
  PROVE  BooksInv' /\ Stands(db, db')
<1>1. PICK t \in tx.txns : /\ tx' = SyncPayment(tx, t)
                           /\ left' = left \ {t.id}
                           /\ db' = IF left' = {} THEN tx' ELSE db
  BY DEF ResyncOne
<1>2. t \in Transaction BY LedgerEntry DEF BooksInv
<1>3. Follows(tx, tx') BY <1>1, <1>2, SyncPaymentFollows DEF BooksInv
<1>4. Ledger(tx') /\ Stands(db, tx') BY <1>3, ThroughSync DEF BooksInv
<1>5. Stands(db, db) /\ Stands(tx', tx') BY DEF Stands
<1>6. pending' = pending BY DEF ResyncOne
<1>7. /\ Ledger(db') /\ Stands(db', tx') /\ Stands(db, db')
      /\ (left' = {} => tx' = db') /\ left' \subseteq 1..db'.lastTxn
  BY <1>1, <1>4, <1>5 DEF BooksInv
<1> QED BY <1>4, <1>6, <1>7 DEF BooksInv, LockFree

LEMMA SetStatusKeeps ==
  ASSUME NEW d, Ledger(d), NEW status \in Statuses
  PROVE  Ledger(SetStatus(d, status)) /\ Stands(d, SetStatus(d, status))
<1>1. SetStatus(d, status) = [d EXCEPT !.order = [d.order EXCEPT !.status = status]]
  BY DEF SetStatus, Ledger, Database
<1>2. [d.order EXCEPT !.status = status] \in Order BY LedgerEntry DEF Order
<1> QED BY <1>1, <1>2, OtherOrder

LEMMA StatusStep ==
  ASSUME NEW w \in Workers, WriteStatus(w), BooksInv
  PROVE  BooksInv' /\ Stands(db, db')
<1> DEFINE target == pending[w].target
           before == IF target = "cancelled" THEN SyncCancelled(db) ELSE db
           moved == SetStatus(before, target)
<1>1. pending[w].op = "status" /\ LockFree /\ Answered(w) BY DEF WriteStatus
<1>2. target \in Statuses /\ pending' \in [Workers -> Request]
  BY <1>1, RequestHolds, AnsweredIsTyped, BooksAssumption DEF BooksInv
<1>3. Follows(db, before) BY CancelFollows, FollowsItself DEF BooksInv
<1>4. CommitNow(SyncHandedOver(moved)) \/ CommitNow(moved) BY DEF WriteStatus
<1> HIDE DEF before, target
<1>5. Ledger(moved) /\ Stands(before, moved) BY <1>2, <1>3, SetStatusKeeps DEF Follows
<1>6. Stands(db, moved) BY <1>3, <1>5 DEF Follows, Stands
<1> HIDE DEF moved
<1>7. Follows(moved, SyncHandedOver(moved)) BY <1>5, HandOverFollows
<1>8. Ledger(SyncHandedOver(moved)) /\ Stands(db, SyncHandedOver(moved))
  BY <1>6, <1>7, ThroughSync
<1> QED BY <1>1, <1>2, <1>4, <1>5, <1>6, <1>8, CommitStep

LEMMA ItemsStep ==
  ASSUME NEW derived \in Targets, SyncFromItems(derived), BooksInv
  PROVE  BooksInv' /\ Stands(db, db')
<1>1. Ledger(SetStatus(db, derived)) /\ Stands(db, SetStatus(db, derived))
  BY SetStatusKeeps, BooksAssumption DEF BooksInv
<1>2. /\ CommitNow(SetStatus(db, derived)) /\ LockFree
      /\ pending' \in [Workers -> Request]
  BY DEF SyncFromItems, Served, BooksInv
<1> QED BY <1>1, <1>2, CommitStep

LEMMA LockStep ==
  ASSUME LockJournal, BooksInv
  PROVE  BooksInv' /\ Stands(db, db')
<1>1. Follows(db, LockRange(db)) BY LockRangeFollows DEF BooksInv
<1>2. CommitNow(LockRange(db)) /\ LockFree /\ pending' \in [Workers -> Request]
  BY DEF LockJournal, Served, BooksInv
<1> QED BY <1>1, <1>2, CommitStep DEF Follows

\* A read keeps values of the columns.
LEMMA ReadsStep ==
  ASSUME NEW w \in Workers, NEW r \in Request, Reads(w, r), BooksInv
  PROVE  BooksInv' /\ Stands(db, db')
<1>1. UNCHANGED <<db, tx, left>> BY DEF Reads
<1>2. pending' \in [Workers -> Request] BY DEF Reads, BooksInv
<1> QED BY <1>1, <1>2, ReadStep

LEMMA ReadingStep ==
  ASSUME BooksInv,
         \/ \E w \in Workers, t \in db.txns, op \in {"delete", "invalidate", "restore"} :
              ReadTransaction(w, op, t)
         \/ \E w \in Workers, t \in db.txns : ReadPaymentMethod(w, t)
         \/ \E w \in Workers, patch \in Patches : ReadEdit(w, patch)
         \/ \E w \in Workers, target \in Targets : ReadStatus(w, target)
  PROVE  BooksInv' /\ Stands(db, db')
<1>1. db.txns \subseteq Transaction /\ db.order \in Order BY LedgerEntry DEF BooksInv
<1>2. ASSUME NEW w \in Workers, NEW t \in db.txns,
             NEW op \in {"delete", "invalidate", "restore"}, ReadTransaction(w, op, t)
      PROVE  BooksInv' /\ Stands(db, db')
  <2>1. [op |-> op, txn |-> t] \in Request BY <1>1 DEF Request
  <2> QED BY <1>2, <2>1, ReadsStep DEF ReadTransaction
<1>3. ASSUME NEW w \in Workers, NEW t \in db.txns, ReadPaymentMethod(w, t)
      PROVE  BooksInv' /\ Stands(db, db')
  <2>1. [op |-> "method", txn |-> t] \in Request BY <1>1 DEF Request
  <2> QED BY <1>3, <2>1, ReadsStep DEF ReadPaymentMethod
<1>4. ASSUME NEW w \in Workers, NEW patch \in Patches, ReadEdit(w, patch)
      PROVE  BooksInv' /\ Stands(db, db')
  <2>1. [op |-> "edit", was |-> db.order, patch |-> patch] \in Request
    BY <1>1 DEF Request
  <2> QED BY <1>4, <2>1, ReadsStep DEF ReadEdit
<1>5. ASSUME NEW w \in Workers, NEW target \in Targets, ReadStatus(w, target)
      PROVE  BooksInv' /\ Stands(db, db')
  <2>1. db.order.status \in Statuses BY <1>1 DEF Order
  <2>2. [op |-> "status", from |-> db.order.status, target |-> target] \in Request
    BY <2>1 DEF Request
  <2> QED BY <1>5, <2>2, ReadsStep DEF ReadStatus
<1> QED BY <1>2, <1>3, <1>4, <1>5

LEMMA InitBooks ==
  Init => BooksInv
<1> SUFFICES ASSUME Init PROVE BooksInv OBVIOUS
<1>1. FirstOrder \in Order
  BY BooksAssumption DEF Order, Statuses
<1>2. db \in Database /\ tx = db BY <1>1 DEF Init, Database
<1>3. db.journal = {} /\ db.txns = {} /\ left = {} BY DEF Init
<1>4. Ledger(db) BY <1>2, <1>3, FS_EmptySet DEF Ledger
<1>5. pending \in [Workers -> Request] BY DEF Init, Request
<1> QED BY <1>2, <1>3, <1>4, <1>5 DEF BooksInv, Stands

LEMMA NextBooks ==
  BooksInv /\ [Next]_vars => BooksInv' /\ Stands(db, db')
<1> SUFFICES ASSUME BooksInv, [Next]_vars PROVE BooksInv' /\ Stands(db, db') OBVIOUS
<1>1. CASE \E type \in TransactionType, amount \in Amounts :
             \/ CreateTransaction(type, amount)
             \/ \E t \in db.txns : UpdateTransaction(t, type, amount)
  BY <1>1, CreateStep, UpdateStep
<1>2. CASE \E amount \in Amounts : RecordPayment(amount)
  BY <1>2, RecordStep
<1>3. CASE \E w \in Workers : \/ DeleteTransaction(w) \/ InvalidateTransaction(w)
                              \/ RestoreTransaction(w)
  BY <1>3, TakeBackStep
<1>4. CASE \E w \in Workers : UpdatePaymentMethod(w) BY <1>4, MethodStep
<1>5. CASE \E w \in Workers : BeginEdit(w) BY <1>5, BeginEditStep
<1>6. CASE ResyncOne BY <1>6, ResyncStep
<1>7. CASE \E w \in Workers : WriteStatus(w) BY <1>7, StatusStep
<1>8. CASE \E derived \in Targets : SyncFromItems(derived) BY <1>8, ItemsStep
<1>9. CASE LockJournal BY <1>9, LockStep
<1>10. CASE \/ \E w \in Workers, t \in db.txns, op \in {"delete", "invalidate", "restore"} :
                 ReadTransaction(w, op, t)
            \/ \E w \in Workers, t \in db.txns : ReadPaymentMethod(w, t)
            \/ \E w \in Workers, patch \in Patches : ReadEdit(w, patch)
            \/ \E w \in Workers, target \in Targets : ReadStatus(w, target)
  BY <1>10, ReadingStep
<1>11. CASE \E w \in Workers : Drop(w)
  <2>1. PICK w \in Workers : Drop(w) BY <1>11
  <2>2. pending' \in [Workers -> Request] BY <2>1, AnsweredIsTyped DEF Drop, BooksInv
  <2>3. UNCHANGED <<db, tx, left>> BY <2>1 DEF Drop
  <2> QED BY <2>2, <2>3, ReadStep
<1>12. CASE UNCHANGED vars
  BY <1>12, ReadStep DEF vars, BooksInv
<1> QED
  BY <1>1, <1>2, <1>3, <1>4, <1>5, <1>6, <1>7, <1>8, <1>9, <1>10, <1>11, <1>12 DEF Next

(***************************************************************************)
(* However the requests interleave and whatever the staff do, the order,   *)
(* its transactions, its journal and what every request has read hold      *)
(* values of their columns, and an edit has only transactions that exist   *)
(* left to split anew.                                                     *)
(***************************************************************************)
THEOREM BooksTyped ==
  Spec => []TypeOK
<1>1. Spec => []BooksInv BY InitBooks, NextBooks, PTL DEF Spec
<1> QED BY <1>1, TypeOfBooks, PTL

(***************************************************************************)
(* Whatever is paid, corrected, invalidated, restored, edited, delivered   *)
(* or cancelled, by however many requests at once: the entries of a closed *)
(* period are neither removed nor changed by any committed step.           *)
(***************************************************************************)
THEOREM LockedEntriesStand ==
  Spec => ClosedBooksStand
<1>1. Spec => []BooksInv BY InitBooks, NextBooks, PTL DEF Spec
<1>2. BooksInv /\ [Next]_vars => [\A e \in db.journal : e.locked => e \in db'.journal]_vars
  BY NextBooks DEF Stands
<1> QED BY <1>1, <1>2, PTL DEF Spec, ClosedBooksStand

-----------------------------------------------------------------------------
(***************************************************************************)
(* A journal in which no period is closed.  An entry is known by its key,  *)
(* and no two entries have the same: what a sync looks for is the one      *)
(* entry with a key, and it changes the entries with a few keys only.      *)
(***************************************************************************)
Key(e) == <<e.source, e.of, e.text>>

PaymentKey(id) == <<"payment_transaction", id, "payment">>
ReleaseKey == <<"order_shipping_release", TheOrder, "release">>
OrderKey(text) == <<"order", TheOrder, text>>

At(d, k) == {e \in d.journal : Key(e) = k}

IsPayment(e) ==
  /\ e.source = "payment_transaction" /\ e.text = "payment"
  /\ e.lines["revenue"] = 0 /\ e.lines["receivable"] = 0 /\ e.lines["shipping"] <= 0

IsRelease(e) ==
  /\ e.source = "order_shipping_release" /\ e.of = TheOrder /\ e.text = "release"
  /\ e.lines["revenue"] = 0 /\ e.lines["receivable"] = 0
  /\ e.lines["deposits"] = 0 /\ e.lines["tien_rut"] = 0

IsOrderEntry(e) == e.source = "order" /\ e.of = TheOrder /\ e.text \in OrderTexts

Shaped(e) == ~e.locked /\ (IsPayment(e) \/ IsRelease(e) \/ IsOrderEntry(e))

Tidy(d) ==
  /\ Ledger(d)
  /\ \A e \in d.journal : Shaped(e) /\ e.of <= d.lastTxn
  /\ \A e, f \in d.journal : Key(e) = Key(f) => e = f

\* From d to d2 only entries with a key in K came, went or changed.
Changes(d, d2, K) ==
  /\ Tidy(d2) /\ SameRows(d, d2)
  /\ \A e : Key(e) \notin K => (e \in d.journal <=> e \in d2.journal)

LEMMA ChangesNothing ==
  ASSUME NEW d, Tidy(d), NEW K PROVE Changes(d, d, K)
BY DEF Changes, SameRows

LEMMA ChangesThrough ==
  ASSUME NEW d, NEW d2, NEW d3, NEW K, Changes(d, d2, K), Changes(d2, d3, K)
  PROVE  Changes(d, d3, K)
BY DEF Changes, SameRows

LEMMA ChangesMore ==
  ASSUME NEW d, NEW d2, NEW K, NEW L, Changes(d, d2, K), K \subseteq L
  PROVE  Changes(d, d2, L)
BY DEF Changes

LEMMA ChangesElsewhere ==
  ASSUME NEW d, NEW d2, NEW K, Changes(d, d2, K), NEW k, k \notin K
  PROVE  At(d2, k) = At(d, k)
BY DEF Changes, At

\* The entries a sync looks for are those with a key.
LEMMA LooksFor ==
  ASSUME NEW d, Tidy(d)
  PROVE  /\ \A id : EntriesOf(d, "payment_transaction", id) = At(d, PaymentKey(id))
         /\ Releases(d) = At(d, ReleaseKey)
         /\ \A text : OrderEntries(d, text) = At(d, OrderKey(text))
<1>1. /\ \A id : EntriesOf(d, "payment_transaction", id) \subseteq At(d, PaymentKey(id))
      /\ Releases(d) \subseteq At(d, ReleaseKey)
  BY DEF Tidy, Shaped, IsPayment, IsRelease, IsOrderEntry, EntriesOf, Releases, At, Key,
         PaymentKey, ReleaseKey
<1>2. /\ \A id : At(d, PaymentKey(id)) \subseteq EntriesOf(d, "payment_transaction", id)
      /\ At(d, ReleaseKey) \subseteq Releases(d)
  BY DEF EntriesOf, Releases, At, Key, PaymentKey, ReleaseKey
<1>3. \A text : OrderEntries(d, text) = At(d, OrderKey(text))
  BY DEF OrderEntries, EntriesOf, At, Key, OrderKey
<1> QED BY <1>1, <1>2, <1>3

-----------------------------------------------------------------------------
(***************************************************************************)
(* The primitives, on such a journal.                                      *)
(***************************************************************************)
Entered(d, source, of, text, lines) ==
  [id |-> d.lastEntry + 1, source |-> source, of |-> of, text |-> text, lines |-> lines,
   locked |-> FALSE]

LEMMA InsertChanges ==
  ASSUME NEW d, Tidy(d), NEW source \in Sources, NEW of \in Nat, NEW text \in Texts,
         NEW lines \in LinesSet, of <= d.lastTxn, At(d, <<source, of, text>>) = {},
         Shaped(Entered(d, source, of, text, lines))
  PROVE  LET d2 == Insert(d, source, of, text, lines)
         IN  /\ Changes(d, d2, {<<source, of, text>>})
             /\ At(d2, <<source, of, text>>) = {Entered(d, source, of, text, lines)}
<1> DEFINE new == Entered(d, source, of, text, lines)
           d2 == Insert(d, source, of, text, lines)
           k == <<source, of, text>>
<1>1. Ledger(d2) /\ SameRows(d, d2) BY InsertFollows DEF Tidy, Follows
<1>2. d2.journal = d.journal \union {new}
  BY DEF Insert, Entered, Tidy, Ledger, Database
<1>3. Key(new) = k /\ new.of = of BY DEF Key, Entered
<1>4. \A e \in d.journal : Key(e) # k BY DEF At
<1> HIDE DEF new, d2, k
<1>5. At(d2, k) = {new} BY <1>2, <1>3, <1>4 DEF At
<1>6. \A e : Key(e) \notin {k} => (e \in d.journal <=> e \in d2.journal)
  BY <1>2, <1>3
<1>7. Tidy(d2)
  <2>1. Shaped(new) /\ new.of <= d2.lastTxn BY <1>1, <1>3 DEF SameRows, new
  <2>2. \A e \in d2.journal : Shaped(e) /\ e.of <= d2.lastTxn
    BY <1>1, <1>2, <2>1 DEF Tidy, SameRows
  <2>3. \A e, f \in d2.journal : Key(e) = Key(f) => e = f
    BY <1>2, <1>3, <1>4 DEF Tidy
  <2> QED BY <1>1, <2>2, <2>3 DEF Tidy
<1> QED BY <1>1, <1>5, <1>6, <1>7 DEF Changes, new, d2, k

LEMMA DeleteChanges ==
  ASSUME NEW d, Tidy(d), NEW e \in d.journal
  PROVE  LET d2 == ReverseOrDelete(d, e)
         IN  Changes(d, d2, {Key(e)}) /\ At(d2, Key(e)) = {}
<1> DEFINE d2 == ReverseOrDelete(d, e)
<1>1. ~e.locked BY DEF Tidy, Shaped
<1>2. Ledger(d2) /\ SameRows(d, d2) BY ReverseOrDeleteFollows DEF Tidy, Follows
<1>3. d2.journal = d.journal \ {e}
  BY <1>1 DEF ReverseOrDelete, DeleteCascade, Tidy, Ledger, Database
<1> HIDE DEF d2
<1>4. At(d2, Key(e)) = {} BY <1>3 DEF At, Tidy
<1>5. Tidy(d2) BY <1>2, <1>3 DEF Tidy, SameRows
<1>6. \A f : Key(f) \notin {Key(e)} => (f \in d.journal <=> f \in d2.journal)
  BY <1>3
<1> QED BY <1>2, <1>4, <1>5, <1>6 DEF Changes, d2

\* The entry with this key, when there is one, is reversed or deleted.
LEMMA ClearChanges ==
  ASSUME NEW d, Tidy(d), NEW k, At(d, k) # {}
  PROVE  LET d2 == ReverseOrDelete(d, Latest(At(d, k)))
         IN  Changes(d, d2, {k}) /\ At(d2, k) = {}
<1>1. At(d, k) \in SUBSET d.journal BY DEF At
<1>2. Latest(At(d, k)) \in At(d, k) BY <1>1, LatestIsThere DEF Tidy
<1>3. Latest(At(d, k)) \in d.journal /\ Key(Latest(At(d, k))) = k BY <1>2 DEF At
<1> QED BY <1>3, DeleteChanges

LEMMA UpdateChanges ==
  ASSUME NEW d, Tidy(d), NEW e \in d.journal, IsPayment(e), NEW lines \in LinesSet,
         lines["revenue"] = 0, lines["receivable"] = 0, lines["shipping"] <= 0
  PROVE  LET d2 == UpdateInPlace(d, e, "payment", lines)
         IN  /\ Changes(d, d2, {Key(e)})
             /\ \E f : At(d2, Key(e)) = {f} /\ f.lines = lines
<1> DEFINE new == [e EXCEPT !.text = "payment", !.lines = lines]
           d2 == UpdateInPlace(d, e, "payment", lines)
<1>1. ~e.locked BY DEF Tidy, Shaped
<1>2. Ledger(d2) /\ SameRows(d, d2) BY <1>1, UpdateFollows DEF Tidy, Follows, Texts
<1>3. d2.journal = (d.journal \ {e}) \union {new}
  BY DEF UpdateInPlace, Tidy, Ledger, Database
<1>4. e \in Entry BY LedgerEntry DEF Tidy
<1>5. /\ new.source = e.source /\ new.of = e.of /\ new.text = "payment"
      /\ new.lines = lines /\ new.locked = e.locked
  BY <1>4 DEF Entry
<1> HIDE DEF d2, new
<1>6. Key(new) = Key(e) /\ Shaped(new)
  BY <1>1, <1>5 DEF Key, Shaped, IsPayment
<1>7. \A f \in d.journal : Key(f) = Key(e) => f = e BY DEF Tidy
<1>8. At(d2, Key(e)) = {new} BY <1>3, <1>6, <1>7 DEF At
<1>9. \A f : Key(f) \notin {Key(e)} => (f \in d.journal <=> f \in d2.journal)
  BY <1>3, <1>6
<1>10. Tidy(d2)
  <2>1. \A f \in d2.journal : Shaped(f) /\ f.of <= d2.lastTxn
    BY <1>2, <1>3, <1>5, <1>6 DEF Tidy, SameRows
  <2>2. \A f, g \in d2.journal : Key(f) = Key(g) => f = g
    BY <1>3, <1>6, <1>7 DEF Tidy
  <2> QED BY <1>2, <2>1, <2>2 DEF Tidy
<1> QED BY <1>2, <1>5, <1>8, <1>9, <1>10 DEF Changes, d2

-----------------------------------------------------------------------------
(***************************************************************************)
(* The syncs, on such a journal.                                           *)
(***************************************************************************)
LEMMA TidyHas ==
  ASSUME NEW d, Tidy(d)
  PROVE  Ledger(d) /\ TheOrder \in Nat /\ TheOrder <= d.lastTxn
BY LedgerEntry DEF Tidy, TheOrder

LEMMA PostReleaseChanges ==
  ASSUME NEW d, Tidy(d), At(d, ReleaseKey) = {}
  PROVE  Changes(d, PostRelease(d), {ReleaseKey})
<1> DEFINE amounts == [shipping |-> d.order.fee, asset |-> -d.order.fee]
           lines == Lines(amounts)
<1>1. d.order.fee \in Nat BY LedgerEntry DEF Order, Tidy
<1>2. \A a \in DOMAIN amounts : amounts[a] \in Int BY <1>1
<1>3. /\ lines["revenue"] = 0 /\ lines["receivable"] = 0
      /\ lines["deposits"] = 0 /\ lines["tien_rut"] = 0
  BY TheAccounts DEF Lines
<1>4. PostRelease(d) = Insert(d, "order_shipping_release", TheOrder, "release", lines)
  BY DEF PostRelease
<1> HIDE DEF amounts
<1>5. lines \in LinesSet BY <1>2, LinesAreWhole
<1> HIDE DEF lines
<1>6. Shaped(Entered(d, "order_shipping_release", TheOrder, "release", lines))
  BY <1>3 DEF Shaped, IsRelease, Entered
<1>7. "order_shipping_release" \in Sources /\ "release" \in Texts BY DEF Sources, Texts
<1>8. At(d, <<"order_shipping_release", TheOrder, "release">>) = {} BY DEF ReleaseKey
<1> QED BY <1>4, <1>5, <1>6, <1>7, <1>8, TidyHas, InsertChanges DEF ReleaseKey

LEMMA ReleaseChanges ==
  ASSUME NEW d, Tidy(d)
  PROVE  Changes(d, SyncBusShippingRelease(d), {ReleaseKey})
<1> DEFINE cleared == ReverseOrDelete(d, Latest(Releases(d)))
<1>1. Releases(d) = At(d, ReleaseKey) BY LooksFor
<1>2. CASE Releases(d) = {}
  BY <1>1, <1>2, PostReleaseChanges, ChangesNothing DEF SyncBusShippingRelease
<1>3. CASE Releases(d) # {}
  <2>1. Changes(d, cleared, {ReleaseKey}) /\ At(cleared, ReleaseKey) = {}
    BY <1>1, <1>3, ClearChanges
  <2>2. SyncBusShippingRelease(d) \in {d, PostRelease(cleared)}
    BY <1>3 DEF SyncBusShippingRelease
  <2> HIDE DEF cleared
  <2>3. Changes(cleared, PostRelease(cleared), {ReleaseKey})
    BY <2>1, PostReleaseChanges DEF Changes
  <2> QED BY <2>1, <2>2, <2>3, ChangesNothing, ChangesThrough
<1> QED BY <1>2, <1>3

LEMMA RetriggerChanges ==
  ASSUME NEW d, Tidy(d), NEW deleted \in BOOLEAN
  PROVE  /\ Changes(d, RetriggerRelease(d, deleted), {ReleaseKey})
         /\ ~ReleaseDue(d) => RetriggerRelease(d, deleted) = d
<1>1. Releases(d) = At(d, ReleaseKey) BY LooksFor
<1>2. Releases(d) # {} => Changes(d, ReverseOrDelete(d, Latest(Releases(d))), {ReleaseKey})
  BY <1>1, ClearChanges
<1>3. RetriggerRelease(d, deleted) = d \/ Changes(d, RetriggerRelease(d, deleted), {ReleaseKey})
  BY <1>2, ReleaseChanges DEF RetriggerRelease
<1> QED BY <1>3, ChangesNothing DEF RetriggerRelease

LEMMA PaymentLinesShape ==
  ASSUME NEW d, Ledger(d), NEW t \in Transaction
  PROVE  LET lines == PaymentLines(d, t)
         IN  /\ lines["revenue"] = 0 /\ lines["receivable"] = 0
             /\ lines["shipping"] <= 0
             /\ lines["shipping"] \in {0, -ShippingPortion(d, t)}
             /\ lines["asset"] = IF t.type = "refund" THEN -t.amount ELSE t.amount
             /\ t.type = "tien_rut" => lines["tien_rut"] = -t.amount
<1>1. ShippingPortion(d, t) \in Nat /\ t.amount \in Nat BY PortionIsWhole
<1>2. CASE t.type = "tien_rut"
  <2> DEFINE amounts == [asset |-> t.amount, tien_rut |-> -t.amount]
  <2>1. PaymentLines(d, t) = Lines(amounts) BY <1>2 DEF PaymentLines
  <2>2. /\ Lines(amounts)["revenue"] = 0 /\ Lines(amounts)["receivable"] = 0
        /\ Lines(amounts)["shipping"] = 0 /\ Lines(amounts)["asset"] = t.amount
        /\ Lines(amounts)["tien_rut"] = -t.amount
    BY TheAccounts DEF Lines
  <2> HIDE DEF amounts
  <2> QED BY <1>2, <2>1, <2>2
<1>3. CASE t.type = "refund"
  <2> DEFINE amounts == [deposits |-> t.amount, asset |-> -t.amount]
  <2>1. PaymentLines(d, t) = Lines(amounts) BY <1>3 DEF PaymentLines
  <2>2. /\ Lines(amounts)["revenue"] = 0 /\ Lines(amounts)["receivable"] = 0
        /\ Lines(amounts)["shipping"] = 0 /\ Lines(amounts)["asset"] = -t.amount
    BY TheAccounts DEF Lines
  <2> HIDE DEF amounts
  <2> QED BY <1>3, <2>1, <2>2
<1>4. CASE t.type \notin {"tien_rut", "refund"}
  <2> DEFINE shipping == ShippingPortion(d, t)
             amounts == [asset |-> t.amount, deposits |-> shipping - t.amount,
                         shipping |-> -shipping]
  <2>1. PaymentLines(d, t) = Lines(amounts) BY <1>4 DEF PaymentLines
  <2>2. /\ Lines(amounts)["revenue"] = 0 /\ Lines(amounts)["receivable"] = 0
        /\ Lines(amounts)["shipping"] = -shipping /\ Lines(amounts)["asset"] = t.amount
    BY TheAccounts DEF Lines
  <2>3. shipping \in Nat BY <1>1
  <2> HIDE DEF amounts, shipping
  <2>4. Lines(amounts)["shipping"] <= 0 BY <2>2, <2>3
  <2> QED BY <1>4, <2>1, <2>2, <2>4 DEF shipping
<1> QED BY <1>2, <1>3, <1>4

\* Only the transaction's own entry and the release may change.
LEMMA SyncPaymentChanges ==
  ASSUME NEW d, Tidy(d), NEW t \in Transaction, t.id <= d.lastTxn
  PROVE  LET d2 == SyncPayment(d, t)
         IN  /\ Changes(d, d2, {PaymentKey(t.id), ReleaseKey})
             /\ ~ReleaseDue(d) => Changes(d, d2, {PaymentKey(t.id)})
             /\ \E e : At(d2, PaymentKey(t.id)) = {e} /\ e.lines = PaymentLines(d, t)
<1> DEFINE k == PaymentKey(t.id)
           own == At(d, k)
           lines == PaymentLines(d, t)
           posted == IF own = {} THEN PostPayment(d, t, lines)
                     ELSE UpdateInPlace(d, Latest(own), "payment", lines)
<1>1. lines \in LinesSet BY PaymentLinesAreWhole DEF Tidy
<1>2. lines["revenue"] = 0 /\ lines["receivable"] = 0 /\ lines["shipping"] <= 0
  BY PaymentLinesShape DEF Tidy
<1>3. own # {} => Latest(own) \in own
  <2>1. own \in SUBSET d.journal BY DEF At
  <2> QED BY <2>1, LatestIsThere DEF Tidy
<1>4. SyncPayment(d, t) = RetriggerRelease(posted, FALSE)
  <2>1. OwnEntries(d, t) = own BY LooksFor DEF OwnEntries
  <2>2. own # {} => ~Latest(own).locked BY <1>3 DEF At, Tidy, Shaped
  <2> QED BY <2>1, <2>2 DEF SyncPayment
<1> HIDE DEF lines
<1>5. Changes(d, posted, {k}) /\ \E e : At(posted, k) = {e} /\ e.lines = lines
  <2>1. CASE own = {}
    <3>1. /\ "payment_transaction" \in Sources /\ "payment" \in Texts /\ t.id \in Nat
      BY DEF Sources, Texts, Transaction
    <3>2. Shaped(Entered(d, "payment_transaction", t.id, "payment", lines))
      BY <1>2 DEF Shaped, IsPayment, Entered
    <3>3. posted = Insert(d, "payment_transaction", t.id, "payment", lines)
      BY <2>1 DEF PostPayment
    <3>4. k = <<"payment_transaction", t.id, "payment">> BY DEF PaymentKey
    <3>5. Entered(d, "payment_transaction", t.id, "payment", lines).lines = lines
      BY DEF Entered
    <3> DEFINE new == Entered(d, "payment_transaction", t.id, "payment", lines)
    <3>6. At(d, <<"payment_transaction", t.id, "payment">>) = {} BY <2>1, <3>4
    <3> HIDE DEF posted, own
    <3>7. /\ Changes(d, posted, {<<"payment_transaction", t.id, "payment">>})
          /\ At(posted, <<"payment_transaction", t.id, "payment">>) = {new}
      BY <1>1, <3>1, <3>2, <3>3, <3>6, InsertChanges
    <3> HIDE DEF new
    <3> QED BY <3>4, <3>5, <3>7 DEF new
  <2>2. CASE own # {}
    <3> DEFINE e == Latest(own)
    <3>1. e \in d.journal /\ Key(e) = k BY <1>3, <2>2 DEF At
    <3>2. IsPayment(e)
      BY <3>1 DEF Tidy, Shaped, IsRelease, IsOrderEntry, Key, PaymentKey
    <3>3. posted = UpdateInPlace(d, e, "payment", lines) BY <2>2
    <3> HIDE DEF e, posted, k
    <3> QED BY <1>1, <1>2, <3>1, <3>2, <3>3, UpdateChanges
  <2> QED BY <2>1, <2>2
<1> HIDE DEF posted
<1>6. /\ Changes(posted, RetriggerRelease(posted, FALSE), {ReleaseKey})
      /\ ~ReleaseDue(posted) => RetriggerRelease(posted, FALSE) = posted
  BY <1>5, RetriggerChanges DEF Changes
<1>7. ReleaseDue(posted) = ReleaseDue(d) BY <1>5 DEF Changes, SameRows, ReleaseDue
<1>8. k \notin {ReleaseKey} BY DEF PaymentKey, ReleaseKey
<1>9. At(RetriggerRelease(posted, FALSE), k) = At(posted, k)
  <2> DEFINE K == {ReleaseKey}
             d2 == RetriggerRelease(posted, FALSE)
  <2>1. Changes(posted, d2, K) /\ k \notin K BY <1>6, <1>8
  <2> HIDE DEF k, K, d2
  <2>2. At(d2, k) = At(posted, k) BY ONLY <2>1, ChangesElsewhere
  <2> QED BY <2>2 DEF d2
<1>10. Changes(d, RetriggerRelease(posted, FALSE), {k, ReleaseKey})
  <2>1. /\ Changes(d, posted, {k, ReleaseKey})
        /\ Changes(posted, RetriggerRelease(posted, FALSE), {k, ReleaseKey})
    BY <1>5, <1>6, ChangesMore
  <2> QED BY <2>1, ChangesThrough
<1> QED BY <1>4, <1>5, <1>6, <1>7, <1>9, <1>10 DEF lines

LEMMA UnsyncPaymentChanges ==
  ASSUME NEW d, Tidy(d), NEW t
  PROVE  LET d2 == UnsyncPayment(d, t)
         IN  /\ Changes(d, d2, {PaymentKey(t.id), ReleaseKey})
             /\ ~ReleaseDue(d) => Changes(d, d2, {PaymentKey(t.id)})
             /\ At(d2, PaymentKey(t.id)) = {}
<1> DEFINE k == PaymentKey(t.id)
           own == At(d, k)
           cleared == IF own = {} THEN d ELSE ReverseOrDelete(d, Latest(own))
<1>1. UnsyncPayment(d, t) = RetriggerRelease(cleared, TRUE)
  <2>1. OwnEntries(d, t) = own BY LooksFor DEF OwnEntries
  <2> QED BY <2>1 DEF UnsyncPayment
<1>2. Changes(d, cleared, {k}) /\ At(cleared, k) = {}
  BY ClearChanges, ChangesNothing
<1> HIDE DEF cleared
<1>3. /\ Changes(cleared, RetriggerRelease(cleared, TRUE), {ReleaseKey})
      /\ ~ReleaseDue(cleared) => RetriggerRelease(cleared, TRUE) = cleared
  BY <1>2, RetriggerChanges DEF Changes
<1>4. ReleaseDue(cleared) = ReleaseDue(d) BY <1>2 DEF Changes, SameRows, ReleaseDue
<1>5. k \notin {ReleaseKey} BY DEF PaymentKey, ReleaseKey
<1>6. At(RetriggerRelease(cleared, TRUE), k) = At(cleared, k)
  <2> DEFINE K == {ReleaseKey}
             d2 == RetriggerRelease(cleared, TRUE)
  <2>1. Changes(cleared, d2, K) /\ k \notin K BY <1>3, <1>5
  <2> HIDE DEF k, K, d2
  <2>2. At(d2, k) = At(cleared, k) BY ONLY <2>1, ChangesElsewhere
  <2> QED BY <2>2 DEF d2
<1>7. Changes(d, RetriggerRelease(cleared, TRUE), {k, ReleaseKey})
  <2>1. /\ Changes(d, cleared, {k, ReleaseKey})
        /\ Changes(cleared, RetriggerRelease(cleared, TRUE), {k, ReleaseKey})
    BY <1>2, <1>3, ChangesMore
  <2> QED BY <2>1, ChangesThrough
<1> QED BY <1>1, <1>2, <1>3, <1>4, <1>6, <1>7

-----------------------------------------------------------------------------
OrderKeys == {OrderKey(text) : text \in OrderTexts}

LEMMA KeysDiffer ==
  /\ \A id : PaymentKey(id) \notin OrderKeys \union {ReleaseKey}
  /\ ReleaseKey \notin OrderKeys
  /\ \A text : OrderKey(text) # ReleaseKey /\ \A id : OrderKey(text) # PaymentKey(id)
  /\ \A text, other : OrderKey(text) = OrderKey(other) => text = other
  /\ \A id, other : PaymentKey(id) = PaymentKey(other) => id = other
BY DEF OrderKeys, OrderKey, PaymentKey, ReleaseKey

LEMMA DropChanges ==
  ASSUME NEW d, Tidy(d), NEW text
  PROVE  LET d2 == DropOrderEntry(d, text)
         IN  Changes(d, d2, {OrderKey(text)}) /\ At(d2, OrderKey(text)) = {}
<1>1. OrderEntries(d, text) = At(d, OrderKey(text)) BY LooksFor
<1>2. CASE At(d, OrderKey(text)) = {}
  BY <1>1, <1>2, ChangesNothing DEF DropOrderEntry
<1>3. CASE At(d, OrderKey(text)) # {}
  BY <1>1, <1>3, ClearChanges DEF DropOrderEntry
<1> QED BY <1>2, <1>3

LEMMA DropReleaseChanges ==
  ASSUME NEW d, Tidy(d)
  PROVE  LET d2 == DropRelease(d)
         IN  Changes(d, d2, {ReleaseKey}) /\ At(d2, ReleaseKey) = {}
<1>1. Releases(d) = At(d, ReleaseKey) BY LooksFor
<1>2. CASE At(d, ReleaseKey) = {}
  BY <1>1, <1>2, ChangesNothing DEF DropRelease
<1>3. CASE At(d, ReleaseKey) # {}
  BY <1>1, <1>3, ClearChanges DEF DropRelease
<1> QED BY <1>2, <1>3

LEMMA ReplaceChanges ==
  ASSUME NEW d, Tidy(d), NEW text \in OrderTexts, NEW lines \in LinesSet
  PROVE  Changes(d, ReplaceOrderEntry(d, text, lines), {OrderKey(text)})
<1> DEFINE cleared == DropOrderEntry(d, text)
           k == OrderKey(text)
<1>1. Changes(d, cleared, {k}) /\ At(cleared, k) = {} BY DropChanges
<1>2. ReplaceOrderEntry(d, text, lines) \in {d, PostOrderEntry(cleared, text, lines)}
  BY DEF ReplaceOrderEntry
<1> HIDE DEF cleared
<1>3. Tidy(cleared) BY <1>1 DEF Changes
<1>4. "order" \in Sources /\ text \in Texts BY DEF Sources, Texts, OrderTexts
<1>5. Shaped(Entered(cleared, "order", TheOrder, text, lines))
  BY DEF Shaped, IsOrderEntry, Entered
<1>6. At(cleared, <<"order", TheOrder, text>>) = {} BY <1>1 DEF OrderKey
<1>7. Changes(cleared, PostOrderEntry(cleared, text, lines), {<<"order", TheOrder, text>>})
  BY <1>3, <1>4, <1>5, <1>6, TidyHas, InsertChanges DEF PostOrderEntry
<1>8. Changes(cleared, PostOrderEntry(cleared, text, lines), {k}) BY <1>7 DEF OrderKey
<1> HIDE DEF k
<1>9. Changes(d, PostOrderEntry(cleared, text, lines), {k})
  BY <1>1, <1>8, ChangesThrough
<1> QED BY <1>2, <1>9, ChangesNothing DEF k

LEMMA ReceivableChanges ==
  ASSUME NEW d, Tidy(d)
  PROVE  Changes(d, RecogniseReceivable(d), {OrderKey("receivable")})
<1> DEFINE amounts == [receivable |-> d.order.total, revenue |-> -d.order.total]
<1>1. d.order.total \in Nat BY LedgerEntry DEF Order, Tidy
<1>2. \A a \in DOMAIN amounts : amounts[a] \in Int BY <1>1
<1>3. RecogniseReceivable(d) \in {d, ReplaceOrderEntry(d, "receivable", Lines(amounts))}
  BY DEF RecogniseReceivable
<1> HIDE DEF amounts
<1>4. Lines(amounts) \in LinesSet /\ "receivable" \in OrderTexts
  BY <1>2, LinesAreWhole DEF OrderTexts
<1> QED BY <1>3, <1>4, ReplaceChanges, ChangesNothing

LEMMA DepositsChange ==
  ASSUME NEW d, Tidy(d)
  PROVE  LET d2 == RecogniseDeposits(d)
         IN  /\ Changes(d, d2, OrderKeys)
             /\ At(d2, OrderKey("receivable")) = {}
             /\ At(d2, OrderKey("revenue")) # {} => DepositBalance(d) # 0
<1> DEFINE amounts == [deposits |-> DepositBalance(d), revenue |-> -DepositBalance(d)]
           cleared == DropOrderEntry(d, "receivable")
           d2 == RecogniseDeposits(d)
           kr == OrderKey("receivable")
           kv == OrderKey("revenue")
<1>1. Changes(d, cleared, {kr}) /\ At(cleared, kr) = {} BY DropChanges
<1>2. \A a \in DOMAIN amounts : amounts[a] \in Int BY DepositsAreWhole DEF Tidy
<1>3. IF DepositBalance(d) = 0 THEN d2 = DropOrderEntry(cleared, "revenue")
      ELSE d2 = ReplaceOrderEntry(cleared, "revenue", Lines(amounts))
  BY DEF RecogniseDeposits
<1> HIDE DEF amounts, cleared, d2
<1>4. Lines(amounts) \in LinesSet /\ "revenue" \in OrderTexts
  BY <1>2, LinesAreWhole DEF OrderTexts
<1>5. Tidy(cleared) BY <1>1 DEF Changes
<1>6. /\ Changes(cleared, DropOrderEntry(cleared, "revenue"), {kv})
      /\ At(DropOrderEntry(cleared, "revenue"), kv) = {}
      /\ Changes(cleared, ReplaceOrderEntry(cleared, "revenue", Lines(amounts)), {kv})
  BY <1>4, <1>5, DropChanges, ReplaceChanges
<1>7. Changes(cleared, d2, {kv}) BY <1>3, <1>6
<1>8. kr \in OrderKeys /\ kv \in OrderKeys /\ kr # kv
  BY KeysDiffer DEF OrderKeys, OrderTexts
<1> HIDE DEF kr, kv
<1>9. Changes(d, d2, OrderKeys)
  <2>1. Changes(d, cleared, OrderKeys) /\ Changes(cleared, d2, OrderKeys)
    BY <1>1, <1>7, <1>8, ChangesMore
  <2> QED BY <2>1, ChangesThrough
<1>10. At(d2, kr) = {} BY <1>1, <1>7, <1>8, ChangesElsewhere
<1> QED BY <1>3, <1>6, <1>9, <1>10 DEF d2, kr, kv

LEMMA ReturnChanges ==
  ASSUME NEW d, Tidy(d)
  PROVE  Changes(d, ReturnTienRut(d), {OrderKey("return")})
<1> DEFINE amounts == [tien_rut |-> HeldTienRut(d), asset |-> -HeldTienRut(d)]
<1>1. \A a \in DOMAIN amounts : amounts[a] \in Int BY HeldIsWhole DEF Tidy
<1>2. ReturnTienRut(d) \in {DropOrderEntry(d, "return"),
                            ReplaceOrderEntry(d, "return", Lines(amounts))}
  BY DEF ReturnTienRut
<1> HIDE DEF amounts
<1>3. Lines(amounts) \in LinesSet /\ "return" \in OrderTexts
  BY <1>1, LinesAreWhole DEF OrderTexts
<1> QED BY <1>2, <1>3, DropChanges, ReplaceChanges

\* What recognition leaves of the revenue and of the receivable.
RecognisedFrom(d, d2) ==
  IF IsUnpaid(d)
  THEN At(d2, OrderKey("revenue")) = At(d, OrderKey("revenue"))
  ELSE /\ At(d2, OrderKey("receivable")) = {}
       /\ At(d2, OrderKey("revenue")) # {} => DepositBalance(d) # 0

LEMMA ReconcileChanges ==
  ASSUME NEW d, Tidy(d)
  PROVE  LET d2 == ReconcileRevenue(d)
         IN  Changes(d, d2, OrderKeys) /\ RecognisedFrom(d, d2)
<1> DEFINE recognised == IF IsUnpaid(d) THEN RecogniseReceivable(d) ELSE RecogniseDeposits(d)
           d2 == ReconcileRevenue(d)
           kr == OrderKey("receivable")
           kv == OrderKey("revenue")
           kt == OrderKey("return")
<1>1. /\ kr \in OrderKeys /\ kv \in OrderKeys /\ kt \in OrderKeys
      /\ kr # kv /\ kv # kt /\ kr # kt
  BY KeysDiffer DEF OrderKeys, OrderTexts
<1>2. Changes(d, recognised, OrderKeys) /\ RecognisedFrom(d, recognised)
  <2>1. CASE IsUnpaid(d)
    <3>1. Changes(d, RecogniseReceivable(d), {kr}) BY ReceivableChanges
    <3> HIDE DEF kr, kv
    <3>2. /\ Changes(d, RecogniseReceivable(d), OrderKeys)
          /\ At(RecogniseReceivable(d), kv) = At(d, kv)
      BY <1>1, <3>1, ChangesMore, ChangesElsewhere
    <3> QED BY <2>1, <3>2 DEF RecognisedFrom, kv
  <2>2. CASE ~IsUnpaid(d)
    BY <2>2, DepositsChange DEF RecognisedFrom
  <2> QED BY <2>1, <2>2
<1>3. d2 = ReturnTienRut(recognised) BY DEF ReconcileRevenue
<1> HIDE DEF recognised, d2
<1>4. Changes(recognised, d2, {kt}) BY <1>2, <1>3, ReturnChanges DEF Changes
<1> HIDE DEF kt
<1>5. At(d2, kr) = At(recognised, kr) /\ At(d2, kv) = At(recognised, kv)
  <2> HIDE DEF kr, kv
  <2> QED BY <1>1, <1>4, ChangesElsewhere
<1>6. Changes(d, d2, OrderKeys)
  <2>1. Changes(recognised, d2, OrderKeys) BY <1>1, <1>4, ChangesMore
  <2> QED BY <1>2, <2>1, ChangesThrough
<1>7. RecognisedFrom(d, d2) BY <1>2, <1>5 DEF RecognisedFrom
<1> QED BY <1>6, <1>7 DEF d2

\* What moves no payment.
OrderSide == OrderKeys \union {ReleaseKey}

LEMMA HandOverChanges ==
  ASSUME NEW d, Tidy(d)
  PROVE  LET d2 == SyncHandedOver(d)
         IN  Changes(d, d2, OrderSide) /\ RecognisedFrom(d, d2)
<1> DEFINE mid == ReconcileRevenue(d)
           d2 == SyncHandedOver(d)
           kr == OrderKey("receivable")
           kv == OrderKey("revenue")
<1>1. Changes(d, mid, OrderKeys) /\ RecognisedFrom(d, mid) BY ReconcileChanges
<1>2. d2 = SyncBusShippingRelease(mid) BY DEF SyncHandedOver
<1> HIDE DEF mid, d2
<1>3. Changes(mid, d2, {ReleaseKey}) BY <1>1, <1>2, ReleaseChanges DEF Changes
<1>4. kr # ReleaseKey /\ kv # ReleaseKey BY KeysDiffer
<1>5. At(d2, kr) = At(mid, kr) /\ At(d2, kv) = At(mid, kv)
  <2> HIDE DEF kr, kv
  <2> QED BY <1>3, <1>4, ChangesElsewhere
<1>6. Changes(d, d2, OrderSide)
  <2>1. OrderKeys \subseteq OrderSide /\ {ReleaseKey} \subseteq OrderSide BY DEF OrderSide
  <2>2. Changes(d, mid, OrderSide) /\ Changes(mid, d2, OrderSide)
    BY <1>1, <1>3, <2>1, ChangesMore
  <2> QED BY <2>2, ChangesThrough
<1>7. RecognisedFrom(d, d2) BY <1>1, <1>5 DEF RecognisedFrom
<1> QED BY <1>6, <1>7 DEF d2

OnlyPayments(d) == \A e \in d.journal : IsPayment(e)

LEMMA CancelChanges ==
  ASSUME NEW d, Tidy(d)
  PROVE  LET d2 == SyncCancelled(d)
         IN  Changes(d, d2, OrderSide) /\ OnlyPayments(d2)
<1> DEFINE kr == OrderKey("receivable")
           kv == OrderKey("revenue")
           kt == OrderKey("return")
           d1 == DropOrderEntry(d, "revenue")
           d2 == DropOrderEntry(d1, "receivable")
           d3 == DropOrderEntry(d2, "return")
           d4 == DropRelease(d3)
<1>1. SyncCancelled(d) = d4 BY DEF SyncCancelled
<1>2. /\ {kr} \subseteq OrderSide /\ {kv} \subseteq OrderSide /\ {kt} \subseteq OrderSide
      /\ {ReleaseKey} \subseteq OrderSide
      /\ kr # kv /\ kv # kt /\ kr # kt
      /\ kr # ReleaseKey /\ kv # ReleaseKey /\ kt # ReleaseKey
  BY KeysDiffer DEF OrderKeys, OrderTexts, OrderSide
<1>3. Changes(d, d1, {kv}) /\ At(d1, kv) = {} BY DropChanges
<1> HIDE DEF d1
<1>4. Changes(d1, d2, {kr}) /\ At(d2, kr) = {} BY <1>3, DropChanges DEF Changes
<1> HIDE DEF d2
<1>5. Changes(d2, d3, {kt}) /\ At(d3, kt) = {} BY <1>4, DropChanges DEF Changes
<1> HIDE DEF d3
<1>6. Changes(d3, d4, {ReleaseKey}) /\ At(d4, ReleaseKey) = {}
  BY <1>5, DropReleaseChanges DEF Changes
<1> HIDE DEF d4
<1>7. Changes(d, d4, OrderSide)
  <2>1. /\ Changes(d, d1, OrderSide) /\ Changes(d1, d2, OrderSide)
        /\ Changes(d2, d3, OrderSide) /\ Changes(d3, d4, OrderSide)
    <3> HIDE DEF kr, kv, kt
    <3> QED BY <1>2, <1>3, <1>4, <1>5, <1>6, ChangesMore
  <2> QED BY <2>1, ChangesThrough
<1>8. At(d4, kv) = {} /\ At(d4, kr) = {} /\ At(d4, kt) = {}
  <2> HIDE DEF kr, kv, kt
  <2>1. At(d2, kv) = {} BY <1>2, <1>3, <1>4, ChangesElsewhere
  <2>2. At(d3, kv) = {} /\ At(d3, kr) = {} BY <1>2, <1>4, <1>5, <2>1, ChangesElsewhere
  <2> QED BY <1>2, <1>5, <1>6, <2>2, ChangesElsewhere
<1>9. OnlyPayments(d4)
  <2>1. SUFFICES ASSUME NEW e \in d4.journal, ~IsPayment(e) PROVE FALSE BY DEF OnlyPayments
  <2>2. IsRelease(e) \/ IsOrderEntry(e) BY <1>6, <2>1 DEF Changes, Tidy, Shaped
  <2>3. Key(e) = ReleaseKey \/ Key(e) \in {kv, kr, kt}
    BY <2>2 DEF IsRelease, IsOrderEntry, OrderTexts, Key, ReleaseKey, OrderKey
  <2> HIDE DEF kr, kv, kt
  <2> QED BY <1>6, <1>8, <2>3 DEF At
<1> QED BY <1>1, <1>7, <1>9

-----------------------------------------------------------------------------
(***************************************************************************)
(* One request at a time, and no period closed: what a request has read is *)
(* still so when it writes, and the books are as above between any two     *)
(* steps.                                                                  *)
(***************************************************************************)
OneAtATime == \A v, w \in Workers : v = w

NeverClosed == "close_books" \notin Practices

AllIdle == \A w \in Workers : pending[w] = Idle

\* What the handler saw before it goes on to write.
Fresh(p) ==
  /\ p.op \in {"delete", "invalidate", "restore", "method"} => p.txn \in db.txns
  /\ p.op \in {"delete", "invalidate"} => PaysAsPractised(db.txns \ {p.txn})
  /\ p.op = "restore" => PaysAsPractised(db.txns \union {[p.txn EXCEPT !.valid = TRUE]})
  /\ p.op = "restore" => ~p.txn.valid
  /\ p.op = "method" => p.txn.valid \/ "touch_void" \in Practices
  /\ p.op = "edit" =>
       /\ p.was = db.order /\ p.was.status # "cancelled"
       /\ HasVoid(db) => "touch_void" \in Practices
       /\ "delivery" \in DOMAIN p.patch /\ db.lastTxn > 0 => "switch" \in Practices
  /\ p.op = "status" =>
       /\ p.from = db.order.status
       /\ StepsBack(p.from, p.target) => "step_back" \in Practices

CalmInv ==
  /\ BooksInv
  /\ Tidy(db) /\ Tidy(tx)
  /\ \A w \in Workers : Fresh(pending[w])
  /\ ~LockFree => AllIdle

\* The steps that read only.
Reading ==
  \/ \E w \in Workers, t \in db.txns, op \in {"delete", "invalidate", "restore"} :
       ReadTransaction(w, op, t)
  \/ \E w \in Workers, t \in db.txns : ReadPaymentMethod(w, t)
  \/ \E w \in Workers, patch \in Patches : ReadEdit(w, patch)
  \/ \E w \in Workers, target \in Targets : ReadStatus(w, target)
  \/ \E w \in Workers : Drop(w)
  \/ UNCHANGED vars

LEMMA ReadingLeaves == Reading => UNCHANGED <<db, tx, left>>
BY DEF Reading, ReadTransaction, ReadPaymentMethod, ReadEdit, ReadStatus, Reads, Drop, vars

LEMMA IdleIsFresh ==
  ASSUME NEW p, p = Idle PROVE Fresh(p) /\ Fresh(p)'
BY DEF Fresh, Idle

\* The steps that write: what each leaves in the database.
Writing ==
  \/ \E type \in TransactionType, amount \in Amounts : CreateTransaction(type, amount)
  \/ \E type \in TransactionType, amount \in Amounts, t \in db.txns :
       UpdateTransaction(t, type, amount)
  \/ \E amount \in Amounts : RecordPayment(amount)
  \/ \E w \in Workers : \/ DeleteTransaction(w) \/ InvalidateTransaction(w)
                        \/ RestoreTransaction(w)
  \/ \E w \in Workers : UpdatePaymentMethod(w)
  \/ \E w \in Workers : BeginEdit(w)
  \/ ResyncOne
  \/ \E w \in Workers : WriteStatus(w)
  \/ \E derived \in Targets : SyncFromItems(derived)

LEMMA ReadsOrWrites ==
  ASSUME NeverClosed, [Next]_vars PROVE Reading \/ Writing
BY DEF NeverClosed, LockJournal, Next, Reading, Writing

LEMMA WriterIsAlone ==
  ASSUME OneAtATime, CalmInv, Writing
  PROVE  AllIdle'
<1>1. pending \in [Workers -> Request] BY DEF CalmInv, BooksInv
<1>2. \/ \E w \in Workers : Answered(w)
      \/ UNCHANGED pending /\ (~LockFree \/ \E w \in Workers : pending[w] = Idle)
  BY DEF Writing, CreateTransaction, UpdateTransaction, RecordPayment, DeleteTransaction,
         InvalidateTransaction, RestoreTransaction, UpdatePaymentMethod, BeginEdit,
         ResyncOne, WriteStatus, SyncFromItems, Served
<1>3. CASE \E w \in Workers : Answered(w)
  BY <1>1, <1>3 DEF Answered, OneAtATime, AllIdle
<1>4. CASE UNCHANGED pending /\ ~LockFree BY <1>4 DEF CalmInv, AllIdle
<1>5. CASE UNCHANGED pending /\ \E w \in Workers : pending[w] = Idle
  BY <1>5 DEF OneAtATime, AllIdle
<1> QED BY <1>2, <1>3, <1>4, <1>5

LEMMA ReadingIsFresh ==
  ASSUME CalmInv, Reading PROVE \A w \in Workers : Fresh(pending[w])'
<1>1. UNCHANGED <<db, tx, left>> BY ReadingLeaves
<1>2. \A p : Fresh(p) => Fresh(p)'
  BY <1>1 DEF Fresh, PaysAsPractised, IsHandedOver
<1>3. pending \in [Workers -> Request] /\ \A w \in Workers : Fresh(pending[w])
  BY DEF CalmInv, BooksInv
<1>4. CASE UNCHANGED pending BY <1>2, <1>3, <1>4
<1>5. ASSUME NEW w \in Workers, NEW r, Fresh(r), pending' = [pending EXCEPT ![w] = r]
      PROVE  \A v \in Workers : Fresh(pending[v])'
  <2>1. \A v \in Workers : pending'[v] = r \/ pending'[v] = pending[v] BY <1>3, <1>5
  <2>2. \A v \in Workers : Fresh(pending'[v]) BY <1>3, <1>5, <2>1
  <2>3. SUFFICES ASSUME NEW v \in Workers PROVE Fresh(pending[v])' OBVIOUS
  <2>4. CASE pending'[v] = r
    <3>1. Fresh(r)' BY <1>2, <1>5
    <3> QED BY <2>4, <3>1 DEF Fresh
  <2>5. CASE pending'[v] = pending[v]
    <3> DEFINE p == pending[v]
    <3>1. Fresh(p) BY <1>3
    <3> QED BY <1>1, <2>5, <3>1 DEF Fresh, PaysAsPractised, IsHandedOver
  <2> QED BY <2>1, <2>4, <2>5
<1>6. CASE \E w \in Workers, t \in db.txns, op \in {"delete", "invalidate", "restore"} :
             ReadTransaction(w, op, t)
  <2>1. PICK w \in Workers, t \in db.txns, op \in {"delete", "invalidate", "restore"} :
          ReadTransaction(w, op, t)
    BY <1>6
  <2>2. Fresh([op |-> op, txn |-> t]) BY <2>1 DEF ReadTransaction, Fresh
  <2> QED BY <1>5, <2>1, <2>2 DEF ReadTransaction, Reads
<1>7. CASE \E w \in Workers, t \in db.txns : ReadPaymentMethod(w, t)
  <2>1. PICK w \in Workers, t \in db.txns : ReadPaymentMethod(w, t) BY <1>7
  <2>2. Fresh([op |-> "method", txn |-> t]) BY <2>1 DEF ReadPaymentMethod, Fresh
  <2> QED BY <1>5, <2>1, <2>2 DEF ReadPaymentMethod, Reads
<1>8. CASE \E w \in Workers, patch \in Patches : ReadEdit(w, patch)
  <2>1. PICK w \in Workers, patch \in Patches : ReadEdit(w, patch) BY <1>8
  <2>2. Fresh([op |-> "edit", was |-> db.order, patch |-> patch])
    BY <2>1 DEF ReadEdit, Fresh
  <2> QED BY <1>5, <2>1, <2>2 DEF ReadEdit, Reads
<1>9. CASE \E w \in Workers, target \in Targets : ReadStatus(w, target)
  <2>1. PICK w \in Workers, target \in Targets : ReadStatus(w, target) BY <1>9
  <2>2. Fresh([op |-> "status", from |-> db.order.status, target |-> target])
    BY <2>1 DEF ReadStatus, Fresh
  <2> QED BY <1>5, <2>1, <2>2 DEF ReadStatus, Reads
<1>10. CASE \E w \in Workers : Drop(w)
  <2>1. Fresh(Idle) BY IdleIsFresh
  <2> QED BY <1>5, <1>10, <2>1 DEF Drop, Answered
<1>11. CASE UNCHANGED vars BY <1>4, <1>11 DEF vars
<1> QED BY <1>6, <1>7, <1>8, <1>9, <1>10, <1>11 DEF Reading

-----------------------------------------------------------------------------
(***************************************************************************)
(* The write phases that book a payment, and those that take one back.     *)
(***************************************************************************)
Paid(d) == TotalPaidExclOutflows(d) - TotalTienRut(d) - TotalOutflows(d)

PaysLess(d) == IsHandedOver /\ Paid(d) < Paid(db)

\* The rows of d are those of the database, but for the one with this id.
OtherRowsStay(d, id) ==
  /\ Tidy(d) /\ d.journal = db.journal /\ d.order = db.order /\ db.lastTxn <= d.lastTxn
  /\ \A t : t.id # id => (t \in d.txns <=> t \in db.txns)
  /\ PaysLess(d) => {"unpay", "late_payment"} \subseteq Practices

\* A bus order is not paid less, and no order less than nothing.
Practised(d) ==
  /\ IsBus(db) /\ Paid(d) < Paid(db) => "unpay" \in Practices
  /\ Paid(d) < 0 => "over_refund" \in Practices \/ Paid(d) = Paid(db)

Books(d, u) ==
  /\ OtherRowsStay(d, u.id) /\ Practised(d)
  /\ u \in d.txns
  /\ u.valid \/ "touch_void" \in Practices
  /\ db' = SyncPayment(d, u)

TakesBack(d, t) ==
  /\ OtherRowsStay(d, t.id) /\ Practised(d)
  /\ t \in db.txns /\ d.lastTxn = db.lastTxn
  /\ \A u \in d.txns : u.id = t.id => ~u.valid
  /\ db' = UnsyncPayment(d, t)

Committed == LockFree /\ left' = {} /\ tx' = db'

LEMMA TidyRows ==
  ASSUME NEW d, Tidy(d), NEW d2, Ledger(d2), d2.journal = d.journal, d.lastTxn <= d2.lastTxn
  PROVE  Tidy(d2)
<1>1. d.lastTxn \in Nat /\ d2.lastTxn \in Nat BY LedgerEntry DEF Tidy
<1>2. \A e \in d.journal : e.of \in Nat BY LedgerEntry DEF Tidy, Entry
<1> QED BY <1>1, <1>2 DEF Tidy

LEMMA SameTotals ==
  ASSUME NEW d, NEW d2, \A t : t.valid => (t \in d.txns <=> t \in d2.txns)
  PROVE  /\ \A types : TotalOf(d, types) = TotalOf(d2, types)
         /\ Paid(d) = Paid(d2)
<1>1. ASSUME NEW types PROVE TotalOf(d, types) = TotalOf(d2, types)
  <2>1. {t \in d.txns : t.valid /\ t.type \in types}
          = {t \in d2.txns : t.valid /\ t.type \in types}
    OBVIOUS
  <2> QED BY <2>1 DEF TotalOf
<1> QED BY <1>1 DEF Paid, TotalPaidExclOutflows, TotalTienRut, TotalOutflows

LEMMA PaidIsWhole ==
  ASSUME NEW d, Ledger(d) PROVE Paid(d) \in Int
BY TotalIsWhole DEF Paid, TotalPaidExclOutflows, TotalTienRut, TotalOutflows

\* What is practised of the rows txns holds of d, which has the same valid ones.
LEMMA PractisedPays ==
  ASSUME CalmInv, NEW txns, PaysAsPractised(txns), NEW d, Ledger(d),
         \A t : t.valid => (t \in d.txns <=> t \in txns)
  PROVE  /\ PaysLess(d) => {"unpay", "late_payment"} \subseteq Practices
         /\ Practised(d)
<1> DEFINE after == [db EXCEPT !.txns = txns]
<1>1. after.txns = txns BY DEF CalmInv, BooksInv, Ledger, Database
<1>2. PaysAsPractised(txns) =>
        /\ Paid(after) < Paid(db) /\ (IsHandedOver \/ IsBus(db)) => "unpay" \in Practices
        /\ txns # db.txns /\ IsHandedOver => "late_payment" \in Practices
        /\ Paid(after) < 0 => "over_refund" \in Practices
  BY DEF PaysAsPractised, Paid
<1> HIDE DEF after
<1>3. Paid(d) = Paid(after) BY <1>1, SameTotals
<1>4. txns = db.txns => Paid(d) = Paid(db) BY SameTotals
<1>5. Paid(d) \in Int /\ Paid(db) \in Int BY PaidIsWhole DEF CalmInv, BooksInv
<1>6. Practised(d) BY <1>2, <1>3, <1>5 DEF Practised
<1> QED BY <1>2, <1>3, <1>4, <1>5, <1>6 DEF PaysLess

LEMMA CreateBooks ==
  ASSUME CalmInv, NEW type \in TransactionType, NEW amount \in Amounts,
         CreateTransaction(type, amount)
  PROVE  Committed /\ \E d, u : Books(d, u)
<1> DEFINE t == NewTransaction(db, type, amount)
           saved == Save(db, t)
<1>1. t \in Transaction /\ Ledger(saved) BY SaveKeeps DEF CalmInv, BooksInv
<1>2. /\ saved.journal = db.journal /\ saved.order = db.order
      /\ saved.txns = db.txns \union {t} /\ saved.lastTxn = t.id
  BY DEF Save, CalmInv, BooksInv, Ledger, Database
<1>3. t.id = db.lastTxn + 1 /\ t.valid BY DEF NewTransaction
<1>4. /\ db' = SyncPayment(saved, t) /\ Committed
      /\ PaysAsPractised(db.txns \union {t})
  BY DEF CreateTransaction, CommitNow, Committed, Served, LockFree
<1> HIDE DEF t, saved
<1>5. db.lastTxn <= saved.lastTxn
  BY <1>2, <1>3, LedgerEntry DEF CalmInv, BooksInv
<1>6. Tidy(saved) BY <1>1, <1>2, <1>5, TidyRows DEF CalmInv
<1>7. Practised(saved) /\ (PaysLess(saved) => {"unpay", "late_payment"} \subseteq Practices)
  BY <1>1, <1>2, <1>4, PractisedPays
<1>8. Books(saved, t)
  BY <1>2, <1>3, <1>4, <1>5, <1>6, <1>7 DEF Books, OtherRowsStay
<1> QED BY <1>4, <1>8

LEMMA UpdateBooks ==
  ASSUME CalmInv, NEW type \in TransactionType, NEW amount \in Amounts, NEW t \in db.txns,
         UpdateTransaction(t, type, amount)
  PROVE  Committed /\ \E d, u : Books(d, u)
<1> DEFINE u == [t EXCEPT !.type = type, !.amount = amount]
           txns == (db.txns \ {t}) \union {u}
           updated == [db EXCEPT !.txns = txns]
<1>1. /\ db' = SyncPayment(updated, u) /\ Committed /\ PaysAsPractised(txns)
      /\ ~t.valid => "touch_void" \in Practices
  BY DEF UpdateTransaction, CommitNow, Committed, Served, LockFree
<1>2. u \in Transaction /\ u.id = t.id /\ u.valid = t.valid
  <2>1. t \in Transaction BY LedgerEntry DEF CalmInv, BooksInv
  <2> QED BY <2>1 DEF Transaction
<1> HIDE DEF u
<1>3. Ledger(updated) BY <1>2, ReplaceRow DEF CalmInv, BooksInv
<1>4. /\ updated.journal = db.journal /\ updated.order = db.order
      /\ updated.txns = txns /\ updated.lastTxn = db.lastTxn
  BY DEF CalmInv, BooksInv, Ledger, Database
<1> HIDE DEF updated
<1>5. db.lastTxn <= updated.lastTxn BY <1>4, LedgerEntry DEF CalmInv, BooksInv
<1>6. Tidy(updated) BY <1>3, <1>4, <1>5, TidyRows DEF CalmInv
<1>7. Practised(updated) /\ (PaysLess(updated) => {"unpay", "late_payment"} \subseteq Practices)
  BY <1>1, <1>3, <1>4, PractisedPays
<1>8. \A x : x.id # u.id => (x \in updated.txns <=> x \in db.txns) BY <1>2, <1>4
<1>9. Books(updated, u)
  BY <1>1, <1>2, <1>4, <1>5, <1>6, <1>7, <1>8 DEF Books, OtherRowsStay
<1> QED BY <1>1, <1>9

\* The entry says nothing of whether the transaction is valid.
LEMMA SyncOfRow ==
  ASSUME NEW d, NEW t, NEW u, u.id = t.id, u.type = t.type, u.amount = t.amount
  PROVE  SyncPayment(d, t) = SyncPayment(d, u)
<1>1. OwnEntries(d, t) = OwnEntries(d, u) BY DEF OwnEntries
<1>2. ShippingPortion(d, t) = ShippingPortion(d, u) BY <1>1 DEF ShippingPortion
<1>3. PaymentLines(d, t) = PaymentLines(d, u) BY <1>2 DEF PaymentLines
<1>4. \A x, lines : PostPayment(x, t, lines) = PostPayment(x, u, lines) BY DEF PostPayment
<1> QED BY <1>1, <1>3, <1>4 DEF SyncPayment

\* The row of a transaction that is in the database, with another validity.
LEMMA SetValidOf ==
  ASSUME NEW d, Tidy(d), NEW t \in d.txns, NEW valid \in BOOLEAN
  PROVE  LET u == [t EXCEPT !.valid = valid]
             d2 == SetValid(d, t, valid)
         IN  /\ Tidy(d2) /\ u \in Transaction /\ u.valid = valid
             /\ u.id = t.id /\ u.type = t.type /\ u.amount = t.amount
             /\ d2.txns = (d.txns \ {t}) \union {u}
             /\ d2.journal = d.journal /\ d2.order = d.order /\ d2.lastTxn = d.lastTxn
<1> DEFINE u == [t EXCEPT !.valid = valid]
           txns == (d.txns \ {t}) \union {u}
           d2 == SetValid(d, t, valid)
<1>1. d \in Database /\ Ledger(d) BY DEF Tidy, Ledger
<1>2. RowOf(d, t) = {t} BY <1>1 DEF RowOf, Ledger
<1>3. d2 = [d EXCEPT !.txns = txns]
  <2>1. {[x EXCEPT !.valid = valid] : x \in RowOf(d, t)} = {u} BY <1>2
  <2> QED BY <1>2, <2>1 DEF SetValid
<1>4. /\ u \in Transaction /\ u.valid = valid
      /\ u.id = t.id /\ u.type = t.type /\ u.amount = t.amount
  <2>1. t \in Transaction BY <1>1, LedgerEntry
  <2> QED BY <2>1 DEF Transaction
<1>5. /\ d2.txns = txns /\ d2.journal = d.journal /\ d2.order = d.order
      /\ d2.lastTxn = d.lastTxn
  BY <1>1, <1>3 DEF Database
<1>6. Ledger(d2) BY <1>1, SetValidKeeps
<1> HIDE DEF u, d2
<1>7. d.lastTxn <= d2.lastTxn BY <1>1, <1>5, LedgerEntry
<1>8. Tidy(d2) BY <1>5, <1>6, <1>7, TidyRows
<1> QED BY <1>4, <1>5, <1>8 DEF u, d2

LEMMA RestoreBooks ==
  ASSUME CalmInv, NEW w \in Workers, RestoreTransaction(w)
  PROVE  Committed /\ \E d, u : Books(d, u)
<1> DEFINE t == pending[w].txn
           u == [t EXCEPT !.valid = TRUE]
           back == SetValid(db, t, TRUE)
<1>1. pending[w].op = "restore" /\ db' = SyncPayment(back, t) /\ Committed
  BY DEF RestoreTransaction, CommitNow, Committed, LockFree
<1>2. /\ t \in db.txns /\ ~t.valid /\ PaysAsPractised(db.txns \union {u})
  BY <1>1 DEF CalmInv, Fresh
<1> HIDE DEF t
<1>3. /\ Tidy(back) /\ u \in Transaction /\ u.valid = TRUE
      /\ u.id = t.id /\ u.type = t.type /\ u.amount = t.amount
      /\ back.txns = (db.txns \ {t}) \union {u}
      /\ back.journal = db.journal /\ back.order = db.order /\ back.lastTxn = db.lastTxn
  BY <1>2, SetValidOf DEF CalmInv
<1> HIDE DEF u, back
<1>4. db' = SyncPayment(back, u) BY <1>1, <1>3, SyncOfRow
<1>5. \A x : x.valid => (x \in back.txns <=> x \in db.txns \union {u}) BY <1>2, <1>3
<1>6. Practised(back) /\ (PaysLess(back) => {"unpay", "late_payment"} \subseteq Practices)
  BY <1>2, <1>3, <1>5, PractisedPays DEF Tidy
<1>7. db.lastTxn <= back.lastTxn BY <1>3, LedgerEntry DEF CalmInv, BooksInv
<1>8. \A x : x.id # u.id => (x \in back.txns <=> x \in db.txns) BY <1>3
<1>9. Books(back, u) BY <1>3, <1>4, <1>6, <1>7, <1>8 DEF Books, OtherRowsStay
<1> QED BY <1>1, <1>9

LEMMA MethodBooks ==
  ASSUME CalmInv, NEW w \in Workers, UpdatePaymentMethod(w)
  PROVE  Committed /\ \E d, u : Books(d, u)
<1> DEFINE t == pending[w].txn
<1>1. pending[w].op = "method" /\ db' = SyncPayment(db, t) /\ Committed
  BY DEF UpdatePaymentMethod, CommitNow, Committed, LockFree
<1>2. t \in db.txns /\ (t.valid \/ "touch_void" \in Practices)
  BY <1>1 DEF CalmInv, Fresh
<1> HIDE DEF t
<1>3. ~PaysLess(db) /\ Practised(db)
  <2>1. Paid(db) \in Int BY PaidIsWhole DEF CalmInv, BooksInv
  <2> QED BY <2>1 DEF PaysLess, Practised
<1>4. db.lastTxn <= db.lastTxn BY LedgerEntry DEF CalmInv, BooksInv
<1>5. Books(db, t) BY <1>1, <1>2, <1>3, <1>4 DEF Books, OtherRowsStay, CalmInv
<1> QED BY <1>1, <1>5

LEMMA DeleteTakesBack ==
  ASSUME CalmInv, NEW w \in Workers, DeleteTransaction(w)
  PROVE  Committed /\ \E d, t : TakesBack(d, t)
<1> DEFINE t == pending[w].txn
           gone == [db EXCEPT !.txns = db.txns \ {t}]
<1>1. /\ pending[w].op = "delete" /\ Committed
      /\ db' = UnsyncPayment([db EXCEPT !.txns = @ \ RowOf(db, t)], t)
  BY DEF DeleteTransaction, CommitNow, Committed, LockFree
<1>2. t \in db.txns /\ PaysAsPractised(db.txns \ {t})
  BY <1>1 DEF CalmInv, Fresh
<1> HIDE DEF t
<1>3. RowOf(db, t) = {t} BY <1>2 DEF RowOf, CalmInv, BooksInv, Ledger
<1>4. db' = UnsyncPayment(gone, t) BY <1>1, <1>3
<1>5. Ledger(gone) BY RemoveRow DEF CalmInv, BooksInv
<1>6. /\ gone.journal = db.journal /\ gone.order = db.order
      /\ gone.txns = db.txns \ {t} /\ gone.lastTxn = db.lastTxn
  BY DEF CalmInv, BooksInv, Ledger, Database
<1> HIDE DEF gone
<1>7. db.lastTxn <= gone.lastTxn BY <1>6, LedgerEntry DEF CalmInv, BooksInv
<1>8. Tidy(gone) BY <1>5, <1>6, <1>7, TidyRows DEF CalmInv
<1>9. Practised(gone) /\ (PaysLess(gone) => {"unpay", "late_payment"} \subseteq Practices)
  BY <1>2, <1>5, <1>6, PractisedPays
<1>10. /\ \A x : x.id # t.id => (x \in gone.txns <=> x \in db.txns)
       /\ \A x \in gone.txns : x.id # t.id
  BY <1>2, <1>6 DEF CalmInv, BooksInv, Ledger
<1>11. TakesBack(gone, t)
  BY <1>2, <1>4, <1>6, <1>7, <1>8, <1>9, <1>10 DEF TakesBack, OtherRowsStay
<1> QED BY <1>1, <1>11

LEMMA InvalidateTakesBack ==
  ASSUME CalmInv, NEW w \in Workers, InvalidateTransaction(w)
  PROVE  Committed /\ \E d, t : TakesBack(d, t)
<1> DEFINE t == pending[w].txn
           u == [t EXCEPT !.valid = FALSE]
           void == SetValid(db, t, FALSE)
<1>1. pending[w].op = "invalidate" /\ Committed /\ db' = UnsyncPayment(void, t)
  BY DEF InvalidateTransaction, CommitNow, Committed, LockFree
<1>2. t \in db.txns /\ PaysAsPractised(db.txns \ {t})
  BY <1>1 DEF CalmInv, Fresh
<1> HIDE DEF t
<1>3. /\ Tidy(void) /\ u.valid = FALSE /\ u.id = t.id
      /\ void.txns = (db.txns \ {t}) \union {u}
      /\ void.journal = db.journal /\ void.order = db.order /\ void.lastTxn = db.lastTxn
  <2>1. /\ Tidy(void) /\ u \in Transaction /\ u.valid = FALSE
        /\ u.id = t.id /\ u.type = t.type /\ u.amount = t.amount
        /\ void.txns = (db.txns \ {t}) \union {u}
        /\ void.journal = db.journal /\ void.order = db.order /\ void.lastTxn = db.lastTxn
    BY <1>2, SetValidOf DEF CalmInv
  <2> QED BY <2>1
<1> HIDE DEF u, void
<1>4. db.lastTxn <= void.lastTxn BY <1>3, LedgerEntry DEF CalmInv, BooksInv
<1>5. \A x : x.valid => (x \in void.txns <=> x \in db.txns \ {t}) BY <1>3
<1>6. Practised(void) /\ (PaysLess(void) => {"unpay", "late_payment"} \subseteq Practices)
  BY <1>2, <1>3, <1>5, PractisedPays DEF Tidy
<1>7. /\ \A x : x.id # t.id => (x \in void.txns <=> x \in db.txns)
      /\ \A x \in void.txns : x.id = t.id => ~x.valid
  BY <1>2, <1>3 DEF CalmInv, BooksInv, Ledger
<1>8. TakesBack(void, t)
  BY <1>1, <1>2, <1>3, <1>4, <1>6, <1>7 DEF TakesBack, OtherRowsStay
<1> QED BY <1>1, <1>8

\* A deposit that is recorded and not booked.
Records ==
  /\ OtherRowsStay(db', db.lastTxn + 1) /\ db'.lastTxn = db.lastTxn + 1
  /\ "unbooked" \in Practices

LEMMA MoreIsPaid ==
  ASSUME CalmInv, NEW d, NEW t \in Transaction, t \notin db.txns, t.type = "deposit",
         d.txns = db.txns \union {t}, Ledger(d)
  PROVE  ~PaysLess(d)
<1> DEFINE paying == {"deposit", "tien_rut"}
<1>1. Ledger(db) BY DEF CalmInv, BooksInv
<1>2. /\ TotalTienRut(d) = TotalTienRut(db) /\ TotalOutflows(d) = TotalOutflows(db)
  <2>1. /\ {r \in d.txns : r.valid /\ r.type \in {"tien_rut"}}
             = {r \in db.txns : r.valid /\ r.type \in {"tien_rut"}}
        /\ {r \in d.txns : r.valid /\ r.type \in {"refund"}}
             = {r \in db.txns : r.valid /\ r.type \in {"refund"}}
    OBVIOUS
  <2> QED BY <2>1 DEF TotalTienRut, TotalOutflows, TotalOf
<1>3. TotalOf(db, paying) <= TotalOf(d, paying)
  <2> DEFINE S == {r \in db.txns : r.valid /\ r.type \in paying}
             T == {r \in d.txns : r.valid /\ r.type \in paying}
             f == [r \in S |-> r.amount]
             g == [r \in T |-> r.amount]
  <2>1. T = S \/ T = S \union {t} OBVIOUS
  <2>2. TotalOf(db, paying) = SumFunctionOnSet(f, S) /\ TotalOf(d, paying) = SumFunctionOnSet(g, T)
    BY TotalIs
  <2>3. CASE T = S BY <2>2, <2>3, <1>1, TotalIsWhole
  <2>4. CASE T = S \union {t}
    <3>1. IsFiniteSet(S)
      <4>1. S \in SUBSET db.txns OBVIOUS
      <4> QED BY <1>1, <4>1, FS_Subset DEF Ledger
    <3>2. \A r \in Transaction : r.amount \in Nat BY BooksAssumption DEF Transaction
    <3>3. T \subseteq Transaction BY <1>1, <2>4, LedgerEntry
    <3>4. \A r \in S \union {t} : g[r] \in Int BY <2>4, <3>2, <3>3
    <3>5. \A r \in S : f[r] = g[r] BY <2>4
    <3>6. t \notin S OBVIOUS
    <3>7. g[t] \in Nat BY <2>4, <3>2
    <3> HIDE DEF S, T, f, g
    <3>8. SumFunctionOnSet(g, S \union {t}) = g[t] + SumFunctionOnSet(g, S)
      BY ONLY <3>1, <3>4, <3>6, SumAdd
    <3>9. SumFunctionOnSet(f, S) = SumFunctionOnSet(g, S) BY ONLY <3>1, <3>5, SumEqual
    <3>10. TotalOf(db, paying) \in Nat BY <1>1, TotalIsWhole
    <3> QED BY <2>2, <2>4, <3>7, <3>8, <3>9, <3>10
  <2> QED BY <2>1, <2>3, <2>4
<1>4. /\ TotalOf(db, paying) \in Nat /\ TotalOf(d, paying) \in Nat
      /\ TotalTienRut(db) \in Nat /\ TotalOutflows(db) \in Nat
  BY <1>1, TotalIsWhole DEF TotalTienRut, TotalOutflows
<1> QED BY <1>2, <1>3, <1>4 DEF PaysLess, Paid, TotalPaidExclOutflows

LEMMA RecordRecords ==
  ASSUME CalmInv, NEW amount \in Amounts, RecordPayment(amount)
  PROVE  Committed /\ Records
<1> DEFINE t == NewTransaction(db, "deposit", amount)
           saved == Save(db, t)
<1>1. t \in Transaction /\ Ledger(saved)
  BY SaveKeeps DEF CalmInv, BooksInv, TransactionType
<1>2. /\ saved.journal = db.journal /\ saved.order = db.order
      /\ saved.txns = db.txns \union {t} /\ saved.lastTxn = t.id
  BY DEF Save, CalmInv, BooksInv, Ledger, Database
<1>3. t.id = db.lastTxn + 1 /\ t.type = "deposit" BY DEF NewTransaction
<1>4. db' = saved /\ Committed /\ "unbooked" \in Practices
  BY DEF RecordPayment, CommitNow, Committed, Served, LockFree
<1> HIDE DEF t, saved
<1>5. db.lastTxn \in Nat /\ db.lastTxn <= saved.lastTxn
  BY <1>2, <1>3, LedgerEntry DEF CalmInv, BooksInv
<1>6. Tidy(saved) BY <1>1, <1>2, <1>5, TidyRows DEF CalmInv
<1>7. t \notin db.txns BY <1>3, <1>5 DEF CalmInv, BooksInv, Ledger
<1>8. ~PaysLess(saved) BY <1>1, <1>2, <1>3, <1>7, MoreIsPaid
<1>9. OtherRowsStay(saved, db.lastTxn + 1)
  BY <1>2, <1>3, <1>5, <1>6, <1>8 DEF OtherRowsStay
<1> QED BY <1>2, <1>3, <1>4, <1>9 DEF Records

-----------------------------------------------------------------------------
(***************************************************************************)
(* The edit and the status.                                                *)
(***************************************************************************)
\* The order of d is another, and that is all.
LEMMA TidyOrder ==
  ASSUME NEW d, Tidy(d), NEW order \in Order
  PROVE  LET d2 == [d EXCEPT !.order = order]
         IN  /\ Tidy(d2) /\ d2.order = order /\ d2.journal = d.journal
             /\ d2.txns = d.txns /\ d2.lastTxn = d.lastTxn
<1> DEFINE d2 == [d EXCEPT !.order = order]
<1>1. Ledger(d2) BY OtherOrder DEF Tidy
<1>2. /\ d2.order = order /\ d2.journal = d.journal /\ d2.txns = d.txns
      /\ d2.lastTxn = d.lastTxn
  BY DEF Tidy, Ledger, Database
<1> HIDE DEF d2
<1>3. d.lastTxn <= d2.lastTxn BY <1>2, LedgerEntry DEF Tidy
<1> QED BY <1>1, <1>2, <1>3, TidyRows DEF d2

\* An edit's first part: another order, and its revenue reconciled.
Edits(patch) ==
  \E d :
    /\ Tidy(d) /\ d.journal = db.journal /\ d.txns = db.txns /\ d.lastTxn = db.lastTxn
    /\ d.order = EditedOrder(db.order, db.order, patch)
    /\ Changes(d, tx', OrderKeys)
    /\ \/ tx' = d
       \/ IsHandedOver /\ RecognisedFrom(d, tx') /\ tx' = ReconcileRevenue(d)
    /\ left' = IF Resplits(db.order, patch) THEN {t.id : t \in db.txns} ELSE {}
    /\ db' = IF left' = {} THEN tx' ELSE db
    /\ db.order.status # "cancelled"
    /\ HasVoid(db) => "touch_void" \in Practices
    /\ "delivery" \in DOMAIN patch /\ db.lastTxn > 0 => "switch" \in Practices

LEMMA BeginEdits ==
  ASSUME CalmInv, NEW w \in Workers, BeginEdit(w)
  PROVE  LockFree /\ \E patch \in Patches : Edits(patch)
<1> DEFINE was == pending[w].was
           patch == pending[w].patch
           edited == [db EXCEPT !.order = EditedOrder(db.order, was, patch)]
           settled == SettledEdit(db, was, patch)
           again == IF Resplits(was, patch) THEN {t.id : t \in db.txns} ELSE {}
<1>1. /\ tx' = settled /\ left' = again
      /\ db' = IF again = {} THEN settled ELSE db
      /\ pending[w].op = "edit" /\ LockFree
  BY DEF BeginEdit, SettledEdit
<1>2. /\ was = db.order /\ patch \in Patches /\ db.order.status # "cancelled"
      /\ HasVoid(db) => "touch_void" \in Practices
      /\ "delivery" \in DOMAIN patch /\ db.lastTxn > 0 => "switch" \in Practices
  BY <1>1, RequestHolds DEF CalmInv, BooksInv, Fresh
<1> HIDE DEF was, patch
<1>3. EditedOrder(db.order, was, patch) \in Order
  BY <1>2, EditedIsTyped, LedgerEntry DEF CalmInv, BooksInv
<1>4. /\ Tidy(edited) /\ edited.order = EditedOrder(db.order, was, patch)
      /\ edited.journal = db.journal /\ edited.txns = db.txns
      /\ edited.lastTxn = db.lastTxn
  BY <1>3, TidyOrder DEF CalmInv
<1>5. settled = edited \/ (IsHandedOver /\ settled = ReconcileRevenue(edited))
  BY <1>2 DEF SettledEdit, IsHandedOver
<1> HIDE DEF edited, settled
<1>6. /\ Changes(edited, settled, OrderKeys)
      /\ \/ settled = edited
         \/ /\ IsHandedOver /\ RecognisedFrom(edited, settled)
            /\ settled = ReconcileRevenue(edited)
  BY <1>4, <1>5, ReconcileChanges, ChangesNothing
<1>7. Edits(patch)
  BY <1>1, <1>2, <1>4, <1>6 DEF Edits
<1> QED BY <1>1, <1>2, <1>7

Resyncs(t) ==
  /\ t \in tx.txns /\ t.id \in left /\ left' = left \ {t.id}
  /\ tx' = SyncPayment(tx, t)
  /\ db' = IF left' = {} THEN tx' ELSE db

LEMMA ResyncResyncs ==
  ASSUME ResyncOne PROVE ~LockFree /\ \E t : Resyncs(t)
BY DEF ResyncOne, Resyncs

\* The status is written, and what it takes back or recognises is posted.
Moves(target) ==
  \E d, moved :
    /\ Changes(db, d, OrderSide)
    /\ IF target = "cancelled" THEN OnlyPayments(d) ELSE d = db
    /\ Tidy(moved) /\ moved.order = [d.order EXCEPT !.status = target]
    /\ moved.journal = d.journal /\ moved.txns = d.txns /\ moved.lastTxn = d.lastTxn
    /\ StepsBack(db.order.status, target) => "step_back" \in Practices
    /\ \/ db' = moved /\ (target \notin HandedOver \/ target = db.order.status)
       \/ /\ target \in HandedOver
          /\ Changes(moved, db', OrderSide) /\ RecognisedFrom(moved, db')
          /\ db' = SyncHandedOver(moved)

LEMMA StatusIs ==
  ASSUME NEW d, Tidy(d), NEW status \in Statuses
  PROVE  LET d2 == SetStatus(d, status)
         IN  /\ Tidy(d2) /\ d2.order = [d.order EXCEPT !.status = status]
             /\ d2.journal = d.journal /\ d2.txns = d.txns /\ d2.lastTxn = d.lastTxn
<1> DEFINE order == [d.order EXCEPT !.status = status]
<1>1. SetStatus(d, status) = [d EXCEPT !.order = order]
  BY DEF SetStatus, Tidy, Ledger, Database
<1>2. order \in Order BY LedgerEntry DEF Order, Tidy
<1> HIDE DEF order
<1>3. LET d2 == [d EXCEPT !.order = order]
      IN  /\ Tidy(d2) /\ d2.order = order /\ d2.journal = d.journal
          /\ d2.txns = d.txns /\ d2.lastTxn = d.lastTxn
  BY <1>2, TidyOrder
<1> QED BY <1>1, <1>3 DEF order

LEMMA StatusMoves ==
  ASSUME CalmInv, NEW w \in Workers, WriteStatus(w)
  PROVE  Committed /\ \E target \in Statuses : Moves(target)
<1> DEFINE target == pending[w].target
           d == IF target = "cancelled" THEN SyncCancelled(db) ELSE db
           moved == SetStatus(d, target)
<1>1. /\ pending[w].op = "status" /\ Committed
      /\ db' = IF target \in HandedOver \ {pending[w].from} THEN SyncHandedOver(moved)
               ELSE moved
  BY DEF WriteStatus, CommitNow, Committed, LockFree
<1>2. /\ pending[w].from = db.order.status /\ target \in Statuses
      /\ StepsBack(db.order.status, target) => "step_back" \in Practices
  BY <1>1, RequestHolds, BooksAssumption DEF CalmInv, BooksInv, Fresh
<1>3. Changes(db, d, OrderSide) /\ IF target = "cancelled" THEN OnlyPayments(d) ELSE d = db
  BY CancelChanges, ChangesNothing DEF CalmInv
<1>4. \/ db' = moved /\ (target \notin HandedOver \/ target = db.order.status)
      \/ db' = SyncHandedOver(moved) /\ target \in HandedOver
  BY <1>1, <1>2
<1> HIDE DEF d, target
<1>5. /\ Tidy(moved) /\ moved.order = [d.order EXCEPT !.status = target]
      /\ moved.journal = d.journal /\ moved.txns = d.txns /\ moved.lastTxn = d.lastTxn
  BY <1>2, <1>3, StatusIs DEF Changes
<1> HIDE DEF moved
<1>6. /\ Changes(moved, SyncHandedOver(moved), OrderSide)
      /\ RecognisedFrom(moved, SyncHandedOver(moved))
  BY <1>5, HandOverChanges
<1>7. Moves(target) BY <1>2, <1>3, <1>4, <1>5, <1>6 DEF Moves
<1> QED BY <1>1, <1>2, <1>7

ItemsMove(status) ==
  /\ Tidy(db') /\ db'.order = [db.order EXCEPT !.status = status]
  /\ db'.journal = db.journal /\ db'.txns = db.txns /\ db'.lastTxn = db.lastTxn
  /\ "by_items" \in Practices

LEMMA ItemsMoveIt ==
  ASSUME CalmInv, NEW derived \in Targets, SyncFromItems(derived)
  PROVE  Committed /\ \E status \in Statuses : ItemsMove(status)
<1>1. db' = SetStatus(db, derived) /\ Committed /\ "by_items" \in Practices
  BY DEF SyncFromItems, CommitNow, Committed, Served, LockFree
<1>2. derived \in Statuses BY BooksAssumption
<1>3. LET d2 == SetStatus(db, derived)
      IN  /\ Tidy(d2) /\ d2.order = [db.order EXCEPT !.status = derived]
          /\ d2.journal = db.journal /\ d2.txns = db.txns /\ d2.lastTxn = db.lastTxn
  BY <1>2, StatusIs DEF CalmInv
<1> QED BY <1>1, <1>2, <1>3 DEF ItemsMove

\* Every write phase is one of these.
Phase ==
  \/ Committed /\ \E d, u : Books(d, u)
  \/ Committed /\ \E d, t : TakesBack(d, t)
  \/ Committed /\ Records
  \/ LockFree /\ \E patch \in Patches : Edits(patch)
  \/ ~LockFree /\ \E t : Resyncs(t)
  \/ Committed /\ \E target \in Statuses : Moves(target)
  \/ Committed /\ \E status \in Statuses : ItemsMove(status)

LEMMA WritesAre ==
  ASSUME CalmInv, Writing PROVE Phase
BY CreateBooks, UpdateBooks, RestoreBooks, MethodBooks, DeleteTakesBack, InvalidateTakesBack,
   RecordRecords, BeginEdits, ResyncResyncs, StatusMoves, ItemsMoveIt
   DEF Writing, Phase

LEMMA PhaseIsTidy ==
  ASSUME CalmInv, Phase PROVE Tidy(db') /\ Tidy(tx')
<1>1. ASSUME NEW d, NEW u, Books(d, u) PROVE Tidy(db')
  <2>1. Tidy(d) /\ u \in d.txns /\ db' = SyncPayment(d, u)
    BY <1>1 DEF Books, OtherRowsStay
  <2>2. u \in Transaction /\ u.id <= d.lastTxn BY <2>1, LedgerEntry DEF Tidy, Ledger
  <2> QED BY <2>1, <2>2, SyncPaymentChanges DEF Changes
<1>2. ASSUME NEW d, NEW t, TakesBack(d, t) PROVE Tidy(db')
  BY <1>2, UnsyncPaymentChanges DEF TakesBack, OtherRowsStay, Changes
<1>3. CASE Committed /\ Records BY <1>3 DEF Committed, Records, OtherRowsStay
<1>4. CASE \E patch \in Patches : Edits(patch) BY <1>4 DEF Edits, Changes, CalmInv
<1>5. ASSUME NEW t, Resyncs(t) PROVE Tidy(db') /\ Tidy(tx')
  <2>1. t \in Transaction /\ t.id <= tx.lastTxn
    BY <1>5, LedgerEntry DEF Resyncs, CalmInv, BooksInv, Ledger
  <2> QED BY <1>5, <2>1, SyncPaymentChanges DEF Resyncs, CalmInv, Changes
<1>6. CASE Committed /\ \E target \in Statuses : Moves(target)
  BY <1>6 DEF Committed, Moves, Changes
<1>7. CASE Committed /\ \E status \in Statuses : ItemsMove(status)
  BY <1>7 DEF Committed, ItemsMove
<1> QED BY <1>1, <1>2, <1>3, <1>4, <1>5, <1>6, <1>7 DEF Phase, Committed

LEMMA InitCalm == Init => CalmInv
<1> SUFFICES ASSUME Init PROVE CalmInv OBVIOUS
<1>1. BooksInv BY InitBooks
<1>2. db.journal = {} /\ tx = db /\ left = {} /\ \A w \in Workers : pending[w] = Idle
  BY DEF Init
<1>3. Tidy(db) /\ Tidy(tx) BY <1>1, <1>2 DEF Tidy, BooksInv
<1>4. \A w \in Workers : Fresh(pending[w]) BY <1>2, IdleIsFresh
<1> QED BY <1>1, <1>2, <1>3, <1>4 DEF CalmInv, LockFree

LEMMA NextCalm ==
  ASSUME OneAtATime, NeverClosed, CalmInv, [Next]_vars
  PROVE  CalmInv' /\ (Reading \/ Phase)
<1>1. BooksInv' BY NextBooks DEF CalmInv
<1>2. CASE Reading
  <2>1. UNCHANGED <<db, tx, left>> BY <1>2, ReadingLeaves
  <2>2. \A w \in Workers : Fresh(pending[w])' BY <1>2, ReadingIsFresh
  <2>3. ~LockFree => AllIdle'
    <3>1. ASSUME ~LockFree PROVE UNCHANGED pending
      BY <1>2, <3>1 DEF Reading, ReadTransaction, ReadPaymentMethod, ReadEdit, ReadStatus,
                        Reads, Drop, vars
    <3> QED BY <3>1 DEF CalmInv, AllIdle
  <2>4. Tidy(db') /\ Tidy(tx') BY <2>1 DEF CalmInv
  <2> QED BY <1>1, <1>2, <2>1, <2>2, <2>3, <2>4 DEF CalmInv, LockFree
<1>3. CASE Writing
  <2>1. Phase BY <1>3, WritesAre
  <2>2. Tidy(db') /\ Tidy(tx') BY <2>1, PhaseIsTidy
  <2>3. AllIdle' BY <1>3, WriterIsAlone
  <2>4. \A w \in Workers : Fresh(pending[w])' BY <2>3 DEF AllIdle, Fresh, Idle
  <2> QED BY <1>1, <2>1, <2>2, <2>3, <2>4 DEF CalmInv
<1> QED BY <1>2, <1>3, ReadsOrWrites

-----------------------------------------------------------------------------
(***************************************************************************)
(* Each payment has the one entry it should have.                          *)
(***************************************************************************)
BookedAt(d, id) ==
  /\ \A e \in At(d, PaymentKey(id)) :
       \E t \in d.txns :
         /\ t.valid /\ t.id = id /\ e.lines["asset"] = CashOf(t)
         /\ t.type = "tien_rut" => e.lines["tien_rut"] < 0
  /\ \A t \in d.txns : t.valid /\ t.id = id => At(d, PaymentKey(id)) # {}

Booked(d) == \A id : BookedAt(d, id)

BookedInv ==
  /\ Booked(db) /\ Booked(tx)
  /\ ~LockFree => \A t \in tx.txns : t.valid

LEMMA InitBooked == Init => BookedInv
BY DEF Init, BookedInv, Booked, BookedAt, At, LockFree

LEMMA BookedAlike ==
  ASSUME NEW d, NEW d2, NEW id, BookedAt(d, id),
         At(d2, PaymentKey(id)) = At(d, PaymentKey(id)),
         \A t : t.id = id => (t \in d.txns <=> t \in d2.txns)
  PROVE  BookedAt(d2, id)
BY DEF BookedAt

\* What moves no payment leaves the payments booked.
LEMMA BookedOrder ==
  ASSUME NEW d, NEW d2, Changes(d, d2, OrderSide), Booked(d)
  PROVE  Booked(d2)
<1>1. d2.txns = d.txns BY DEF Changes, SameRows
<1>2. SUFFICES ASSUME NEW id PROVE BookedAt(d2, id) BY DEF Booked
<1>3. PaymentKey(id) \notin OrderSide BY KeysDiffer DEF OrderSide
<1>4. At(d2, PaymentKey(id)) = At(d, PaymentKey(id)) BY <1>3, ChangesElsewhere
<1> QED BY <1>1, <1>4, BookedAlike DEF Booked

LEMMA BookedSync ==
  ASSUME NEW d, Tidy(d), NEW u \in d.txns, u.valid,
         \A id : id # u.id => BookedAt(d, id)
  PROVE  Booked(SyncPayment(d, u))
<1> DEFINE d2 == SyncPayment(d, u)
           K == {PaymentKey(u.id), ReleaseKey}
<1>1. u \in Transaction /\ u.id <= d.lastTxn BY LedgerEntry DEF Tidy, Ledger
<1>2. /\ Changes(d, d2, K)
      /\ \E e : At(d2, PaymentKey(u.id)) = {e} /\ e.lines = PaymentLines(d, u)
  BY <1>1, SyncPaymentChanges
<1>3. d2.txns = d.txns BY <1>2 DEF Changes, SameRows
<1>4. /\ PaymentLines(d, u)["asset"] = CashOf(u)
      /\ u.type = "tien_rut" => PaymentLines(d, u)["tien_rut"] < 0
  <2>1. u.amount \in Nat \ {0} BY <1>1, BooksAssumption DEF Transaction
  <2> QED BY <1>1, <2>1, PaymentLinesShape DEF CashOf, Tidy
<1> HIDE DEF d2
<1>5. BookedAt(d2, u.id) BY <1>2, <1>3, <1>4 DEF BookedAt
<1>6. ASSUME NEW id, id # u.id PROVE BookedAt(d2, id)
  <2>1. PaymentKey(id) \notin K BY <1>6, KeysDiffer
  <2> HIDE DEF K
  <2>2. At(d2, PaymentKey(id)) = At(d, PaymentKey(id)) BY <1>2, <2>1, ChangesElsewhere
  <2> QED BY <1>3, <1>6, <2>2, BookedAlike
<1> QED BY <1>5, <1>6 DEF Booked, d2

LEMMA BookedUnsync ==
  ASSUME NEW d, Tidy(d), NEW t, \A u \in d.txns : u.id = t.id => ~u.valid,
         \A id : id # t.id => BookedAt(d, id)
  PROVE  Booked(UnsyncPayment(d, t))
<1> DEFINE d2 == UnsyncPayment(d, t)
           K == {PaymentKey(t.id), ReleaseKey}
<1>1. Changes(d, d2, K) /\ At(d2, PaymentKey(t.id)) = {} BY UnsyncPaymentChanges
<1>2. d2.txns = d.txns BY <1>1 DEF Changes, SameRows
<1> HIDE DEF d2
<1>3. BookedAt(d2, t.id) BY <1>1, <1>2 DEF BookedAt
<1>4. ASSUME NEW id, id # t.id PROVE BookedAt(d2, id)
  <2>1. PaymentKey(id) \notin K BY <1>4, KeysDiffer
  <2> HIDE DEF K
  <2>2. At(d2, PaymentKey(id)) = At(d, PaymentKey(id)) BY <1>1, <2>1, ChangesElsewhere
  <2> QED BY <1>2, <1>4, <2>2, BookedAlike
<1> QED BY <1>3, <1>4 DEF Booked, d2

LEMMA BookedElsewhere ==
  ASSUME NEW d, NEW own, OtherRowsStay(d, own), Booked(db)
  PROVE  \A id : id # own => BookedAt(d, id)
<1> SUFFICES ASSUME NEW id, id # own PROVE BookedAt(d, id) OBVIOUS
<1>1. At(d, PaymentKey(id)) = At(db, PaymentKey(id)) BY DEF OtherRowsStay, At
<1>2. \A t : t.id = id => (t \in db.txns <=> t \in d.txns) BY DEF OtherRowsStay
<1> QED BY <1>1, <1>2, BookedAlike DEF Booked

LEMMA PhaseIsBooked ==
  ASSUME "unbooked" \notin Practices, "touch_void" \notin Practices,
         CalmInv, BookedInv, Phase
  PROVE  BookedInv'
<1>1. ASSUME Committed, NEW d, NEW u, Books(d, u) PROVE BookedInv'
  <2>1. /\ OtherRowsStay(d, u.id) /\ u \in d.txns /\ u.valid
        /\ db' = SyncPayment(d, u)
    BY <1>1 DEF Books
  <2>2. Tidy(d) BY <2>1 DEF OtherRowsStay
  <2>3. \A id : id # u.id => BookedAt(d, id) BY <2>1, BookedElsewhere DEF BookedInv
  <2>4. Booked(db') BY <2>1, <2>2, <2>3, BookedSync
  <2> QED BY <1>1, <2>4 DEF Committed, BookedInv, LockFree
<1>2. ASSUME Committed, NEW d, NEW t, TakesBack(d, t) PROVE BookedInv'
  <2>1. /\ OtherRowsStay(d, t.id) /\ Tidy(d) /\ \A u \in d.txns : u.id = t.id => ~u.valid
        /\ db' = UnsyncPayment(d, t)
    BY <1>2 DEF TakesBack, OtherRowsStay
  <2>2. \A id : id # t.id => BookedAt(d, id) BY <2>1, BookedElsewhere DEF BookedInv
  <2>3. Booked(db') BY <2>1, <2>2, BookedUnsync
  <2> QED BY <1>2, <2>3 DEF Committed, BookedInv, LockFree
<1>3. CASE Records BY <1>3 DEF Records
<1>4. ASSUME NEW patch \in Patches, Edits(patch) PROVE BookedInv'
  <2>1. PICK d : /\ Tidy(d) /\ d.journal = db.journal /\ d.txns = db.txns
                 /\ Changes(d, tx', OrderKeys)
    BY <1>4 DEF Edits
  <2>2. /\ db' = IF left' = {} THEN tx' ELSE db
        /\ \A t \in db.txns : t.valid
    BY <1>4 DEF Edits, HasVoid
  <2>3. Booked(d) BY <2>1 DEF BookedInv, Booked, BookedAt, At
  <2>4. Changes(d, tx', OrderSide) BY <2>1, ChangesMore DEF OrderSide
  <2>5. Booked(tx') BY <2>3, <2>4, BookedOrder
  <2>6. \A t \in tx'.txns : t.valid BY <2>1, <2>2 DEF Changes, SameRows
  <2> QED BY <2>2, <2>5, <2>6 DEF BookedInv
<1>5. ASSUME ~LockFree, NEW t, Resyncs(t) PROVE BookedInv'
  <2>1. /\ t \in tx.txns /\ t.valid /\ tx' = SyncPayment(tx, t)
        /\ db' = IF left' = {} THEN tx' ELSE db
    BY <1>5 DEF Resyncs, BookedInv
  <2>2. Tidy(tx) /\ \A id : id # t.id => BookedAt(tx, id)
    BY DEF CalmInv, BookedInv, Booked
  <2>3. Booked(tx') BY <2>1, <2>2, BookedSync
  <2>4. tx'.txns = tx.txns
    <3>1. t \in Transaction /\ t.id <= tx.lastTxn
      BY <2>1, <2>2, LedgerEntry DEF Tidy, Ledger
    <3> QED BY <2>1, <2>2, <3>1, SyncPaymentChanges DEF Changes, SameRows
  <2> QED BY <1>5, <2>1, <2>3, <2>4 DEF BookedInv
<1>6. ASSUME Committed, NEW target \in Statuses, Moves(target) PROVE BookedInv'
  <2>1. PICK d, moved :
          /\ Changes(db, d, OrderSide)
          /\ moved.journal = d.journal /\ moved.txns = d.txns
          /\ db' = moved \/ Changes(moved, db', OrderSide)
    BY <1>6 DEF Moves
  <2>2. Booked(d) BY <2>1, BookedOrder DEF BookedInv
  <2>3. Booked(moved) BY <2>1, <2>2 DEF Booked, BookedAt, At
  <2>4. Booked(db') BY <2>1, <2>3, BookedOrder
  <2> QED BY <1>6, <2>4 DEF Committed, BookedInv, LockFree
<1>7. ASSUME Committed, NEW status \in Statuses, ItemsMove(status) PROVE BookedInv'
  <2>1. Booked(db') BY <1>7 DEF ItemsMove, BookedInv, Booked, BookedAt, At
  <2> QED BY <1>7, <2>1 DEF Committed, BookedInv, LockFree
<1> QED BY <1>1, <1>2, <1>3, <1>4, <1>5, <1>6, <1>7 DEF Phase

LEMMA CashIs ==
  ASSUME NEW S
  PROVE  MapThenSumSet(CashOf, S) = SumFunctionOnSet([t \in S |-> CashOf(t)], S)
<1> DEFINE f == [t \in S |-> CashOf(t)]
<1>1. MapThenSumSet(CashOf, S) = (CHOOSE g : SumStep(f, S, g))[S]
  BY DEF MapThenSumSet, MapThenFoldSet, SumStep, Pick
<1>2. SumFunctionOnSet(f, S) = (CHOOSE g : SumStep(f, S, g))[S]
  BY DEF SumFunctionOnSet, FoldFunctionOnSet, MapThenFoldSet, SumStep, Pick
<1> QED BY <1>1, <1>2

LEMMA CashOfOne ==
  ASSUME NEW t \in Transaction
  PROVE  CashOf(t) \in Int /\ MapThenSumSet(CashOf, {t}) = CashOf(t)
<1> DEFINE f == [u \in {t} |-> CashOf(u)]
<1>1. CashOf(t) \in Int
  <2>1. t.amount \in Nat BY BooksAssumption DEF Transaction
  <2>2. 0 \in Int /\ t.amount \in Int /\ -t.amount \in Int BY <2>1
  <2> QED BY <2>2, Zenon DEF CashOf
<1>2. f[t] = CashOf(t) /\ \A u \in {t} : f[u] \in Int BY <1>1
<1>3. MapThenSumSet(CashOf, {t}) = SumFunctionOnSet(f, {t}) BY CashIs
<1>4. IsFiniteSet({t}) /\ {t} \ {t} = {} BY FS_Singleton
<1> HIDE DEF f
<1>5. SumFunctionOnSet(f, {t}) = f[t] + SumFunctionOnSet(f, {t} \ {t})
  BY <1>2, <1>4, SumRemove
<1> QED BY <1>1, <1>2, <1>3, <1>4, <1>5, SumOfNone

LEMMA BookedTells ==
  ASSUME CalmInv, Booked(db)
  PROVE  PaymentsAreBooked
<1> SUFFICES ASSUME NEW id \in 1..db.lastTxn
             PROVE  NetOf(EntriesOf(db, "payment_transaction", id), "asset")
                      = MapThenSumSet(CashOf, {t \in db.txns : t.id = id})
  BY DEF PaymentsAreBooked
<1> DEFINE own == At(db, PaymentKey(id))
           rows == {t \in db.txns : t.id = id}
<1>1. EntriesOf(db, "payment_transaction", id) = own BY LooksFor DEF CalmInv
<1>2. BookedAt(db, id) BY DEF Booked
<1>3. CASE rows = {}
  <2>1. own = {} BY <1>2, <1>3 DEF BookedAt
  <2>2. MapThenSumSet(CashOf, {}) = 0 BY CashIs, SumOfNone
  <2> QED BY <1>1, <1>3, <2>1, <2>2, NetNone
<1>4. ASSUME NEW t \in db.txns, t.id = id
      PROVE  NetOf(own, "asset") = MapThenSumSet(CashOf, rows)
  <2>1. rows = {t} BY <1>4 DEF CalmInv, BooksInv, Ledger
  <2>2. t \in Transaction BY LedgerEntry DEF CalmInv, BooksInv
  <2>3. CashOf(t) \in Int /\ MapThenSumSet(CashOf, {t}) = CashOf(t) BY <2>2, CashOfOne
  <2>4. CASE ~t.valid
    <3>1. own = {} BY <1>2, <2>1, <2>4 DEF BookedAt
    <3> QED BY <2>1, <2>3, <2>4, <3>1, NetNone DEF CashOf
  <2>5. CASE t.valid
    <3>1. PICK e : e \in own BY <1>2, <1>4, <2>5 DEF BookedAt
    <3>2. own = {e} BY <3>1 DEF At, CalmInv, Tidy
    <3>3. e.lines["asset"] = CashOf(t) BY <1>2, <2>1, <3>1 DEF BookedAt
    <3>4. NetOf({e}, "asset") = e.lines["asset"] BY <2>3, <3>3, NetOne
    <3> QED BY <2>1, <2>3, <3>2, <3>3, <3>4
  <2> QED BY <2>4, <2>5
<1> QED BY <1>1, <1>3, <1>4

(***************************************************************************)
(* The payments stay booked, each with its own amount and once, however    *)
(* requests to create, change, invalidate, restore and delete them follow  *)
(* one another, where requests do not overlap, no period is closed, no     *)
(* payment is taken by the routes that post no entry, and an invalidated   *)
(* one is only restored.                                                   *)
(***************************************************************************)
THEOREM PaymentsStayBooked ==
  ASSUME OneAtATime, NeverClosed, "unbooked" \notin Practices, "touch_void" \notin Practices
  PROVE  Spec => []PaymentsAreBooked
<1>1. Init => CalmInv /\ BookedInv BY InitCalm, InitBooked
<1>2. CalmInv /\ BookedInv /\ [Next]_vars => (CalmInv /\ BookedInv)'
  <2> SUFFICES ASSUME CalmInv, BookedInv, [Next]_vars PROVE (CalmInv /\ BookedInv)' OBVIOUS
  <2>1. CalmInv' /\ (Reading \/ Phase) BY NextCalm
  <2>2. CASE Reading
    <3>1. UNCHANGED <<db, tx, left>> BY <2>2, ReadingLeaves
    <3> QED BY <2>1, <3>1 DEF BookedInv, LockFree
  <2>3. CASE Phase BY <2>1, <2>3, PhaseIsBooked
  <2> QED BY <2>1, <2>2, <2>3
<1>3. CalmInv /\ BookedInv => PaymentsAreBooked BY BookedTells DEF BookedInv
<1> QED BY <1>1, <1>2, <1>3, PTL DEF Spec

-----------------------------------------------------------------------------
(***************************************************************************)
(* What the payments hold for the carrier is within the fee.               *)
(***************************************************************************)
Cap(d) == IF d.order.delivery = "bus" THEN d.order.fee ELSE 0

\* The entries of payments but for those of the transactions in ids.
PaymentsBut(d, ids) == {e \in PaymentEntries(d) : e.of \notin ids}

HeldBut(d, ids) == -NetOf(PaymentsBut(d, ids), "shipping")

Within(d, ids) == HeldBut(d, ids) <= Cap(d)

\* During an edit the payments that are not split again yet do not count.
HeldInv == Within(db, {}) /\ Within(tx, left)

LEMMA PaymentsCredit ==
  ASSUME NEW d, Tidy(d), NEW ids
  PROVE  /\ Summable(PaymentsBut(d, ids), "shipping")
         /\ \A e \in PaymentsBut(d, ids) : e.lines["shipping"] <= 0
         /\ HeldBut(d, ids) \in Int
<1>1. PaymentsBut(d, ids) \in SUBSET d.journal BY DEF PaymentsBut, PaymentEntries
<1>2. "shipping" \in Accounts BY TheAccounts
<1>3. Summable(PaymentsBut(d, ids), "shipping") BY <1>1, <1>2, EntriesSummable DEF Tidy
<1>4. \A e \in PaymentsBut(d, ids) : e.lines["shipping"] <= 0
  BY DEF PaymentsBut, PaymentEntries, Tidy, Shaped, IsPayment, IsRelease, IsOrderEntry
<1>5. NetOf(PaymentsBut(d, ids), "shipping") \in Int BY <1>3, NetInt
<1> QED BY <1>3, <1>4, <1>5 DEF HeldBut

LEMMA CapIsWhole ==
  ASSUME NEW d, Ledger(d) PROVE Cap(d) \in Nat
BY LedgerEntry DEF Cap, Order

\* The more transactions are left out, the less is held.
LEMMA HeldLess ==
  ASSUME NEW d, Tidy(d), NEW ids, NEW more, ids \subseteq more
  PROVE  /\ HeldBut(d, more) <= HeldBut(d, ids)
         /\ Within(d, ids) => Within(d, more)
<1> DEFINE S == PaymentsBut(d, ids)
           T == PaymentsBut(d, more)
<1>1. T \subseteq S BY DEF PaymentsBut
<1>2. Summable(S, "shipping") /\ \A e \in S : e.lines["shipping"] <= 0 BY PaymentsCredit
<1>3. HeldBut(d, ids) = -NetOf(S, "shipping") /\ HeldBut(d, more) = -NetOf(T, "shipping")
  BY DEF HeldBut
<1>4. Summable(T, "shipping") BY PaymentsCredit
<1> HIDE DEF S, T
<1>5. NetOf(S, "shipping") <= NetOf(T, "shipping") BY <1>1, <1>2, NetOfPart
<1>6. NetOf(S, "shipping") \in Int /\ NetOf(T, "shipping") \in Int BY <1>2, <1>4, NetInt
<1>7. HeldBut(d, more) <= HeldBut(d, ids) BY <1>3, <1>5, <1>6
<1>8. HeldBut(d, more) \in Int /\ HeldBut(d, ids) \in Int /\ Cap(d) \in Nat
  BY PaymentsCredit, CapIsWhole DEF Tidy
<1> QED BY <1>7, <1>8 DEF Within

LEMMA HeldAlike ==
  ASSUME NEW d, NEW d2, NEW ids, Within(d, ids), Cap(d2) = Cap(d),
         \A e : e.source = "payment_transaction" /\ e.of \notin ids
                  => (e \in d.journal <=> e \in d2.journal),
         \A t : t.id \notin ids => (t \in d.txns <=> t \in d2.txns)
  PROVE  Within(d2, ids)
<1>1. PaymentsBut(d2, ids) = PaymentsBut(d, ids) BY DEF PaymentsBut, PaymentEntries
<1> QED BY <1>1 DEF Within, HeldBut

\* Changes that move no payment.
LEMMA HeldOrder ==
  ASSUME NEW d, NEW d2, Changes(d, d2, OrderSide), NEW ids, Within(d, ids)
  PROVE  Within(d2, ids)
<1>1. \A e : e.source = "payment_transaction" => Key(e) \notin OrderSide
  BY DEF Key, OrderSide, OrderKeys, OrderKey, ReleaseKey
<1>2. d2.order = d.order /\ d2.txns = d.txns BY DEF Changes, SameRows
<1> QED BY <1>1, <1>2, HeldAlike DEF Changes, Cap

\* The portion of a payment fills up what the others leave of the fee.
LEMMA HeldSync ==
  ASSUME NEW d, Tidy(d), NEW u \in d.txns, NEW ids, Within(d, ids \union {u.id})
  PROVE  Within(SyncPayment(d, u), ids \ {u.id})
<1> DEFINE d2 == SyncPayment(d, u)
           K == {PaymentKey(u.id), ReleaseKey}
           others == ids \union {u.id}
           rest == PaymentsBut(d, others)
           portion == ShippingPortion(d, u)
<1>1. u \in Transaction /\ u.id <= d.lastTxn BY LedgerEntry DEF Tidy, Ledger
<1>2. /\ Changes(d, d2, K)
      /\ \E e : At(d2, PaymentKey(u.id)) = {e} /\ e.lines = PaymentLines(d, u)
  BY <1>1, SyncPaymentChanges
<1>3. PICK e : At(d2, PaymentKey(u.id)) = {e} /\ e.lines = PaymentLines(d, u) BY <1>2
<1>4. d2.order = d.order /\ d2.txns = d.txns /\ Tidy(d2) BY <1>2 DEF Changes, SameRows
<1> HIDE DEF d2
<1>5. PaymentsBut(d2, ids \ {u.id}) = rest \union {e} /\ e \notin rest
  <2>1. \A f : f.source = "payment_transaction" /\ f.of # u.id
                 => (f \in d.journal <=> f \in d2.journal)
    BY <1>2 DEF Changes, Key, PaymentKey, ReleaseKey
  <2>2. \A f \in d2.journal : f.source = "payment_transaction" /\ f.of = u.id <=> f = e
    <3>1. EntriesOf(d2, "payment_transaction", u.id) = {e} BY <1>3, <1>4, LooksFor
    <3> QED BY <3>1 DEF EntriesOf
  <2>3. e \in d2.journal /\ e.of = u.id /\ e.source = "payment_transaction"
    BY <1>3 DEF At, Key, PaymentKey
  <2> QED BY <1>4, <2>1, <2>2, <2>3 DEF PaymentsBut, PaymentEntries
<1>6. e.lines["shipping"] \in {0, -portion} /\ portion \in Nat /\ u.amount \in Nat
  BY <1>1, <1>3, PaymentLinesShape, PortionIsWhole DEF Tidy
<1>7. HeldBut(d2, ids \ {u.id}) = HeldBut(d, others) - e.lines["shipping"]
  <2>1. Summable(rest, "shipping") BY PaymentsCredit
  <2>2. e.lines["shipping"] \in Int BY <1>6
  <2>3. Summable({e}, "shipping") /\ NetOf({e}, "shipping") = e.lines["shipping"]
    BY <2>2, NetOne
  <2>4. HeldBut(d, others) = -NetOf(rest, "shipping") /\ rest \cap {e} = {}
    BY <1>5 DEF HeldBut
  <2> HIDE DEF rest
  <2>5. NetOf(rest \cup {e}, "shipping") = NetOf(rest, "shipping") + NetOf({e}, "shipping")
    BY <2>1, <2>3, <2>4, NetUnion
  <2>6. NetOf(rest, "shipping") \in Int BY <2>1, NetInt
  <2>7. HeldBut(d2, ids \ {u.id}) = -NetOf(rest \cup {e}, "shipping") BY <1>5 DEF HeldBut
  <2> QED BY <2>2, <2>3, <2>4, <2>5, <2>6, <2>7
<1>8. HeldBut(d, others) <= HeldShipping(d, OwnEntries(d, u))
  <2>1. PaymentEntries(d) \ OwnEntries(d, u) = PaymentsBut(d, {u.id})
    BY DEF OwnEntries, EntriesOf, PaymentEntries, PaymentsBut
  <2>2. HeldShipping(d, OwnEntries(d, u)) = HeldBut(d, {u.id})
    BY <2>1 DEF HeldShipping, HeldBut
  <2> QED BY <2>2, HeldLess
<1>9. /\ HeldBut(d, others) \in Int /\ Cap(d) \in Nat /\ d.order.fee \in Nat
      /\ HeldShipping(d, OwnEntries(d, u)) \in Int
  BY PaymentsCredit, CapIsWhole, HeldIsWhole, LedgerEntry DEF Tidy, Order
<1>10. HeldBut(d, others) <= Cap(d) /\ Cap(d2) = Cap(d) BY <1>4 DEF Within, Cap
<1>11. HeldBut(d, others) + portion <= Cap(d)
  <2>1. CASE IsBus(d)
    <3>1. Cap(d) = d.order.fee BY <2>1 DEF IsBus, Cap
    <3>2. portion = Smaller(u.amount, Larger(0, d.order.fee - HeldShipping(d, OwnEntries(d, u))))
      BY <2>1 DEF ShippingPortion
    <3> HIDE DEF portion, others
    <3> QED BY <1>6, <1>8, <1>9, <1>10, <3>1, <3>2 DEF Smaller, Larger
  <2>2. CASE ~IsBus(d)
    <3>1. portion = 0 BY <2>2 DEF ShippingPortion
    <3> QED BY <1>9, <1>10, <3>1
  <2> QED BY <2>1, <2>2
<1> HIDE DEF others, portion
<1>12. HeldBut(d2, ids \ {u.id}) <= Cap(d2) BY <1>6, <1>7, <1>9, <1>10, <1>11
<1> QED BY <1>12 DEF Within, d2

LEMMA HeldUnsync ==
  ASSUME NEW d, Tidy(d), NEW t, Within(d, {t.id})
  PROVE  Within(UnsyncPayment(d, t), {})
<1> DEFINE d2 == UnsyncPayment(d, t)
           K == {PaymentKey(t.id), ReleaseKey}
<1>1. Changes(d, d2, K) /\ At(d2, PaymentKey(t.id)) = {} BY UnsyncPaymentChanges
<1>2. d2.order = d.order /\ d2.txns = d.txns /\ Tidy(d2) BY <1>1 DEF Changes, SameRows
<1> HIDE DEF d2
<1>3. Within(d2, {t.id})
  <2>1. \A f : f.source = "payment_transaction" /\ f.of \notin {t.id}
                 => (f \in d.journal <=> f \in d2.journal)
    BY <1>1 DEF Changes, Key, PaymentKey, ReleaseKey
  <2> QED BY <1>2, <2>1, HeldAlike DEF Cap
<1>4. PaymentsBut(d2, {t.id}) = PaymentsBut(d2, {})
  <2>1. EntriesOf(d2, "payment_transaction", t.id) = {} BY <1>1, <1>2, LooksFor
  <2> QED BY <2>1 DEF PaymentsBut, PaymentEntries, EntriesOf
<1> QED BY <1>3, <1>4 DEF Within, HeldBut, d2

LEMMA HeldElsewhere ==
  ASSUME CalmInv, Within(db, {}), NEW d, NEW own, OtherRowsStay(d, own)
  PROVE  Within(d, {own})
<1>1. Within(db, {own}) BY HeldLess DEF CalmInv
<1>2. /\ \A e : e \in db.journal <=> e \in d.journal
      /\ \A t : t.id \notin {own} => (t \in db.txns <=> t \in d.txns)
      /\ Cap(d) = Cap(db)
  BY DEF OtherRowsStay, Cap
<1> QED BY <1>1, <1>2, HeldAlike

\* Nothing is held by no payment.
LEMMA HeldByNone ==
  ASSUME NEW d, Ledger(d), NEW ids, \A t \in d.txns : t.id \in ids
  PROVE  Within(d, ids)
<1>1. PaymentsBut(d, ids) = {} BY DEF PaymentsBut, PaymentEntries
<1>2. NetOf({}, "shipping") = 0 BY NetNone
<1>3. Cap(d) \in Nat BY CapIsWhole
<1> QED BY <1>1, <1>2, <1>3 DEF Within, HeldBut

LEMMA EditKeepsHeld ==
  ASSUME CalmInv, HeldInv, NEW patch \in Patches, Edits(patch)
  PROVE  HeldInv'
<1>1. PICK d : /\ Tidy(d) /\ d.journal = db.journal /\ d.txns = db.txns
               /\ d.order = EditedOrder(db.order, db.order, patch)
               /\ Changes(d, tx', OrderKeys)
  BY DEF Edits
<1>2. /\ left' = IF Resplits(db.order, patch) THEN {t.id : t \in db.txns} ELSE {}
      /\ db' = IF left' = {} THEN tx' ELSE db
  BY DEF Edits
<1>3. Changes(d, tx', OrderSide) BY <1>1, ChangesMore DEF OrderSide
<1>4. tx'.txns = db.txns /\ Ledger(tx') BY <1>1 DEF Changes, SameRows, Tidy
<1>5. Within(tx', left')
  <2>1. CASE Resplits(db.order, patch)
    <3>1. \A t \in tx'.txns : t.id \in left' BY <1>2, <1>4, <2>1
    <3> QED BY <1>4, <3>1, HeldByNone
  <2>2. CASE ~Resplits(db.order, patch)
    <3>1. d.order \in Order /\ db.order \in Order
      BY <1>1, LedgerEntry DEF Tidy, CalmInv, BooksInv
    <3>2. /\ d.order.delivery = Patched(patch, "delivery", db.order.delivery)
          /\ d.order.fee = Patched(patch, "fee", db.order.fee)
      BY <1>1, <3>1 DEF EditedOrder, Order
    <3>3. Cap(db) <= Cap(d)
      <4>1. Cap(d) \in Nat /\ db.order.fee \in Nat BY <1>1, <3>1, CapIsWhole DEF Tidy, Order
      <4>2. CASE db.order.delivery = "bus"
        <5>1. d.order.delivery = db.order.delivery /\ d.order.fee = db.order.fee
          BY <2>2, <3>2, <4>2 DEF Resplits, Patched
        <5> QED BY <4>1, <5>1 DEF Cap
      <4>3. CASE db.order.delivery # "bus" BY <4>1, <4>3 DEF Cap
      <4> QED BY <4>2, <4>3
    <3>4. HeldBut(d, {}) = HeldBut(db, {}) BY <1>1 DEF HeldBut, PaymentsBut, PaymentEntries
    <3>5. HeldBut(db, {}) \in Int /\ Cap(db) \in Nat /\ Cap(d) \in Nat
      BY <1>1, PaymentsCredit, CapIsWhole DEF CalmInv, Tidy
    <3>6. Within(d, {}) BY <3>3, <3>4, <3>5 DEF HeldInv, Within
    <3>7. Within(tx', {}) BY <1>3, <3>6, HeldOrder
    <3> QED BY <1>2, <2>2, <3>7
  <2> QED BY <2>1, <2>2
<1> QED BY <1>2, <1>5 DEF HeldInv

LEMMA PhaseIsHeld ==
  ASSUME CalmInv, HeldInv, Phase
  PROVE  HeldInv'
<1>1. ASSUME Committed, NEW d, NEW u, Books(d, u) PROVE HeldInv'
  <2>1. OtherRowsStay(d, u.id) /\ Tidy(d) /\ u \in d.txns /\ db' = SyncPayment(d, u)
    BY <1>1 DEF Books, OtherRowsStay
  <2>2. Within(d, {} \union {u.id}) BY <2>1, HeldElsewhere DEF HeldInv
  <2>3. Within(db', {} \ {u.id}) BY <2>1, <2>2, HeldSync
  <2> QED BY <1>1, <2>3 DEF Committed, HeldInv
<1>2. ASSUME Committed, NEW d, NEW t, TakesBack(d, t) PROVE HeldInv'
  <2>1. OtherRowsStay(d, t.id) /\ Tidy(d) /\ db' = UnsyncPayment(d, t)
    BY <1>2 DEF TakesBack, OtherRowsStay
  <2>2. Within(d, {t.id}) BY <2>1, HeldElsewhere DEF HeldInv
  <2>3. Within(db', {}) BY <2>1, <2>2, HeldUnsync
  <2> QED BY <1>2, <2>3 DEF Committed, HeldInv
<1>3. CASE Committed /\ Records
  <2>1. OtherRowsStay(db', db.lastTxn + 1) BY <1>3 DEF Records
  <2>2. Within(db', {db.lastTxn + 1}) BY <2>1, HeldElsewhere DEF HeldInv
  <2>3. \A e \in db'.journal : e.of # db.lastTxn + 1
    <3>1. \A e \in db.journal : e.of \in Nat /\ e.of <= db.lastTxn
      BY LedgerEntry DEF CalmInv, Tidy, Entry
    <3>2. db.lastTxn \in Nat BY LedgerEntry DEF CalmInv, Tidy
    <3> QED BY <2>1, <3>1, <3>2 DEF OtherRowsStay
  <2>4. PaymentsBut(db', {db.lastTxn + 1}) = PaymentsBut(db', {})
    BY <2>3 DEF PaymentsBut, PaymentEntries
  <2>5. Within(db', {}) BY <2>2, <2>4 DEF Within, HeldBut
  <2> QED BY <1>3, <2>5 DEF Committed, HeldInv
<1>4. CASE \E patch \in Patches : Edits(patch) BY <1>4, EditKeepsHeld
<1>5. ASSUME NEW t, Resyncs(t) PROVE HeldInv'
  <2>1. /\ t \in tx.txns /\ t.id \in left /\ left' = left \ {t.id}
        /\ tx' = SyncPayment(tx, t) /\ db' = IF left' = {} THEN tx' ELSE db
    BY <1>5 DEF Resyncs
  <2>2. left \union {t.id} = left BY <2>1
  <2>3. Tidy(tx) /\ Within(tx, left \union {t.id}) BY <2>2 DEF CalmInv, HeldInv
  <2>4. Within(tx', left') BY <2>1, <2>3, HeldSync
  <2> QED BY <2>1, <2>4 DEF HeldInv
<1>6. ASSUME Committed, NEW target \in Statuses, Moves(target) PROVE HeldInv'
  <2>1. PICK d, moved :
          /\ Changes(db, d, OrderSide)
          /\ moved.order = [d.order EXCEPT !.status = target]
          /\ moved.journal = d.journal /\ moved.txns = d.txns
          /\ db' = moved \/ Changes(moved, db', OrderSide)
    BY <1>6 DEF Moves
  <2>2. Within(d, {}) BY <2>1, HeldOrder DEF HeldInv
  <2>3. Cap(moved) = Cap(d)
    <3>1. d.order \in Order BY <2>1, LedgerEntry DEF Changes, Tidy
    <3> QED BY <2>1, <3>1 DEF Cap, Order
  <2>4. Within(moved, {}) BY <2>1, <2>2, <2>3, HeldAlike
  <2>5. Within(db', {}) BY <2>1, <2>4, HeldOrder
  <2> QED BY <1>6, <2>5 DEF Committed, HeldInv
<1>7. ASSUME Committed, NEW status \in Statuses, ItemsMove(status) PROVE HeldInv'
  <2>1. Cap(db') = Cap(db)
    <3>1. db.order \in Order BY LedgerEntry DEF CalmInv, BooksInv
    <3> QED BY <1>7, <3>1 DEF ItemsMove, Cap, Order
  <2>2. Within(db', {}) BY <1>7, <2>1, HeldAlike DEF ItemsMove, HeldInv
  <2> QED BY <1>7, <2>2 DEF Committed, HeldInv
<1> QED BY <1>1, <1>2, <1>3, <1>4, <1>5, <1>6, <1>7 DEF Phase

LEMMA HeldTells ==
  ASSUME HeldInv PROVE HeldWithinFee
<1> SUFFICES ASSUME db.order.delivery = "bus" PROVE HeldShipping(db, {}) <= db.order.fee
  BY DEF HeldWithinFee
<1>1. PaymentEntries(db) \ {} = PaymentsBut(db, {}) BY DEF PaymentsBut
<1>2. HeldShipping(db, {}) = HeldBut(db, {}) BY <1>1 DEF HeldShipping, HeldBut
<1> QED BY <1>2 DEF HeldInv, Within, Cap

LEMMA InitHeld == Init => HeldInv
<1> SUFFICES ASSUME Init PROVE HeldInv OBVIOUS
<1>1. db.txns = {} /\ tx = db /\ left = {} BY DEF Init
<1>2. Within(db, {}) BY <1>1, InitCalm, HeldByNone DEF CalmInv, BooksInv
<1> QED BY <1>1, <1>2 DEF HeldInv

(***************************************************************************)
(* The payments of a bus order never hold more than its fee for the        *)
(* carrier, whatever is paid, refunded, invalidated and restored, and      *)
(* however often an edit changes the fee or the delivery and splits the    *)
(* payments again, where requests do not overlap and no period is closed.  *)
(***************************************************************************)
THEOREM FeeIsEnough ==
  ASSUME OneAtATime, NeverClosed
  PROVE  Spec => []HeldWithinFee
<1>1. Init => CalmInv /\ HeldInv BY InitCalm, InitHeld
<1>2. CalmInv /\ HeldInv /\ [Next]_vars => (CalmInv /\ HeldInv)'
  <2> SUFFICES ASSUME CalmInv, HeldInv, [Next]_vars PROVE (CalmInv /\ HeldInv)' OBVIOUS
  <2>1. CalmInv' /\ (Reading \/ Phase) BY NextCalm
  <2>2. CASE Reading
    <3>1. UNCHANGED <<db, tx, left>> BY <2>2, ReadingLeaves
    <3> QED BY <2>1, <3>1 DEF HeldInv
  <2>3. CASE Phase BY <2>1, <2>3, PhaseIsHeld
  <2> QED BY <2>1, <2>2, <2>3
<1>3. CalmInv /\ HeldInv => HeldWithinFee BY HeldTells
<1> QED BY <1>1, <1>2, <1>3, PTL DEF Spec

-----------------------------------------------------------------------------
(***************************************************************************)
(* A cancelled order.                                                      *)
(***************************************************************************)
CancelledClear(d) == d.order.status = "cancelled" => OnlyPayments(d)

CancelInv ==
  /\ CancelledClear(db) /\ CancelledClear(tx)
  /\ ~LockFree => tx.order.status # "cancelled"

LEMMA InitCancel == Init => CancelInv
BY DEF Init, CancelInv, CancelledClear, OnlyPayments, LockFree

\* A payment that comes or goes is all that changes, while nothing is handed over.
LEMMA ClearPayment ==
  ASSUME NEW d, OnlyPayments(d), NEW d2, NEW id, Changes(d, d2, {PaymentKey(id)})
  PROVE  OnlyPayments(d2)
<1> SUFFICES ASSUME NEW e \in d2.journal PROVE IsPayment(e) BY DEF OnlyPayments
<1>1. CASE Key(e) = PaymentKey(id)
  BY <1>1 DEF Changes, Tidy, Shaped, IsRelease, IsOrderEntry, Key, PaymentKey
<1>2. CASE Key(e) # PaymentKey(id) BY <1>2 DEF Changes, OnlyPayments
<1> QED BY <1>1, <1>2

LEMMA PhaseIsClear ==
  ASSUME "by_items" \notin Practices, CalmInv, CancelInv, Phase
  PROVE  CancelInv'
<1>1. ASSUME Committed, NEW d, NEW u, Books(d, u) PROVE CancelInv'
  <2>1. /\ Tidy(d) /\ d.journal = db.journal /\ d.order = db.order /\ u \in d.txns
        /\ db' = SyncPayment(d, u)
    BY <1>1 DEF Books, OtherRowsStay
  <2>2. u \in Transaction /\ u.id <= d.lastTxn BY <2>1, LedgerEntry DEF Tidy, Ledger
  <2>3. /\ Changes(d, db', {PaymentKey(u.id), ReleaseKey})
        /\ ~ReleaseDue(d) => Changes(d, db', {PaymentKey(u.id)})
    BY <2>1, <2>2, SyncPaymentChanges
  <2>4. db'.order = db.order BY <2>1, <2>3 DEF Changes, SameRows
  <2>5. ASSUME db.order.status = "cancelled" PROVE OnlyPayments(db')
    <3>1. ~ReleaseDue(d) BY <2>1, <2>5 DEF ReleaseDue, HandedOver
    <3>2. OnlyPayments(d) BY <2>1, <2>5 DEF CancelInv, CancelledClear, OnlyPayments
    <3> QED BY <2>3, <3>1, <3>2, ClearPayment
  <2> QED BY <1>1, <2>4, <2>5 DEF Committed, CancelInv, CancelledClear, LockFree
<1>2. ASSUME Committed, NEW d, NEW t, TakesBack(d, t) PROVE CancelInv'
  <2>1. /\ Tidy(d) /\ d.journal = db.journal /\ d.order = db.order
        /\ db' = UnsyncPayment(d, t)
    BY <1>2 DEF TakesBack, OtherRowsStay
  <2>2. /\ Changes(d, db', {PaymentKey(t.id), ReleaseKey})
        /\ ~ReleaseDue(d) => Changes(d, db', {PaymentKey(t.id)})
    BY <2>1, UnsyncPaymentChanges
  <2>3. db'.order = db.order BY <2>1, <2>2 DEF Changes, SameRows
  <2>4. ASSUME db.order.status = "cancelled" PROVE OnlyPayments(db')
    <3>1. ~ReleaseDue(d) BY <2>1, <2>4 DEF ReleaseDue, HandedOver
    <3>2. OnlyPayments(d) BY <2>1, <2>4 DEF CancelInv, CancelledClear, OnlyPayments
    <3> QED BY <2>2, <3>1, <3>2, ClearPayment
  <2> QED BY <1>2, <2>3, <2>4 DEF Committed, CancelInv, CancelledClear, LockFree
<1>3. CASE Committed /\ Records
  <2>1. db'.journal = db.journal /\ db'.order = db.order BY <1>3 DEF Records, OtherRowsStay
  <2> QED BY <1>3, <2>1 DEF Committed, CancelInv, CancelledClear, OnlyPayments, LockFree
<1>4. ASSUME NEW patch \in Patches, Edits(patch) PROVE CancelInv'
  <2>1. PICK d : /\ Tidy(d) /\ d.order = EditedOrder(db.order, db.order, patch)
                 /\ Changes(d, tx', OrderKeys)
    BY <1>4 DEF Edits
  <2>2. db.order.status # "cancelled" /\ db' = IF left' = {} THEN tx' ELSE db
    BY <1>4 DEF Edits
  <2>3. tx'.order.status = db.order.status
    <3>1. db.order \in Order BY LedgerEntry DEF CalmInv, BooksInv
    <3>2. d.order.status = db.order.status BY <2>1, <3>1 DEF EditedOrder, Order
    <3> QED BY <2>1, <3>2 DEF Changes, SameRows
  <2> QED BY <2>2, <2>3 DEF CancelInv, CancelledClear
<1>5. ASSUME ~LockFree, NEW t, Resyncs(t) PROVE CancelInv'
  <2>1. /\ t \in tx.txns /\ tx' = SyncPayment(tx, t) /\ Tidy(tx)
        /\ db' = IF left' = {} THEN tx' ELSE db
    BY <1>5 DEF Resyncs, CalmInv
  <2>2. t \in Transaction /\ t.id <= tx.lastTxn
    BY <2>1, LedgerEntry DEF Tidy, Ledger
  <2>3. tx'.order = tx.order BY <2>1, <2>2, SyncPaymentChanges DEF Changes, SameRows
  <2> QED BY <1>5, <2>1, <2>3 DEF CancelInv, CancelledClear
<1>6. ASSUME Committed, NEW target \in Statuses, Moves(target) PROVE CancelInv'
  <2>1. PICK d, moved :
          /\ Tidy(d) /\ (target = "cancelled" => OnlyPayments(d))
          /\ moved.order = [d.order EXCEPT !.status = target]
          /\ moved.journal = d.journal
          /\ \/ db' = moved
             \/ target \in HandedOver /\ Changes(moved, db', OrderSide)
    BY <1>6 DEF Moves, Changes
  <2>2. moved.order.status = target
    <3>1. d.order \in Order BY <2>1, LedgerEntry DEF Tidy
    <3> QED BY <2>1, <3>1 DEF Order
  <2>3. CASE target = "cancelled"
    <3>1. db' = moved BY <2>1, <2>3 DEF HandedOver
    <3> QED BY <1>6, <2>1, <2>3, <3>1
        DEF Committed, CancelInv, CancelledClear, OnlyPayments, LockFree
  <2>4. CASE target # "cancelled"
    <3>1. db'.order.status # "cancelled" BY <2>1, <2>2, <2>4 DEF Changes, SameRows
    <3> QED BY <1>6, <3>1 DEF Committed, CancelInv, CancelledClear, LockFree
  <2> QED BY <2>3, <2>4
<1>7. CASE \E status \in Statuses : ItemsMove(status) BY <1>7 DEF ItemsMove
<1> QED BY <1>1, <1>2, <1>3, <1>4, <1>5, <1>6, <1>7 DEF Phase

LEMMA ClearTells ==
  ASSUME CalmInv, CancelledClear(db) PROVE CancelledOwesNothing
<1> SUFFICES ASSUME OnlyPayments(db)
             PROVE  /\ Balance("revenue") = 0 /\ Balance("receivable") = 0
                    /\ NetOf(Releases(db), "shipping") = 0
  BY DEF CancelledClear, CancelledOwesNothing
<1>1. IsFiniteSet(db.journal) BY DEF CalmInv, BooksInv, Ledger
<1>2. /\ \A e \in db.journal : e.lines["revenue"] = 0
      /\ \A e \in db.journal : e.lines["receivable"] = 0
  BY DEF OnlyPayments, IsPayment
<1>3. NetOf(db.journal, "revenue") = 0 /\ NetOf(db.journal, "receivable") = 0
  BY <1>1, <1>2, NetZero
<1>4. Releases(db) = {} BY DEF OnlyPayments, IsPayment, Releases, EntriesOf
<1> QED BY <1>3, <1>4, NetNone DEF Balance

(***************************************************************************)
(* A cancelled order keeps nothing but the entries of its payments: no     *)
(* revenue, no receivable and no shipping paid out, whichever of them it   *)
(* had, and whatever is paid, refunded or taken back afterwards, where     *)
(* requests do not overlap, no period is closed and the status is not      *)
(* moved by the items.                                                     *)
(***************************************************************************)
THEOREM CancelledIsClear ==
  ASSUME OneAtATime, NeverClosed, "by_items" \notin Practices
  PROVE  Spec => []CancelledOwesNothing
<1>1. Init => CalmInv /\ CancelInv BY InitCalm, InitCancel
<1>2. CalmInv /\ CancelInv /\ [Next]_vars => (CalmInv /\ CancelInv)'
  <2> SUFFICES ASSUME CalmInv, CancelInv, [Next]_vars PROVE (CalmInv /\ CancelInv)' OBVIOUS
  <2>1. CalmInv' /\ (Reading \/ Phase) BY NextCalm
  <2>2. CASE Reading
    <3>1. UNCHANGED <<db, tx, left>> BY <2>2, ReadingLeaves
    <3> QED BY <2>1, <3>1 DEF CancelInv, LockFree
  <2>3. CASE Phase BY <2>1, <2>3, PhaseIsClear
  <2> QED BY <2>1, <2>2, <2>3
<1>3. CalmInv /\ CancelInv => CancelledOwesNothing BY ClearTells DEF CancelInv
<1> QED BY <1>1, <1>2, <1>3, PTL DEF Spec

-----------------------------------------------------------------------------
(***************************************************************************)
(* Revenue is recognised once.                                             *)
(***************************************************************************)
RevenueKey == OrderKey("revenue")
ReceivableKey == OrderKey("receivable")

\* Revenue that was recognised is of money that was paid, and of nothing owed.
Recognised(d) ==
  At(d, RevenueKey) # {} =>
    /\ d.order.status \in HandedOver
    /\ Paid(d) > 0
    /\ At(d, ReceivableKey) = {}

RevenueInv == Recognised(db) /\ Recognised(tx)

LEMMA InitRevenue == Init => RevenueInv
BY DEF Init, RevenueInv, Recognised, At

\* While a payment is booked or taken back.
LEMMA RecognisedPayment ==
  ASSUME NEW d, NEW d2, NEW id, Changes(d, d2, {PaymentKey(id), ReleaseKey}), Recognised(d)
  PROVE  Recognised(d2)
<1> DEFINE K == {PaymentKey(id), ReleaseKey}
<1>1. RevenueKey \notin K /\ ReceivableKey \notin K
  BY KeysDiffer DEF RevenueKey, ReceivableKey
<1>2. Changes(d, d2, K) OBVIOUS
<1> HIDE DEF K
<1>3. At(d2, RevenueKey) = At(d, RevenueKey) /\ At(d2, ReceivableKey) = At(d, ReceivableKey)
  BY <1>1, <1>2, ChangesElsewhere
<1>4. d2.order = d.order /\ d2.txns = d.txns BY <1>2 DEF Changes, SameRows
<1>5. Paid(d2) = Paid(d) BY <1>4, SameTotals
<1> QED BY <1>3, <1>4, <1>5 DEF Recognised

LEMMA RecognisedRows ==
  ASSUME ~({"unpay", "late_payment"} \subseteq Practices), CalmInv, Recognised(db),
         NEW d, NEW own, OtherRowsStay(d, own)
  PROVE  Recognised(d)
<1> SUFFICES ASSUME At(d, RevenueKey) # {}
             PROVE  /\ d.order.status \in HandedOver /\ Paid(d) > 0
                    /\ At(d, ReceivableKey) = {}
  BY DEF Recognised
<1>1. At(d, RevenueKey) = At(db, RevenueKey) /\ At(d, ReceivableKey) = At(db, ReceivableKey)
  BY DEF OtherRowsStay, At
<1>2. db.order.status \in HandedOver /\ Paid(db) > 0 /\ At(d, ReceivableKey) = {}
  BY <1>1 DEF Recognised
<1>3. d.order = db.order /\ Tidy(d) /\ ~PaysLess(d) BY DEF OtherRowsStay
<1>4. Paid(d) \in Int /\ Paid(db) \in Int BY <1>3, PaidIsWhole DEF CalmInv, Tidy
<1>5. ~(Paid(d) < Paid(db)) BY <1>2, <1>3 DEF PaysLess, IsHandedOver
<1> QED BY <1>2, <1>3, <1>4, <1>5

\* Where money was paid the order is not unpaid, and deposits have been paid.
LEMMA PaidOrNot ==
  ASSUME NEW d, Ledger(d)
  PROVE  /\ IsUnpaid(d) => ~(Paid(d) > 0)
         /\ DepositBalance(d) # 0 => Paid(d) > 0
<1>1. /\ TotalPaidExclOutflows(d) \in Nat /\ TotalTienRut(d) \in Nat
      /\ TotalOutflows(d) \in Nat
  BY TotalIsWhole DEF TotalPaidExclOutflows, TotalTienRut, TotalOutflows
<1>2. d.order.fee \in Nat BY LedgerEntry DEF Order
<1>3. IsUnpaid(d) => ~(Paid(d) > 0) BY <1>1 DEF IsUnpaid, Paid
<1>4. DepositBalance(d) # 0 => Paid(d) > 0
  BY <1>1, <1>2 DEF DepositBalance, Larger, Paid
<1> QED BY <1>3, <1>4

\* What reconciling leaves.
LEMMA RecognisedAfter ==
  ASSUME NEW d, Tidy(d), d.order.status \in HandedOver, NEW d2, SameRows(d, d2),
         RecognisedFrom(d, d2), At(d, RevenueKey) # {} => Paid(d) > 0
  PROVE  Recognised(d2)
<1>1. d2.order = d.order /\ d2.txns = d.txns BY DEF SameRows
<1>2. Paid(d2) = Paid(d) BY <1>1, SameTotals
<1>3. CASE IsUnpaid(d)
  <2>1. At(d2, RevenueKey) = At(d, RevenueKey) BY <1>3 DEF RecognisedFrom, RevenueKey
  <2>2. ~(Paid(d) > 0) BY <1>3, PaidOrNot DEF Tidy
  <2> QED BY <2>1, <2>2 DEF Recognised
<1>4. CASE ~IsUnpaid(d)
  <2>1. At(d2, ReceivableKey) = {} /\ (At(d2, RevenueKey) # {} => DepositBalance(d) # 0)
    BY <1>4 DEF RecognisedFrom, RevenueKey, ReceivableKey
  <2>2. DepositBalance(d) # 0 => Paid(d) > 0 BY PaidOrNot DEF Tidy
  <2> QED BY <1>1, <1>2, <2>1, <2>2 DEF Recognised
<1> QED BY <1>3, <1>4

LEMMA PhaseIsRecognised ==
  ASSUME "step_back" \notin Practices, "by_items" \notin Practices,
         ~({"unpay", "late_payment"} \subseteq Practices),
         CalmInv, RevenueInv, Phase
  PROVE  RevenueInv'
<1>1. ASSUME Committed, NEW d, NEW u, Books(d, u) PROVE RevenueInv'
  <2>1. OtherRowsStay(d, u.id) /\ Tidy(d) /\ u \in d.txns /\ db' = SyncPayment(d, u)
    BY <1>1 DEF Books, OtherRowsStay
  <2>2. u \in Transaction /\ u.id <= d.lastTxn BY <2>1, LedgerEntry DEF Tidy, Ledger
  <2>3. Changes(d, db', {PaymentKey(u.id), ReleaseKey}) BY <2>1, <2>2, SyncPaymentChanges
  <2>4. Recognised(d) BY <2>1, RecognisedRows DEF RevenueInv
  <2>5. Recognised(db') BY <2>3, <2>4, RecognisedPayment
  <2> QED BY <1>1, <2>5 DEF Committed, RevenueInv
<1>2. ASSUME Committed, NEW d, NEW t, TakesBack(d, t) PROVE RevenueInv'
  <2>1. OtherRowsStay(d, t.id) /\ Tidy(d) /\ db' = UnsyncPayment(d, t)
    BY <1>2 DEF TakesBack, OtherRowsStay
  <2>2. Changes(d, db', {PaymentKey(t.id), ReleaseKey}) BY <2>1, UnsyncPaymentChanges
  <2>3. Recognised(d) BY <2>1, RecognisedRows DEF RevenueInv
  <2>4. Recognised(db') BY <2>2, <2>3, RecognisedPayment
  <2> QED BY <1>2, <2>4 DEF Committed, RevenueInv
<1>3. CASE Committed /\ Records
  <2>1. Recognised(db') BY <1>3, RecognisedRows DEF Records, RevenueInv
  <2> QED BY <1>3, <2>1 DEF Committed, RevenueInv
<1>4. ASSUME NEW patch \in Patches, Edits(patch) PROVE RevenueInv'
  <2>1. PICK d : /\ Tidy(d) /\ d.journal = db.journal /\ d.txns = db.txns
                 /\ d.order = EditedOrder(db.order, db.order, patch)
                 /\ Changes(d, tx', OrderKeys)
                 /\ tx' = d \/ (IsHandedOver /\ RecognisedFrom(d, tx'))
    BY <1>4 DEF Edits
  <2>2. d.order.status = db.order.status
    <3>1. db.order \in Order BY LedgerEntry DEF CalmInv, BooksInv
    <3> QED BY <2>1, <3>1 DEF EditedOrder, Order
  <2>3. /\ At(d, RevenueKey) = At(db, RevenueKey)
        /\ At(d, ReceivableKey) = At(db, ReceivableKey) /\ Paid(d) = Paid(db)
    BY <2>1, SameTotals DEF At
  <2>4. Recognised(d) BY <2>2, <2>3 DEF RevenueInv, Recognised
  <2>5. CASE IsHandedOver /\ RecognisedFrom(d, tx')
    <3>1. d.order.status \in HandedOver BY <2>2, <2>5 DEF IsHandedOver
    <3>2. SameRows(d, tx') BY <2>1 DEF Changes
    <3>3. Recognised(tx') BY <2>1, <2>4, <2>5, <3>1, <3>2, RecognisedAfter DEF Recognised
    <3> QED BY <1>4, <3>3 DEF Edits, RevenueInv
  <2>6. CASE tx' = d BY <1>4, <2>4, <2>6 DEF Edits, RevenueInv
  <2> QED BY <2>1, <2>5, <2>6
<1>5. ASSUME NEW t, Resyncs(t) PROVE RevenueInv'
  <2>1. /\ t \in tx.txns /\ tx' = SyncPayment(tx, t) /\ Tidy(tx)
        /\ db' = IF left' = {} THEN tx' ELSE db
    BY <1>5 DEF Resyncs, CalmInv
  <2>2. t \in Transaction /\ t.id <= tx.lastTxn
    BY <2>1, LedgerEntry DEF Tidy, Ledger
  <2>3. Changes(tx, tx', {PaymentKey(t.id), ReleaseKey}) BY <2>1, <2>2, SyncPaymentChanges
  <2>4. Recognised(tx') BY <2>3, RecognisedPayment DEF RevenueInv
  <2> QED BY <2>1, <2>4 DEF RevenueInv
<1>6. ASSUME Committed, NEW target \in Statuses, Moves(target) PROVE RevenueInv'
  <2>1. PICK d, moved :
          /\ Changes(db, d, OrderSide)
          /\ IF target = "cancelled" THEN OnlyPayments(d) ELSE d = db
          /\ Tidy(moved) /\ moved.order = [d.order EXCEPT !.status = target]
          /\ moved.journal = d.journal /\ moved.txns = d.txns
          /\ \/ db' = moved /\ (target \notin HandedOver \/ target = db.order.status)
             \/ /\ target \in HandedOver
                /\ Changes(moved, db', OrderSide) /\ RecognisedFrom(moved, db')
    BY <1>6 DEF Moves
  <2>2. moved.order.status = target
    <3>1. d.order \in Order BY <2>1, LedgerEntry DEF Changes, Tidy
    <3> QED BY <2>1, <3>1 DEF Order
  <2>3. ~StepsBack(db.order.status, target) BY <1>6 DEF Moves
  <2>4. CASE target = "cancelled"
    <3>1. db' = moved BY <2>1, <2>4 DEF HandedOver
    <3>2. At(db', RevenueKey) = {}
      BY <2>1, <2>4, <3>1 DEF OnlyPayments, IsPayment, At, Key, RevenueKey, OrderKey
    <3> QED BY <1>6, <3>2 DEF Committed, RevenueInv, Recognised
  <2>5. CASE target # "cancelled"
    <3>1. /\ At(moved, RevenueKey) = At(db, RevenueKey)
          /\ At(moved, ReceivableKey) = At(db, ReceivableKey)
          /\ Paid(moved) = Paid(db)
      BY <2>1, <2>5, SameTotals DEF At
    <3>2. CASE target \in HandedOver /\ SameRows(moved, db') /\ RecognisedFrom(moved, db')
      <4>1. At(moved, RevenueKey) # {} => Paid(moved) > 0
        BY <3>1 DEF RevenueInv, Recognised
      <4>2. Recognised(db') BY <2>1, <2>2, <3>2, <4>1, RecognisedAfter
      <4> QED BY <1>6, <4>2 DEF Committed, RevenueInv
    <3>3. CASE db' = moved /\ (target \notin HandedOver \/ target = db.order.status)
      <4>1. db.order.status \in HandedOver => target \in HandedOver
        BY <2>3, <2>5, <3>3 DEF StepsBack, HandedOver
      <4>2. Recognised(db') BY <2>2, <3>1, <3>3, <4>1 DEF RevenueInv, Recognised
      <4> QED BY <1>6, <4>2 DEF Committed, RevenueInv
    <3> QED BY <2>1, <3>2, <3>3 DEF Changes
  <2> QED BY <2>4, <2>5
<1>7. CASE \E status \in Statuses : ItemsMove(status) BY <1>7 DEF ItemsMove
<1> QED BY <1>1, <1>2, <1>3, <1>4, <1>5, <1>6, <1>7 DEF Phase

LEMMA RecognisedTells ==
  ASSUME CalmInv, RevenueInv PROVE RevenueRecognisedOnce
BY LooksFor DEF CalmInv, RevenueInv, Recognised, RevenueRecognisedOnce, RevenueKey, ReceivableKey

(***************************************************************************)
(* No order carries revenue from its deposits and a receivable at once,    *)
(* however deliveries, completions, cancellations, edits and payments      *)
(* follow one another, where requests do not overlap, no period is closed, *)
(* the status neither steps back nor is moved by the items, and payments   *)
(* are not taken back after the hand-over and then others taken.           *)
(***************************************************************************)
THEOREM RevenueOnce ==
  ASSUME OneAtATime, NeverClosed, "step_back" \notin Practices, "by_items" \notin Practices,
         ~({"unpay", "late_payment"} \subseteq Practices)
  PROVE  Spec => []RevenueRecognisedOnce
<1>1. Init => CalmInv /\ RevenueInv BY InitCalm, InitRevenue
<1>2. CalmInv /\ RevenueInv /\ [Next]_vars => (CalmInv /\ RevenueInv)'
  <2> SUFFICES ASSUME CalmInv, RevenueInv, [Next]_vars PROVE (CalmInv /\ RevenueInv)'
    OBVIOUS
  <2>1. CalmInv' /\ (Reading \/ Phase) BY NextCalm
  <2>2. CASE Reading
    <3>1. UNCHANGED <<db, tx, left>> BY <2>2, ReadingLeaves
    <3> QED BY <2>1, <3>1 DEF RevenueInv
  <2>3. CASE Phase BY <2>1, <2>3, PhaseIsRecognised
  <2> QED BY <2>1, <2>2, <2>3
<1>3. CalmInv /\ RevenueInv => RevenueRecognisedOnce BY RecognisedTells
<1> QED BY <1>1, <1>2, <1>3, PTL DEF Spec

-----------------------------------------------------------------------------
(***************************************************************************)
(* The sums of the payments, over their rows.                              *)
(***************************************************************************)
\* What the row t comes to among the deposits.
DepositOf(t) ==
  IF ~t.valid \/ t.type = "tien_rut" THEN 0
  ELSE IF t.type = "refund" THEN -t.amount ELSE t.amount

DepositsOf(S) == [t \in S |-> DepositOf(t)]

LEMMA DepositIsWhole ==
  ASSUME NEW t \in Transaction
  PROVE  /\ DepositOf(t) \in Int /\ t.amount \in Nat
         /\ t.type \in {"deposit", "refund", "tien_rut"} /\ t.valid \in BOOLEAN
<1>1. t.amount \in Nat /\ t.type \in {"deposit", "refund", "tien_rut"} /\ t.valid \in BOOLEAN
  BY BooksAssumption DEF Transaction, TransactionType
<1>2. 0 \in Int /\ t.amount \in Int /\ -t.amount \in Int BY <1>1
<1> QED BY <1>1, <1>2, Zenon DEF DepositOf

\* Where the others are nothing a part has the sum.
LEMMA SumOverPart ==
  ASSUME NEW S, IsFiniteSet(S), NEW T, T \subseteq S, NEW f,
         \A x \in S : f[x] \in Int, \A x \in S \ T : f[x] = 0
  PROVE  SumFunctionOnSet(f, S) = SumFunctionOnSet(f, T)
<1> DEFINE R == S \ T
<1>1. IsFiniteSet(T) /\ IsFiniteSet(R) /\ T \cap R = {} /\ T \cup R = S
  <2>1. T \in SUBSET S /\ R \in SUBSET S OBVIOUS
  <2> QED BY <2>1, FS_Subset
<1>2. (\A x \in T \cup R : f[x] \in Int) /\ \A x \in R : f[x] = 0 BY <1>1
<1> HIDE DEF R
<1>3. SumFunctionOnSet(f, R) = Cardinality(R) * 0 BY <1>1, <1>2, SumConstant
<1>4. Cardinality(R) \in Nat /\ SumFunctionOnSet(f, T) \in Int
  BY <1>1, <1>2, FS_CardinalityType, SumInt
<1>5. SumFunctionOnSet(f, T \cup R) = SumFunctionOnSet(f, T) + SumFunctionOnSet(f, R)
  BY <1>1, <1>2, SumUnion
<1> QED BY <1>1, <1>3, <1>4, <1>5

\* The amounts of some rows, over all of them.
AmountIn(t, types) == IF t.valid /\ t.type \in types THEN t.amount ELSE 0

LEMMA TotalOverRows ==
  ASSUME NEW d, Ledger(d), NEW types
  PROVE  TotalOf(d, types) = SumFunctionOnSet([t \in d.txns |-> AmountIn(t, types)], d.txns)
<1> DEFINE S == {t \in d.txns : t.valid /\ t.type \in types}
           f == [t \in S |-> t.amount]
           g == [t \in d.txns |-> AmountIn(t, types)]
<1>1. TotalOf(d, types) = SumFunctionOnSet(f, S) BY TotalIs
<1>2. IsFiniteSet(d.txns) /\ S \subseteq d.txns /\ IsFiniteSet(S)
  <2>1. S \in SUBSET d.txns OBVIOUS
  <2> QED BY <2>1, FS_Subset DEF Ledger
<1>3. /\ \A t \in S : f[t] = g[t]
      /\ \A t \in d.txns : g[t] \in Int
      /\ \A t \in d.txns \ S : g[t] = 0
  <2>1. \A t \in d.txns : t.amount \in Int BY LedgerEntry, DepositIsWhole
  <2> QED BY <2>1 DEF AmountIn
<1> HIDE DEF f, g, S
<1>4. SumFunctionOnSet(f, S) = SumFunctionOnSet(g, S) BY <1>2, <1>3, SumEqual
<1>5. SumFunctionOnSet(g, d.txns) = SumFunctionOnSet(g, S) BY <1>2, <1>3, SumOverPart
<1> QED BY <1>1, <1>4, <1>5 DEF g

\* What was paid is what the rows come to.
LEMMA PaidIs ==
  ASSUME NEW d, Ledger(d)
  PROVE  Paid(d) = SumFunctionOnSet(DepositsOf(d.txns), d.txns)
<1> DEFINE S == d.txns
           given == [t \in S |-> AmountIn(t, {"deposit", "tien_rut"})]
           rut == [t \in S |-> AmountIn(t, {"tien_rut"})]
           out == [t \in S |-> AmountIn(t, {"refund"})]
           back == [t \in S |-> rut[t] + out[t]]
           f == DepositsOf(S)
<1>1. IsFiniteSet(S) BY DEF Ledger
<1>2. /\ TotalPaidExclOutflows(d) = SumFunctionOnSet(given, S)
      /\ TotalTienRut(d) = SumFunctionOnSet(rut, S)
      /\ TotalOutflows(d) = SumFunctionOnSet(out, S)
  BY TotalOverRows DEF TotalPaidExclOutflows, TotalTienRut, TotalOutflows
<1>3. \A t \in S : /\ given[t] \in Int /\ rut[t] \in Int /\ out[t] \in Int
                   /\ f[t] \in Int /\ given[t] = f[t] + (rut[t] + out[t])
  <2>1. SUFFICES ASSUME NEW t \in S
                 PROVE  /\ given[t] \in Int /\ rut[t] \in Int /\ out[t] \in Int
                        /\ f[t] \in Int /\ given[t] = f[t] + (rut[t] + out[t])
    OBVIOUS
  <2>2. /\ t.amount \in Nat /\ t.type \in {"deposit", "refund", "tien_rut"}
        /\ t.valid \in BOOLEAN
    BY LedgerEntry, DepositIsWhole
  <2> QED BY <2>2 DEF AmountIn, DepositsOf, DepositOf
<1>4. \A t \in S : back[t] = rut[t] + out[t] /\ back[t] \in Int
  <2> HIDE DEF S, given, rut, out, f
  <2> QED BY <1>3
<1>5. \A t \in S : given[t] = f[t] + back[t] BY <1>3, <1>4
<1> HIDE DEF S, given, rut, out, back, f
<1>6. SumFunctionOnSet(back, S) = SumFunctionOnSet(rut, S) + SumFunctionOnSet(out, S)
  BY <1>1, <1>3, <1>4, SumPlus
<1>7. SumFunctionOnSet(given, S) = SumFunctionOnSet(f, S) + SumFunctionOnSet(back, S)
  BY <1>1, <1>3, <1>4, <1>5, SumPlus
<1>8. /\ SumFunctionOnSet(rut, S) \in Int /\ SumFunctionOnSet(out, S) \in Int
      /\ SumFunctionOnSet(f, S) \in Int
  BY <1>1, <1>3, SumInt
<1> QED BY <1>2, <1>6, <1>7, <1>8 DEF Paid, f, S

\* The payments but for one.
RowsBut(d, id) == {t \in d.txns : t.id # id}
PaidBut(d, id) == SumFunctionOnSet(DepositsOf(RowsBut(d, id)), RowsBut(d, id))

LEMMA PaidSplit ==
  ASSUME NEW d, Ledger(d), NEW id
  PROVE  /\ PaidBut(d, id) \in Int
         /\ \A t \in d.txns : t.id = id => Paid(d) = PaidBut(d, id) + DepositOf(t)
         /\ (\A t \in d.txns : t.id # id) => Paid(d) = PaidBut(d, id)
<1> DEFINE S == d.txns
           R == RowsBut(d, id)
           f == DepositsOf(S)
<1>1. IsFiniteSet(S) /\ IsFiniteSet(R)
  <2>1. R \in SUBSET S BY DEF RowsBut
  <2> QED BY <2>1, FS_Subset DEF Ledger
<1>2. \A t \in S : f[t] \in Int /\ f[t] = DepositOf(t)
  BY LedgerEntry, DepositIsWhole DEF DepositsOf
<1>3. R \subseteq S BY DEF RowsBut
<1>4. \A t \in R : DepositsOf(R)[t] = f[t] BY <1>3 DEF DepositsOf
<1>5. PaidBut(d, id) = SumFunctionOnSet(f, R) /\ Paid(d) = SumFunctionOnSet(f, S)
  BY <1>1, <1>4, SumEqual, PaidIs DEF PaidBut
<1> HIDE DEF f
<1>6. PaidBut(d, id) \in Int BY <1>1, <1>2, <1>3, <1>5, SumInt
<1>7. ASSUME NEW t \in S, t.id = id PROVE Paid(d) = PaidBut(d, id) + DepositOf(t)
  <2>1. S \ {t} = R BY <1>7 DEF Ledger, RowsBut
  <2> HIDE DEF S, R
  <2>2. SumFunctionOnSet(f, S) = f[t] + SumFunctionOnSet(f, S \ {t})
    BY <1>1, <1>2, <1>7, SumRemove
  <2>3. f[t] \in Int /\ f[t] = DepositOf(t) BY <1>2, <1>7
  <2>4. Paid(d) = f[t] + PaidBut(d, id) BY <1>5, <2>1, <2>2
  <2> QED BY <1>6, <2>3, <2>4
<1>8. ASSUME \A t \in S : t.id # id PROVE Paid(d) = PaidBut(d, id)
  <2>1. R = S BY <1>8 DEF RowsBut
  <2> QED BY <1>5, <2>1
<1> QED BY <1>6, <1>7, <1>8

-----------------------------------------------------------------------------
(***************************************************************************)
(* The entries of the payments, over the rows they are of.                 *)
(***************************************************************************)
ValidRows(d) == {t \in d.txns : t.valid}

EntryOf(d, t) == CHOOSE e \in At(d, PaymentKey(t.id)) : TRUE

LEMMA EntryIs ==
  ASSUME NEW d, Tidy(d), Booked(d), NEW t \in ValidRows(d)
  PROVE  /\ At(d, PaymentKey(t.id)) = {EntryOf(d, t)}
         /\ EntryOf(d, t) \in PaymentEntries(d) /\ EntryOf(d, t).of = t.id
<1>1. At(d, PaymentKey(t.id)) # {} BY DEF Booked, BookedAt, ValidRows
<1>2. EntryOf(d, t) \in At(d, PaymentKey(t.id)) BY <1>1 DEF EntryOf
<1>3. At(d, PaymentKey(t.id)) = {EntryOf(d, t)} BY <1>2 DEF At, Tidy
<1> QED BY <1>2, <1>3 DEF At, Key, PaymentKey, PaymentEntries, ValidRows

LEMMA PaymentsByRow ==
  ASSUME NEW d, Tidy(d), Booked(d), NEW a \in Accounts
  PROVE  LET f == [t \in ValidRows(d) |-> EntryOf(d, t).lines[a]]
         IN  /\ NetOf(PaymentEntries(d), a) = SumFunctionOnSet(f, ValidRows(d))
             /\ \A t \in ValidRows(d) : f[t] \in Int
<1> DEFINE S == ValidRows(d)
           T == PaymentEntries(d)
           h == [t \in S |-> EntryOf(d, t)]
           f == [t \in S |-> EntryOf(d, t).lines[a]]
           g == On(T, a)
<1>1. IsFiniteSet(S)
  <2>1. S \in SUBSET d.txns BY DEF ValidRows
  <2> QED BY <2>1, FS_Subset DEF Tidy, Ledger
<1>2. Summable(T, a)
  <2>1. T \in SUBSET d.journal BY DEF PaymentEntries
  <2> QED BY <2>1, EntriesSummable DEF Tidy
<1>3. h \in [S -> T] /\ \A t \in S : h[t] = EntryOf(d, t) /\ h[t].of = t.id BY EntryIs
<1>4. \A t, u \in S : h[t] = h[u] => t = u
  <2>1. \A t, u \in S : t.id = u.id => t = u BY DEF Tidy, Ledger, ValidRows
  <2> QED BY <1>3, <2>1
<1>5. \A e \in T : \E t \in S : e = h[t]
  <2>1. SUFFICES ASSUME NEW e \in T PROVE \E t \in S : e = h[t] OBVIOUS
  <2>2. e \in At(d, PaymentKey(e.of))
    <3>1. e \in EntriesOf(d, "payment_transaction", e.of) BY <2>1 DEF PaymentEntries, EntriesOf
    <3> QED BY <3>1, LooksFor
  <2>3. PICK t \in d.txns : t.valid /\ t.id = e.of BY <2>2 DEF Booked, BookedAt
  <2>4. t \in S BY <2>3 DEF ValidRows
  <2> QED BY <1>3, <2>2, <2>3, <2>4, EntryIs
<1>6. \A t \in S : f[t] \in Int /\ g[h[t]] = f[t]
  <2>1. \A e \in T : g[e] = e.lines[a] /\ e.lines[a] \in Int BY <1>2 DEF On, Summable
  <2> QED BY <1>3, <2>1
<1>7. NetOf(T, a) = SumFunctionOnSet(g, T) BY <1>2, NetIs DEF Summable
<1>8. h \in [S -> T] BY <1>3
<1> HIDE DEF S, T, h, f, g
<1>9. SumFunctionOnSet(g, T) = SumFunctionOnSet(f, S)
  BY ONLY <1>1, <1>4, <1>5, <1>6, <1>8, SumImage
<1> QED BY <1>6, <1>7, <1>9 DEF f, S, T

\* How the entry of the row t has split its amount.
SplitsInto(lines, t) ==
  /\ lines["tien_rut"] <= 0
  /\ (lines["deposits"] + lines["shipping"]) + DepositOf(t) = 0
  /\ IF t.type = "deposit" THEN -lines["shipping"] <= t.amount ELSE lines["shipping"] = 0

Split(d) ==
  \A t \in ValidRows(d) : \A e \in At(d, PaymentKey(t.id)) : SplitsInto(e.lines, t)

\* Deposits and shipping together are what was paid.
LEMMA PaidIsBooked ==
  ASSUME NEW d, Tidy(d), Booked(d), Split(d)
  PROVE  /\ NetOf(PaymentEntries(d), "deposits") \in Int
         /\ NetOf(PaymentEntries(d), "shipping") \in Int
         /\ NetOf(PaymentEntries(d), "deposits") + NetOf(PaymentEntries(d), "shipping")
              = -Paid(d)
<1> DEFINE S == ValidRows(d)
           dep == [t \in S |-> EntryOf(d, t).lines["deposits"]]
           ship == [t \in S |-> EntryOf(d, t).lines["shipping"]]
           both == [t \in S |-> dep[t] + ship[t]]
           own == DepositsOf(d.txns)
           none == [t \in S |-> 0]
<1>1. IsFiniteSet(d.txns) /\ S \subseteq d.txns /\ IsFiniteSet(S)
  <2>1. S \in SUBSET d.txns BY DEF ValidRows
  <2> QED BY <2>1, FS_Subset DEF Tidy, Ledger
<1>2. /\ NetOf(PaymentEntries(d), "deposits") = SumFunctionOnSet(dep, S)
      /\ NetOf(PaymentEntries(d), "shipping") = SumFunctionOnSet(ship, S)
      /\ \A t \in S : dep[t] \in Int /\ ship[t] \in Int
  BY PaymentsByRow, TheAccounts
<1>3. /\ \A t \in d.txns : own[t] \in Int
      /\ \A t \in d.txns \ S : own[t] = 0
      /\ \A t \in S : own[t] = DepositOf(t)
  BY <1>1, LedgerEntry, DepositIsWhole DEF DepositsOf, DepositOf, ValidRows, Tidy
<1>4. \A t \in S : (dep[t] + ship[t]) + DepositOf(t) = 0
  <2>1. \A t \in S : SplitsInto(EntryOf(d, t).lines, t) BY EntryIs DEF Split
  <2> QED BY <2>1 DEF SplitsInto
<1>5. Paid(d) = SumFunctionOnSet(own, d.txns) BY PaidIs DEF Tidy
<1> HIDE DEF S, own
<1>6. SumFunctionOnSet(own, d.txns) = SumFunctionOnSet(own, S) BY <1>1, <1>3, SumOverPart
<1>7. \A t \in S : both[t] \in Int /\ both[t] = dep[t] + ship[t] BY <1>2
<1>8. \A t \in S : own[t] \in Int /\ none[t] = both[t] + own[t] /\ none[t] = 0
  <2> HIDE DEF dep, ship
  <2>1. SUFFICES ASSUME NEW t \in S PROVE own[t] \in Int /\ 0 = both[t] + own[t] OBVIOUS
  <2> HIDE DEF both
  <2>2. both[t] + own[t] = 0 /\ own[t] \in Int BY <1>1, <1>3, <1>4, <1>7
  <2> QED BY <2>2
<1> HIDE DEF dep, ship, both, none
<1>9. SumFunctionOnSet(both, S) = SumFunctionOnSet(dep, S) + SumFunctionOnSet(ship, S)
  BY <1>1, <1>2, <1>7, SumPlus
<1>10. SumFunctionOnSet(none, S) = SumFunctionOnSet(both, S) + SumFunctionOnSet(own, S)
  BY <1>1, <1>7, <1>8, SumPlus
<1>11. SumFunctionOnSet(none, S) = Cardinality(S) * 0 /\ Cardinality(S) \in Nat
  BY <1>1, <1>8, SumConstant, FS_CardinalityType
<1>12. /\ SumFunctionOnSet(dep, S) \in Int /\ SumFunctionOnSet(ship, S) \in Int
       /\ SumFunctionOnSet(own, S) \in Int
  BY <1>1, <1>2, <1>8, SumInt
<1>13. SumFunctionOnSet(none, S) = 0 BY <1>11
<1> DEFINE p == SumFunctionOnSet(dep, S)
           q == SumFunctionOnSet(ship, S)
           r == SumFunctionOnSet(own, S)
<1>14. p \in Int /\ q \in Int /\ r \in Int /\ 0 = (p + q) + r
  BY <1>9, <1>10, <1>12, <1>13
<1>15. Paid(d) = r BY <1>5, <1>6
<1> HIDE DEF p, q, r
<1>16. p + q = -r BY <1>14
<1> QED BY <1>2, <1>14, <1>15, <1>16 DEF p, q

-----------------------------------------------------------------------------
(***************************************************************************)
(* What one payment holds, and what the others do.                         *)
(***************************************************************************)
LEMMA HeldByOne ==
  ASSUME NEW d, Tidy(d), NEW id
  PROVE  /\ HeldBut(d, {}) \in Int /\ HeldBut(d, {id}) \in Int
         /\ 0 <= HeldBut(d, {}) /\ 0 <= HeldBut(d, {id})
         /\ At(d, PaymentKey(id)) = {} => HeldBut(d, {}) = HeldBut(d, {id})
         /\ \A e : At(d, PaymentKey(id)) = {e} /\ (\E t \in d.txns : t.id = id)
                     => HeldBut(d, {}) = HeldBut(d, {id}) - e.lines["shipping"]
<1> DEFINE own == At(d, PaymentKey(id))
           all == PaymentsBut(d, {})
           rest == PaymentsBut(d, {id})
<1>1. EntriesOf(d, "payment_transaction", id) = own BY LooksFor
<1>2. Summable(all, "shipping") /\ Summable(rest, "shipping") BY PaymentsCredit
<1>3. HeldBut(d, {}) = -NetOf(all, "shipping") /\ HeldBut(d, {id}) = -NetOf(rest, "shipping")
  BY DEF HeldBut
<1>4. ASSUME own = {} PROVE all = rest
  BY <1>1, <1>4 DEF PaymentsBut, PaymentEntries, EntriesOf
<1>5. ASSUME NEW e, own = {e}, \E t \in d.txns : t.id = id
      PROVE  NetOf(all, "shipping") = NetOf(rest, "shipping") + e.lines["shipping"]
  <2>1. all = rest \cup {e} /\ rest \cap {e} = {}
    <3>1. \A f : f \in d.journal /\ f.source = "payment_transaction" /\ f.of = id <=> f = e
      BY <1>1, <1>5 DEF EntriesOf
    <3> QED BY <1>5, <3>1 DEF PaymentsBut, PaymentEntries
  <2>2. e.lines["shipping"] \in Int
    <3>1. e \in all BY <2>1
    <3> QED BY <1>2, <3>1 DEF Summable
  <2>3. Summable({e}, "shipping") /\ NetOf({e}, "shipping") = e.lines["shipping"]
    BY <2>2, NetOne
  <2> HIDE DEF all, rest
  <2> QED BY <1>2, <2>1, <2>3, NetUnion
<1>6. HeldBut(d, {}) \in Int /\ HeldBut(d, {id}) \in Int BY PaymentsCredit
<1>7. NetOf(all, "shipping") <= 0 /\ NetOf(rest, "shipping") <= 0
  <2>1. /\ \A e \in all : e.lines["shipping"] <= 0
        /\ \A e \in rest : e.lines["shipping"] <= 0
    BY PaymentsCredit
  <2> HIDE DEF all, rest
  <2>2. {} \subseteq all /\ {} \subseteq rest OBVIOUS
  <2> QED BY <1>2, <2>1, <2>2, NetOfPart, NetNone
<1>8. NetOf(all, "shipping") \in Int /\ NetOf(rest, "shipping") \in Int BY <1>2, NetInt
<1>9. ASSUME NEW e, own = {e}, \E t \in d.txns : t.id = id
      PROVE  HeldBut(d, {}) = HeldBut(d, {id}) - e.lines["shipping"]
  <2>1. e.lines["shipping"] \in Int
    <3>1. e \in d.journal BY <1>9 DEF At
    <3> QED BY <3>1, LedgerEntry, TheAccounts DEF Tidy, Entry
  <2> QED BY <1>3, <1>5, <1>8, <1>9, <2>1
<1> HIDE DEF all, rest
<1>10. 0 <= HeldBut(d, {}) /\ 0 <= HeldBut(d, {id}) BY <1>3, <1>7, <1>8
<1> QED BY <1>3, <1>4, <1>6, <1>9, <1>10 DEF own

LEMMA HeldByOthers ==
  ASSUME NEW d, NEW d2, NEW ids,
         \A e : e.source = "payment_transaction" /\ e.of \notin ids
                  => (e \in d.journal <=> e \in d2.journal),
         \A t : t.id \notin ids => (t \in d.txns <=> t \in d2.txns)
  PROVE  HeldBut(d2, ids) = HeldBut(d, ids)
<1>1. PaymentsBut(d2, ids) = PaymentsBut(d, ids) BY DEF PaymentsBut, PaymentEntries
<1> QED BY <1>1 DEF HeldBut

LEMMA PaidByOthers ==
  ASSUME NEW d, NEW d2, NEW id, \A t : t.id # id => (t \in d.txns <=> t \in d2.txns)
  PROVE  PaidBut(d2, id) = PaidBut(d, id)
<1>1. RowsBut(d2, id) = RowsBut(d, id) BY DEF RowsBut
<1> QED BY <1>1 DEF PaidBut

\* What the entry of t is posted or updated with.
LEMMA PaymentLinesSplit ==
  ASSUME NEW d, Tidy(d), NEW t \in Transaction, t.valid
  PROVE  LET lines == PaymentLines(d, t)
         IN  /\ SplitsInto(lines, t)
             /\ lines["shipping"] = IF t.type = "deposit" THEN -ShippingPortion(d, t) ELSE 0
<1>1. ShippingPortion(d, t) \in Nat /\ t.amount \in Nat BY PortionIsWhole DEF Tidy
<1>2. t.type \in {"deposit", "refund", "tien_rut"} BY DepositIsWhole
<1>3. CASE t.type = "tien_rut"
  <2> DEFINE amounts == [asset |-> t.amount, tien_rut |-> -t.amount]
  <2>1. PaymentLines(d, t) = Lines(amounts) BY <1>3 DEF PaymentLines
  <2>2. /\ Lines(amounts)["deposits"] = 0 /\ Lines(amounts)["shipping"] = 0
        /\ Lines(amounts)["tien_rut"] = -t.amount
    BY TheAccounts DEF Lines
  <2>3. DepositOf(t) = 0 /\ -t.amount <= 0
    <3>1. DepositOf(t) = 0 BY <1>3, Zenon DEF DepositOf
    <3>2. -t.amount <= 0 BY <1>1
    <3> QED BY <3>1, <3>2
  <2> HIDE DEF amounts
  <2> QED BY <1>3, <2>1, <2>2, <2>3 DEF SplitsInto
<1>4. CASE t.type = "refund"
  <2> DEFINE amounts == [deposits |-> t.amount, asset |-> -t.amount]
  <2>1. PaymentLines(d, t) = Lines(amounts) BY <1>4 DEF PaymentLines
  <2>2. /\ Lines(amounts)["deposits"] = t.amount /\ Lines(amounts)["shipping"] = 0
        /\ Lines(amounts)["tien_rut"] = 0
    BY TheAccounts DEF Lines
  <2>3. DepositOf(t) = -t.amount BY <1>4 DEF DepositOf
  <2> HIDE DEF amounts
  <2> QED BY <1>1, <1>4, <2>1, <2>2, <2>3 DEF SplitsInto
<1>5. CASE t.type = "deposit"
  <2> DEFINE shipping == ShippingPortion(d, t)
             amounts == [asset |-> t.amount, deposits |-> shipping - t.amount,
                         shipping |-> -shipping]
  <2>1. PaymentLines(d, t) = Lines(amounts) BY <1>5 DEF PaymentLines
  <2>2. /\ Lines(amounts)["deposits"] = shipping - t.amount
        /\ Lines(amounts)["shipping"] = -shipping /\ Lines(amounts)["tien_rut"] = 0
    BY TheAccounts DEF Lines
  <2>3. DepositOf(t) = t.amount BY <1>5 DEF DepositOf
  <2>4. shipping <= t.amount
    <3>1. CASE IsBus(d)
      <4>1. /\ d.order.fee \in Nat
            /\ HeldShipping(d, OwnEntries(d, t)) \in Int
        BY HeldIsWhole, LedgerEntry DEF Tidy, Order
      <4>2. shipping = Smaller(t.amount, Larger(0, d.order.fee - HeldShipping(d, OwnEntries(d, t))))
        BY <3>1 DEF ShippingPortion
      <4> HIDE DEF shipping, amounts
      <4> QED BY <1>1, <4>1, <4>2 DEF Smaller, Larger
    <3>2. CASE ~IsBus(d) BY <1>1, <3>2 DEF ShippingPortion
    <3> QED BY <3>1, <3>2
  <2>5. shipping \in Nat BY <1>1
  <2> HIDE DEF amounts
  <2>6. PaymentLines(d, t)["shipping"] = -ShippingPortion(d, t) BY <2>1, <2>2
  <2> HIDE DEF shipping
  <2> QED BY <1>1, <1>5, <2>1, <2>2, <2>3, <2>4, <2>5, <2>6 DEF SplitsInto
<1> QED BY <1>2, <1>3, <1>4, <1>5

-----------------------------------------------------------------------------
(***************************************************************************)
(* The invariants, of the committed database and of the one an edit works  *)
(* on, where the transactions in ids are still to be split again.          *)
(***************************************************************************)
\* The whole of a deposit is held.
Full(d, t) == \A e \in At(d, PaymentKey(t.id)) : e.lines["shipping"] = -t.amount

\* The carrier's fee is held, or else all that was deposited.
Filled(d, ids) ==
  \/ Cap(d) <= HeldBut(d, {})
  \/ \A t \in ValidRows(d) : t.type = "deposit" /\ t.id \notin ids => Full(d, t)

\* Nothing was refunded of a bus order.
Refundless(d) ==
  d.order.delivery = "bus" => \A t \in ValidRows(d) : t.type # "refund"

Repaid(d) == 0 <= Paid(d)

Even(d, ids) == Split(d) /\ Filled(d, ids) /\ Refundless(d) /\ Repaid(d)

EvenInv == Even(db, {}) /\ Even(tx, left)

LEMMA InitEven == Init => EvenInv
<1> SUFFICES ASSUME Init PROVE EvenInv OBVIOUS
<1>1. db.txns = {} /\ tx = db /\ left = {} BY DEF Init
<1>2. ValidRows(db) = {} BY <1>1 DEF ValidRows
<1>3. Paid(db) = 0
  <2>1. Ledger(db) BY InitCalm DEF CalmInv, Tidy
  <2>2. Paid(db) = SumFunctionOnSet(DepositsOf({}), {}) BY <1>1, <2>1, PaidIs
  <2> QED BY <2>2, SumOfNone
<1>4. Even(db, {}) BY <1>2, <1>3 DEF Even, Split, Filled, Refundless, Repaid
<1> QED BY <1>1, <1>4 DEF EvenInv

LEMMA SplitSync ==
  ASSUME NEW d, Tidy(d), NEW u \in d.txns,
         \A t \in ValidRows(d) : t.id # u.id =>
           \A e \in At(d, PaymentKey(t.id)) : SplitsInto(e.lines, t)
  PROVE  Split(SyncPayment(d, u))
<1> DEFINE d2 == SyncPayment(d, u)
           K == {PaymentKey(u.id), ReleaseKey}
<1>1. u \in Transaction /\ u.id <= d.lastTxn BY LedgerEntry DEF Tidy, Ledger
<1>2. /\ Changes(d, d2, K)
      /\ \E e : At(d2, PaymentKey(u.id)) = {e} /\ e.lines = PaymentLines(d, u)
  BY <1>1, SyncPaymentChanges
<1>3. d2.txns = d.txns BY <1>2 DEF Changes, SameRows
<1> HIDE DEF d2
<1>4. SUFFICES ASSUME NEW t \in ValidRows(d), NEW e \in At(d2, PaymentKey(t.id))
               PROVE  SplitsInto(e.lines, t)
  BY <1>3 DEF Split, ValidRows, d2
<1>5. CASE t.id = u.id
  <2>1. t = u BY <1>5 DEF Tidy, Ledger, ValidRows
  <2>2. e.lines = PaymentLines(d, u) BY <1>2, <1>4, <1>5
  <2> QED BY <1>1, <2>1, <2>2, PaymentLinesSplit DEF ValidRows
<1>6. CASE t.id # u.id
  <2>1. PaymentKey(t.id) \notin K BY <1>6, KeysDiffer
  <2> HIDE DEF K
  <2>2. At(d2, PaymentKey(t.id)) = At(d, PaymentKey(t.id)) BY <1>2, <2>1, ChangesElsewhere
  <2> QED BY <1>4, <1>6, <2>2
<1> QED BY <1>5, <1>6

\* The others hold O, and u was paid: the fee is held, or u is full.
LEMMA PortionFills ==
  ASSUME NEW d, Tidy(d), NEW u \in d.txns, u.valid
  PROVE  LET d2 == SyncPayment(d, u)
             others == HeldBut(d, {u.id})
         IN  /\ HeldBut(d2, {}) \in Int /\ others <= HeldBut(d2, {})
             /\ Cap(d2) = Cap(d) /\ d2.order = d.order /\ d2.txns = d.txns /\ Tidy(d2)
             /\ \A id : id # u.id => At(d2, PaymentKey(id)) = At(d, PaymentKey(id))
             /\ u.type = "deposit" =>
                  \/ Cap(d) <= HeldBut(d2, {})
                  \/ Full(d2, u) /\ u.amount < Cap(d) - others
<1> DEFINE d2 == SyncPayment(d, u)
           K == {PaymentKey(u.id), ReleaseKey}
           others == HeldBut(d, {u.id})
           portion == ShippingPortion(d, u)
<1>1. u \in Transaction /\ u.id <= d.lastTxn BY LedgerEntry DEF Tidy, Ledger
<1>2. /\ Changes(d, d2, K)
      /\ \E e : At(d2, PaymentKey(u.id)) = {e} /\ e.lines = PaymentLines(d, u)
  BY <1>1, SyncPaymentChanges
<1>3. PICK e : At(d2, PaymentKey(u.id)) = {e} /\ e.lines = PaymentLines(d, u) BY <1>2
<1>4. /\ d2.order = d.order /\ d2.txns = d.txns /\ Tidy(d2) /\ Cap(d2) = Cap(d)
  BY <1>2 DEF Changes, SameRows, Cap
<1>5. ASSUME NEW id, id # u.id PROVE At(d2, PaymentKey(id)) = At(d, PaymentKey(id))
  <2>1. PaymentKey(id) \notin K BY <1>5, KeysDiffer
  <2> HIDE DEF K, d2
  <2> QED BY <1>2, <2>1, ChangesElsewhere
<1> HIDE DEF d2
<1>6. HeldBut(d2, {u.id}) = others
  <2>1. \A f : f.source = "payment_transaction" /\ f.of \notin {u.id}
                 => (f \in d.journal <=> f \in d2.journal)
    BY <1>2 DEF Changes, Key, PaymentKey, ReleaseKey
  <2> QED BY <1>4, <2>1, HeldByOthers
<1>7. HeldBut(d2, {}) = others - e.lines["shipping"]
  <2>1. \E t \in d2.txns : t.id = u.id BY <1>4
  <2> QED BY <1>3, <1>4, <1>6, <2>1, HeldByOne
<1>8. e.lines["shipping"] = IF u.type = "deposit" THEN -portion ELSE 0
  BY <1>1, <1>3, PaymentLinesSplit
<1>9. /\ portion \in Nat /\ u.amount \in Nat /\ Cap(d) \in Nat /\ d.order.fee \in Nat
      /\ others \in Int /\ 0 <= others
  BY <1>1, PortionIsWhole, CapIsWhole, HeldByOne, LedgerEntry DEF Tidy, Order
<1>10. HeldShipping(d, OwnEntries(d, u)) = others
  <2>1. PaymentEntries(d) \ OwnEntries(d, u) = PaymentsBut(d, {u.id})
    BY DEF OwnEntries, EntriesOf, PaymentEntries, PaymentsBut
  <2> QED BY <2>1 DEF HeldShipping, HeldBut
<1>11. \/ Cap(d) <= others + portion
       \/ portion = u.amount /\ u.amount < Cap(d) - others
  <2>1. CASE IsBus(d)
    <3>1. Cap(d) = d.order.fee BY <2>1 DEF IsBus, Cap
    <3>2. portion = Smaller(u.amount, Larger(0, d.order.fee - others))
      BY <2>1, <1>10 DEF ShippingPortion
    <3> HIDE DEF portion, others
    <3> QED BY <1>9, <3>1, <3>2 DEF Smaller, Larger
  <2>2. CASE ~IsBus(d)
    <3>1. Cap(d) = 0 BY <2>2, <1>9 DEF IsBus, Cap
    <3> HIDE DEF portion, others
    <3> QED BY <1>9, <3>1
  <2> QED BY <2>1, <2>2
<1> HIDE DEF portion, others
<1>12. HeldBut(d2, {}) \in Int /\ others <= HeldBut(d2, {})
  BY <1>7, <1>8, <1>9
<1>13. ASSUME u.type = "deposit"
       PROVE  \/ Cap(d) <= HeldBut(d2, {})
              \/ Full(d2, u) /\ u.amount < Cap(d) - others
  <2>1. HeldBut(d2, {}) = others + portion /\ e.lines["shipping"] = -portion
    BY <1>7, <1>8, <1>9, <1>13
  <2>2. portion = u.amount => Full(d2, u) BY <1>3, <2>1 DEF Full
  <2> QED BY <1>11, <2>1, <2>2
<1> QED BY <1>4, <1>5, <1>12, <1>13 DEF d2, others

\* The rows and the payments are those of d.
LEMMA EvenAlike ==
  ASSUME NEW d, NEW d2, NEW ids, Even(d, ids), d2.txns = d.txns,
         d2.order.delivery = d.order.delivery, d2.order.fee = d.order.fee,
         \A e : e.source = "payment_transaction" => (e \in d.journal <=> e \in d2.journal)
  PROVE  Even(d2, ids)
<1>1. HeldBut(d2, {}) = HeldBut(d, {}) BY HeldByOthers
<1>2. Cap(d2) = Cap(d) /\ ValidRows(d2) = ValidRows(d) BY DEF Cap, ValidRows
<1>3. \A id : At(d2, PaymentKey(id)) = At(d, PaymentKey(id)) BY DEF At, Key, PaymentKey
<1>4. Paid(d2) = Paid(d) BY SameTotals
<1>5. Split(d2) BY <1>2, <1>3 DEF Even, Split
<1>6. Filled(d2, ids) BY <1>1, <1>2, <1>3 DEF Even, Filled, Full
<1>7. Refundless(d2) /\ Repaid(d2) BY <1>2, <1>4 DEF Even, Refundless, Repaid
<1> QED BY <1>5, <1>6, <1>7 DEF Even

LEMMA EvenOrder ==
  ASSUME NEW d, NEW d2, Changes(d, d2, OrderSide), NEW ids, Even(d, ids)
  PROVE  Even(d2, ids)
<1>1. \A e : e.source = "payment_transaction" => Key(e) \notin OrderSide
  BY DEF Key, OrderSide, OrderKeys, OrderKey, ReleaseKey
<1>2. d2.order = d.order /\ d2.txns = d.txns BY DEF Changes, SameRows
<1> QED BY <1>1, <1>2, EvenAlike DEF Changes

\* What the entry of the transaction id holds is part of a deposit.
LEMMA HeldOfDeposit ==
  ASSUME NEW d, Tidy(d), Booked(d), Split(d), NEW id,
         HeldBut(d, {id}) < HeldBut(d, {})
  PROVE  \E r \in ValidRows(d) :
           /\ r.id = id /\ r.type = "deposit" /\ DepositOf(r) = r.amount
           /\ HeldBut(d, {}) - HeldBut(d, {id}) <= r.amount
<1>1. /\ HeldBut(d, {}) \in Int /\ HeldBut(d, {id}) \in Int
      /\ At(d, PaymentKey(id)) = {} => HeldBut(d, {}) = HeldBut(d, {id})
      /\ \A e : At(d, PaymentKey(id)) = {e} /\ (\E t \in d.txns : t.id = id)
                  => HeldBut(d, {}) = HeldBut(d, {id}) - e.lines["shipping"]
  BY HeldByOne
<1>2. At(d, PaymentKey(id)) # {} BY <1>1
<1>3. PICK e \in At(d, PaymentKey(id)) : TRUE BY <1>2
<1>4. At(d, PaymentKey(id)) = {e} BY <1>3 DEF At, Tidy
<1>5. PICK r \in d.txns : r.valid /\ r.id = id BY <1>3 DEF Booked, BookedAt
<1>6. HeldBut(d, {}) = HeldBut(d, {id}) - e.lines["shipping"] BY <1>1, <1>4, <1>5
<1>7. SplitsInto(e.lines, r) BY <1>3, <1>5 DEF Split, ValidRows
<1>8. e.lines["shipping"] \in Int /\ r.amount \in Nat
  <2>1. e \in d.journal BY <1>3 DEF At
  <2>2. r \in Transaction BY LedgerEntry DEF Tidy
  <2> QED BY <2>1, <2>2, LedgerEntry, TheAccounts, DepositIsWhole DEF Tidy, Entry
<1>9. e.lines["shipping"] # 0 BY <1>1, <1>6
<1>10. r.type = "deposit" /\ -e.lines["shipping"] <= r.amount BY <1>7, <1>9 DEF SplitsInto
<1>11. DepositOf(r) = r.amount BY <1>5, <1>10 DEF DepositOf
<1>12. HeldBut(d, {}) - HeldBut(d, {id}) <= r.amount BY <1>1, <1>6, <1>8, <1>10
<1> QED BY <1>5, <1>10, <1>11, <1>12 DEF ValidRows

\* What is paid of others than the row with this id, before and after.
LEMMA PaidElsewhere ==
  ASSUME CalmInv, NEW d, NEW id, OtherRowsStay(d, id)
  PROVE  /\ Ledger(db) /\ Ledger(d) /\ Paid(d) \in Int /\ Paid(db) \in Int
         /\ PaidBut(db, id) = PaidBut(d, id) /\ PaidBut(d, id) \in Int
         /\ HeldBut(d, {id}) = HeldBut(db, {id})
         /\ Cap(d) = Cap(db) /\ Cap(d) \in Nat /\ d.order = db.order
         /\ \A k : At(d, k) = At(db, k)
<1>1. Tidy(db) /\ Ledger(db) /\ Ledger(d) BY DEF CalmInv, OtherRowsStay, Tidy
<1>2. /\ \A t : t.id # id => (t \in d.txns <=> t \in db.txns)
      /\ d.journal = db.journal /\ d.order = db.order
  BY DEF OtherRowsStay
<1>3. PaidBut(db, id) = PaidBut(d, id) BY <1>2, PaidByOthers
<1>4. HeldBut(d, {id}) = HeldBut(db, {id}) BY <1>2, HeldByOthers
<1> QED BY <1>1, <1>2, <1>3, <1>4, PaidSplit, PaidIsWhole, CapIsWhole DEF Cap, At

LEMMA DueIsBus ==
  ASSUME NEW d, Cap(d) \in Nat, Cap(d) # 0 PROVE IsBus(d)
BY DEF Cap, IsBus

-----------------------------------------------------------------------------
(***************************************************************************)
(* Booking a payment, and taking one back.                                 *)
(***************************************************************************)
\* Nothing is refunded of a bus order that has no fee.
FreeUnrefunded(d) ==
  d.order.delivery = "bus" /\ d.order.fee = 0 => \A t \in ValidRows(d) : t.type # "refund"

LEMMA BooksFill ==
  ASSUME "unpay" \notin Practices, CalmInv, Booked(db), Even(db, {}),
         NEW d, NEW u, Books(d, u), u.valid
  PROVE  Filled(SyncPayment(d, u), {})
<1> DEFINE d2 == SyncPayment(d, u)
           others == HeldBut(d, {u.id})
<1>1. /\ OtherRowsStay(d, u.id) /\ Practised(d) /\ u \in d.txns /\ Tidy(d) /\ Tidy(db)
  BY DEF Books, OtherRowsStay, CalmInv
<1>2. /\ HeldBut(d2, {}) \in Int /\ others <= HeldBut(d2, {})
      /\ Cap(d2) = Cap(d) /\ d2.txns = d.txns
      /\ \A id : id # u.id => At(d2, PaymentKey(id)) = At(d, PaymentKey(id))
      /\ u.type = "deposit" =>
           Cap(d) <= HeldBut(d2, {}) \/ (Full(d2, u) /\ u.amount < Cap(d) - others)
  BY <1>1, PortionFills
<1> HIDE DEF d2
<1>3. /\ Paid(d) \in Int /\ Paid(db) \in Int
      /\ PaidBut(db, u.id) = PaidBut(d, u.id) /\ PaidBut(d, u.id) \in Int
      /\ others = HeldBut(db, {u.id})
      /\ Cap(d) = Cap(db) /\ Cap(d) \in Nat
      /\ \A k : At(d, k) = At(db, k)
  BY <1>1, PaidElsewhere
<1>4. others \in Int /\ HeldBut(db, {}) \in Int /\ 0 <= others
  BY <1>1, <1>3, HeldByOne
<1>5. SUFFICES ASSUME ~(Cap(d) <= HeldBut(d2, {}))
               PROVE  \A t \in ValidRows(d2) : t.type = "deposit" => Full(d2, t)
  BY <1>2 DEF Filled, d2
<1>6. others < Cap(d) BY <1>2, <1>3, <1>4, <1>5
<1>7. \A t \in ValidRows(db) : t.type = "deposit" => Full(db, t)
  <2>1. SUFFICES ASSUME Cap(db) <= HeldBut(db, {}) PROVE FALSE BY DEF Even, Filled
  <2>2. HeldBut(db, {u.id}) < HeldBut(db, {}) BY <1>3, <1>4, <1>6, <2>1
  <2>3. PICK r \in ValidRows(db) :
          /\ r.id = u.id /\ r.type = "deposit" /\ DepositOf(r) = r.amount
          /\ HeldBut(db, {}) - HeldBut(db, {u.id}) <= r.amount
    BY <1>1, <2>2, HeldOfDeposit DEF Even
  <2>4. /\ Paid(db) = PaidBut(db, u.id) + DepositOf(r)
        /\ Paid(d) = PaidBut(d, u.id) + DepositOf(u)
    BY <1>1, <2>3, PaidSplit DEF ValidRows, Tidy
  <2>5. /\ DepositOf(u) \in Int /\ u.amount \in Nat /\ r.amount \in Nat
        /\ u.type \in {"deposit", "refund", "tien_rut"}
    BY <1>1, LedgerEntry, DepositIsWhole DEF Tidy, ValidRows
  <2>6. DepositOf(u) < Cap(d) - others
    <3>1. CASE u.type = "deposit"
      <4>1. u.amount < Cap(d) - others BY <1>2, <1>5, <3>1
      <4>2. DepositOf(u) = u.amount BY <3>1 DEF DepositOf
      <4> QED BY <4>1, <4>2
    <3>2. CASE u.type # "deposit"
      <4>1. DepositOf(u) <= 0 BY <2>5, <3>2 DEF DepositOf
      <4> HIDE DEF others
      <4> QED BY <1>3, <1>4, <1>6, <2>5, <4>1
    <3> QED BY <3>1, <3>2
  <2>7. Cap(d) - others <= r.amount
    <3> HIDE DEF others
    <3> QED BY <1>3, <1>4, <2>1, <2>3, <2>5
  <2>8. Paid(d) < Paid(db)
    <3> HIDE DEF others
    <3> QED BY <1>3, <1>4, <2>3, <2>4, <2>5, <2>6, <2>7
  <2>9. IsBus(db)
    <3>1. Cap(db) # 0 BY <1>3, <1>4, <1>6
    <3> QED BY <1>3, <3>1, DueIsBus
  <2> QED BY <1>1, <2>8, <2>9 DEF Practised
<1>8. SUFFICES ASSUME NEW t \in ValidRows(d2), t.type = "deposit" PROVE Full(d2, t)
  OBVIOUS
<1>9. CASE t.id = u.id
  <2>1. t = u BY <1>1, <1>2, <1>9 DEF Tidy, Ledger, ValidRows
  <2> QED BY <1>2, <1>5, <1>8, <2>1
<1>10. CASE t.id # u.id
  <2>1. t \in ValidRows(db) BY <1>1, <1>2, <1>10 DEF OtherRowsStay, ValidRows
  <2>2. At(d2, PaymentKey(t.id)) = At(db, PaymentKey(t.id)) BY <1>2, <1>3, <1>10
  <2> QED BY <1>7, <1>8, <2>1, <2>2 DEF Full
<1> QED BY <1>9, <1>10

LEMMA BooksEven ==
  ASSUME "unpay" \notin Practices, "over_refund" \notin Practices,
         CalmInv, Booked(db), Even(db, {}),
         NEW d, NEW u, Books(d, u), u.valid, FreeUnrefunded(d)
  PROVE  Even(SyncPayment(d, u), {})
<1> DEFINE d2 == SyncPayment(d, u)
<1>1. /\ OtherRowsStay(d, u.id) /\ Practised(d) /\ u \in d.txns /\ Tidy(d) /\ Tidy(db)
  BY DEF Books, OtherRowsStay, CalmInv
<1>2. d2.txns = d.txns /\ d2.order = d.order BY <1>1, PortionFills
<1>3. /\ Paid(d) \in Int /\ Paid(db) \in Int
      /\ PaidBut(db, u.id) = PaidBut(d, u.id) /\ PaidBut(d, u.id) \in Int
      /\ d.order = db.order /\ \A k : At(d, k) = At(db, k)
  BY <1>1, PaidElsewhere
<1>4. \A t \in ValidRows(d) : t.id # u.id => t \in ValidRows(db)
  BY <1>1 DEF OtherRowsStay, ValidRows
<1>5. Split(d2)
  <2>1. \A t \in ValidRows(d) : t.id # u.id =>
          \A e \in At(d, PaymentKey(t.id)) : SplitsInto(e.lines, t)
    BY <1>3, <1>4 DEF Even, Split
  <2> QED BY <1>1, <2>1, SplitSync
<1>6. Filled(d2, {}) BY BooksFill
<1> HIDE DEF d2
<1>7. Paid(d2) = Paid(d) /\ Repaid(d2)
  <2>1. Paid(d2) = Paid(d) BY <1>2, SameTotals
  <2> QED BY <1>1, <1>3, <2>1 DEF Practised, Even, Repaid
<1>8. Refundless(d2)
  <2>1. SUFFICES ASSUME d.order.delivery = "bus", d.order.fee # 0,
                        NEW t \in ValidRows(d), t.type = "refund"
                 PROVE  FALSE
    BY <1>2 DEF Refundless, FreeUnrefunded, ValidRows
  <2>2. t.id = u.id BY <1>3, <1>4, <2>1 DEF Even, Refundless
  <2>3. t = u BY <1>1, <2>2 DEF ValidRows, Tidy, Ledger
  <2>4. u \in Transaction BY <1>1, LedgerEntry DEF Tidy
  <2>5. DepositOf(u) < 0
    <3>1. u.amount \in Nat \ {0} BY <2>4, BooksAssumption DEF Transaction
    <3>2. DepositOf(u) = -u.amount BY <2>1, <2>3 DEF DepositOf, ValidRows
    <3> QED BY <3>1, <3>2
  <2>6. Paid(d) = PaidBut(d, u.id) + DepositOf(u) BY <1>1, PaidSplit DEF Tidy
  <2>7. DepositOf(u) \in Int BY <2>4, DepositIsWhole
  <2>8. PaidBut(d, u.id) <= Paid(db)
    <3>1. CASE \E r \in db.txns : r.id = u.id
      <4>1. PICK r \in db.txns : r.id = u.id BY <3>1
      <4>2. Paid(db) = PaidBut(db, u.id) + DepositOf(r) BY <1>1, <4>1, PaidSplit DEF Tidy
      <4>3. /\ r.amount \in Nat /\ DepositOf(r) \in Int
            /\ r.type \in {"deposit", "refund", "tien_rut"}
        BY <1>1, LedgerEntry, DepositIsWhole DEF Tidy
      <4>4. r.valid => r.type # "refund" BY <1>3, <2>1 DEF Even, Refundless, ValidRows
      <4>5. 0 <= DepositOf(r) BY <4>3, <4>4 DEF DepositOf
      <4> QED BY <1>3, <4>2, <4>3, <4>5
    <3>2. CASE \A r \in db.txns : r.id # u.id
      BY <1>1, <1>3, <3>2, PaidSplit DEF Tidy
    <3> QED BY <3>1, <3>2
  <2>9. Paid(d) < Paid(db) BY <1>3, <2>5, <2>6, <2>7, <2>8
  <2>10. IsBus(db)
    <3>1. db.order.fee \in Nat BY <1>1, LedgerEntry DEF Tidy, Order
    <3> QED BY <1>3, <2>1, <3>1 DEF IsBus
  <2> QED BY <1>1, <2>9, <2>10 DEF Practised
<1> QED BY <1>5, <1>6, <1>7, <1>8 DEF Even, d2

LEMMA TakesBackEven ==
  ASSUME "unpay" \notin Practices, "over_refund" \notin Practices,
         CalmInv, Booked(db), Even(db, {}), NEW d, NEW t, TakesBack(d, t)
  PROVE  Even(UnsyncPayment(d, t), {})
<1> DEFINE d2 == UnsyncPayment(d, t)
           K == {PaymentKey(t.id), ReleaseKey}
<1>1. /\ OtherRowsStay(d, t.id) /\ Practised(d) /\ t \in db.txns /\ Tidy(d) /\ Tidy(db)
      /\ \A u \in d.txns : u.id = t.id => ~u.valid
  BY DEF TakesBack, OtherRowsStay, CalmInv
<1>2. Changes(d, d2, K) /\ At(d2, PaymentKey(t.id)) = {} BY <1>1, UnsyncPaymentChanges
<1>3. d2.order = d.order /\ d2.txns = d.txns /\ Tidy(d2) BY <1>2 DEF Changes, SameRows
<1>4. ASSUME NEW id, id # t.id PROVE At(d2, PaymentKey(id)) = At(d, PaymentKey(id))
  <2>1. PaymentKey(id) \notin K BY <1>4, KeysDiffer
  <2> HIDE DEF K, d2
  <2> QED BY <1>2, <2>1, ChangesElsewhere
<1>5. HeldBut(d2, {t.id}) = HeldBut(d, {t.id})
  <2>1. \A f : f.source = "payment_transaction" /\ f.of \notin {t.id}
                 => (f \in d.journal <=> f \in d2.journal)
    BY <1>2 DEF Changes, Key, PaymentKey, ReleaseKey
  <2> QED BY <1>3, <2>1, HeldByOthers
<1> HIDE DEF d2
<1>6. HeldBut(d2, {}) = HeldBut(d2, {t.id}) /\ HeldBut(d2, {}) \in Int /\ 0 <= HeldBut(d2, {})
  BY <1>2, <1>3, HeldByOne
<1>7. /\ Paid(d) \in Int /\ Paid(db) \in Int
      /\ PaidBut(db, t.id) = PaidBut(d, t.id) /\ PaidBut(d, t.id) \in Int
      /\ HeldBut(d, {t.id}) = HeldBut(db, {t.id})
      /\ Cap(d) = Cap(db) /\ Cap(d) \in Nat /\ d.order = db.order
      /\ \A k : At(d, k) = At(db, k)
  BY <1>1, PaidElsewhere
<1>8. ValidRows(d2) = ValidRows(d) /\ ValidRows(d) \subseteq ValidRows(db)
  BY <1>1, <1>3 DEF OtherRowsStay, ValidRows
<1>9. \A r \in ValidRows(d2) : r.id # t.id BY <1>1, <1>3 DEF ValidRows
<1>10. \A r \in ValidRows(d2) :
         r \in ValidRows(db) /\ At(d2, PaymentKey(r.id)) = At(db, PaymentKey(r.id))
  BY <1>4, <1>7, <1>8, <1>9
<1>11. Split(d2) BY <1>10 DEF Even, Split
<1>12. Refundless(d2) BY <1>3, <1>7, <1>10 DEF Even, Refundless
<1>13. Paid(d2) = Paid(d) BY <1>3, SameTotals
<1>14. Repaid(d2) BY <1>1, <1>7, <1>13 DEF Practised, Even, Repaid
<1>15. Paid(d) = PaidBut(d, t.id)
  <2>1. CASE \E u \in d.txns : u.id = t.id
    <3>1. PICK u \in d.txns : u.id = t.id BY <2>1
    <3>2. Paid(d) = PaidBut(d, t.id) + DepositOf(u) BY <1>1, <3>1, PaidSplit DEF Tidy
    <3>3. DepositOf(u) = 0 BY <1>1, <3>1 DEF DepositOf
    <3> QED BY <1>7, <3>2, <3>3
  <2>2. CASE \A u \in d.txns : u.id # t.id BY <1>1, <2>2, PaidSplit DEF Tidy
  <2> QED BY <2>1, <2>2
<1>16. Filled(d2, {})
  <2>1. CASE Cap(db) = 0
    <3>1. Cap(d2) = 0 BY <1>3, <1>7, <2>1 DEF Cap
    <3> QED BY <1>6, <3>1 DEF Filled
  <2>2. CASE Cap(db) # 0
    <3>1. IsBus(db) BY <1>7, <2>2, DueIsBus
    <3>2. ~(HeldBut(db, {t.id}) < HeldBut(db, {}))
      <4>1. SUFFICES ASSUME HeldBut(db, {t.id}) < HeldBut(db, {}) PROVE FALSE OBVIOUS
      <4>2. PICK r \in ValidRows(db) :
              /\ r.id = t.id /\ r.type = "deposit" /\ DepositOf(r) = r.amount
              /\ HeldBut(db, {}) - HeldBut(db, {t.id}) <= r.amount
        BY <1>1, <4>1, HeldOfDeposit DEF Even
      <4>3. r.amount \in Nat \ {0}
        <5>1. r \in Transaction BY <1>1, LedgerEntry DEF Tidy, ValidRows
        <5> QED BY <5>1, BooksAssumption DEF Transaction
      <4>4. Paid(db) = PaidBut(db, t.id) + DepositOf(r)
        BY <1>1, <4>2, PaidSplit DEF ValidRows, Tidy
      <4>5. Paid(d) < Paid(db) BY <1>7, <1>15, <4>2, <4>3, <4>4
      <4> QED BY <1>1, <3>1, <4>5 DEF Practised
    <3>3. HeldBut(db, {}) <= HeldBut(d2, {})
      <4>1. HeldBut(db, {}) \in Int /\ HeldBut(db, {t.id}) \in Int BY <1>1, HeldByOne
      <4> QED BY <1>5, <1>6, <1>7, <3>2, <4>1
    <3>4. CASE Cap(db) <= HeldBut(db, {})
      <4>1. Cap(d2) = Cap(db) BY <1>3, <1>7 DEF Cap
      <4>2. HeldBut(db, {}) \in Int BY <1>1, HeldByOne
      <4> QED BY <1>6, <1>7, <3>3, <3>4, <4>1, <4>2 DEF Filled
    <3>5. CASE \A r \in ValidRows(db) : r.type = "deposit" => Full(db, r)
      BY <1>10, <3>5 DEF Filled, Full
    <3> QED BY <3>4, <3>5 DEF Even, Filled
  <2> QED BY <2>1, <2>2
<1> QED BY <1>11, <1>12, <1>14, <1>16 DEF Even, d2

-----------------------------------------------------------------------------
(***************************************************************************)
(* The edit, and its loop.                                                 *)
(***************************************************************************)
LEMMA EditsEven ==
  ASSUME "switch" \notin Practices, CalmInv, Even(db, {}), NEW patch \in Patches,
         Edits(patch), LockFree
  PROVE  Even(db', {}) /\ Even(tx', left')
<1>1. PICK d : /\ Tidy(d) /\ d.journal = db.journal /\ d.txns = db.txns
               /\ d.order = EditedOrder(db.order, db.order, patch)
               /\ Changes(d, tx', OrderKeys)
  BY DEF Edits
<1>2. /\ left' = IF Resplits(db.order, patch) THEN {t.id : t \in db.txns} ELSE {}
      /\ db' = IF left' = {} THEN tx' ELSE db
      /\ "delivery" \in DOMAIN patch => ~(db.lastTxn > 0)
  BY DEF Edits
<1>3. Changes(d, tx', OrderSide) BY <1>1, ChangesMore DEF OrderSide
<1>4. d.order \in Order /\ db.order \in Order /\ Tidy(db)
  BY <1>1, LedgerEntry DEF Tidy, CalmInv
<1>5. /\ d.order.delivery = Patched(patch, "delivery", db.order.delivery)
      /\ d.order.fee = Patched(patch, "fee", db.order.fee)
  BY <1>1, <1>4 DEF EditedOrder, Order
<1>6. \A id : At(d, PaymentKey(id)) = At(db, PaymentKey(id)) BY <1>1 DEF At
<1>7. HeldBut(d, {}) = HeldBut(db, {}) BY <1>1, HeldByOthers
<1>8. Paid(d) = Paid(db) BY <1>1, SameTotals
<1>9. Split(d) /\ Repaid(d) BY <1>1, <1>6, <1>8 DEF Even, Split, Repaid, ValidRows
<1>10. "delivery" \notin DOMAIN patch \/ db.txns = {}
  <2>1. ASSUME ~(db.lastTxn > 0) PROVE db.txns = {}
    <3>1. db.lastTxn \in Nat /\ \A t \in db.txns : t.id \in 1..db.lastTxn
      BY <1>4, LedgerEntry DEF Tidy, Ledger
    <3>2. 1..db.lastTxn = {} BY <2>1, <3>1
    <3> QED BY <3>1, <3>2
  <2> QED BY <1>2, <2>1
<1>11. Refundless(d)
  <2>1. CASE db.txns = {} BY <1>1, <2>1 DEF Refundless, ValidRows
  <2>2. CASE "delivery" \notin DOMAIN patch
    BY <1>1, <1>5, <2>2 DEF Even, Refundless, Patched, ValidRows
  <2> QED BY <1>10, <2>1, <2>2
<1>12. Filled(d, left')
  <2>1. CASE Resplits(db.order, patch) BY <1>1, <1>2, <2>1 DEF Filled, ValidRows
  <2>2. CASE db.txns = {} BY <1>1, <2>2 DEF Filled, ValidRows
  <2>3. CASE ~Resplits(db.order, patch) /\ "delivery" \notin DOMAIN patch
    <3>1. Cap(d) = Cap(db) BY <1>5, <2>3 DEF Resplits, Patched, Cap
    <3> QED BY <1>1, <1>2, <1>6, <1>7, <2>3, <3>1 DEF Even, Filled, Full, ValidRows
  <2> QED BY <1>10, <2>1, <2>2, <2>3
<1>13. Even(d, left') BY <1>9, <1>11, <1>12 DEF Even
<1>14. Even(tx', left') BY <1>3, <1>13, EvenOrder
<1> QED BY <1>2, <1>14

LEMMA ResyncsEven ==
  ASSUME CalmInv, BookedInv, EvenInv, NEW t, Resyncs(t), ~LockFree
  PROVE  Even(db', {}) /\ Even(tx', left')
<1> DEFINE others == HeldBut(tx, {t.id})
<1>1. /\ t \in tx.txns /\ t.valid /\ Tidy(tx) /\ Booked(tx)
      /\ tx' = SyncPayment(tx, t) /\ t.id \in left /\ left' = left \ {t.id}
      /\ db' = IF left' = {} THEN tx' ELSE db
  BY DEF Resyncs, BookedInv, CalmInv
<1>2. /\ HeldBut(tx', {}) \in Int /\ others <= HeldBut(tx', {})
      /\ Cap(tx') = Cap(tx) /\ tx'.order = tx.order /\ tx'.txns = tx.txns
      /\ \A id : id # t.id => At(tx', PaymentKey(id)) = At(tx, PaymentKey(id))
      /\ t.type = "deposit" =>
           Cap(tx) <= HeldBut(tx', {}) \/ (Full(tx', t) /\ t.amount < Cap(tx) - others)
  BY <1>1, PortionFills
<1>3. Split(tx')
  <2>1. \A r \in ValidRows(tx) : r.id # t.id =>
          \A e \in At(tx, PaymentKey(r.id)) : SplitsInto(e.lines, r)
    BY DEF EvenInv, Even, Split
  <2> QED BY <1>1, <2>1, SplitSync
<1>4. Paid(tx') = Paid(tx) BY <1>2, SameTotals
<1>5. Repaid(tx') /\ Refundless(tx')
  BY <1>2, <1>4 DEF EvenInv, Even, Repaid, Refundless, ValidRows
<1>6. others \in Int /\ HeldBut(tx, {}) \in Int /\ Cap(tx) \in Nat
  BY <1>1, HeldByOne, CapIsWhole DEF Tidy
<1>7. Filled(tx', left')
  <2>1. SUFFICES ASSUME ~(Cap(tx) <= HeldBut(tx', {}))
                 PROVE  \A r \in ValidRows(tx) :
                          r.type = "deposit" /\ r.id \notin left' => Full(tx', r)
    BY <1>2 DEF Filled, ValidRows
  <2>2. \A r \in ValidRows(tx) : r.type = "deposit" /\ r.id \notin left => Full(tx, r)
    <3>1. SUFFICES ASSUME Cap(tx) <= HeldBut(tx, {}) PROVE FALSE
      BY DEF EvenInv, Even, Filled
    <3>2. others < HeldBut(tx, {}) BY <1>2, <1>6, <2>1, <3>1
    <3>3. PICK r \in ValidRows(tx) :
            /\ r.id = t.id /\ r.type = "deposit"
            /\ HeldBut(tx, {}) - HeldBut(tx, {t.id}) <= r.amount
      BY <1>1, <3>2, HeldOfDeposit DEF EvenInv, Even
    <3>4. r = t BY <1>1, <3>3 DEF ValidRows, Tidy, Ledger
    <3>5. t.amount < Cap(tx) - others BY <1>2, <2>1, <3>3, <3>4
    <3>6. t.amount \in Nat BY <1>1, LedgerEntry, DepositIsWhole DEF Tidy
    <3>7. HeldBut(tx, {}) - others <= t.amount BY <3>3, <3>4
    <3> HIDE DEF others
    <3> QED BY <1>6, <3>1, <3>5, <3>6, <3>7
  <2>3. SUFFICES ASSUME NEW r \in ValidRows(tx), r.type = "deposit", r.id \notin left'
                 PROVE  Full(tx', r)
    OBVIOUS
  <2>4. CASE r.id = t.id
    <3>1. r = t BY <1>1, <2>4 DEF ValidRows, Tidy, Ledger
    <3> QED BY <1>2, <2>1, <2>3, <3>1
  <2>5. CASE r.id # t.id
    <3>1. Full(tx, r) BY <1>1, <2>2, <2>3, <2>5
    <3> QED BY <1>2, <2>5, <3>1 DEF Full
  <2> QED BY <2>4, <2>5
<1>8. Even(tx', left') BY <1>3, <1>5, <1>7 DEF Even
<1> QED BY <1>1, <1>8 DEF EvenInv

LEMMA MovesEven ==
  ASSUME CalmInv, Even(db, {}), NEW target \in Statuses, NEW d, NEW moved,
         Changes(db, d, OrderSide),
         moved.order = [d.order EXCEPT !.status = target],
         moved.journal = d.journal, moved.txns = d.txns
  PROVE  Even(moved, {})
<1>1. Even(d, {}) BY EvenOrder
<1>2. d.order \in Order BY LedgerEntry DEF Changes, Tidy
<1>3. moved.order.delivery = d.order.delivery /\ moved.order.fee = d.order.fee
  BY <1>2 DEF Order
<1> QED BY <1>1, <1>3, EvenAlike

LEMMA PhaseIsEven ==
  ASSUME "unbooked" \notin Practices, "touch_void" \notin Practices,
         "unpay" \notin Practices, "over_refund" \notin Practices,
         "by_items" \notin Practices, "switch" \notin Practices,
         CalmInv, BookedInv, EvenInv, Phase, FreeUnrefunded(db')
  PROVE  EvenInv'
<1>1. Booked(db) /\ Even(db, {}) BY DEF BookedInv, EvenInv
<1>2. ASSUME Committed, NEW d, NEW u, Books(d, u) PROVE EvenInv'
  <2>1. u \in d.txns /\ u.valid /\ db' = SyncPayment(d, u) /\ Tidy(d)
    BY <1>2 DEF Books, OtherRowsStay
  <2>2. db'.order = d.order /\ db'.txns = d.txns BY <2>1, PortionFills
  <2>3. FreeUnrefunded(d) BY <2>2 DEF FreeUnrefunded, ValidRows
  <2>4. Even(db', {}) BY <1>1, <1>2, <2>1, <2>3, BooksEven
  <2> QED BY <1>2, <2>4 DEF Committed, EvenInv
<1>3. ASSUME Committed, NEW d, NEW t, TakesBack(d, t) PROVE EvenInv'
  <2>1. db' = UnsyncPayment(d, t) BY <1>3 DEF TakesBack
  <2>2. Even(db', {}) BY <1>1, <1>3, <2>1, TakesBackEven
  <2> QED BY <1>3, <2>2 DEF Committed, EvenInv
<1>4. CASE Records BY <1>4 DEF Records
<1>5. ASSUME LockFree, NEW patch \in Patches, Edits(patch) PROVE EvenInv'
  BY <1>1, <1>5, EditsEven DEF EvenInv
<1>6. ASSUME ~LockFree, NEW t, Resyncs(t) PROVE EvenInv'
  BY <1>6, ResyncsEven DEF EvenInv
<1>7. ASSUME Committed, NEW target \in Statuses, Moves(target) PROVE EvenInv'
  <2>1. PICK d, moved :
          /\ Changes(db, d, OrderSide)
          /\ moved.order = [d.order EXCEPT !.status = target]
          /\ moved.journal = d.journal /\ moved.txns = d.txns
          /\ db' = moved \/ Changes(moved, db', OrderSide)
    BY <1>7 DEF Moves
  <2>2. Even(moved, {}) BY <1>1, <2>1, MovesEven
  <2>3. Even(db', {}) BY <2>1, <2>2, EvenOrder
  <2> QED BY <1>7, <2>3 DEF Committed, EvenInv
<1>8. CASE \E status \in Statuses : ItemsMove(status) BY <1>8 DEF ItemsMove
<1> QED BY <1>2, <1>3, <1>4, <1>5, <1>6, <1>7, <1>8 DEF Phase

-----------------------------------------------------------------------------
(***************************************************************************)
(* What the payments come to.                                              *)
(***************************************************************************)
\* Where every line of S on the account a is nothing or less, so is the sum.
LEMMA NetOfCredits ==
  ASSUME NEW a, NEW S, Summable(S, a), \A e \in S : e.lines[a] <= 0
  PROVE  NetOf(S, a) \in Int /\ NetOf(S, a) <= 0
<1>1. {} \subseteq S OBVIOUS
<1> QED BY <1>1, NetOfPart, NetNone, NetInt

LEMMA EachSplits ==
  ASSUME NEW d, Tidy(d), Booked(d), Split(d), NEW e \in PaymentEntries(d)
  PROVE  \E t \in ValidRows(d) :
           t.id = e.of /\ e \in At(d, PaymentKey(t.id)) /\ SplitsInto(e.lines, t)
<1>1. e \in At(d, PaymentKey(e.of))
  <2>1. e \in EntriesOf(d, "payment_transaction", e.of) BY DEF PaymentEntries, EntriesOf
  <2> QED BY <2>1, LooksFor
<1>2. PICK t \in d.txns : t.valid /\ t.id = e.of BY <1>1 DEF Booked, BookedAt
<1>3. t \in ValidRows(d) /\ e \in At(d, PaymentKey(t.id)) BY <1>1, <1>2 DEF ValidRows
<1> QED BY <1>2, <1>3 DEF Split

\* What the payments of the order credit to deposits is its deposit balance.
LEMMA DepositsStand ==
  ASSUME NEW d, Tidy(d), Booked(d), Even(d, {}), Within(d, {})
  PROVE  /\ NetOf(PaymentEntries(d), "deposits") + DepositBalance(d) = 0
         /\ NetOf(PaymentEntries(d), "tien_rut") = -HeldTienRut(d)
         /\ HeldTienRut(d) \in Nat
<1> DEFINE P == PaymentEntries(d)
           held == HeldBut(d, {})
           dep == NetOf(P, "deposits")
<1>1. /\ Summable(P, "deposits") /\ Summable(P, "shipping") /\ Summable(P, "tien_rut")
  <2>1. P \in SUBSET d.journal BY DEF PaymentEntries
  <2> QED BY <2>1, EntriesSummable, TheAccounts DEF Tidy
<1>2. \A e \in P : \E t \in ValidRows(d) :
        t.id = e.of /\ e \in At(d, PaymentKey(t.id)) /\ SplitsInto(e.lines, t)
  BY EachSplits DEF Even
<1>3. HeldTienRut(d) \in Nat /\ NetOf(P, "tien_rut") = -HeldTienRut(d)
  <2>1. \A e \in P : e.lines["tien_rut"] <= 0 BY <1>2 DEF SplitsInto
  <2>2. HeldTienRut(d) = -NetOf(P, "tien_rut") BY DEF HeldTienRut
  <2> HIDE DEF P
  <2>3. NetOf(P, "tien_rut") \in Int /\ NetOf(P, "tien_rut") <= 0
    BY <1>1, <2>1, NetOfCredits
  <2> QED BY <2>2, <2>3
<1>4. dep \in Int /\ dep - held = -Paid(d)
  <2>1. PaymentsBut(d, {}) = P BY DEF PaymentsBut
  <2>2. held = -NetOf(P, "shipping") BY <2>1 DEF HeldBut
  <2>3. /\ NetOf(P, "deposits") \in Int /\ NetOf(P, "shipping") \in Int
        /\ NetOf(P, "deposits") + NetOf(P, "shipping") = -Paid(d)
    BY PaidIsBooked DEF Even
  <2> HIDE DEF P
  <2> QED BY <2>2, <2>3
<1>5. /\ held \in Int /\ 0 <= held /\ held <= Cap(d) /\ Cap(d) \in Nat
      /\ Paid(d) \in Int /\ 0 <= Paid(d)
  BY HeldByOne, CapIsWhole, PaidIsWhole DEF Within, Tidy, Even, Repaid
<1>6. DepositBalance(d) = Larger(0, Paid(d) - (IF IsBus(d) THEN d.order.fee ELSE 0))
  <2>1. /\ TotalPaidExclOutflows(d) \in Nat /\ TotalTienRut(d) \in Nat
        /\ TotalOutflows(d) \in Nat
    BY TotalIsWhole DEF TotalPaidExclOutflows, TotalTienRut, TotalOutflows, Tidy
  <2>2. d.order.fee \in Nat BY LedgerEntry DEF Tidy, Order
  <2> QED BY <2>1, <2>2 DEF DepositBalance, Paid
<1>7. DepositBalance(d) = Larger(0, Paid(d) - Cap(d))
  <2>1. CASE IsBus(d) BY <1>6, <2>1 DEF IsBus, Cap
  <2>2. CASE ~IsBus(d)
    <3>1. Cap(d) = 0 BY <1>5, <2>2, DueIsBus
    <3> QED BY <1>6, <2>2, <3>1
  <2> QED BY <2>1, <2>2
<1>8. dep + DepositBalance(d) = 0
  <2>1. CASE Cap(d) = 0
    <3> HIDE DEF dep, held
    <3>1. held = 0 BY <1>5, <2>1
    <3>2. dep = -Paid(d) /\ Larger(0, Paid(d) - Cap(d)) = Paid(d)
      BY <1>4, <1>5, <2>1, <3>1 DEF Larger
    <3> QED BY <1>5, <1>7, <3>2
  <2>2. CASE Cap(d) # 0
    <3>1. d.order.delivery = "bus" BY <2>2 DEF Cap
    <3>2. \A t \in ValidRows(d) : t.type \in {"deposit", "tien_rut"}
      BY <3>1, LedgerEntry, DepositIsWhole DEF Even, Refundless, ValidRows, Tidy
    <3>3. \A e \in P : \E t \in ValidRows(d) :
            /\ e \in At(d, PaymentKey(t.id)) /\ SplitsInto(e.lines, t)
            /\ t.type \in {"deposit", "tien_rut"}
            /\ e.lines["deposits"] \in Int /\ e.lines["shipping"] \in Int /\ t.amount \in Nat
            /\ DepositOf(t) = IF t.type = "deposit" THEN t.amount ELSE 0
      <4>1. \A e \in P : e.lines["deposits"] \in Int /\ e.lines["shipping"] \in Int
        BY <1>1 DEF Summable
      <4>2. \A t \in ValidRows(d) :
              /\ t.amount \in Nat
              /\ DepositOf(t) = IF t.type = "deposit" THEN t.amount ELSE 0
        BY <3>2, LedgerEntry, DepositIsWhole DEF ValidRows, Tidy, DepositOf
      <4> HIDE DEF P
      <4> QED BY <1>2, <3>2, <4>1, <4>2
    <3>4. dep <= 0
      <4>1. \A e \in P : e.lines["deposits"] <= 0
        <5> HIDE DEF P
        <5>1. SUFFICES ASSUME NEW e \in P PROVE e.lines["deposits"] <= 0 OBVIOUS
        <5>2. PICK t \in ValidRows(d) :
                /\ SplitsInto(e.lines, t) /\ t.type \in {"deposit", "tien_rut"}
                /\ e.lines["deposits"] \in Int /\ e.lines["shipping"] \in Int
                /\ t.amount \in Nat
                /\ DepositOf(t) = IF t.type = "deposit" THEN t.amount ELSE 0
          BY <3>3
        <5> QED BY <5>2 DEF SplitsInto
      <4> HIDE DEF P
      <4> QED BY <1>1, <4>1, NetOfCredits
    <3>5. CASE Cap(d) <= held
      <4> HIDE DEF dep, held
      <4>1. held = Cap(d) BY <1>5, <3>5
      <4> QED BY <1>4, <1>5, <1>7, <3>4, <4>1 DEF Larger
    <3>6. CASE \A t \in ValidRows(d) : t.type = "deposit" => Full(d, t)
      <4>1. \A e \in P : e.lines["deposits"] = 0
        <5> HIDE DEF P
        <5>1. SUFFICES ASSUME NEW e \in P PROVE e.lines["deposits"] = 0 OBVIOUS
        <5>2. PICK t \in ValidRows(d) :
                /\ e \in At(d, PaymentKey(t.id))
                /\ SplitsInto(e.lines, t) /\ t.type \in {"deposit", "tien_rut"}
                /\ e.lines["deposits"] \in Int /\ e.lines["shipping"] \in Int
                /\ t.amount \in Nat
                /\ DepositOf(t) = IF t.type = "deposit" THEN t.amount ELSE 0
          BY <3>3
        <5>3. t.type = "deposit" => e.lines["shipping"] = -t.amount
          BY <3>6, <5>2 DEF Full
        <5> QED BY <5>2, <5>3 DEF SplitsInto
      <4>2. dep = 0
        <5> HIDE DEF P
        <5> QED BY <1>1, <4>1, NetZero DEF Summable
      <4> HIDE DEF dep, held
      <4>3. Paid(d) = held BY <1>4, <1>5, <4>2
      <4>4. Larger(0, Paid(d) - Cap(d)) = 0 BY <1>5, <4>3 DEF Larger
      <4>5. DepositBalance(d) = 0 BY <1>7, <4>4
      <4> QED BY <4>2, <4>5
    <3> QED BY <3>5, <3>6 DEF Even, Filled
  <2> QED BY <2>1, <2>2
<1> QED BY <1>3, <1>8

-----------------------------------------------------------------------------
(***************************************************************************)
(* What the hand-over posts.                                               *)
(***************************************************************************)
\* The one entry with the key k has these lines.
Holds(d, k, lines) == \E e : At(d, k) = {e} /\ e.lines = lines

LEMMA ReplaceGives ==
  ASSUME NEW d, Tidy(d), NEW text \in OrderTexts, NEW lines \in LinesSet
  PROVE  Holds(ReplaceOrderEntry(d, text, lines), OrderKey(text), lines)
<1> DEFINE existing == At(d, OrderKey(text))
           cleared == DropOrderEntry(d, text)
           posted == Entered(cleared, "order", TheOrder, text, lines)
<1>1. OrderEntries(d, text) = existing BY LooksFor
<1>2. CASE existing # {} /\ Latest(existing).lines = lines
  <2>1. ReplaceOrderEntry(d, text, lines) = d BY <1>1, <1>2 DEF ReplaceOrderEntry
  <2>2. existing \in SUBSET d.journal BY DEF At
  <2>3. Latest(existing) \in existing BY <1>2, <2>2, LatestIsThere DEF Tidy
  <2>4. existing = {Latest(existing)} BY <2>3 DEF At, Tidy
  <2> QED BY <1>2, <2>1, <2>4 DEF Holds
<1>3. CASE ~(existing # {} /\ Latest(existing).lines = lines)
  <2>1. ReplaceOrderEntry(d, text, lines) = PostOrderEntry(cleared, text, lines)
    BY <1>1, <1>3 DEF ReplaceOrderEntry
  <2>2. Tidy(cleared) /\ At(cleared, <<"order", TheOrder, text>>) = {}
    BY DropChanges DEF Changes, OrderKey
  <2> HIDE DEF cleared
  <2>3. "order" \in Sources /\ text \in Texts BY DEF Sources, Texts, OrderTexts
  <2>4. Shaped(posted) BY DEF Shaped, IsOrderEntry, Entered
  <2>5. TheOrder \in Nat /\ TheOrder <= cleared.lastTxn BY <2>2, TidyHas
  <2> DEFINE d2 == Insert(cleared, "order", TheOrder, text, lines)
  <2>6. /\ Changes(cleared, d2, {<<"order", TheOrder, text>>})
        /\ At(d2, <<"order", TheOrder, text>>) = {posted}
    BY <2>2, <2>3, <2>4, <2>5, InsertChanges
  <2>7. At(PostOrderEntry(cleared, text, lines), <<"order", TheOrder, text>>) = {posted}
    BY <2>6 DEF PostOrderEntry
  <2>8. posted.lines = lines BY DEF Entered
  <2> HIDE DEF posted
  <2> QED BY <2>1, <2>7, <2>8 DEF Holds, OrderKey
<1> QED BY <1>2, <1>3

RevenueLines(d) ==
  Lines([deposits |-> DepositBalance(d), revenue |-> -DepositBalance(d)])
ReceivableLines(d) == Lines([receivable |-> d.order.total, revenue |-> -d.order.total])
ReturnLines(d) == Lines([tien_rut |-> HeldTienRut(d), asset |-> -HeldTienRut(d)])

\* The entries of the order after it was reconciled, from what it was before.
Given(d, d2) ==
  /\ IF IsUnpaid(d)
     THEN /\ At(d2, RevenueKey) = At(d, RevenueKey)
          /\ IF d.order.total > 0 THEN Holds(d2, ReceivableKey, ReceivableLines(d))
             ELSE At(d2, ReceivableKey) = At(d, ReceivableKey)
     ELSE /\ At(d2, ReceivableKey) = {}
          /\ IF DepositBalance(d) = 0 THEN At(d2, RevenueKey) = {}
             ELSE Holds(d2, RevenueKey, RevenueLines(d))
  /\ IF HeldTienRut(d) <= 0 THEN At(d2, OrderKey("return")) = {}
     ELSE Holds(d2, OrderKey("return"), ReturnLines(d))

LEMMA TheLines ==
  ASSUME NEW d, Tidy(d)
  PROVE  /\ RevenueLines(d) \in LinesSet /\ ReceivableLines(d) \in LinesSet
         /\ ReturnLines(d) \in LinesSet
         /\ RevenueLines(d)["deposits"] = DepositBalance(d)
         /\ RevenueLines(d)["revenue"] = -DepositBalance(d)
         /\ RevenueLines(d)["receivable"] = 0 /\ RevenueLines(d)["tien_rut"] = 0
         /\ ReceivableLines(d)["receivable"] = d.order.total
         /\ ReceivableLines(d)["revenue"] = -d.order.total
         /\ ReceivableLines(d)["deposits"] = 0 /\ ReceivableLines(d)["tien_rut"] = 0
         /\ ReturnLines(d)["tien_rut"] = HeldTienRut(d)
         /\ ReturnLines(d)["deposits"] = 0 /\ ReturnLines(d)["receivable"] = 0
         /\ ReturnLines(d)["revenue"] = 0
<1>1. /\ DepositBalance(d) \in Int /\ d.order.total \in Int /\ HeldTienRut(d) \in Int
  BY DepositsAreWhole, HeldIsWhole, LedgerEntry DEF Tidy, Order
<1>2. /\ RevenueLines(d) \in LinesSet /\ ReceivableLines(d) \in LinesSet
      /\ ReturnLines(d) \in LinesSet
  BY <1>1 DEF RevenueLines, ReceivableLines, ReturnLines, Lines, LinesSet
<1>3. /\ RevenueLines(d)["deposits"] = DepositBalance(d)
      /\ RevenueLines(d)["revenue"] = -DepositBalance(d)
      /\ RevenueLines(d)["receivable"] = 0 /\ RevenueLines(d)["tien_rut"] = 0
  BY TheAccounts DEF RevenueLines, Lines
<1>4. /\ ReceivableLines(d)["receivable"] = d.order.total
      /\ ReceivableLines(d)["revenue"] = -d.order.total
      /\ ReceivableLines(d)["deposits"] = 0 /\ ReceivableLines(d)["tien_rut"] = 0
  BY TheAccounts DEF ReceivableLines, Lines
<1>5. /\ ReturnLines(d)["tien_rut"] = HeldTienRut(d)
      /\ ReturnLines(d)["deposits"] = 0 /\ ReturnLines(d)["receivable"] = 0
      /\ ReturnLines(d)["revenue"] = 0
  BY TheAccounts DEF ReturnLines, Lines
<1> QED BY <1>2, <1>3, <1>4, <1>5

LEMMA HoldsElsewhere ==
  ASSUME NEW d, NEW d2, NEW k, At(d2, k) = At(d, k), NEW lines, Holds(d, k, lines)
  PROVE  Holds(d2, k, lines)
BY DEF Holds

LEMMA ReconcileGives ==
  ASSUME NEW d, Tidy(d)
  PROVE  LET d2 == ReconcileRevenue(d)
         IN  Given(d, d2) /\ Given(d, SyncHandedOver(d)) /\ HeldTienRut(d2) = HeldTienRut(d)
<1> DEFINE kr == ReceivableKey
           kv == RevenueKey
           kt == OrderKey("return")
           cleared == DropOrderEntry(d, "receivable")
           mid == IF IsUnpaid(d) THEN RecogniseReceivable(d) ELSE RecogniseDeposits(d)
           returned == ReturnTienRut(mid)
           d2 == SyncHandedOver(d)
           d1 == ReconcileRevenue(d)
<1>1. /\ kr \in OrderKeys /\ kv \in OrderKeys /\ kt \in OrderKeys
      /\ kr # kv /\ kv # kt /\ kr # kt
      /\ kr # ReleaseKey /\ kv # ReleaseKey /\ kt # ReleaseKey
      /\ "return" \in OrderTexts /\ "revenue" \in OrderTexts /\ "receivable" \in OrderTexts
  BY KeysDiffer DEF OrderKeys, OrderTexts, RevenueKey, ReceivableKey
<1>2. Changes(d, cleared, {kr}) /\ At(cleared, kr) = {}
  BY DropChanges DEF ReceivableKey
<1>3. Tidy(mid) /\ Changes(d, mid, OrderKeys)
  <2>1. Changes(d, RecogniseReceivable(d), {kr}) BY ReceivableChanges DEF ReceivableKey
  <2>2. {kr} \subseteq OrderKeys BY <1>1
  <2> HIDE DEF kr
  <2>3. Changes(d, RecogniseReceivable(d), OrderKeys) BY <2>1, <2>2, ChangesMore
  <2> QED BY <2>3, DepositsChange DEF Changes
<1>4. IF IsUnpaid(d)
      THEN /\ At(mid, kv) = At(d, kv)
           /\ IF d.order.total > 0 THEN Holds(mid, kr, ReceivableLines(d))
              ELSE At(mid, kr) = At(d, kr)
      ELSE /\ At(mid, kr) = {}
           /\ IF DepositBalance(d) = 0 THEN At(mid, kv) = {}
              ELSE Holds(mid, kv, RevenueLines(d))
  <2>1. CASE IsUnpaid(d) /\ d.order.total > 0
    <3>1. mid = ReplaceOrderEntry(d, "receivable", ReceivableLines(d))
      <4>1. ~(d.order.total <= 0)
        <5>1. d.order.total \in Nat BY LedgerEntry DEF Tidy, Order
        <5> QED BY <2>1, <5>1
      <4> QED BY <2>1, <4>1 DEF RecogniseReceivable, ReceivableLines
    <3> HIDE DEF mid
    <3>2. ReceivableLines(d) \in LinesSet BY TheLines
    <3>3. Holds(mid, kr, ReceivableLines(d))
      BY <1>1, <3>1, <3>2, ReplaceGives DEF ReceivableKey
    <3>4. Changes(d, mid, {kr}) BY <1>1, <3>1, <3>2, ReplaceChanges DEF ReceivableKey
    <3>5. At(mid, kv) = At(d, kv)
      <4> HIDE DEF kr, kv
      <4> QED BY <1>1, <3>4, ChangesElsewhere
    <3> QED BY <2>1, <3>3, <3>5
  <2>3. CASE IsUnpaid(d) /\ ~(d.order.total > 0)
    <3>1. d.order.total \in Nat BY LedgerEntry DEF Tidy, Order
    <3>2. d.order.total <= 0 BY <2>3, <3>1
    <3>3. mid = d BY <2>3, <3>2 DEF RecogniseReceivable
    <3> HIDE DEF mid
    <3> QED BY <2>3, <3>3
  <2>2. CASE ~IsUnpaid(d)
    <3>1. mid = IF DepositBalance(d) = 0 THEN DropOrderEntry(cleared, "revenue")
                ELSE ReplaceOrderEntry(cleared, "revenue", RevenueLines(d))
      BY <2>2 DEF RecogniseDeposits, RevenueLines
    <3>2. At(mid, kr) = {}
      <4>1. mid = RecogniseDeposits(d) BY <2>2
      <4> HIDE DEF mid
      <4> QED BY <4>1, DepositsChange DEF ReceivableKey
    <3> HIDE DEF mid, cleared
    <3>3. Tidy(cleared) /\ RevenueLines(d) \in LinesSet BY <1>2, TheLines DEF Changes
    <3>4. DepositBalance(d) = 0 => At(mid, kv) = {}
      BY <3>1, <3>3, DropChanges DEF RevenueKey
    <3>5. DepositBalance(d) # 0 => Holds(mid, kv, RevenueLines(d))
      BY <1>1, <3>1, <3>3, ReplaceGives DEF RevenueKey
    <3> QED BY <2>2, <3>2, <3>4, <3>5
  <2> QED BY <2>1, <2>2, <2>3
<1>5. HeldTienRut(mid) = HeldTienRut(d)
  <2>1. \A e : e.source = "payment_transaction" => Key(e) \notin OrderKeys
    BY DEF Key, OrderKeys, OrderKey
  <2> HIDE DEF mid
  <2>2. PaymentEntries(mid) = PaymentEntries(d)
    BY <1>3, <2>1 DEF Changes, SameRows, PaymentEntries
  <2> QED BY <2>2 DEF HeldTienRut
<1>6. d2 = SyncBusShippingRelease(returned) /\ d1 = returned
  BY DEF SyncHandedOver, ReconcileRevenue
<1> HIDE DEF mid, d2, d1
<1>7. Changes(mid, returned, {kt}) BY <1>3, ReturnChanges
<1>8. IF HeldTienRut(d) <= 0 THEN At(returned, kt) = {}
      ELSE Holds(returned, kt, ReturnLines(d))
  <2>1. CASE HeldTienRut(d) <= 0
    <3>1. returned = DropOrderEntry(mid, "return") BY <1>5, <2>1 DEF ReturnTienRut
    <3> QED BY <1>3, <2>1, <3>1, DropChanges
  <2>2. CASE ~(HeldTienRut(d) <= 0)
    <3>1. returned = ReplaceOrderEntry(mid, "return", ReturnLines(d))
      BY <1>5, <2>2 DEF ReturnTienRut, ReturnLines
    <3>2. ReturnLines(d) \in LinesSet BY TheLines
    <3> HIDE DEF returned
    <3> QED BY <1>1, <1>3, <2>2, <3>1, <3>2, ReplaceGives
  <2> QED BY <2>1, <2>2
<1>9. HeldTienRut(returned) = HeldTienRut(mid)
  <2>1. \A e : e.source = "payment_transaction" => Key(e) \notin {kt}
    BY DEF Key, OrderKey
  <2> HIDE DEF returned, kt
  <2>2. PaymentEntries(returned) = PaymentEntries(mid)
    BY <1>7, <2>1 DEF Changes, SameRows, PaymentEntries
  <2> QED BY <2>2 DEF HeldTienRut
<1> HIDE DEF returned
<1>10. Changes(returned, d2, {ReleaseKey}) BY <1>6, <1>7, ReleaseChanges DEF Changes
<1>11. /\ At(d2, kr) = At(mid, kr) /\ At(d2, kv) = At(mid, kv)
       /\ At(d2, kt) = At(returned, kt)
       /\ At(returned, kr) = At(mid, kr) /\ At(returned, kv) = At(mid, kv)
  <2> HIDE DEF kr, kv, kt
  <2>1. At(returned, kr) = At(mid, kr) /\ At(returned, kv) = At(mid, kv)
    BY <1>1, <1>7, ChangesElsewhere
  <2> QED BY <1>1, <1>10, <2>1, ChangesElsewhere
<1>12. Given(d, d2) BY <1>4, <1>8, <1>11, HoldsElsewhere DEF Given
<1>13. Given(d, returned) BY <1>4, <1>8, <1>11, HoldsElsewhere DEF Given
<1> QED BY <1>5, <1>6, <1>9, <1>12, <1>13 DEF d1, d2

-----------------------------------------------------------------------------
(***************************************************************************)
(* The balances after the hand-over.                                       *)
(***************************************************************************)
\* The journal by its entries' keys.
LEMMA JournalSum ==
  ASSUME NEW d, Tidy(d), Booked(d), NEW a \in Accounts
  PROVE  LET R == NetOf(At(d, ReleaseKey), a)
             V == NetOf(At(d, RevenueKey), a)
             C == NetOf(At(d, ReceivableKey), a)
             T == NetOf(At(d, OrderKey("return")), a)
             P == NetOf(PaymentEntries(d), a)
         IN  /\ P \in Int /\ R \in Int /\ V \in Int /\ C \in Int /\ T \in Int
             /\ NetOf(d.journal, a) = (((P + R) + V) + C) + T
<1> DEFINE P == PaymentEntries(d)
           R == At(d, ReleaseKey)
           V == At(d, RevenueKey)
           C == At(d, ReceivableKey)
           T == At(d, OrderKey("return"))
<1>1. d.journal = (((P \cup R) \cup V) \cup C) \cup T
  <2>1. P \cup R \cup V \cup C \cup T \subseteq d.journal BY DEF PaymentEntries, At
  <2>2. ASSUME NEW e \in d.journal, IsPayment(e) PROVE e \in P
    <3>1. Key(e) = PaymentKey(e.of) BY <2>2 DEF IsPayment, Key, PaymentKey
    <3>2. e \in At(d, PaymentKey(e.of)) BY <3>1 DEF At
    <3>3. \E t \in d.txns : t.id = e.of BY <3>2 DEF Booked, BookedAt
    <3> QED BY <2>2, <3>3 DEF IsPayment, PaymentEntries
  <2>3. ASSUME NEW e \in d.journal, IsRelease(e) PROVE e \in R
    BY <2>3 DEF IsRelease, At, Key, ReleaseKey
  <2>4. ASSUME NEW e \in d.journal, IsOrderEntry(e) PROVE e \in V \cup C \cup T
    BY <2>4 DEF IsOrderEntry, OrderTexts, At, Key, OrderKey, RevenueKey, ReceivableKey
  <2>5. \A e \in d.journal : IsPayment(e) \/ IsRelease(e) \/ IsOrderEntry(e)
    BY DEF Tidy, Shaped
  <2> HIDE DEF P, R, V, C, T
  <2> QED BY <2>1, <2>2, <2>3, <2>4, <2>5
<1>2. /\ P \cap R = {} /\ (P \cup R) \cap V = {} /\ ((P \cup R) \cup V) \cap C = {}
      /\ (((P \cup R) \cup V) \cup C) \cap T = {}
  <2>1. /\ \A e \in P : e.source = "payment_transaction"
        /\ \A e \in R : e.source = "order_shipping_release"
        /\ \A e \in V : e.source = "order" /\ e.text = "revenue"
        /\ \A e \in C : e.source = "order" /\ e.text = "receivable"
        /\ \A e \in T : e.source = "order" /\ e.text = "return"
    BY DEF PaymentEntries, At, Key, OrderKey, RevenueKey, ReceivableKey, ReleaseKey
  <2> HIDE DEF P, R, V, C, T
  <2> QED BY <2>1
<1>3. /\ Summable(P, a) /\ Summable(R, a) /\ Summable(V, a) /\ Summable(C, a)
      /\ Summable(T, a)
  <2>1. /\ P \in SUBSET d.journal /\ R \in SUBSET d.journal /\ V \in SUBSET d.journal
        /\ C \in SUBSET d.journal /\ T \in SUBSET d.journal
    BY DEF PaymentEntries, At
  <2> HIDE DEF P, R, V, C, T
  <2> QED BY <2>1, EntriesSummable DEF Tidy
<1> HIDE DEF P, R, V, C, T
<1>4. /\ Summable(P \cup R, a) /\ NetOf(P \cup R, a) = NetOf(P, a) + NetOf(R, a)
  BY <1>2, <1>3, NetUnion
<1> DEFINE X == P \cup R
           Y == X \cup V
           Z == Y \cup C
<1>5. Summable(Y, a) /\ NetOf(Y, a) = NetOf(X, a) + NetOf(V, a)
  BY <1>2, <1>3, <1>4, NetUnion
<1>6. Summable(Z, a) /\ NetOf(Z, a) = NetOf(Y, a) + NetOf(C, a)
  BY <1>2, <1>3, <1>5, NetUnion
<1>7. NetOf(d.journal, a) = NetOf(Z, a) + NetOf(T, a)
  BY <1>1, <1>2, <1>3, <1>6, NetUnion
<1>8. /\ NetOf(P, a) \in Int /\ NetOf(R, a) \in Int /\ NetOf(V, a) \in Int
      /\ NetOf(C, a) \in Int /\ NetOf(T, a) \in Int
  BY <1>3, NetInt
<1> QED BY <1>4, <1>5, <1>6, <1>7, <1>8 DEF P, R, V, C, T

LEMMA NetHeldAt ==
  ASSUME NEW d, Tidy(d), NEW k, NEW lines, Holds(d, k, lines), NEW a \in Accounts
  PROVE  NetOf(At(d, k), a) = lines[a]
<1>1. PICK e : At(d, k) = {e} /\ e.lines = lines BY DEF Holds
<1>2. e.lines[a] \in Int
  <2>1. e \in d.journal BY <1>1 DEF At
  <2> QED BY <2>1, LedgerEntry DEF Tidy, Entry
<1> QED BY <1>1, <1>2, NetOne

LEMMA PaymentsAndReleases ==
  ASSUME NEW d, Tidy(d)
  PROVE  /\ NetOf(PaymentEntries(d), "revenue") = 0
         /\ NetOf(PaymentEntries(d), "receivable") = 0
         /\ \A a \in {"deposits", "tien_rut", "revenue", "receivable"} :
              NetOf(At(d, ReleaseKey), a) = 0
<1>1. IsFiniteSet(PaymentEntries(d)) /\ IsFiniteSet(At(d, ReleaseKey))
  <2>1. PaymentEntries(d) \in SUBSET d.journal /\ At(d, ReleaseKey) \in SUBSET d.journal
    BY DEF PaymentEntries, At
  <2> QED BY <2>1, FS_Subset DEF Tidy, Ledger
<1>2. \A e \in PaymentEntries(d) : e.lines["revenue"] = 0 /\ e.lines["receivable"] = 0
  BY DEF PaymentEntries, Tidy, Shaped, IsPayment, IsRelease, IsOrderEntry
<1>3. \A e \in At(d, ReleaseKey) :
        \A a \in {"deposits", "tien_rut", "revenue", "receivable"} : e.lines[a] = 0
  BY DEF At, Key, ReleaseKey, Tidy, Shaped, IsPayment, IsRelease, IsOrderEntry
<1> QED BY <1>1, <1>2, <1>3, NetZero

LEMMA SettledAfter ==
  ASSUME NEW d, Tidy(d), Booked(d), Even(d, {}), Within(d, {}), d.order.total > 0,
         At(d, RevenueKey) # {} => Paid(d) > 0,
         NEW d2, Changes(d, d2, OrderSide), Given(d, d2)
  PROVE  /\ NetOf(d2.journal, "deposits") = 0 /\ NetOf(d2.journal, "tien_rut") = 0
         /\ -NetOf(d2.journal, "revenue") =
              IF IsUnpaid(d) THEN d.order.total ELSE DepositBalance(d)
         /\ NetOf(d2.journal, "receivable") = IF IsUnpaid(d) THEN d.order.total ELSE 0
<1> DEFINE V(a) == NetOf(At(d2, RevenueKey), a)
           C(a) == NetOf(At(d2, ReceivableKey), a)
           T(a) == NetOf(At(d2, OrderKey("return")), a)
           P(a) == NetOf(PaymentEntries(d2), a)
           R(a) == NetOf(At(d2, ReleaseKey), a)
           balance == DepositBalance(d)
           held == HeldTienRut(d)
           total == d.order.total
           unpaid == IsUnpaid(d)
<1>1. Tidy(d2) /\ Booked(d2) BY BookedOrder DEF Changes
<1>2. PaymentEntries(d2) = PaymentEntries(d)
  <2>1. \A e : e.source = "payment_transaction" => Key(e) \notin OrderSide
    BY DEF Key, OrderSide, OrderKeys, OrderKey, ReleaseKey
  <2> QED BY <2>1 DEF Changes, SameRows, PaymentEntries
<1>3. /\ P("deposits") + balance = 0 /\ P("tien_rut") = -held /\ held \in Nat
  BY <1>2, DepositsStand
<1>4. /\ P("revenue") = 0 /\ P("receivable") = 0
      /\ R("deposits") = 0 /\ R("tien_rut") = 0 /\ R("revenue") = 0 /\ R("receivable") = 0
  BY <1>1, PaymentsAndReleases
<1>5. balance \in Nat /\ total \in Nat /\ (unpaid => balance = 0)
  BY DepositsAreWhole, LedgerEntry DEF Tidy, Order, IsUnpaid
<1>6. \A a : NetOf({}, a) = 0 BY NetNone
<1>7. \A a \in Accounts : V(a) = IF balance = 0 THEN 0 ELSE RevenueLines(d)[a]
  <2>1. CASE balance = 0
    <3>1. unpaid => At(d, RevenueKey) = {} BY PaidOrNot DEF Tidy
    <3>2. At(d2, RevenueKey) = {} BY <2>1, <3>1 DEF Given
    <3> QED BY <1>6, <2>1, <3>2
  <2>2. CASE balance # 0
    <3>1. Holds(d2, RevenueKey, RevenueLines(d)) BY <1>5, <2>2 DEF Given
    <3>2. \A a \in Accounts : NetOf(At(d2, RevenueKey), a) = RevenueLines(d)[a]
      BY <1>1, <3>1, NetHeldAt
    <3> QED BY <2>2, <3>2
  <2> QED BY <2>1, <2>2
<1>8. \A a \in Accounts : C(a) = IF unpaid THEN ReceivableLines(d)[a] ELSE 0
  <2>1. CASE unpaid
    <3>1. Holds(d2, ReceivableKey, ReceivableLines(d)) BY <2>1 DEF Given
    <3>2. \A a \in Accounts : NetOf(At(d2, ReceivableKey), a) = ReceivableLines(d)[a]
      BY <1>1, <3>1, NetHeldAt
    <3> QED BY <2>1, <3>2
  <2>2. CASE ~unpaid
    <3>1. At(d2, ReceivableKey) = {} BY <2>2 DEF Given
    <3> QED BY <1>6, <2>2, <3>1
  <2> QED BY <2>1, <2>2
<1>9. \A a \in Accounts : T(a) = IF held = 0 THEN 0 ELSE ReturnLines(d)[a]
  <2>1. CASE held = 0
    <3>1. held <= 0 BY <2>1
    <3>2. At(d2, OrderKey("return")) = {} BY <3>1 DEF Given
    <3> QED BY <1>6, <2>1, <3>2
  <2>2. CASE held # 0
    <3>1. ~(held <= 0) BY <1>3, <2>2
    <3>2. Holds(d2, OrderKey("return"), ReturnLines(d)) BY <3>1 DEF Given
    <3>3. \A a \in Accounts : NetOf(At(d2, OrderKey("return")), a) = ReturnLines(d)[a]
      BY <1>1, <3>2, NetHeldAt
    <3> QED BY <2>2, <3>3
  <2> QED BY <2>1, <2>2
<1>10. \A a \in Accounts :
         /\ P(a) \in Int
         /\ NetOf(d2.journal, a) = (((P(a) + R(a)) + V(a)) + C(a)) + T(a)
  BY <1>1, JournalSum
<1>11. /\ V("deposits") = balance /\ V("tien_rut") = 0
       /\ V("revenue") + balance = 0 /\ V("revenue") \in Int /\ V("receivable") = 0
  <2>1. /\ RevenueLines(d)["deposits"] = balance /\ RevenueLines(d)["tien_rut"] = 0
        /\ RevenueLines(d)["revenue"] = -balance /\ RevenueLines(d)["receivable"] = 0
    BY TheLines
  <2> HIDE DEF V, balance
  <2> QED BY <1>5, <1>7, <2>1, TheAccounts
<1>12. /\ C("deposits") = 0 /\ C("tien_rut") = 0
       /\ C("receivable") = (IF unpaid THEN total ELSE 0) /\ C("receivable") \in Int
       /\ C("revenue") + C("receivable") = 0 /\ C("revenue") \in Int
  <2>1. /\ ReceivableLines(d)["deposits"] = 0 /\ ReceivableLines(d)["tien_rut"] = 0
        /\ ReceivableLines(d)["revenue"] = -total
        /\ ReceivableLines(d)["receivable"] = total
    BY TheLines
  <2> HIDE DEF C, total, unpaid
  <2> QED BY <1>5, <1>8, <2>1, TheAccounts
<1>13. /\ T("deposits") = 0 /\ T("tien_rut") = held
       /\ T("revenue") = 0 /\ T("receivable") = 0
  <2>1. /\ ReturnLines(d)["deposits"] = 0 /\ ReturnLines(d)["tien_rut"] = held
        /\ ReturnLines(d)["revenue"] = 0 /\ ReturnLines(d)["receivable"] = 0
    BY TheLines
  <2> HIDE DEF T, held
  <2> QED BY <1>9, <2>1, TheAccounts
<1>14. /\ NetOf(d2.journal, "deposits") =
            (((P("deposits") + R("deposits")) + V("deposits")) + C("deposits")) + T("deposits")
       /\ NetOf(d2.journal, "tien_rut") =
            (((P("tien_rut") + R("tien_rut")) + V("tien_rut")) + C("tien_rut")) + T("tien_rut")
       /\ NetOf(d2.journal, "revenue") =
            (((P("revenue") + R("revenue")) + V("revenue")) + C("revenue")) + T("revenue")
       /\ NetOf(d2.journal, "receivable") =
            (((P("receivable") + R("receivable")) + V("receivable")) + C("receivable"))
              + T("receivable")
       /\ P("deposits") \in Int
  BY <1>10, TheAccounts
<1> HIDE DEF V, C, T, P, R, balance, held, total, unpaid
<1>15. NetOf(d2.journal, "deposits") = 0
  BY <1>3, <1>4, <1>5, <1>11, <1>12, <1>13, <1>14
<1>16. NetOf(d2.journal, "tien_rut") = 0
  BY <1>3, <1>4, <1>11, <1>12, <1>13, <1>14
<1>17. NetOf(d2.journal, "receivable") = IF unpaid THEN total ELSE 0
  <2>1. NetOf(d2.journal, "receivable") = C("receivable")
    BY <1>4, <1>11, <1>12, <1>13, <1>14
  <2> QED BY <1>12, <2>1
<1>18. -NetOf(d2.journal, "revenue") = IF unpaid THEN total ELSE balance
  <2>1. NetOf(d2.journal, "revenue") = V("revenue") + C("revenue")
    BY <1>4, <1>11, <1>12, <1>13, <1>14
  <2>2. NetOf(d2.journal, "revenue") \in Int
        /\ NetOf(d2.journal, "revenue") + (IF unpaid THEN total ELSE balance) = 0
    BY <2>1, <1>5, <1>11, <1>12
  <2> QED BY <1>5, <2>2
<1> QED BY <1>15, <1>16, <1>17, <1>18 DEF balance, total, unpaid

-----------------------------------------------------------------------------
\* A price stays on the order.
Priced == db.order.total > 0

LEMMA OrderSynced ==
  ASSUME NEW d, Tidy(d), NEW u \in d.txns
  PROVE  SyncPayment(d, u).order = d.order
<1>1. u \in Transaction /\ u.id <= d.lastTxn BY LedgerEntry DEF Tidy, Ledger
<1> QED BY <1>1, SyncPaymentChanges DEF Changes, SameRows

LEMMA MoveSettles ==
  ASSUME CalmInv, BookedInv, HeldInv, RevenueInv, EvenInv, Priced,
         NEW target \in Statuses, Moves(target),
         db'.order.status # db.order.status, db'.order.status \in HandedOver
  PROVE  Settled'
<1>1. PICK d, moved :
        /\ Changes(db, d, OrderSide)
        /\ IF target = "cancelled" THEN OnlyPayments(d) ELSE d = db
        /\ Tidy(moved) /\ moved.order = [d.order EXCEPT !.status = target]
        /\ moved.journal = d.journal /\ moved.txns = d.txns
        /\ \/ db' = moved /\ (target \notin HandedOver \/ target = db.order.status)
           \/ /\ target \in HandedOver
              /\ Changes(moved, db', OrderSide) /\ db' = SyncHandedOver(moved)
  BY DEF Moves
<1>2. /\ moved.order.status = target /\ moved.order.total = d.order.total
      /\ moved.order.delivery = d.order.delivery /\ moved.order.fee = d.order.fee
  <2>1. d.order \in Order BY <1>1, LedgerEntry DEF Changes, Tidy
  <2> QED BY <1>1, <2>1 DEF Order
<1>3. ~(db' = moved /\ (target \notin HandedOver \/ target = db.order.status))
  BY <1>2
<1>4. d = db /\ Changes(moved, db', OrderSide) /\ db' = SyncHandedOver(moved)
  BY <1>1, <1>3 DEF HandedOver
<1>5. Booked(moved) BY <1>1, <1>4 DEF BookedInv, Booked, BookedAt, At
<1>6. Even(moved, {}) BY <1>1, <1>2, <1>4, EvenAlike DEF EvenInv
<1>7. Within(moved, {})
  <2>1. HeldBut(moved, {}) = HeldBut(db, {}) BY <1>1, <1>4, HeldByOthers
  <2>2. Cap(moved) = Cap(db) BY <1>2, <1>4 DEF Cap
  <2> QED BY <2>1, <2>2 DEF HeldInv, Within
<1>8. At(moved, RevenueKey) # {} => Paid(moved) > 0
  <2>1. At(moved, RevenueKey) = At(db, RevenueKey) BY <1>1, <1>4 DEF At
  <2>2. Paid(moved) = Paid(db) BY <1>1, <1>4, SameTotals
  <2> QED BY <2>1, <2>2 DEF RevenueInv, Recognised
<1>9. moved.order.total > 0 BY <1>2, <1>4 DEF Priced
<1>10. Given(moved, db') BY <1>1, <1>4, ReconcileGives
<1>11. /\ NetOf(db'.journal, "deposits") = 0 /\ NetOf(db'.journal, "tien_rut") = 0
       /\ -NetOf(db'.journal, "revenue") =
            IF IsUnpaid(moved) THEN moved.order.total ELSE DepositBalance(moved)
       /\ NetOf(db'.journal, "receivable") =
            IF IsUnpaid(moved) THEN moved.order.total ELSE 0
  BY <1>1, <1>4, <1>5, <1>6, <1>7, <1>8, <1>9, <1>10, SettledAfter
<1>12. /\ db'.order = moved.order
       /\ DepositBalance(db') = DepositBalance(moved)
       /\ IsUnpaid(db') = IsUnpaid(moved)
  <2>1. db'.order = moved.order /\ db'.txns = moved.txns BY <1>4 DEF Changes, SameRows
  <2>2. \A types : TotalOf(db', types) = TotalOf(moved, types) BY <2>1, SameTotals
  <2>3. DepositBalance(db') = DepositBalance(moved)
    BY <2>1, <2>2 DEF DepositBalance, TotalPaidExclOutflows, TotalTienRut, TotalOutflows, IsBus
  <2> QED BY <2>1, <2>2, <2>3 DEF IsUnpaid, TotalPaidExclOutflows, TotalTienRut
<1> QED BY <1>11, <1>12 DEF Settled, Balance

\* An edit works on the order with the status it has.
StatusInv == tx.order.status = db.order.status

\* The status is written by its own route and with the items.
LEMMA OnlyMovesMove ==
  ASSUME CalmInv, StatusInv, Phase
  PROVE  /\ StatusInv'
         /\ \/ db'.order.status = db.order.status
            \/ \E target \in Statuses : Moves(target) \/ ItemsMove(target)
<1>1. ASSUME NEW d, NEW u, Books(d, u) PROVE db'.order = db.order
  <2>1. Tidy(d) /\ u \in d.txns /\ d.order = db.order /\ db' = SyncPayment(d, u)
    BY <1>1 DEF Books, OtherRowsStay
  <2>2. db'.order = d.order BY <2>1, OrderSynced
  <2> QED BY <2>1, <2>2
<1>2. ASSUME NEW d, NEW t, TakesBack(d, t) PROVE db'.order = db.order
  <2>1. Tidy(d) /\ d.order = db.order /\ db' = UnsyncPayment(d, t)
    BY <1>2 DEF TakesBack, OtherRowsStay
  <2>2. db'.order = d.order BY <2>1, UnsyncPaymentChanges DEF Changes, SameRows
  <2> QED BY <2>1, <2>2
<1>3. ASSUME NEW patch \in Patches, Edits(patch)
      PROVE  /\ tx'.order.status = db.order.status /\ db'.order.status = db.order.status
  <2>1. PICK d : /\ d.order = EditedOrder(db.order, db.order, patch)
                 /\ Changes(d, tx', OrderKeys)
    BY <1>3 DEF Edits
  <2>2. db' = tx' \/ db' = db BY <1>3 DEF Edits
  <2>3. db.order \in Order BY LedgerEntry DEF CalmInv, Tidy
  <2>4. tx'.order.status = db.order.status
    BY <2>1, <2>3 DEF Changes, SameRows, EditedOrder, Order
  <2> QED BY <2>2, <2>4
<1>4. ASSUME NEW t, Resyncs(t)
      PROVE  /\ tx'.order.status = db.order.status /\ db'.order.status = db.order.status
  <2>1. /\ tx' = SyncPayment(tx, t) /\ t \in tx.txns /\ Tidy(tx)
        /\ db' = tx' \/ db' = db
    BY <1>4 DEF Resyncs, CalmInv
  <2>2. tx'.order = tx.order BY <2>1, OrderSynced
  <2> QED BY <2>1, <2>2 DEF StatusInv
<1>5. CASE Committed /\ \E d, u : Books(d, u) BY <1>1, <1>5 DEF Committed, StatusInv
<1>6. CASE Committed /\ \E d, t : TakesBack(d, t) BY <1>2, <1>6 DEF Committed, StatusInv
<1>7. CASE Committed /\ Records BY <1>7 DEF Committed, StatusInv, Records, OtherRowsStay
<1>8. CASE \E patch \in Patches : Edits(patch) BY <1>3, <1>8 DEF StatusInv
<1>9. CASE \E t : Resyncs(t) BY <1>4, <1>9 DEF StatusInv
<1>10. CASE Committed /\ \E target \in Statuses : Moves(target) \/ ItemsMove(target)
  BY <1>10 DEF Committed, StatusInv
<1> QED BY <1>5, <1>6, <1>7, <1>8, <1>9, <1>10 DEF Phase

SettleInv == BookedInv /\ HeldInv /\ RevenueInv /\ EvenInv /\ StatusInv

LEMMA InitSettle == Init => SettleInv
BY InitBooked, InitHeld, InitRevenue, InitEven DEF Init, SettleInv, StatusInv

\* What a step that hands the order over leaves.
SettledThen ==
  db'.order.status # db.order.status /\ db'.order.status \in HandedOver => Settled'

\* The practices that take from what the hand-over settles.
Unsettling == {"unbooked", "touch_void", "unpay", "over_refund", "step_back", "by_items",
               "switch", "close_books"}

LEMMA PhaseSettles ==
  ASSUME Practices \cap Unsettling = {}, CalmInv, SettleInv, Priced, FreeUnrefunded(db)',
         Phase
  PROVE  SettleInv' /\ SettledThen
<1>1. /\ "unbooked" \notin Practices /\ "touch_void" \notin Practices
      /\ "unpay" \notin Practices /\ "over_refund" \notin Practices
      /\ "step_back" \notin Practices /\ "by_items" \notin Practices
      /\ "switch" \notin Practices
  BY DEF Unsettling
<1>2. BookedInv /\ HeldInv /\ RevenueInv /\ EvenInv /\ StatusInv BY DEF SettleInv
<1>3. BookedInv' BY <1>1, <1>2, PhaseIsBooked
<1>4. HeldInv' BY <1>2, PhaseIsHeld
<1>5. RevenueInv' BY <1>1, <1>2, PhaseIsRecognised
<1>6. FreeUnrefunded(db') BY DEF FreeUnrefunded
<1>7. EvenInv' BY <1>1, <1>2, <1>6, PhaseIsEven
<1>8. /\ StatusInv'
      /\ \/ db'.order.status = db.order.status
         \/ \E target \in Statuses : Moves(target) \/ ItemsMove(target)
  BY <1>2, OnlyMovesMove
<1>9. \A status \in Statuses : ~ItemsMove(status) BY <1>1 DEF ItemsMove
<1>10. SettledThen BY <1>2, <1>8, <1>9, MoveSettles DEF SettledThen
<1> QED BY <1>3, <1>4, <1>5, <1>7, <1>8, <1>10 DEF SettleInv

(***************************************************************************)
(* Whatever was paid, refunded, invalidated, restored, edited and split    *)
(* again before it, the hand-over leaves no deposit owed and no cash held, *)
(* and recognises the deposits, or the whole price when nothing was paid.  *)
(* This is where requests do not overlap, no period is closed, every       *)
(* payment is booked, the staff refund no more than was deposited, take    *)
(* no payment of a bus order back, do not touch invalidated payments, do   *)
(* not move the status back or by the items, and change the delivery only  *)
(* before the first payment; where an order keeps a price, since the       *)
(* reconciliation of an unpaid order without one leaves its revenue as it  *)
(* is; and where a bus order without a fee has no refund, which leaves the *)
(* deposits only, when a later fee holds a part of what they came from.    *)
(***************************************************************************)
THEOREM HandOverSettled ==
  ASSUME OneAtATime, Practices \cap Unsettling = {}
  PROVE  Spec /\ []Priced /\ []FreeUnrefunded(db) => HandOverSettles
<1>1. Init => CalmInv /\ SettleInv BY InitCalm, InitSettle
<1>2. CalmInv /\ SettleInv /\ Priced /\ FreeUnrefunded(db)' /\ [Next]_vars
        => (CalmInv /\ SettleInv)' /\ SettledThen
  <2> SUFFICES ASSUME CalmInv, SettleInv, Priced, FreeUnrefunded(db)', [Next]_vars
               PROVE  (CalmInv /\ SettleInv)' /\ SettledThen
    OBVIOUS
  <2>1. CalmInv' /\ (Reading \/ Phase) BY NextCalm DEF NeverClosed, Unsettling
  <2>2. CASE Reading
    <3>1. UNCHANGED <<db, tx, left>> BY <2>2, ReadingLeaves
    <3>2. SettleInv'
      BY <3>1 DEF SettleInv, BookedInv, HeldInv, RevenueInv, EvenInv, StatusInv, LockFree
    <3> QED BY <2>1, <3>1, <3>2 DEF SettledThen
  <2>3. CASE Phase BY <2>1, <2>3, PhaseSettles
  <2> QED BY <2>1, <2>2, <2>3
<1>3. SettledThen => [SettledThen]_vars OBVIOUS
<1>4. Spec /\ []Priced /\ []FreeUnrefunded(db) => [][SettledThen]_vars
  BY <1>1, <1>2, <1>3, PTL DEF Spec
<1> QED BY <1>4 DEF HandOverSettles, SettledThen
-----------------------------------------------------------------------------
(***************************************************************************)
(* What is posted: the lines of an entry sum to nothing, and of an order's *)
(* entries only the revenue takes deposits, which it brings into revenue.  *)
(***************************************************************************)
InSum(lines) ==
  lines["asset"] + lines["deposits"] + lines["shipping"] + lines["tien_rut"]
    + lines["receivable"] + lines["revenue"]

Proper(source, text, lines) ==
  /\ InSum(lines) = 0
  /\ source = "order" =>
       lines["deposits"] = IF text = "revenue" THEN -lines["revenue"] ELSE 0

\* Every entry of d2 that is not of d is so.
Adds(d, d2) ==
  \A e \in d2.journal : e \in d.journal \/ Proper(e.source, e.text, e.lines)

LEMMA AddsThrough ==
  ASSUME NEW d, NEW d2, NEW d3, Adds(d, d2), Adds(d2, d3) PROVE Adds(d, d3)
BY DEF Adds

LEMMA AddsNothing ==
  ASSUME NEW d, NEW d2, d2.journal \subseteq d.journal PROVE Adds(d, d2)
BY DEF Adds

LEMMA InsertAdds ==
  ASSUME NEW d, Ledger(d), NEW source, NEW of, NEW text, NEW lines,
         Proper(source, text, lines)
  PROVE  Adds(d, Insert(d, source, of, text, lines))
<1> DEFINE new == Entered(d, source, of, text, lines)
           d2 == Insert(d, source, of, text, lines)
<1>1. d2.journal = d.journal \union {new}
  BY DEF Insert, Entered, Ledger, Database
<1>2. new.source = source /\ new.text = text /\ new.lines = lines BY DEF Entered
<1> HIDE DEF new, d2
<1>3. Adds(d, d2) BY <1>1, <1>2 DEF Adds
<1> QED BY <1>3 DEF d2

\* An entry goes, which takes no entry with it that stays.
LEMMA DeleteAdds ==
  ASSUME NEW d, Tidy(d), NEW e \in d.journal
  PROVE  ReverseOrDelete(d, e).journal \subseteq d.journal
<1>1. ~e.locked BY DEF Tidy, Shaped
<1> QED BY <1>1 DEF ReverseOrDelete, DeleteCascade, Tidy, Ledger, Database

LEMMA ClearAdds ==
  ASSUME NEW d, Tidy(d), NEW k, At(d, k) # {}
  PROVE  ReverseOrDelete(d, Latest(At(d, k))).journal \subseteq d.journal
<1>1. At(d, k) \in SUBSET d.journal BY DEF At
<1>2. Latest(At(d, k)) \in At(d, k) BY <1>1, LatestIsThere DEF Tidy
<1>3. Latest(At(d, k)) \in d.journal BY <1>2 DEF At
<1> QED BY <1>3, DeleteAdds

LEMMA DropAdds ==
  ASSUME NEW d, Tidy(d)
  PROVE  /\ \A text : DropOrderEntry(d, text).journal \subseteq d.journal
         /\ DropRelease(d).journal \subseteq d.journal
<1>1. /\ Releases(d) = At(d, ReleaseKey)
      /\ \A text : OrderEntries(d, text) = At(d, OrderKey(text))
  BY LooksFor
<1>2. ASSUME NEW text PROVE DropOrderEntry(d, text).journal \subseteq d.journal
  BY <1>1, ClearAdds DEF DropOrderEntry
<1>3. DropRelease(d).journal \subseteq d.journal BY <1>1, ClearAdds DEF DropRelease
<1> QED BY <1>2, <1>3

LEMMA ReplaceAdds ==
  ASSUME NEW d, Tidy(d), NEW text, NEW lines, Proper("order", text, lines)
  PROVE  Adds(d, ReplaceOrderEntry(d, text, lines))
<1> DEFINE cleared == DropOrderEntry(d, text)
           posted == PostOrderEntry(cleared, text, lines)
<1>1. Adds(d, d) /\ Adds(d, cleared) BY DropAdds, AddsNothing
<1>2. Ledger(cleared) BY DropChanges DEF Changes, Tidy
<1>3. ReplaceOrderEntry(d, text, lines) \in {d, posted} BY DEF ReplaceOrderEntry
<1> HIDE DEF cleared
<1>4. Adds(cleared, posted) BY <1>2, InsertAdds DEF PostOrderEntry
<1> HIDE DEF posted
<1> QED BY <1>1, <1>3, <1>4, AddsThrough

\* The lines the syncs post.
LEMMA PairIsProper ==
  ASSUME NEW n \in Int
  PROVE  /\ Proper("order", "receivable", Lines([receivable |-> n, revenue |-> -n]))
         /\ Proper("order", "revenue", Lines([deposits |-> n, revenue |-> -n]))
         /\ Proper("order", "return", Lines([tien_rut |-> n, asset |-> -n]))
         /\ Proper("order_shipping_release", "release", Lines([shipping |-> n, asset |-> -n]))
<1> DEFINE owed == Lines([receivable |-> n, revenue |-> -n])
           paid == Lines([deposits |-> n, revenue |-> -n])
           returned == Lines([tien_rut |-> n, asset |-> -n])
           released == Lines([shipping |-> n, asset |-> -n])
<1>1. /\ owed["receivable"] = n /\ owed["revenue"] = -n /\ owed["asset"] = 0
      /\ owed["deposits"] = 0 /\ owed["shipping"] = 0 /\ owed["tien_rut"] = 0
  BY TheAccounts DEF Lines
<1>2. /\ paid["deposits"] = n /\ paid["revenue"] = -n /\ paid["asset"] = 0
      /\ paid["receivable"] = 0 /\ paid["shipping"] = 0 /\ paid["tien_rut"] = 0
  BY TheAccounts DEF Lines
<1>3. /\ returned["tien_rut"] = n /\ returned["asset"] = -n /\ returned["revenue"] = 0
      /\ returned["receivable"] = 0 /\ returned["shipping"] = 0 /\ returned["deposits"] = 0
  BY TheAccounts DEF Lines
<1>4. /\ released["shipping"] = n /\ released["asset"] = -n /\ released["revenue"] = 0
      /\ released["receivable"] = 0 /\ released["tien_rut"] = 0 /\ released["deposits"] = 0
  BY TheAccounts DEF Lines
<1> HIDE DEF owed, paid, returned, released
<1>5. Proper("order", "receivable", owed) BY <1>1 DEF Proper, InSum
<1>6. Proper("order", "revenue", paid) BY <1>2 DEF Proper, InSum
<1>7. Proper("order", "return", returned) BY <1>3 DEF Proper, InSum
<1>8. Proper("order_shipping_release", "release", released) BY <1>4 DEF Proper, InSum
<1> QED BY <1>5, <1>6, <1>7, <1>8 DEF owed, paid, returned, released

LEMMA PaymentLinesProper ==
  ASSUME NEW d, Ledger(d), NEW t \in Transaction
  PROVE  Proper("payment_transaction", "payment", PaymentLines(d, t))
<1> DEFINE n == t.amount
           s == ShippingPortion(d, t)
           rut == Lines([asset |-> n, tien_rut |-> -n])
           refund == Lines([deposits |-> n, asset |-> -n])
           other == Lines([asset |-> n, deposits |-> s - n, shipping |-> -s])
<1>1. n \in Int /\ s \in Int BY PortionIsWhole
<1>2. PaymentLines(d, t) \in {rut, refund, other} BY DEF PaymentLines
<1> HIDE DEF n, s
<1>3. /\ rut["asset"] = n /\ rut["tien_rut"] = -n /\ rut["deposits"] = 0
      /\ rut["receivable"] = 0 /\ rut["shipping"] = 0 /\ rut["revenue"] = 0
  BY TheAccounts DEF Lines
<1>4. /\ refund["asset"] = -n /\ refund["deposits"] = n /\ refund["tien_rut"] = 0
      /\ refund["receivable"] = 0 /\ refund["shipping"] = 0 /\ refund["revenue"] = 0
  BY TheAccounts DEF Lines
<1>5. /\ other["asset"] = n /\ other["deposits"] = s - n /\ other["shipping"] = -s
      /\ other["receivable"] = 0 /\ other["tien_rut"] = 0 /\ other["revenue"] = 0
  BY TheAccounts DEF Lines
<1> HIDE DEF rut, refund, other
<1>6. InSum(rut) = 0 BY <1>1, <1>3 DEF InSum
<1>7. InSum(refund) = 0 BY <1>1, <1>4 DEF InSum
<1>8. InSum(other) = 0 BY <1>1, <1>5 DEF InSum
<1> QED BY <1>2, <1>6, <1>7, <1>8 DEF Proper

LEMMA ReleaseAdds ==
  ASSUME NEW d, Tidy(d)
  PROVE  Adds(d, SyncBusShippingRelease(d))
<1> DEFINE cleared == ReverseOrDelete(d, Latest(Releases(d)))
<1>1. ASSUME NEW x, Tidy(x) PROVE Adds(x, PostRelease(x))
  <2>1. x.order.fee \in Int BY <1>1, LedgerEntry DEF Tidy, Order
  <2>2. Proper("order_shipping_release", "release",
               Lines([shipping |-> x.order.fee, asset |-> -x.order.fee]))
    BY <2>1, PairIsProper
  <2> QED BY <1>1, <2>2, InsertAdds DEF PostRelease, Tidy
<1>2. SyncBusShippingRelease(d) = d \/ SyncBusShippingRelease(d) = PostRelease(d)
        \/ (Releases(d) # {} /\ SyncBusShippingRelease(d) = PostRelease(cleared))
  BY DEF SyncBusShippingRelease
<1>3. Releases(d) = At(d, ReleaseKey) BY LooksFor
<1>4. CASE SyncBusShippingRelease(d) = d \/ SyncBusShippingRelease(d) = PostRelease(d)
  BY <1>1, <1>4, AddsNothing
<1>5. CASE Releases(d) # {} /\ SyncBusShippingRelease(d) = PostRelease(cleared)
  <2>1. Adds(d, cleared) BY <1>3, <1>5, ClearAdds, AddsNothing
  <2>2. Tidy(cleared) BY <1>3, <1>5, ClearChanges DEF Changes
  <2> HIDE DEF cleared
  <2> QED BY <1>1, <1>5, <2>1, <2>2, AddsThrough
<1> QED BY <1>2, <1>4, <1>5

LEMMA RetriggerAdds ==
  ASSUME NEW d, Tidy(d), NEW deleted \in BOOLEAN
  PROVE  Adds(d, RetriggerRelease(d, deleted))
<1>1. Releases(d) = At(d, ReleaseKey) BY LooksFor
<1>2. Releases(d) # {} => Adds(d, ReverseOrDelete(d, Latest(Releases(d))))
  BY <1>1, ClearAdds, AddsNothing
<1>3. Adds(d, d) BY AddsNothing
<1> QED BY <1>2, <1>3, ReleaseAdds DEF RetriggerRelease

LEMMA SyncPaymentAdds ==
  ASSUME NEW d, Tidy(d), NEW t \in Transaction, t.id <= d.lastTxn
  PROVE  Adds(d, SyncPayment(d, t))
<1> DEFINE own == At(d, PaymentKey(t.id))
           lines == PaymentLines(d, t)
           posted == IF own = {} THEN PostPayment(d, t, lines)
                     ELSE UpdateInPlace(d, Latest(own), "payment", lines)
<1>1. lines \in LinesSet /\ Proper("payment_transaction", "payment", lines)
  BY PaymentLinesAreWhole, PaymentLinesProper DEF Tidy
<1>2. /\ lines["revenue"] = 0 /\ lines["receivable"] = 0 /\ lines["shipping"] <= 0
  BY PaymentLinesShape DEF Tidy
<1>3. own # {} => /\ Latest(own) \in d.journal /\ Key(Latest(own)) = PaymentKey(t.id)
                  /\ ~Latest(own).locked /\ IsPayment(Latest(own))
  <2>1. SUFFICES ASSUME own # {}
                 PROVE  /\ Latest(own) \in d.journal /\ Key(Latest(own)) = PaymentKey(t.id)
                        /\ ~Latest(own).locked /\ IsPayment(Latest(own))
    OBVIOUS
  <2>2. own \in SUBSET d.journal BY DEF At
  <2>3. Latest(own) \in own BY <2>1, <2>2, LatestIsThere DEF Tidy
  <2>4. Latest(own) \in d.journal /\ Key(Latest(own)) = PaymentKey(t.id) BY <2>3 DEF At
  <2> HIDE DEF own
  <2> QED BY <2>4 DEF Tidy, Shaped, IsRelease, IsOrderEntry, Key, PaymentKey
<1>4. SyncPayment(d, t) = RetriggerRelease(posted, FALSE)
  <2>1. OwnEntries(d, t) = own BY LooksFor DEF OwnEntries
  <2> QED BY <1>3, <2>1 DEF SyncPayment
<1>5. CASE own = {}
  <2>1. posted = Insert(d, "payment_transaction", t.id, "payment", lines)
    BY <1>5 DEF PostPayment
  <2>2. /\ "payment_transaction" \in Sources /\ "payment" \in Texts /\ t.id \in Nat
    BY DEF Sources, Texts, Transaction
  <2>3. Shaped(Entered(d, "payment_transaction", t.id, "payment", lines))
    BY <1>2 DEF Shaped, IsPayment, Entered
  <2>4. At(d, <<"payment_transaction", t.id, "payment">>) = {} BY <1>5 DEF PaymentKey
  <2> HIDE DEF lines, posted, own
  <2>5. Tidy(posted)
    BY <1>1, <2>1, <2>2, <2>3, <2>4, InsertChanges DEF Changes
  <2>6. Adds(d, posted) BY <1>1, <2>1, InsertAdds DEF Tidy
  <2>7. Adds(posted, RetriggerRelease(posted, FALSE)) BY <2>5, RetriggerAdds
  <2> QED BY <1>4, <2>6, <2>7, AddsThrough
<1>6. CASE own # {}
  <2> DEFINE e == Latest(own)
             new == [e EXCEPT !.text = "payment", !.lines = lines]
  <2>1. posted = UpdateInPlace(d, e, "payment", lines) BY <1>6
  <2>2. e \in d.journal /\ IsPayment(e) BY <1>3, <1>6
  <2> HIDE DEF lines, posted, e
  <2>3. Tidy(posted) BY <1>1, <1>2, <2>1, <2>2, UpdateChanges DEF Changes
  <2>4. posted.journal = (d.journal \ {e}) \union {new}
    BY <2>1 DEF UpdateInPlace, Tidy, Ledger, Database
  <2>5. new.source = "payment_transaction" /\ new.text = "payment" /\ new.lines = lines
    <3>1. e \in Entry BY <2>2, LedgerEntry DEF Tidy
    <3> QED BY <2>2, <3>1 DEF Entry, IsPayment
  <2> HIDE DEF new
  <2>6. Adds(d, posted) BY <1>1, <2>4, <2>5 DEF Adds
  <2>7. Adds(posted, RetriggerRelease(posted, FALSE)) BY <2>3, RetriggerAdds
  <2> QED BY <1>4, <2>6, <2>7, AddsThrough
<1> QED BY <1>5, <1>6

LEMMA UnsyncPaymentAdds ==
  ASSUME NEW d, Tidy(d), NEW t
  PROVE  Adds(d, UnsyncPayment(d, t))
<1> DEFINE own == At(d, PaymentKey(t.id))
           cleared == IF own = {} THEN d ELSE ReverseOrDelete(d, Latest(own))
<1>1. UnsyncPayment(d, t) = RetriggerRelease(cleared, TRUE)
  <2>1. OwnEntries(d, t) = own BY LooksFor DEF OwnEntries
  <2> QED BY <2>1 DEF UnsyncPayment
<1>2. Adds(d, cleared) /\ Tidy(cleared)
  BY ClearAdds, ClearChanges, AddsNothing DEF Changes
<1> HIDE DEF cleared
<1>3. Adds(cleared, RetriggerRelease(cleared, TRUE)) BY <1>2, RetriggerAdds
<1> QED BY <1>1, <1>2, <1>3, AddsThrough

LEMMA ReconcileAdds ==
  ASSUME NEW d, Tidy(d)
  PROVE  Adds(d, ReconcileRevenue(d))
<1> DEFINE cleared == DropOrderEntry(d, "receivable")
           owed == Lines([receivable |-> d.order.total, revenue |-> -d.order.total])
           paid == Lines([deposits |-> DepositBalance(d), revenue |-> -DepositBalance(d)])
           mid == IF IsUnpaid(d) THEN RecogniseReceivable(d) ELSE RecogniseDeposits(d)
<1>1. Proper("order", "receivable", owed) /\ Proper("order", "revenue", paid)
  <2>1. d.order.total \in Int BY LedgerEntry DEF Tidy, Order
  <2>2. DepositBalance(d) \in Int BY DepositsAreWhole DEF Tidy
  <2> QED BY <2>1, <2>2, PairIsProper
<1>2. RecogniseReceivable(d) \in {d, ReplaceOrderEntry(d, "receivable", owed)}
  BY DEF RecogniseReceivable
<1>3. RecogniseDeposits(d) \in {DropOrderEntry(cleared, "revenue"),
                                ReplaceOrderEntry(cleared, "revenue", paid)}
  BY DEF RecogniseDeposits
<1>4. Adds(d, cleared) /\ Tidy(cleared) BY DropAdds, DropChanges, AddsNothing DEF Changes
<1> HIDE DEF cleared, owed, paid
<1>5. Adds(d, RecogniseReceivable(d)) BY <1>1, <1>2, ReplaceAdds, AddsNothing
<1>6. Adds(d, RecogniseDeposits(d))
  <2>1. Adds(cleared, RecogniseDeposits(d))
    BY <1>1, <1>3, <1>4, DropAdds, ReplaceAdds, AddsNothing
  <2> QED BY <1>4, <2>1, AddsThrough
<1>7. Tidy(mid) BY ReceivableChanges, DepositsChange DEF Changes
<1>8. Adds(d, mid) BY <1>5, <1>6
<1>9. ReconcileRevenue(d) = ReturnTienRut(mid) BY DEF ReconcileRevenue
<1> HIDE DEF mid
<1> DEFINE returned == Lines([tien_rut |-> HeldTienRut(mid), asset |-> -HeldTienRut(mid)])
<1>10. Proper("order", "return", returned)
  <2>1. HeldTienRut(mid) \in Int BY <1>7, HeldIsWhole DEF Tidy
  <2> QED BY <2>1, PairIsProper
<1>11. ReturnTienRut(mid) \in {DropOrderEntry(mid, "return"),
                               ReplaceOrderEntry(mid, "return", returned)}
  BY DEF ReturnTienRut
<1> HIDE DEF returned
<1>12. Adds(mid, ReturnTienRut(mid)) BY <1>7, <1>10, <1>11, DropAdds, ReplaceAdds, AddsNothing
<1> QED BY <1>8, <1>9, <1>12, AddsThrough

LEMMA HandOverAdds ==
  ASSUME NEW d, Tidy(d)
  PROVE  Adds(d, SyncHandedOver(d))
<1> DEFINE mid == ReconcileRevenue(d)
<1>1. Adds(d, mid) /\ Tidy(mid) BY ReconcileAdds, ReconcileChanges DEF Changes
<1>2. SyncHandedOver(d) = SyncBusShippingRelease(mid) BY DEF SyncHandedOver
<1> HIDE DEF mid
<1>3. Adds(mid, SyncBusShippingRelease(mid)) BY <1>1, ReleaseAdds
<1> QED BY <1>1, <1>2, <1>3, AddsThrough

\* The payments are all that a cancelled order keeps of its entries.
LEMMA OnlyOld ==
  ASSUME NEW d, NEW d2, Changes(d, d2, OrderSide), OnlyPayments(d2)
  PROVE  d2.journal \subseteq d.journal
<1> SUFFICES ASSUME NEW e \in d2.journal PROVE e \in d.journal OBVIOUS
<1>1. Key(e) = PaymentKey(e.of) BY DEF OnlyPayments, IsPayment, Key, PaymentKey
<1>2. Key(e) \notin OrderSide BY <1>1, KeysDiffer DEF OrderSide
<1> QED BY <1>2 DEF Changes

-----------------------------------------------------------------------------
AllProper(d) == \A e \in d.journal : Proper(e.source, e.text, e.lines)

ProperInv == AllProper(db) /\ AllProper(tx)

LEMMA PhaseIsProper ==
  ASSUME CalmInv, ProperInv, Phase
  PROVE  ProperInv'
<1>1. ASSUME NEW d, NEW d2, AllProper(d), Adds(d, d2) PROVE AllProper(d2)
  BY <1>1 DEF AllProper, Adds
<1>2. ASSUME NEW d, d.journal \subseteq db.journal PROVE AllProper(d)
  BY <1>2 DEF AllProper, ProperInv
<1>3. ASSUME Committed, NEW d, NEW u, Books(d, u) PROVE ProperInv'
  <2>1. Tidy(d) /\ d.journal = db.journal /\ u \in d.txns /\ db' = SyncPayment(d, u)
    BY <1>3 DEF Books, OtherRowsStay
  <2>2. u \in Transaction /\ u.id <= d.lastTxn BY <2>1, LedgerEntry DEF Tidy, Ledger
  <2>3. AllProper(db') BY <1>1, <1>2, <2>1, <2>2, SyncPaymentAdds
  <2> QED BY <1>3, <2>3 DEF Committed, ProperInv
<1>4. ASSUME Committed, NEW d, NEW t, TakesBack(d, t) PROVE ProperInv'
  <2>1. Tidy(d) /\ d.journal = db.journal /\ db' = UnsyncPayment(d, t)
    BY <1>4 DEF TakesBack, OtherRowsStay
  <2>2. AllProper(db') BY <1>1, <1>2, <2>1, UnsyncPaymentAdds
  <2> QED BY <1>4, <2>2 DEF Committed, ProperInv
<1>5. CASE Committed /\ Records
  <2>1. AllProper(db') BY <1>2, <1>5 DEF Records, OtherRowsStay
  <2> QED BY <1>5, <2>1 DEF Committed, ProperInv
<1>6. ASSUME NEW patch \in Patches, Edits(patch) PROVE ProperInv'
  <2>1. PICK d : /\ Tidy(d) /\ d.journal = db.journal
                 /\ tx' = d \/ tx' = ReconcileRevenue(d)
    BY <1>6 DEF Edits
  <2>2. AllProper(d) BY <1>2, <2>1
  <2>3. AllProper(tx') BY <1>1, <2>1, <2>2, ReconcileAdds
  <2>4. db' = tx' \/ db' = db BY <1>6 DEF Edits
  <2> QED BY <2>3, <2>4 DEF ProperInv
<1>7. ASSUME NEW t, Resyncs(t) PROVE ProperInv'
  <2>1. /\ t \in tx.txns /\ tx' = SyncPayment(tx, t) /\ Tidy(tx)
        /\ db' = tx' \/ db' = db
    BY <1>7 DEF Resyncs, CalmInv
  <2>2. t \in Transaction /\ t.id <= tx.lastTxn BY <2>1, LedgerEntry DEF Tidy, Ledger
  <2>3. AllProper(tx') BY <1>1, <2>1, <2>2, SyncPaymentAdds DEF ProperInv
  <2> QED BY <2>1, <2>3 DEF ProperInv
<1>8. ASSUME Committed, NEW target \in Statuses, Moves(target) PROVE ProperInv'
  <2>1. PICK d, moved :
          /\ Changes(db, d, OrderSide)
          /\ IF target = "cancelled" THEN OnlyPayments(d) ELSE d = db
          /\ Tidy(moved) /\ moved.journal = d.journal
          /\ db' = moved \/ db' = SyncHandedOver(moved)
    BY <1>8 DEF Moves
  <2>2. moved.journal \subseteq db.journal BY <2>1, OnlyOld
  <2>3. AllProper(moved) BY <1>2, <2>2
  <2>4. AllProper(db') BY <1>1, <2>1, <2>3, HandOverAdds
  <2> QED BY <1>8, <2>4 DEF Committed, ProperInv
<1>9. ASSUME Committed, NEW status \in Statuses, ItemsMove(status) PROVE ProperInv'
  <2>1. AllProper(db') BY <1>2, <1>9 DEF ItemsMove
  <2> QED BY <1>9, <2>1 DEF Committed, ProperInv
<1> QED BY <1>3, <1>4, <1>5, <1>6, <1>7, <1>8, <1>9 DEF Phase

-----------------------------------------------------------------------------
(***************************************************************************)
(* What the audit finds in such books.                                     *)
(***************************************************************************)
LEMMA SumOfLines ==
  ASSUME NEW e, e.lines \in LinesSet
  PROVE  MapThenSumSet(LAMBDA a : e.lines[a], Accounts) = InSum(e.lines)
<1> DEFINE f == [a \in Accounts |-> e.lines[a]]
           S1 == {"revenue"}
           S2 == S1 \cup {"receivable"}
           S3 == S2 \cup {"tien_rut"}
           S4 == S3 \cup {"shipping"}
           S5 == S4 \cup {"deposits"}
           S6 == S5 \cup {"asset"}
<1>1. MapThenSumSet(LAMBDA a : e.lines[a], Accounts)
        = (CHOOSE g : SumStep(f, Accounts, g))[Accounts]
  BY DEF MapThenSumSet, MapThenFoldSet, SumStep, Pick
<1>2. SumFunctionOnSet(f, Accounts) = (CHOOSE g : SumStep(f, Accounts, g))[Accounts]
  BY DEF SumFunctionOnSet, FoldFunctionOnSet, MapThenFoldSet, SumStep, Pick
<1>3. Accounts = S6 BY TheAccounts
<1>4. \A a \in Accounts : f[a] = e.lines[a] /\ f[a] \in Int BY DEF LinesSet
<1> HIDE DEF f
<1>5. SumFunctionOnSet(f, S1) = f["revenue"]
  <2>1. IsFiniteSet(S1) /\ S1 \ {"revenue"} = {} BY FS_Singleton
  <2>2. \A a \in S1 : f[a] \in Int BY <1>3, <1>4
  <2>3. SumFunctionOnSet(f, S1) = f["revenue"] + SumFunctionOnSet(f, S1 \ {"revenue"})
    BY <2>1, <2>2, SumRemove
  <2> QED BY <2>1, <2>2, <2>3, SumOfNone
<1>6. /\ IsFiniteSet(S1) /\ IsFiniteSet(S2) /\ IsFiniteSet(S3) /\ IsFiniteSet(S4)
      /\ IsFiniteSet(S5)
  <2>1. \A S, x : IsFiniteSet(S) => IsFiniteSet(S \cup {x}) BY FS_AddElement
  <2>2. IsFiniteSet(S1) BY FS_Singleton
  <2> HIDE DEF S1
  <2>3. IsFiniteSet(S2) BY <2>1, <2>2
  <2> HIDE DEF S2
  <2>4. IsFiniteSet(S3) BY <2>1, <2>3
  <2> HIDE DEF S3
  <2>5. IsFiniteSet(S4) BY <2>1, <2>4
  <2> HIDE DEF S4
  <2>6. IsFiniteSet(S5) BY <2>1, <2>5
  <2> QED BY <2>2, <2>3, <2>4, <2>5, <2>6
<1>7. SumFunctionOnSet(f, S2) = f["receivable"] + SumFunctionOnSet(f, S1)
  <2>1. "receivable" \notin S1 /\ \A a \in S1 \cup {"receivable"} : f[a] \in Int BY <1>3, <1>4
  <2> QED BY ONLY <1>6, <2>1, SumAdd
<1>8. SumFunctionOnSet(f, S3) = f["tien_rut"] + SumFunctionOnSet(f, S2)
  <2>1. "tien_rut" \notin S2 /\ \A a \in S2 \cup {"tien_rut"} : f[a] \in Int BY <1>3, <1>4
  <2> QED BY ONLY <1>6, <2>1, SumAdd
<1>9. SumFunctionOnSet(f, S4) = f["shipping"] + SumFunctionOnSet(f, S3)
  <2>1. "shipping" \notin S3 /\ \A a \in S3 \cup {"shipping"} : f[a] \in Int BY <1>3, <1>4
  <2> QED BY ONLY <1>6, <2>1, SumAdd
<1>10. SumFunctionOnSet(f, S5) = f["deposits"] + SumFunctionOnSet(f, S4)
  <2>1. "deposits" \notin S4 /\ \A a \in S4 \cup {"deposits"} : f[a] \in Int BY <1>3, <1>4
  <2> QED BY ONLY <1>6, <2>1, SumAdd
<1>11. SumFunctionOnSet(f, S6) = f["asset"] + SumFunctionOnSet(f, S5)
  <2>1. "asset" \notin S5 /\ \A a \in S5 \cup {"asset"} : f[a] \in Int BY <1>3, <1>4
  <2> QED BY ONLY <1>6, <2>1, SumAdd
<1>12. /\ f["asset"] = e.lines["asset"] /\ f["deposits"] = e.lines["deposits"]
       /\ f["shipping"] = e.lines["shipping"] /\ f["tien_rut"] = e.lines["tien_rut"]
       /\ f["receivable"] = e.lines["receivable"] /\ f["revenue"] = e.lines["revenue"]
       /\ f["asset"] \in Int /\ f["deposits"] \in Int /\ f["shipping"] \in Int
       /\ f["tien_rut"] \in Int /\ f["receivable"] \in Int /\ f["revenue"] \in Int
  BY <1>3, <1>4
<1>13. MapThenSumSet(LAMBDA a : e.lines[a], Accounts) = SumFunctionOnSet(f, S6)
  BY <1>1, <1>2, <1>3
<1> HIDE DEF S1, S2, S3, S4, S5, S6
<1> QED BY <1>5, <1>7, <1>8, <1>9, <1>10, <1>11, <1>12, <1>13 DEF InSum

\* Over any journal the accounts come to what the entries come to: nothing.
LEMMA JournalBalances ==
  ASSUME NEW d, Ledger(d), AllProper(d)
  PROVE  /\ \A a \in Accounts : NetOf(d.journal, a) \in Int
         /\ NetOf(d.journal, "asset") + NetOf(d.journal, "deposits")
              + NetOf(d.journal, "shipping") + NetOf(d.journal, "tien_rut")
              + NetOf(d.journal, "receivable") + NetOf(d.journal, "revenue") = 0
<1> DEFINE S == d.journal
           f(a) == On(S, a)
           f1 == [e \in S |-> f("asset")[e] + f("deposits")[e]]
           f2 == [e \in S |-> f1[e] + f("shipping")[e]]
           f3 == [e \in S |-> f2[e] + f("tien_rut")[e]]
           f4 == [e \in S |-> f3[e] + f("receivable")[e]]
           f5 == [e \in S |-> f4[e] + f("revenue")[e]]
           total(g) == SumFunctionOnSet(g, S)
<1>1. IsFiniteSet(S) BY DEF Ledger
<1>2. \A a \in Accounts : NetOf(S, a) = total(f(a)) BY <1>1, NetIs
<1>3. \A a \in Accounts :
        NetOf(S, a) \in Int /\ \A e \in S : f(a)[e] = e.lines[a] /\ f(a)[e] \in Int
  <2> SUFFICES ASSUME NEW a \in Accounts
               PROVE  NetOf(S, a) \in Int /\ \A e \in S : f(a)[e] = e.lines[a] /\ f(a)[e] \in Int
    OBVIOUS
  <2>1. S \in SUBSET d.journal OBVIOUS
  <2>2. Summable(S, a) BY <2>1, EntriesSummable
  <2> QED BY <2>2, NetInt DEF Summable, On
<1>4. /\ "asset" \in Accounts /\ "deposits" \in Accounts /\ "shipping" \in Accounts
      /\ "tien_rut" \in Accounts /\ "receivable" \in Accounts /\ "revenue" \in Accounts
  BY TheAccounts
<1>5. \A e \in S : InSum(e.lines) = 0 BY DEF AllProper, Proper
<1> HIDE DEF S, f
<1>6. \A e \in S : /\ f1[e] = f("asset")[e] + f("deposits")[e] /\ f1[e] \in Int
                   /\ f2[e] = f1[e] + f("shipping")[e] /\ f2[e] \in Int
                   /\ f3[e] = f2[e] + f("tien_rut")[e] /\ f3[e] \in Int
                   /\ f4[e] = f3[e] + f("receivable")[e] /\ f4[e] \in Int
                   /\ f5[e] = f4[e] + f("revenue")[e]
  BY <1>3, <1>4
<1>7. \A e \in S : f5[e] = 0 BY <1>3, <1>4, <1>5, <1>6 DEF InSum
<1> HIDE DEF f1, f2, f3, f4, f5
<1>8. total(f1) = total(f("asset")) + total(f("deposits")) BY <1>1, <1>3, <1>4, <1>6, SumPlus
<1>9. total(f2) = total(f1) + total(f("shipping")) BY <1>1, <1>3, <1>4, <1>6, SumPlus
<1>10. total(f3) = total(f2) + total(f("tien_rut")) BY <1>1, <1>3, <1>4, <1>6, SumPlus
<1>11. total(f4) = total(f3) + total(f("receivable")) BY <1>1, <1>3, <1>4, <1>6, SumPlus
<1>12. total(f5) = total(f4) + total(f("revenue")) BY <1>1, <1>3, <1>4, <1>6, SumPlus
<1>13. total(f5) = 0
  <2>1. total(f5) = Cardinality(S) * 0 BY <1>1, <1>7, SumConstant
  <2>2. Cardinality(S) \in Nat BY <1>1, FS_CardinalityType
  <2> QED BY <2>1, <2>2
<1> HIDE DEF total
<1>14. /\ NetOf(S, "asset") = total(f("asset")) /\ NetOf(S, "deposits") = total(f("deposits"))
       /\ NetOf(S, "shipping") = total(f("shipping"))
       /\ NetOf(S, "tien_rut") = total(f("tien_rut"))
       /\ NetOf(S, "receivable") = total(f("receivable"))
       /\ NetOf(S, "revenue") = total(f("revenue"))
       /\ NetOf(S, "asset") \in Int /\ NetOf(S, "deposits") \in Int
       /\ NetOf(S, "shipping") \in Int /\ NetOf(S, "tien_rut") \in Int
       /\ NetOf(S, "receivable") \in Int /\ NetOf(S, "revenue") \in Int
  BY <1>2, <1>3, <1>4
<1>15. NetOf(S, "asset") + NetOf(S, "deposits") + NetOf(S, "shipping") + NetOf(S, "tien_rut")
         + NetOf(S, "receivable") + NetOf(S, "revenue") = 0
  BY <1>8, <1>9, <1>10, <1>11, <1>12, <1>13, <1>14
<1> QED BY <1>3, <1>15 DEF S

LEMMA AuditTellsNothing ==
  ASSUME CalmInv, Booked(db), AllProper(db)
  PROVE  AuditFindsNothing
<1>1. Tidy(db) /\ Ledger(db) BY DEF CalmInv, Tidy
<1>2. Unbalanced(db) = {}
  <2> SUFFICES ASSUME NEW e \in db.journal
               PROVE  MapThenSumSet(LAMBDA a : e.lines[a], Accounts) = 0
    BY DEF Unbalanced
  <2>1. e.lines \in LinesSet BY <1>1, LedgerEntry DEF Entry, LinesSet
  <2>2. InSum(e.lines) = 0 BY DEF AllProper, Proper
  <2> QED BY <2>1, <2>2, SumOfLines
<1>3. EquationHolds(db)
  <2> DEFINE cash == NetOf(db.journal, "asset")
             deposits == NetOf(db.journal, "deposits")
             shipping == NetOf(db.journal, "shipping")
             rut == NetOf(db.journal, "tien_rut")
             owed == NetOf(db.journal, "receivable")
             revenue == NetOf(db.journal, "revenue")
  <2>1. /\ \A a \in Accounts : NetOf(db.journal, a) \in Int
        /\ cash + deposits + shipping + rut + owed + revenue = 0
    BY <1>1, JournalBalances
  <2>2. /\ cash \in Int /\ deposits \in Int /\ shipping \in Int /\ rut \in Int
        /\ owed \in Int /\ revenue \in Int
    BY <2>1, TheAccounts
  <2>3. EquationHolds(db) <=> cash + owed = -(deposits + shipping + rut) - revenue
    BY DEF EquationHolds
  <2> HIDE DEF cash, deposits, shipping, rut, owed, revenue
  <2> QED BY <2>1, <2>2, <2>3
<1>4. Duplicated(db) = {}
  <2> SUFFICES ASSUME NEW e \in db.journal, NEW g \in db.journal, e.source # "order",
                      g # e, g.source = e.source, g.of = e.of
               PROVE  FALSE
    BY DEF Duplicated, Posted
  <2>1. Shaped(e) /\ Shaped(g) BY <1>1 DEF Tidy
  <2>2. Key(g) = Key(e)
    BY <2>1 DEF Shaped, IsPayment, IsRelease, IsOrderEntry, Key
  <2> QED BY <1>1, <2>2 DEF Tidy
<1>5. DepositRevenueGaps(db) = {}
  <2> SUFFICES ASSUME NEW e \in db.journal, e.source = "order", Debit(e, "deposits") > 0,
                      Debit(e, "deposits") # Credit(e, "revenue")
               PROVE  FALSE
    BY DEF DepositRevenueGaps, EntriesOf
  <2>1. e.lines["deposits"] \in {0, -e.lines["revenue"]} BY DEF AllProper, Proper
  <2>2. e.lines["deposits"] \in Int /\ e.lines["revenue"] \in Int
    BY <1>1, LedgerEntry, TheAccounts DEF Entry
  <2> QED BY <2>1, <2>2 DEF Debit, Credit
<1>6. UnbookedPayments(db) = {}
  <2> SUFFICES ASSUME NEW t \in db.txns, t.valid, OwnEntries(db, t) = {} PROVE FALSE
    BY DEF UnbookedPayments
  <2>1. OwnEntries(db, t) = At(db, PaymentKey(t.id)) BY <1>1, LooksFor DEF OwnEntries
  <2> QED BY <2>1 DEF Booked, BookedAt
<1> QED BY <1>2, <1>3, <1>4, <1>5, <1>6 DEF AuditFindsNothing, FailedChecks


-----------------------------------------------------------------------------
(***************************************************************************)
(* The repair commands.  Each is some of the syncs of the order, and moves *)
(* no payment.                                                             *)
(***************************************************************************)
LEMMA EarliestIsThere ==
  ASSUME NEW d, Ledger(d), NEW S \in SUBSET d.journal, S # {}
  PROVE  Earliest(S) \in S
<1> DEFINE ids == {e.id : e \in S}
<1>1. IsFiniteSet(1..d.lastEntry)
  <2>1. 1 \in Int /\ d.lastEntry \in Int BY LedgerEntry
  <2> QED BY <2>1, FS_Interval
<1>2. IsFiniteSet(ids)
  <2>1. ids \in SUBSET (1..d.lastEntry) BY DEF Ledger
  <2> HIDE DEF ids
  <2> QED BY <1>1, <2>1, FS_Subset
<1>3. ids \subseteq Nat /\ ids # {} BY LedgerEntry DEF Entry
<1>4. PICK v \in ids : \A w \in ids : v <= w BY <1>2, <1>3, LeastIs
<1>5. \E e \in S : \A f \in S : e.id <= f.id BY <1>4
<1> QED BY <1>5 DEF Earliest

\* What a command does to the books.
Mends(d, d2) ==
  /\ Changes(d, d2, OrderSide)
  /\ Adds(d, d2)
  /\ d.order.status \in HandedOver /\ Recognised(d) => Recognised(d2)

LEMMA MendsNothing ==
  ASSUME NEW d, Tidy(d) PROVE Mends(d, d)
BY ChangesNothing, AddsNothing DEF Mends

LEMMA MendsThrough ==
  ASSUME NEW d, NEW d2, NEW d3, Mends(d, d2), Mends(d2, d3)
  PROVE  Mends(d, d3)
<1>1. Changes(d, d3, OrderSide) BY ChangesThrough DEF Mends
<1>2. Adds(d, d3) BY AddsThrough DEF Mends
<1>3. d2.order = d.order BY DEF Mends, Changes, SameRows
<1> QED BY <1>1, <1>2, <1>3 DEF Mends

LEMMA SyncMends ==
  ASSUME NEW d, NEW d2, Changes(d, d2, OrderSide), Adds(d, d2), RecognisedFrom(d, d2), Tidy(d)
  PROVE  Mends(d, d2)
<1>1. SameRows(d, d2) BY DEF Changes
<1>2. d.order.status \in HandedOver /\ Recognised(d) => Recognised(d2)
  BY <1>1, RecognisedAfter DEF Recognised
<1> QED BY <1>2 DEF Mends

LEMMA ReconcileMends ==
  ASSUME NEW d, Tidy(d)
  PROVE  Mends(d, ReconcileRevenue(d)) /\ Mends(d, SyncHandedOver(d))
<1>1. /\ Changes(d, ReconcileRevenue(d), OrderSide) /\ RecognisedFrom(d, ReconcileRevenue(d))
      /\ Changes(d, SyncHandedOver(d), OrderSide) /\ RecognisedFrom(d, SyncHandedOver(d))
  BY ReconcileChanges, HandOverChanges, ChangesMore DEF OrderSide
<1> QED BY <1>1, ReconcileAdds, HandOverAdds, SyncMends

\* Where entries of the order only go, or only the release is another one.
LEMMA RecognisedLess ==
  ASSUME NEW d, NEW d2, SameRows(d, d2), Recognised(d),
         At(d2, RevenueKey) \subseteq At(d, RevenueKey),
         At(d2, ReceivableKey) \subseteq At(d, ReceivableKey)
  PROVE  Recognised(d2)
<1>1. d2.order = d.order /\ d2.txns = d.txns BY DEF SameRows
<1>2. Paid(d2) = Paid(d) BY <1>1, SameTotals
<1> QED BY <1>1, <1>2 DEF Recognised

LEMMA ReleaseMends ==
  ASSUME NEW d, Tidy(d)
  PROVE  Mends(d, SyncBusShippingRelease(d))
<1> DEFINE d2 == SyncBusShippingRelease(d)
<1>1. Changes(d, d2, {ReleaseKey}) BY ReleaseChanges
<1>2. Adds(d, d2) BY ReleaseAdds
<1> HIDE DEF d2
<1>3. Changes(d, d2, OrderSide) BY <1>1, ChangesMore DEF OrderSide
<1>4. RevenueKey \notin {ReleaseKey} /\ ReceivableKey \notin {ReleaseKey}
  BY KeysDiffer DEF RevenueKey, ReceivableKey
<1>5. At(d2, RevenueKey) = At(d, RevenueKey) /\ At(d2, ReceivableKey) = At(d, ReceivableKey)
  BY <1>1, <1>4, ChangesElsewhere
<1>6. SameRows(d, d2) BY <1>1 DEF Changes
<1>7. Recognised(d) => Recognised(d2) BY <1>5, <1>6, RecognisedLess
<1>8. Mends(d, d2) BY <1>2, <1>3, <1>7 DEF Mends
<1> QED BY <1>8 DEF d2

LEMMA DeleteMends ==
  ASSUME NEW d, Tidy(d), NEW e \in d.journal, e.source = "order"
  PROVE  Mends(d, DeleteCascade(d, e))
<1> DEFINE d2 == DeleteCascade(d, e)
<1>1. d2 = ReverseOrDelete(d, e) BY DEF Tidy, Shaped, ReverseOrDelete
<1>2. Changes(d, d2, {Key(e)}) BY <1>1, DeleteChanges
<1>3. d2.journal \subseteq d.journal BY <1>1, DeleteAdds
<1> HIDE DEF d2
<1>4. Key(e) \in OrderSide
  BY DEF Tidy, Shaped, IsPayment, IsRelease, IsOrderEntry, Key, OrderSide, OrderKeys, OrderKey
<1>5. Changes(d, d2, OrderSide) BY <1>2, <1>4, ChangesMore
<1>6. Adds(d, d2) BY <1>3, AddsNothing
<1>7. /\ At(d2, RevenueKey) \subseteq At(d, RevenueKey)
      /\ At(d2, ReceivableKey) \subseteq At(d, ReceivableKey)
  BY <1>3 DEF At
<1>8. SameRows(d, d2) BY <1>2 DEF Changes
<1>9. Recognised(d) => Recognised(d2) BY <1>7, <1>8, RecognisedLess
<1>10. Mends(d, d2) BY <1>5, <1>6, <1>9 DEF Mends
<1> QED BY <1>10 DEF d2

LEMMA CancelMends ==
  ASSUME NEW d, Tidy(d)
  PROVE  Mends(d, SyncCancelled(d)) /\ OnlyPayments(SyncCancelled(d))
<1> DEFINE d2 == SyncCancelled(d)
<1>1. Changes(d, d2, OrderSide) /\ OnlyPayments(d2) BY CancelChanges
<1> HIDE DEF d2
<1>2. Adds(d, d2) BY <1>1, OnlyOld, AddsNothing
<1>3. Recognised(d2)
  BY <1>1 DEF OnlyPayments, IsPayment, Recognised, At, Key, RevenueKey, OrderKey
<1>4. Mends(d, d2) /\ OnlyPayments(d2) BY <1>1, <1>2, <1>3 DEF Mends
<1> QED BY <1>4 DEF d2

LEMMA RevenueMends ==
  ASSUME NEW d, Tidy(d)
  PROVE  Mends(d, RepairRevenue(d))
<1> DEFINE own == EntriesOf(d, "order", TheOrder)
           moving == {e \in own : e.lines["deposits"] # 0}
           owing == OrderEntries(d, "receivable")
           without == DeleteCascade(d, Earliest(moving))
<1>1. \/ RepairRevenue(d) = d
      \/ RepairRevenue(d) = SyncHandedOver(d)
      \/ owing # {} /\ RepairRevenue(d) = DeleteCascade(d, Latest(owing))
      \/ moving # {} /\ RepairRevenue(d) = SyncHandedOver(without)
  BY DEF RepairRevenue, DeleteReceivable
<1>2. Ledger(d) BY DEF Tidy
<1>3. moving \in SUBSET d.journal /\ \A e \in moving : e.source = "order"
  BY DEF EntriesOf
<1>4. owing \in SUBSET d.journal /\ \A e \in owing : e.source = "order"
  BY DEF EntriesOf, OrderEntries
<1> HIDE DEF moving, owing, own
<1>5. CASE RepairRevenue(d) = d BY <1>5, MendsNothing
<1>6. CASE RepairRevenue(d) = SyncHandedOver(d) BY <1>6, ReconcileMends
<1>7. CASE owing # {} /\ RepairRevenue(d) = DeleteCascade(d, Latest(owing))
  <2>1. Latest(owing) \in owing BY <1>2, <1>4, <1>7, LatestIsThere
  <2> QED BY <1>4, <1>7, <2>1, DeleteMends
<1>8. CASE moving # {} /\ RepairRevenue(d) = SyncHandedOver(without)
  <2>1. Earliest(moving) \in moving BY <1>2, <1>3, <1>8, EarliestIsThere
  <2>2. Mends(d, without) BY <1>3, <2>1, DeleteMends
  <2> HIDE DEF without
  <2>3. Tidy(without) BY <2>2 DEF Mends, Changes
  <2>4. Mends(without, SyncHandedOver(without)) BY <2>3, ReconcileMends
  <2> QED BY <1>8, <2>2, <2>4, MendsThrough
<1> QED BY <1>1, <1>5, <1>6, <1>7, <1>8

\* In books with every payment booked two of the commands find nothing.
LEMMA NothingToBook ==
  ASSUME NEW d, Tidy(d), Booked(d)
  PROVE  UnbookedPayments(d) = {} /\ \A t \in d.txns : ~Misrouted(d, t)
<1>1. \A t : OwnEntries(d, t) = At(d, PaymentKey(t.id)) BY LooksFor DEF OwnEntries
<1>2. UnbookedPayments(d) = {} BY <1>1 DEF UnbookedPayments, Booked, BookedAt
<1>3. ASSUME NEW t \in d.txns, Misrouted(d, t) PROVE FALSE
  <2>1. PICK e \in At(d, PaymentKey(t.id)) : Credit(e, "tien_rut") = 0
    BY <1>1, <1>3 DEF Misrouted
  <2>2. PICK u \in d.txns : /\ u.id = t.id
                            /\ u.type = "tien_rut" => e.lines["tien_rut"] < 0
    BY <2>1 DEF Booked, BookedAt
  <2>3. u = t /\ t.type = "tien_rut" BY <1>3, <2>2 DEF Misrouted, Tidy, Ledger
  <2>4. e.lines["tien_rut"] \in Int
    <3>1. e \in Entry BY <2>1, LedgerEntry DEF At, Tidy
    <3> QED BY <3>1, TheAccounts DEF Entry
  <2> QED BY <2>1, <2>2, <2>3, <2>4 DEF Credit
<1> QED BY <1>2, <1>3

\* A command that has to do with the order, and leaves a cancelled order its payments.
LEMMA ProcessMends ==
  ASSUME NEW d, Tidy(d), Booked(d), NEW command \in AllCommands, NEW overdue,
         Flags(command, d, overdue), ~(command = "deposits" /\ d.order.status = "cancelled"),
         NEW rows
  PROVE  LET d2 == Process(command, d, rows)
         IN  /\ Mends(d, d2)
             /\ d.order.status = "cancelled" => d2 = d \/ OnlyPayments(d2)
             /\ \/ command = "deposits" \/ d.order.status \in HandedOver
                \/ d2 = d \/ OnlyPayments(d2)
<1> DEFINE d2 == Process(command, d, rows)
<1>1. "cancelled" \notin HandedOver BY DEF HandedOver
<1>2. Mends(d, d) BY MendsNothing
<1>3. CASE command = "payments" BY <1>3, NothingToBook DEF Flags
<1>4. CASE command = "tien_rut" BY <1>4, NothingToBook DEF Flags
<1>5. CASE command = "receivable"
  <2>1. d2 = ReconcileRevenue(d) /\ d.order.status \in HandedOver
    BY <1>5 DEF Process, Flags, IsHandedOverIn
  <2> QED BY <1>1, <2>1, ReconcileMends
<1>6. CASE command = "deposits"
  <2>1. d.order.status # "cancelled" /\ d2 \in {d, ReconcileRevenue(d)}
    BY <1>6 DEF Process, RepairDeposits
  <2> QED BY <1>2, <1>6, <2>1, ReconcileMends
<1>7. CASE command = "cancelled"
  <2>1. d2 \in {d, SyncCancelled(d)} BY <1>7 DEF Process, RepairCancelled
  <2> QED BY <1>2, <2>1, CancelMends
<1>8. CASE command = "release"
  <2>1. d2 \in {d, SyncBusShippingRelease(d)} /\ d.order.status \in HandedOver
    BY <1>8 DEF Process, RepairRelease, Flags, IsHandedOverIn
  <2> QED BY <1>1, <1>2, <2>1, ReleaseMends
<1>9. CASE command = "revenue"
  <2>1. d2 = RepairRevenue(d) /\ d.order.status \in HandedOver
    BY <1>9 DEF Process, Flags, IsHandedOverIn
  <2> QED BY <1>1, <2>1, RevenueMends
<1> QED BY <1>3, <1>4, <1>5, <1>6, <1>7, <1>8, <1>9 DEF AllCommands

\* What a command has read and not yet dealt with is still so.
FreshRepair(p) ==
  p.op = "repair" =>
    /\ p.command \in Commands
    /\ \E overdue \in BOOLEAN : Flags(p.command, db, overdue)
    /\ p.command = "deposits" /\ db.order.status = "cancelled" => "unbook" \in Practices

RepairInv ==
  /\ CalmInv /\ BookedInv
  /\ \A w \in Workers : FreshRepair(pending[w])

Repairs ==
  /\ Mends(db, db')
  /\ db.order.status = "cancelled" => db' = db \/ OnlyPayments(db')
  /\ "deposits" \notin Commands => IsHandedOver \/ db' = db \/ OnlyPayments(db')

LEMMA ReadingKeepsRepairs ==
  ASSUME RepairInv, Reading
  PROVE  \A w \in Workers : FreshRepair(pending[w])'
<1>1. UNCHANGED <<db, tx, left>> BY ReadingLeaves
<1>2. pending \in [Workers -> Request] BY DEF RepairInv, CalmInv, BooksInv
<1>3. \/ UNCHANGED pending
      \/ \E w \in Workers : \E r : r.op # "repair" /\ pending' = [pending EXCEPT ![w] = r]
  BY DEF Reading, ReadTransaction, ReadPaymentMethod, ReadEdit, ReadStatus, Reads, Drop,
         Answered, Idle, vars
<1>4. SUFFICES ASSUME NEW w \in Workers PROVE FreshRepair(pending[w])' OBVIOUS
<1>5. pending'[w] = pending[w] \/ pending'[w].op # "repair" BY <1>2, <1>3
<1> QED BY <1>1, <1>5 DEF RepairInv, FreshRepair

LEMMA ReadRepairKeeps ==
  ASSUME OneAtATime, RepairInv, NEW w \in Workers, NEW command \in Commands,
         NEW overdue \in BOOLEAN, ReadRepair(w, command, overdue)
  PROVE  RepairInv' /\ UNCHANGED <<db, tx, left>>
<1> DEFINE r == [op |-> "repair", command |-> command, rows |-> UnbookedPayments(db)]
<1>1. /\ UNCHANGED <<db, tx, left>> /\ LockFree /\ pending' = [pending EXCEPT ![w] = r]
      /\ Flags(command, db, overdue)
      /\ command = "deposits" /\ db.order.status = "cancelled" => "unbook" \in Practices
  BY DEF ReadRepair, Reads
<1>2. pending \in [Workers -> Request] BY DEF RepairInv, CalmInv, BooksInv
<1>3. r \in Request
  <2>1. UnbookedPayments(db) \subseteq Transaction
    BY LedgerEntry DEF UnbookedPayments, RepairInv, CalmInv, Tidy
  <2>2. command \in AllCommands BY RepairAssumption
  <2>3. \A c \in AllCommands, rows \in SUBSET Transaction :
          [op |-> "repair", command |-> c, rows |-> rows] \in Request
    BY DEF Request
  <2> QED BY <2>1, <2>2, <2>3
<1>4. \A v \in Workers : pending'[v] = r BY <1>1, <1>2 DEF OneAtATime
<1>5. pending' \in [Workers -> Request] BY <1>1, <1>2, <1>3
<1>6. \A v \in Workers : Fresh(pending[v])' BY <1>4 DEF Fresh
<1>7. \A v \in Workers : FreshRepair(pending[v])' BY <1>1, <1>4 DEF FreshRepair
<1> HIDE DEF r
<1>8. BooksInv' BY <1>1, <1>5, ReadStep DEF RepairInv, CalmInv
<1>9. Tidy(db') /\ Tidy(tx') /\ LockFree' BY <1>1 DEF RepairInv, CalmInv, LockFree
<1>10. BookedInv' BY <1>1 DEF RepairInv, BookedInv, LockFree
<1> QED BY <1>1, <1>6, <1>7, <1>8, <1>9, <1>10 DEF RepairInv, CalmInv

LEMMA RunRepairs ==
  ASSUME OneAtATime, "unbook" \notin Practices, RepairInv, NEW w \in Workers, RunRepair(w)
  PROVE  RepairInv' /\ Committed /\ Repairs
<1> DEFINE p == pending[w]
<1>1. /\ p.op = "repair" /\ LockFree /\ Answered(w)
      /\ CommitNow(Process(p.command, db, p.rows))
  BY DEF RunRepair
<1>2. Tidy(db) /\ Booked(db) /\ FreshRepair(p) /\ CalmInv /\ BooksInv /\ tx = db
  BY <1>1 DEF RepairInv, CalmInv, BookedInv, BooksInv
<1>3. PICK overdue \in BOOLEAN : Flags(p.command, db, overdue) BY <1>1, <1>2 DEF FreshRepair
<1>4. /\ p.command \in Commands /\ p.command \in AllCommands
      /\ ~(p.command = "deposits" /\ db.order.status = "cancelled")
  BY <1>1, <1>2, RepairAssumption DEF FreshRepair
<1>5. db' = Process(p.command, db, p.rows) /\ tx' = db' /\ left' = {}
  BY <1>1 DEF CommitNow, LockFree
<1> HIDE DEF p
<1>6. /\ Mends(db, db')
      /\ db.order.status = "cancelled" => db' = db \/ OnlyPayments(db')
      /\ p.command = "deposits" \/ db.order.status \in HandedOver
           \/ db' = db \/ OnlyPayments(db')
  BY <1>2, <1>3, <1>4, <1>5, ProcessMends
<1>7. Committed /\ Repairs
  BY <1>1, <1>4, <1>5, <1>6 DEF Committed, Repairs, IsHandedOver
<1>8. Changes(db, db', OrderSide) /\ Tidy(db') /\ SameRows(db, db')
  BY <1>6 DEF Mends, Changes
<1>9. Booked(db') BY <1>2, <1>8, BookedOrder
<1>10. \A v \in Workers : pending'[v] = Idle
  BY <1>1, <1>2 DEF Answered, OneAtATime, BooksInv
<1>11. BooksInv'
  <2>1. pending' \in [Workers -> Request] BY <1>1, <1>2, AnsweredIsTyped DEF BooksInv
  <2>2. Ledger(db') /\ Ledger(tx') /\ Stands(db', tx') BY <1>5, <1>8 DEF Tidy, Stands
  <2> QED BY <1>5, <2>1, <2>2 DEF BooksInv
<1>12. \A v \in Workers : Fresh(pending[v])' /\ FreshRepair(pending[v])'
  BY <1>10 DEF Fresh, FreshRepair, Idle
<1>13. LockFree' BY <1>5 DEF LockFree
<1> QED BY <1>5, <1>7, <1>8, <1>9, <1>11, <1>12, <1>13 DEF RepairInv, CalmInv, BookedInv

Unrepaired == Practices \cap {"unbooked", "touch_void", "unbook", "close_books"}

LEMMA NextRepair ==
  ASSUME OneAtATime, Unrepaired = {}, RepairInv, [RepairNext]_vars
  PROVE  RepairInv' /\ (UNCHANGED <<db, tx, left>> \/ Phase \/ (Committed /\ Repairs))
<1>1. NeverClosed /\ CalmInv /\ BookedInv BY DEF Unrepaired, NeverClosed, RepairInv
<1>2. CASE [Next]_vars
  <2>1. CalmInv' /\ (Reading \/ Phase) BY <1>1, <1>2, NextCalm
  <2>2. CASE Reading
    <3>1. UNCHANGED <<db, tx, left>> BY <2>2, ReadingLeaves
    <3>2. BookedInv' BY <1>1, <3>1 DEF BookedInv, LockFree
    <3>3. \A w \in Workers : FreshRepair(pending[w])' BY <2>2, ReadingKeepsRepairs
    <3>4. RepairInv' BY <2>1, <3>2, <3>3 DEF RepairInv
    <3> QED BY <3>1, <3>4
  <2>3. CASE Writing
    <3>1. Phase BY <1>1, <2>3, WritesAre
    <3>2. BookedInv' BY <1>1, <3>1, PhaseIsBooked DEF Unrepaired
    <3>3. AllIdle' BY <1>1, <2>3, WriterIsAlone
    <3>4. \A w \in Workers : FreshRepair(pending[w])' BY <3>3 DEF AllIdle, FreshRepair, Idle
    <3>5. RepairInv' BY <2>1, <3>2, <3>4 DEF RepairInv
    <3> QED BY <3>1, <3>5
  <2> QED BY <1>1, <1>2, <2>2, <2>3, ReadsOrWrites
<1>3. CASE \E w \in Workers, command \in Commands, overdue \in BOOLEAN :
             ReadRepair(w, command, overdue)
  <2>1. PICK w \in Workers, command \in Commands, overdue \in BOOLEAN :
          ReadRepair(w, command, overdue)
    BY <1>3
  <2> QED BY <2>1, ReadRepairKeeps
<1>4. CASE \E w \in Workers : RunRepair(w) BY <1>4, RunRepairs DEF Unrepaired
<1> QED BY <1>2, <1>3, <1>4 DEF RepairNext

LEMMA InitRepair == Init => RepairInv
<1> SUFFICES ASSUME Init PROVE RepairInv OBVIOUS
<1>1. \A w \in Workers : pending[w] = Idle BY DEF Init
<1>2. \A w \in Workers : FreshRepair(pending[w]) BY <1>1 DEF FreshRepair, Idle
<1> QED BY <1>2, InitCalm, InitBooked DEF RepairInv

\* A command keeps what is true of the books between the write phases.
LEMMA RepairsKeep ==
  ASSUME CalmInv, Committed, Repairs
  PROVE  /\ Changes(db, db', OrderSide)
         /\ ProperInv => ProperInv'
         /\ HeldInv => HeldInv'
         /\ CancelInv => CancelInv'
         /\ "deposits" \notin Commands /\ RevenueInv => RevenueInv'
         /\ EvenInv => EvenInv'
         /\ db'.order = db.order
<1>1. /\ Changes(db, db', OrderSide) /\ Adds(db, db')
      /\ IsHandedOver /\ Recognised(db) => Recognised(db')
  BY DEF Repairs, Mends, IsHandedOver
<1>2. tx' = db' /\ left' = {} BY DEF Committed
<1>3. db'.order = db.order BY <1>1 DEF Changes, SameRows
<1>4. ProperInv => ProperInv' BY <1>1, <1>2 DEF ProperInv, AllProper, Adds
<1>5. HeldInv => HeldInv' BY <1>1, <1>2, HeldOrder DEF HeldInv
<1>6. EvenInv => EvenInv' BY <1>1, <1>2, EvenOrder DEF EvenInv
<1>7. ASSUME CancelInv PROVE CancelInv'
  <2>1. CancelledClear(db') BY <1>3, <1>7 DEF CancelInv, CancelledClear, Repairs
  <2> QED BY <1>2, <2>1 DEF CancelInv, LockFree
<1>8. ASSUME "deposits" \notin Commands, RevenueInv PROVE RevenueInv'
  <2>1. OnlyPayments(db') => Recognised(db')
    BY DEF OnlyPayments, IsPayment, Recognised, At, Key, RevenueKey, OrderKey
  <2>2. Recognised(db')
    <3>1. CASE IsHandedOver BY <1>1, <1>8, <3>1 DEF RevenueInv
    <3>2. CASE db' = db BY <1>8, <3>2 DEF RevenueInv
    <3>3. CASE OnlyPayments(db') BY <2>1, <3>3
    <3> QED BY <1>8, <3>1, <3>2, <3>3 DEF Repairs
  <2> QED BY <1>2, <2>2 DEF RevenueInv
<1> QED BY <1>1, <1>3, <1>4, <1>5, <1>6, <1>7, <1>8

\* What the audit and a second run of a command rely on.
AuditInv == RepairInv /\ ProperInv

LEMMA InitAudit == Init => AuditInv
<1> SUFFICES ASSUME Init PROVE ProperInv BY InitRepair DEF AuditInv
<1>1. db.journal = {} /\ tx = db BY DEF Init
<1> QED BY <1>1 DEF ProperInv, AllProper

LEMMA NextAudit ==
  ASSUME OneAtATime, Unrepaired = {}
  PROVE  AuditInv /\ [RepairNext]_vars => AuditInv'
<1> SUFFICES ASSUME AuditInv, [RepairNext]_vars PROVE AuditInv' OBVIOUS
<1>1. RepairInv /\ ProperInv BY DEF AuditInv
<1>2. RepairInv' /\ (UNCHANGED <<db, tx, left>> \/ Phase \/ (Committed /\ Repairs))
  BY <1>1, NextRepair
<1>3. CASE UNCHANGED <<db, tx, left>> BY <1>1, <1>2, <1>3 DEF AuditInv, ProperInv
<1>4. CASE Phase BY <1>1, <1>2, <1>4, PhaseIsProper DEF AuditInv, RepairInv
<1>5. CASE Committed /\ Repairs BY <1>1, <1>2, <1>5, RepairsKeep DEF AuditInv, RepairInv
<1> QED BY <1>2, <1>3, <1>4, <1>5

(***************************************************************************)
(* The audit finds nothing wrong with the books: whatever is paid, edited, *)
(* handed over and cancelled, and whichever repair commands are run over   *)
(* it in whatever order, every entry balances, assets are what is owed and *)
(* earned, every payment has its entry and no two, and what a revenue      *)
(* entry takes out of the deposits it recognises.  This is where requests  *)
(* do not overlap, no period is closed, every payment is recorded by the   *)
(* routes that book it, invalidated ones are only restored, and the        *)
(* deposits of a cancelled order are not repaired.                         *)
(***************************************************************************)
THEOREM AuditIsClean ==
  ASSUME OneAtATime, Unrepaired = {}
  PROVE  RepairSpec => []AuditFindsNothing
<1>1. AuditInv => AuditFindsNothing
  BY AuditTellsNothing DEF AuditInv, RepairInv, BookedInv, ProperInv
<1> QED BY <1>1, InitAudit, NextAudit, PTL DEF RepairSpec

(***************************************************************************)
(* The repair commands leave every payment booked with its own amount, and *)
(* a bus order's payments holding no more than its fee, in the same        *)
(* circumstances.                                                          *)
(***************************************************************************)
THEOREM RepairsKeepPayments ==
  ASSUME OneAtATime, Unrepaired = {}
  PROVE  RepairSpec => [](PaymentsAreBooked /\ HeldWithinFee)
<1>1. Init => RepairInv /\ HeldInv BY InitRepair, InitHeld
<1>2. RepairInv /\ HeldInv /\ [RepairNext]_vars => (RepairInv /\ HeldInv)'
  <2> SUFFICES ASSUME RepairInv, HeldInv, [RepairNext]_vars PROVE RepairInv' /\ HeldInv'
    OBVIOUS
  <2>1. RepairInv' /\ (UNCHANGED <<db, tx, left>> \/ Phase \/ (Committed /\ Repairs))
    BY NextRepair
  <2>2. CASE UNCHANGED <<db, tx, left>> BY <2>1, <2>2 DEF HeldInv
  <2>3. CASE Phase BY <2>1, <2>3, PhaseIsHeld DEF RepairInv
  <2>4. CASE Committed /\ Repairs BY <2>1, <2>4, RepairsKeep DEF RepairInv
  <2> QED BY <2>1, <2>2, <2>3, <2>4
<1>3. RepairInv /\ HeldInv => PaymentsAreBooked /\ HeldWithinFee
  BY BookedTells, HeldTells DEF RepairInv, BookedInv
<1> QED BY <1>1, <1>2, <1>3, PTL DEF RepairSpec

(***************************************************************************)
(* No repair command gives a cancelled order revenue, a receivable or a    *)
(* payment to the carrier, unless its items move it.                       *)
(***************************************************************************)
THEOREM RepairsKeepCancelled ==
  ASSUME OneAtATime, Unrepaired = {}, "by_items" \notin Practices
  PROVE  RepairSpec => []CancelledOwesNothing
<1>1. Init => RepairInv /\ CancelInv BY InitRepair, InitCancel
<1>2. RepairInv /\ CancelInv /\ [RepairNext]_vars => (RepairInv /\ CancelInv)'
  <2> SUFFICES ASSUME RepairInv, CancelInv, [RepairNext]_vars PROVE RepairInv' /\ CancelInv'
    OBVIOUS
  <2>1. RepairInv' /\ (UNCHANGED <<db, tx, left>> \/ Phase \/ (Committed /\ Repairs))
    BY NextRepair
  <2>2. CASE UNCHANGED <<db, tx, left>> BY <2>1, <2>2 DEF CancelInv, LockFree
  <2>3. CASE Phase BY <2>1, <2>3, PhaseIsClear DEF RepairInv
  <2>4. CASE Committed /\ Repairs BY <2>1, <2>4, RepairsKeep DEF RepairInv
  <2> QED BY <2>1, <2>2, <2>3, <2>4
<1>3. RepairInv /\ CancelInv => CancelledOwesNothing BY ClearTells DEF RepairInv, CancelInv
<1> QED BY <1>1, <1>2, <1>3, PTL DEF RepairSpec

(***************************************************************************)
(* Revenue is still recognised once, and the hand-over still settles the   *)
(* order, when all the repair commands but repair-deposit-balance are run. *)
(* That one recognises the deposits of an order that is overdue and not    *)
(* yet handed over; when they are taken back before the hand-over, it adds *)
(* the receivable to the revenue that is there.                            *)
(***************************************************************************)
THEOREM RepairsRecogniseOnce ==
  ASSUME OneAtATime, Unrepaired = {}, "deposits" \notin Commands,
         "step_back" \notin Practices, "by_items" \notin Practices,
         ~({"unpay", "late_payment"} \subseteq Practices)
  PROVE  RepairSpec => []RevenueRecognisedOnce
<1>1. Init => RepairInv /\ RevenueInv BY InitRepair, InitRevenue
<1>2. RepairInv /\ RevenueInv /\ [RepairNext]_vars => (RepairInv /\ RevenueInv)'
  <2> SUFFICES ASSUME RepairInv, RevenueInv, [RepairNext]_vars
               PROVE  RepairInv' /\ RevenueInv'
    OBVIOUS
  <2>1. RepairInv' /\ (UNCHANGED <<db, tx, left>> \/ Phase \/ (Committed /\ Repairs))
    BY NextRepair
  <2>2. CASE UNCHANGED <<db, tx, left>> BY <2>1, <2>2 DEF RevenueInv
  <2>3. CASE Phase BY <2>1, <2>3, PhaseIsRecognised DEF RepairInv
  <2>4. CASE Committed /\ Repairs BY <2>1, <2>4, RepairsKeep DEF RepairInv
  <2> QED BY <2>1, <2>2, <2>3, <2>4
<1>3. RepairInv /\ RevenueInv => RevenueRecognisedOnce BY RecognisedTells DEF RepairInv
<1> QED BY <1>1, <1>2, <1>3, PTL DEF RepairSpec

(***************************************************************************)
(* The hand-over settles the order whichever of those commands were run    *)
(* before it, where it does without them.                                  *)
(***************************************************************************)
THEOREM RepairsKeepSettling ==
  ASSUME OneAtATime, Practices \cap Unsettling = {}, "unbook" \notin Practices,
         "deposits" \notin Commands
  PROVE  RepairSpec /\ []Priced /\ []FreeUnrefunded(db) => HandOverSettles
<1>1. Init => RepairInv /\ SettleInv BY InitRepair, InitSettle
<1>2. RepairInv /\ SettleInv /\ Priced /\ FreeUnrefunded(db)' /\ [RepairNext]_vars
        => (RepairInv /\ SettleInv)' /\ SettledThen
  <2> SUFFICES ASSUME RepairInv, SettleInv, Priced, FreeUnrefunded(db)', [RepairNext]_vars
               PROVE  RepairInv' /\ SettleInv' /\ SettledThen
    OBVIOUS
  <2>1. RepairInv' /\ (UNCHANGED <<db, tx, left>> \/ Phase \/ (Committed /\ Repairs))
    BY NextRepair DEF Unrepaired, Unsettling
  <2>2. CASE UNCHANGED <<db, tx, left>>
    <3>1. SettleInv'
      BY <2>2 DEF SettleInv, BookedInv, HeldInv, RevenueInv, EvenInv, StatusInv, LockFree
    <3> QED BY <2>1, <2>2, <3>1 DEF SettledThen
  <2>3. CASE Phase BY <2>1, <2>3, PhaseSettles DEF RepairInv
  <2>4. CASE Committed /\ Repairs
    <3>1. HeldInv' /\ RevenueInv' /\ EvenInv' /\ db'.order = db.order
      BY <2>4, RepairsKeep DEF RepairInv, SettleInv
    <3>2. BookedInv' /\ StatusInv'
      BY <2>1, <2>4 DEF RepairInv, Committed, StatusInv
    <3> QED BY <2>1, <3>1, <3>2 DEF SettleInv, SettledThen
  <2> QED BY <2>1, <2>2, <2>3, <2>4
<1>3. SettledThen => [SettledThen]_vars OBVIOUS
<1>4. RepairSpec /\ []Priced /\ []FreeUnrefunded(db) => [][SettledThen]_vars
  BY <1>1, <1>2, <1>3, PTL DEF RepairSpec
<1> QED BY <1>4 DEF HandOverSettles, SettledThen

-----------------------------------------------------------------------------
(***************************************************************************)
(* The repair commands at any moment, beside any requests and in any way   *)
(* of working.                                                             *)
(***************************************************************************)
\* The databases that follow d.
After(d) == {x \in Database : Follows(d, x)}

LEMMA AfterIs ==
  ASSUME NEW d, Ledger(d)
  PROVE  /\ d \in After(d) /\ d.lastTxn \in Nat
         /\ \A x \in After(d) : Ledger(x) /\ Follows(d, x)
         /\ \A x \in After(d) : \A y : Follows(x, y) => y \in After(d)
BY FollowsItself, FollowsThrough, LedgerEntry DEF After, Follows, Ledger

\* The loop over rows, turn by turn.
EachTurn(d, rows, g) ==
  /\ g[0] = d /\ SyncEach(d, rows) = g[d.lastTxn]
  /\ \A k \in 1..d.lastTxn :
       \/ (\A t \in rows : t.id # k) /\ g[k] = g[k - 1]
       \/ \E t \in rows : t.id = k /\ g[k] = SyncPayment(g[k - 1], t)

LEMMA SyncEachTurns ==
  ASSUME NEW d, Ledger(d), NEW rows, rows \subseteq Transaction
  PROVE  \E g : EachTurn(d, rows, g)
<1> DEFINE N == d.lastTxn
           L == After(d)
           row(k) == CHOOSE t \in rows : t.id = k
           Turn(k, x) == IF \E t \in rows : t.id = k THEN SyncPayment(x, row(k)) ELSE x
           step == [k \in 1..N |-> [x \in L |-> Turn(k, x)]]
           Is(g) == g = [k \in 0..N |-> IF k = 0 THEN d ELSE Turn(k, g[k - 1])]
<1>1. d \in L /\ N \in Nat BY AfterIs
<1>2. ASSUME NEW k, NEW x \in L PROVE Turn(k, x) \in L
  <2>1. CASE \E t \in rows : t.id = k
    <3>1. row(k) \in Transaction BY <2>1
    <3> HIDE DEF row
    <3>2. Ledger(x) BY AfterIs
    <3>3. Follows(x, SyncPayment(x, row(k))) BY <3>1, <3>2, SyncPaymentFollows
    <3> QED BY <2>1, <3>3, AfterIs
  <2> QED BY <2>1
<1>3. SyncEach(d, rows) = (CHOOSE g : Is(g))[N] BY DEF SyncEach
<1>4. \A g : Is(g) <=> g = [k \in 0..N |-> IF k = 0 THEN d ELSE Turn(k, g[k - 1])]
  OBVIOUS
<1> HIDE DEF L, Turn, Is, N
<1>5. step \in [1..N -> [L -> L]] BY <1>2
<1>6. \A k \in 1..N, x \in L : step[k][x] = Turn(k, x) OBVIOUS
<1> HIDE DEF step
<1>7. PICK f : Iterated(f, N, L, d, step) BY <1>1, <1>5, Iterates
<1>8. \A k \in 0..N : k = 0 \/ (k \in 1..N /\ k - 1 \in 0..N) BY <1>1
<1>9. \A k \in 0..N : f[k] = IF k = 0 THEN d ELSE Turn(k, f[k - 1])
  BY <1>6, <1>7, <1>8 DEF Iterated
<1>10. f = [k \in 0..N |-> IF k = 0 THEN d ELSE Turn(k, f[k - 1])]
  BY <1>7, <1>9 DEF Iterated
<1>11. Is(f) BY <1>4, <1>10
<1>12. PICK g : Is(g) /\ g = CHOOSE h : Is(h) BY <1>11
<1>13. \A k \in 0..N : g[k] = IF k = 0 THEN d ELSE Turn(k, g[k - 1]) BY <1>4, <1>12
<1>14. \A k \in 1..N : g[k] = Turn(k, g[k - 1]) /\ k # 0 BY <1>1, <1>8, <1>13
<1>15. ASSUME NEW k \in 1..N
       PROVE  \/ (\A t \in rows : t.id # k) /\ g[k] = g[k - 1]
              \/ \E t \in rows : t.id = k /\ g[k] = SyncPayment(g[k - 1], t)
  <2>1. CASE \E t \in rows : t.id = k
    <3>1. row(k) \in rows /\ row(k).id = k BY <2>1
    <3> HIDE DEF row
    <3>2. g[k] = SyncPayment(g[k - 1], row(k)) BY <1>14, <2>1 DEF Turn
    <3> QED BY <3>1, <3>2
  <2> QED BY <1>14, <2>1 DEF Turn
<1>16. g[0] = d BY <1>1, <1>13
<1>17. EachTurn(d, rows, g) BY <1>3, <1>12, <1>15, <1>16 DEF N, EachTurn
<1> QED BY <1>17

LEMMA SyncEachFollows ==
  ASSUME NEW d, Ledger(d), NEW rows, rows \subseteq Transaction
  PROVE  Follows(d, SyncEach(d, rows))
<1> DEFINE N == d.lastTxn
<1>1. PICK g : EachTurn(d, rows, g) BY SyncEachTurns
<1>2. /\ g[0] = d /\ SyncEach(d, rows) = g[N]
      /\ \A k \in 1..N : \/ (\A t \in rows : t.id # k) /\ g[k] = g[k - 1]
                        \/ \E t \in rows : t.id = k /\ g[k] = SyncPayment(g[k - 1], t)
  BY <1>1 DEF EachTurn
<1> DEFINE good == {k \in 0..N : g[k] \in After(d)}
<1>3. N \in Nat /\ good \subseteq 0..N /\ 0 \in good BY <1>2, AfterIs
<1>4. ASSUME NEW k \in 1..N, k - 1 \in good PROVE k \in good
  <2>1. g[k - 1] \in After(d) /\ Ledger(g[k - 1]) /\ k \in 0..N BY <1>3, <1>4, AfterIs
  <2>2. CASE g[k] = g[k - 1] BY <2>1, <2>2
  <2>3. ASSUME NEW t \in rows, g[k] = SyncPayment(g[k - 1], t) PROVE k \in good
    <3>1. Follows(g[k - 1], g[k]) BY <2>1, <2>3, SyncPaymentFollows
    <3> QED BY <2>1, <3>1, AfterIs
  <2> QED BY <1>2, <2>2, <2>3
<1> HIDE DEF good
<1>5. N \in good BY <1>3, <1>4, Turns
<1> QED BY <1>2, <1>5, AfterIs DEF good

LEMMA DropFollowsIt ==
  ASSUME NEW d, Ledger(d), NEW t
  PROVE  Follows(d, DropEarliest(d, t))
<1>1. CASE OwnEntries(d, t) = {} BY <1>1, FollowsItself DEF DropEarliest
<1>2. CASE OwnEntries(d, t) # {}
  <2>1. OwnEntries(d, t) \in SUBSET d.journal BY DEF OwnEntries, EntriesOf
  <2>2. Earliest(OwnEntries(d, t)) \in d.journal BY <1>2, <2>1, EarliestIsThere
  <2> QED BY <1>2, <2>2, ReverseOrDeleteFollows DEF DropEarliest
<1> QED BY <1>1, <1>2

DropTurn(d, t, times, g) ==
  /\ g[0] = d /\ DropSome(d, t, times) = g[times]
  /\ \A k \in 1..times : g[k] = DropEarliest(g[k - 1], t)

LEMMA DropSomeTurns ==
  ASSUME NEW d, Ledger(d), NEW t, NEW times \in Nat
  PROVE  \E g : DropTurn(d, t, times, g)
<1> DEFINE L == After(d)
           Turn(x) == DropEarliest(x, t)
           step == [k \in 1..times |-> [x \in L |-> Turn(x)]]
           Is(g) == g = [k \in 0..times |-> IF k = 0 THEN d ELSE Turn(g[k - 1])]
<1>1. d \in L BY AfterIs
<1>2. ASSUME NEW x \in L PROVE Turn(x) \in L BY AfterIs, DropFollowsIt
<1>3. DropSome(d, t, times) = (CHOOSE g : Is(g))[times] BY DEF DropSome
<1>4. \A g : Is(g) <=> g = [k \in 0..times |-> IF k = 0 THEN d ELSE Turn(g[k - 1])]
  OBVIOUS
<1> HIDE DEF L, Turn, Is
<1>5. step \in [1..times -> [L -> L]] BY <1>2
<1>6. \A k \in 1..times, x \in L : step[k][x] = Turn(x) OBVIOUS
<1> HIDE DEF step
<1>7. PICK f : Iterated(f, times, L, d, step) BY <1>1, <1>5, Iterates
<1>8. \A k \in 0..times : k = 0 \/ (k \in 1..times /\ k - 1 \in 0..times) OBVIOUS
<1>9. \A k \in 0..times : f[k] = IF k = 0 THEN d ELSE Turn(f[k - 1])
  BY <1>6, <1>7, <1>8 DEF Iterated
<1>10. f = [k \in 0..times |-> IF k = 0 THEN d ELSE Turn(f[k - 1])]
  BY <1>7, <1>9 DEF Iterated
<1>11. Is(f) BY <1>4, <1>10
<1>12. PICK g : Is(g) /\ g = CHOOSE h : Is(h) BY <1>11
<1>13. \A k \in 0..times : g[k] = IF k = 0 THEN d ELSE Turn(g[k - 1]) BY <1>4, <1>12
<1>14. \A k \in 1..times : g[k] = DropEarliest(g[k - 1], t) BY <1>8, <1>13 DEF Turn
<1>15. g[0] = d BY <1>13
<1>16. DropTurn(d, t, times, g) BY <1>3, <1>12, <1>14, <1>15 DEF DropTurn
<1> QED BY <1>16

LEMMA DropSomeFollows ==
  ASSUME NEW d, Ledger(d), NEW t, NEW times \in Nat
  PROVE  Follows(d, DropSome(d, t, times))
<1>1. PICK g : DropTurn(d, t, times, g) BY DropSomeTurns
<1>2. /\ g[0] = d /\ DropSome(d, t, times) = g[times]
      /\ \A k \in 1..times : g[k] = DropEarliest(g[k - 1], t)
  BY <1>1 DEF DropTurn
<1> DEFINE good == {k \in 0..times : g[k] \in After(d)}
<1>3. good \subseteq 0..times /\ 0 \in good BY <1>2, AfterIs
<1>4. ASSUME NEW k \in 1..times, k - 1 \in good PROVE k \in good
  <2>1. g[k - 1] \in After(d) /\ Ledger(g[k - 1]) /\ k \in 0..times BY <1>4, AfterIs
  <2>2. Follows(g[k - 1], g[k]) BY <1>2, <2>1, DropFollowsIt
  <2> QED BY <2>1, <2>2, AfterIs
<1> HIDE DEF good
<1>5. times \in good BY <1>3, <1>4, Turns
<1> QED BY <1>2, <1>5, AfterIs DEF good

\* The entries a loop over the payments of a cancelled order has to do with.
ValidEntriesOf(d, id) == {e \in ValidPaymentEntries(d) : e.of = id}

LEMMA EntriesCount ==
  ASSUME NEW d, Ledger(d), NEW id
  PROVE  LET S == ValidEntriesOf(d, id)
         IN  Cardinality(S) \in Nat /\ (Cardinality(S) = 0 => S = {})
<1>1. ValidEntriesOf(d, id) \in SUBSET d.journal BY DEF ValidEntriesOf, ValidPaymentEntries
<1>2. IsFiniteSet(ValidEntriesOf(d, id)) BY <1>1, FS_Subset DEF Ledger
<1> QED BY <1>2, FS_CardinalityType, FS_EmptySet

UnbookTurn(d, g) ==
  /\ g[0] = d /\ UnbookPayments(d) = g[d.lastTxn]
  /\ \A k \in 1..d.lastTxn :
       g[k] = DropSome(g[k - 1], [id |-> k], Cardinality(ValidEntriesOf(d, k)))

LEMMA UnbookTurns ==
  ASSUME NEW d, Ledger(d)
  PROVE  \E g : UnbookTurn(d, g)
<1> DEFINE N == d.lastTxn
           L == After(d)
           times(n) == Cardinality(ValidEntriesOf(d, n))
           Turn(k, x) == DropSome(x, [id |-> k], times(k))
           step == [k \in 1..N |-> [x \in L |-> Turn(k, x)]]
           Is(g) == g = [k \in 0..N |-> IF k = 0 THEN d ELSE Turn(k, g[k - 1])]
<1>1. d \in L /\ N \in Nat BY AfterIs
<1>2. ASSUME NEW k, NEW x \in L PROVE Turn(k, x) \in L
  <2>1. times(k) \in Nat BY EntriesCount
  <2> HIDE DEF times
  <2>2. Follows(x, Turn(k, x)) BY <2>1, AfterIs, DropSomeFollows
  <2> QED BY <2>2, AfterIs
<1>3. UnbookPayments(d) = (CHOOSE g : Is(g))[N] BY DEF UnbookPayments, ValidEntriesOf
<1>4. \A g : Is(g) <=> g = [k \in 0..N |-> IF k = 0 THEN d ELSE Turn(k, g[k - 1])]
  OBVIOUS
<1> HIDE DEF L, Turn, Is, N
<1>5. step \in [1..N -> [L -> L]] BY <1>2
<1>6. \A k \in 1..N, x \in L : step[k][x] = Turn(k, x) OBVIOUS
<1> HIDE DEF step
<1>7. PICK f : Iterated(f, N, L, d, step) BY <1>1, <1>5, Iterates
<1>8. \A k \in 0..N : k = 0 \/ (k \in 1..N /\ k - 1 \in 0..N) BY <1>1
<1>9. \A k \in 0..N : f[k] = IF k = 0 THEN d ELSE Turn(k, f[k - 1])
  BY <1>6, <1>7, <1>8 DEF Iterated
<1>10. f = [k \in 0..N |-> IF k = 0 THEN d ELSE Turn(k, f[k - 1])]
  BY <1>7, <1>9 DEF Iterated
<1>11. Is(f) BY <1>4, <1>10
<1>12. PICK g : Is(g) /\ g = CHOOSE h : Is(h) BY <1>11
<1>13. \A k \in 0..N : g[k] = IF k = 0 THEN d ELSE Turn(k, g[k - 1]) BY <1>4, <1>12
<1>14. \A k \in 1..N : k \in 0..N /\ k # 0 BY <1>1
<1>15. \A k \in 1..N : g[k] = Turn(k, g[k - 1]) BY <1>13, <1>14
<1>16. g[0] = d BY <1>1, <1>13
<1>17. UnbookTurn(d, g) BY <1>3, <1>12, <1>15, <1>16 DEF N, Turn, UnbookTurn
<1> QED BY <1>17

LEMMA UnbookFollows ==
  ASSUME NEW d, Ledger(d)
  PROVE  Follows(d, UnbookPayments(d))
<1> DEFINE N == d.lastTxn
<1>1. PICK g : UnbookTurn(d, g) BY UnbookTurns
<1>2. /\ g[0] = d /\ UnbookPayments(d) = g[N]
      /\ \A k \in 1..N :
           g[k] = DropSome(g[k - 1], [id |-> k], Cardinality(ValidEntriesOf(d, k)))
  BY <1>1 DEF UnbookTurn
<1> DEFINE good == {k \in 0..N : g[k] \in After(d)}
<1>3. N \in Nat /\ good \subseteq 0..N /\ 0 \in good BY <1>2, AfterIs
<1>4. ASSUME NEW k \in 1..N, k - 1 \in good PROVE k \in good
  <2>1. g[k - 1] \in After(d) /\ Ledger(g[k - 1]) /\ k \in 0..N BY <1>3, <1>4, AfterIs
  <2> DEFINE times == Cardinality(ValidEntriesOf(d, k))
  <2>2. times \in Nat /\ g[k] = DropSome(g[k - 1], [id |-> k], times)
    BY <1>2, EntriesCount
  <2> HIDE DEF times
  <2>3. Follows(g[k - 1], g[k]) BY <2>1, <2>2, DropSomeFollows
  <2> QED BY <2>1, <2>3, AfterIs
<1> HIDE DEF good
<1>5. N \in good BY <1>3, <1>4, Turns
<1> QED BY <1>2, <1>5, AfterIs DEF good


LEMMA TienRutFollows ==
  ASSUME NEW d, Ledger(d)
  PROVE  Follows(d, RepairTienRut(d))
<1> DEFINE rows == {t \in d.txns : t.type = "tien_rut" /\ t.valid}
           synced == SyncEach(d, rows)
<1>1. rows \subseteq Transaction BY LedgerEntry
<1>2. RepairTienRut(d) = ReconcileRevenue(synced) BY DEF RepairTienRut
<1> HIDE DEF rows
<1>3. Follows(d, synced) BY <1>1, SyncEachFollows
<1> HIDE DEF synced
<1>4. Follows(synced, ReconcileRevenue(synced)) BY <1>3, ReconcileFollows DEF Follows
<1> QED BY <1>2, <1>3, <1>4, FollowsThrough

\* Deleting a locked entry keeps the books, but for the entry.
LEMMA DeleteKeeps ==
  ASSUME NEW d, Ledger(d), NEW e
  PROVE  Ledger(DeleteCascade(d, e)) /\ SameRows(d, DeleteCascade(d, e))
<1> DEFINE journal == d.journal \ {e}
           d2 == DeleteCascade(d, e)
<1>1. d \in Database /\ d.journal \subseteq Entry BY LedgerEntry DEF Ledger
<1>2. d2 = [d EXCEPT !.journal = journal] BY DEF DeleteCascade
<1>3. /\ d2.order = d.order /\ d2.txns = d.txns /\ d2.lastTxn = d.lastTxn
      /\ d2.journal = journal /\ d2.lastEntry = d.lastEntry
  BY <1>1, <1>2 DEF Database
<1>4. d2 \in Database BY <1>1, <1>2 DEF Database
<1> HIDE DEF d2
<1>5. IsFiniteSet(journal) BY FS_RemoveElement DEF Ledger
<1> QED BY <1>3, <1>4, <1>5 DEF Ledger, SameRows, d2

LEMMA RepairRevenueKeeps ==
  ASSUME NEW d, Ledger(d)
  PROVE  Ledger(RepairRevenue(d)) /\ SameRows(d, RepairRevenue(d))
<1> DEFINE moving == {e \in EntriesOf(d, "order", TheOrder) : e.lines["deposits"] # 0}
           cleared == DeleteCascade(d, Earliest(moving))
<1>1. /\ RepairRevenue(d)
          \in {d, SyncHandedOver(d), DeleteReceivable(d), SyncHandedOver(cleared)}
  BY DEF RepairRevenue
<1> HIDE DEF cleared
<1>2. Ledger(cleared) /\ SameRows(d, cleared) BY DeleteKeeps DEF cleared
<1>3. Ledger(DeleteReceivable(d)) /\ SameRows(d, DeleteReceivable(d))
  BY DeleteKeeps DEF DeleteReceivable, SameRows
<1>4. /\ Ledger(SyncHandedOver(d)) /\ SameRows(d, SyncHandedOver(d))
      /\ Ledger(SyncHandedOver(cleared)) /\ SameRows(d, SyncHandedOver(cleared))
  BY <1>2, HandOverFollows DEF Follows, SameRows
<1> QED BY <1>1, <1>3, <1>4 DEF SameRows

\* Every command but repair-order-revenue leaves closed books alone.
LEMMA ProcessKeeps ==
  ASSUME NEW d, Ledger(d), NEW command \in AllCommands,
         NEW rows, rows \subseteq Transaction
  PROVE  /\ Ledger(Process(command, d, rows)) /\ SameRows(d, Process(command, d, rows))
         /\ command = "revenue" \/ Stands(d, Process(command, d, rows))
<1> DEFINE after == Process(command, d, rows)
<1>1. CASE command = "revenue"
  <2>1. after = RepairRevenue(d) BY <1>1 DEF Process
  <2> QED BY <1>1, <2>1, RepairRevenueKeeps
<1>2. CASE command # "revenue"
  <2>1. \/ after = SyncEach(d, rows) \/ after = ReconcileRevenue(d)
        \/ after = RepairDeposits(d) \/ after = RepairCancelled(d)
        \/ after = RepairRelease(d) \/ after = RepairTienRut(d)
    BY <1>2 DEF Process, AllCommands
  <2>2. Follows(d, RepairDeposits(d))
    BY UnbookFollows, ReconcileFollows, FollowsItself DEF RepairDeposits
  <2>3. Follows(d, RepairCancelled(d)) BY CancelFollows, FollowsItself DEF RepairCancelled
  <2>4. Follows(d, RepairRelease(d)) BY ReleaseFollows, FollowsItself DEF RepairRelease
  <2> HIDE DEF after
  <2>5. Follows(d, after)
    BY <2>1, <2>2, <2>3, <2>4, SyncEachFollows, ReconcileFollows, TienRutFollows
  <2> QED BY <2>5 DEF Follows, after
<1> QED BY <1>1, <1>2

\* A request of the routes is no repair command.
LEMMA NextAsks ==
  ASSUME [Next]_vars, pending \in [Workers -> Request], NEW w \in Workers
  PROVE  pending'[w] = pending[w] \/ pending'[w].op # "repair"
<1>1. CASE \/ UNCHANGED vars \/ ResyncOne \/ LockJournal
           \/ \E derived \in Targets : SyncFromItems(derived)
           \/ \E amount \in Amounts : RecordPayment(amount)
           \/ \E type \in TransactionType, amount \in Amounts :
                \/ CreateTransaction(type, amount)
                \/ \E t \in db.txns : UpdateTransaction(t, type, amount)
  BY <1>1 DEF vars, ResyncOne, LockJournal, SyncFromItems, RecordPayment,
       CreateTransaction, UpdateTransaction
<1>2. CASE \E v \in Workers :
             \/ DeleteTransaction(v) \/ InvalidateTransaction(v) \/ RestoreTransaction(v)
             \/ UpdatePaymentMethod(v) \/ BeginEdit(v) \/ WriteStatus(v) \/ Drop(v)
  <2>1. \E v \in Workers : Answered(v)
    BY <1>2 DEF DeleteTransaction, InvalidateTransaction, RestoreTransaction,
         UpdatePaymentMethod, BeginEdit, WriteStatus, Drop
  <2> QED BY <2>1 DEF Answered, Idle
<1>3. CASE \/ \E v \in Workers, t \in db.txns, op \in {"delete", "invalidate", "restore"} :
                ReadTransaction(v, op, t)
           \/ \E v \in Workers, t \in db.txns : ReadPaymentMethod(v, t)
           \/ \E v \in Workers, patch \in Patches : ReadEdit(v, patch)
           \/ \E v \in Workers, target \in Targets : ReadStatus(v, target)
  <2>1. \E v \in Workers : \E r : r.op # "repair" /\ pending' = [pending EXCEPT ![v] = r]
    BY <1>3 DEF ReadTransaction, ReadPaymentMethod, ReadEdit, ReadStatus, Reads
  <2> QED BY <2>1
<1> QED BY <1>1, <1>2, <1>3 DEF Next

\* The commands that are asked for are among those the operator runs.
RepairBooksInv ==
  /\ BooksInv
  /\ \A w \in Workers : pending[w].op = "repair" => pending[w].command \in Commands

LEMMA InitRepaired == Init => RepairBooksInv
BY InitBooks DEF Init, Idle, RepairBooksInv

LEMMA NextRepaired ==
  RepairBooksInv /\ [RepairNext]_vars
    => RepairBooksInv' /\ ("revenue" \in Commands \/ Stands(db, db'))
<1> SUFFICES ASSUME RepairBooksInv, [RepairNext]_vars
             PROVE  RepairBooksInv' /\ ("revenue" \in Commands \/ Stands(db, db'))
  OBVIOUS
<1>1. CASE [Next]_vars
  <2>1. BooksInv' /\ Stands(db, db') BY <1>1, NextBooks DEF RepairBooksInv
  <2>2. \A w \in Workers : pending'[w] = pending[w] \/ pending'[w].op # "repair"
    BY <1>1, NextAsks DEF RepairBooksInv, BooksInv
  <2> QED BY <2>1, <2>2 DEF RepairBooksInv
<1>2. ASSUME NEW w \in Workers, NEW command \in Commands, NEW overdue \in BOOLEAN,
             ReadRepair(w, command, overdue)
      PROVE  RepairBooksInv' /\ Stands(db, db')
  <2> DEFINE r == [op |-> "repair", command |-> command, rows |-> UnbookedPayments(db)]
  <2>1. UnbookedPayments(db) \subseteq Transaction
    BY LedgerEntry DEF UnbookedPayments, RepairBooksInv, BooksInv
  <2>2. command \in AllCommands BY RepairAssumption
  <2>3. \A c \in AllCommands, rows \in SUBSET Transaction :
          [op |-> "repair", command |-> c, rows |-> rows] \in Request
    BY DEF Request
  <2>4. r \in Request BY <2>1, <2>2, <2>3
  <2>5. Reads(w, r) /\ r.command \in Commands BY <1>2 DEF ReadRepair
  <2> HIDE DEF r
  <2>6. BooksInv' /\ Stands(db, db') BY <2>4, <2>5, ReadsStep DEF RepairBooksInv
  <2>7. \A v \in Workers : pending'[v] = pending[v] \/ pending'[v] = r
    BY <2>5 DEF Reads, RepairBooksInv, BooksInv
  <2> QED BY <2>5, <2>6, <2>7 DEF RepairBooksInv
<1>3. ASSUME NEW w \in Workers, RunRepair(w)
      PROVE  RepairBooksInv' /\ ("revenue" \in Commands \/ Stands(db, db'))
  <2> DEFINE p == pending[w]
             after == Process(p.command, db, p.rows)
  <2>1. p.op = "repair" /\ LockFree /\ CommitNow(after) /\ Answered(w)
    BY <1>3 DEF RunRepair
  <2>2. p.command \in AllCommands /\ p.command \in Commands /\ p.rows \subseteq Transaction
    BY <2>1 DEF RepairBooksInv, BooksInv, Request, Idle
  <2>3. Ledger(after) /\ (p.command = "revenue" \/ Stands(db, after))
    BY <2>2, ProcessKeeps DEF RepairBooksInv, BooksInv
  <2> HIDE DEF after
  <2>4. db' = after /\ tx' = db' /\ left' = {} BY <2>1 DEF CommitNow, LockFree
  <2>5. pending' \in [Workers -> Request]
    BY <2>1, AnsweredIsTyped DEF RepairBooksInv, BooksInv
  <2>6. \A v \in Workers : pending'[v] = pending[v] \/ pending'[v] = Idle
    BY <2>1 DEF Answered, RepairBooksInv, BooksInv
  <2>7. BooksInv' BY <2>3, <2>4, <2>5 DEF BooksInv, Stands
  <2>8. \A v \in Workers : pending'[v].op = "repair" => pending'[v].command \in Commands
    BY <2>6 DEF RepairBooksInv, Idle
  <2> QED BY <2>2, <2>3, <2>4, <2>7, <2>8 DEF RepairBooksInv
<1> QED BY <1>1, <1>2, <1>3 DEF RepairNext

(***************************************************************************)
(* With the repair commands beside the routes, in any way of working and   *)
(* whatever is closed: the database and all that a request or a command    *)
(* has read hold values of their columns.                                  *)
(***************************************************************************)
THEOREM RepairsTyped ==
  RepairSpec => []TypeOK
<1>1. RepairSpec => []RepairBooksInv BY InitRepaired, NextRepaired, PTL DEF RepairSpec
<1>2. RepairBooksInv => TypeOK BY TypeOfBooks DEF RepairBooksInv
<1> QED BY <1>1, <1>2, PTL

(***************************************************************************)
(* The repair commands leave the entries of a closed period alone, all but *)
(* repair-order-revenue, which deletes a stale receivable whether it is    *)
(* locked or not.                                                          *)
(***************************************************************************)
THEOREM RepairsRespectLocks ==
  ASSUME "revenue" \notin Commands
  PROVE  RepairSpec => ClosedBooksStand
<1>1. RepairSpec => []RepairBooksInv BY InitRepaired, NextRepaired, PTL DEF RepairSpec
<1>2. RepairBooksInv /\ [RepairNext]_vars
        => [\A e \in db.journal : e.locked => e \in db'.journal]_vars
  BY NextRepaired DEF Stands
<1> QED BY <1>1, <1>2, PTL DEF RepairSpec, ClosedBooksStand

-----------------------------------------------------------------------------
(***************************************************************************)
(* A command that is run again, over what it left.                         *)
(***************************************************************************)
LEMMA HeldIsLatest ==
  ASSUME NEW d, Tidy(d), NEW k, NEW lines, Holds(d, k, lines)
  PROVE  At(d, k) # {} /\ Latest(At(d, k)).lines = lines
<1>1. PICK e : At(d, k) = {e} /\ e.lines = lines BY DEF Holds
<1>2. At(d, k) \in SUBSET d.journal BY DEF At
<1>3. Latest(At(d, k)) \in At(d, k) BY <1>1, <1>2, LatestIsThere DEF Tidy
<1> QED BY <1>1, <1>3

\* Books that hold what a reconciliation gives are not changed by one.
LEMMA GivenStays ==
  ASSUME NEW d, Tidy(d), Given(d, d)
  PROVE  ReconcileRevenue(d) = d
<1>1. \A text : OrderEntries(d, text) = At(d, OrderKey(text)) BY LooksFor
<1>2. \A text : At(d, OrderKey(text)) = {} => DropOrderEntry(d, text) = d
  BY <1>1 DEF DropOrderEntry
<1>3. ASSUME NEW text, NEW lines, Holds(d, OrderKey(text), lines)
      PROVE  ReplaceOrderEntry(d, text, lines) = d
  BY <1>1, <1>3, HeldIsLatest DEF ReplaceOrderEntry
<1>4. ASSUME IsUnpaid(d) PROVE RecogniseReceivable(d) = d
  <2>1. d.order.total \in Nat BY LedgerEntry DEF Tidy, Order
  <2>2. CASE d.order.total > 0
    <3>1. Holds(d, OrderKey("receivable"), ReceivableLines(d))
      BY <1>4, <2>2 DEF Given, ReceivableKey
    <3>2. ReplaceOrderEntry(d, "receivable", ReceivableLines(d)) = d BY <1>3, <3>1
    <3> QED BY <3>2 DEF RecogniseReceivable, ReceivableLines
  <2>3. CASE ~(d.order.total > 0)
    <3>1. d.order.total <= 0 BY <2>1, <2>3
    <3> QED BY <3>1 DEF RecogniseReceivable
  <2> QED BY <2>2, <2>3
<1>5. ASSUME ~IsUnpaid(d) PROVE RecogniseDeposits(d) = d
  <2>1. DropOrderEntry(d, "receivable") = d BY <1>2, <1>5 DEF Given, ReceivableKey
  <2>2. CASE DepositBalance(d) = 0
    <3>1. DropOrderEntry(d, "revenue") = d BY <1>2, <1>5, <2>2 DEF Given, RevenueKey
    <3> QED BY <2>1, <2>2, <3>1 DEF RecogniseDeposits
  <2>3. CASE DepositBalance(d) # 0
    <3>1. Holds(d, OrderKey("revenue"), RevenueLines(d))
      BY <1>5, <2>3 DEF Given, RevenueKey
    <3>2. ReplaceOrderEntry(d, "revenue", RevenueLines(d)) = d BY <1>3, <3>1
    <3> QED BY <2>1, <2>3, <3>2 DEF RecogniseDeposits, RevenueLines
  <2> QED BY <2>2, <2>3
<1>6. ReturnTienRut(d) = d
  <2>1. CASE HeldTienRut(d) <= 0
    <3>1. DropOrderEntry(d, "return") = d BY <1>2, <2>1 DEF Given
    <3> QED BY <2>1, <3>1 DEF ReturnTienRut
  <2>2. CASE ~(HeldTienRut(d) <= 0)
    <3>1. Holds(d, OrderKey("return"), ReturnLines(d)) BY <2>2 DEF Given
    <3>2. ReplaceOrderEntry(d, "return", ReturnLines(d)) = d BY <1>3, <3>1
    <3> QED BY <2>2, <3>2 DEF ReturnTienRut, ReturnLines
  <2> QED BY <2>1, <2>2
<1> QED BY <1>4, <1>5, <1>6 DEF ReconcileRevenue

\* What is worked out of the rows alone.
LEMMA SameAmounts ==
  ASSUME NEW d, NEW d2, SameRows(d, d2)
  PROVE  /\ DepositBalance(d2) = DepositBalance(d) /\ IsUnpaid(d2) = IsUnpaid(d)
         /\ RevenueLines(d2) = RevenueLines(d) /\ ReceivableLines(d2) = ReceivableLines(d)
<1>1. d2.order = d.order /\ d2.txns = d.txns BY DEF SameRows
<1>2. \A types : TotalOf(d2, types) = TotalOf(d, types) BY <1>1, SameTotals
<1>3. DepositBalance(d2) = DepositBalance(d)
  BY <1>1, <1>2 DEF DepositBalance, TotalPaidExclOutflows, TotalTienRut, TotalOutflows, IsBus
<1>4. IsUnpaid(d2) = IsUnpaid(d)
  BY <1>2, <1>3 DEF IsUnpaid, TotalPaidExclOutflows, TotalTienRut
<1> QED BY <1>1, <1>3, <1>4 DEF RevenueLines, ReceivableLines

LEMMA ReconcileTwice ==
  ASSUME NEW d, Tidy(d)
  PROVE  ReconcileRevenue(ReconcileRevenue(d)) = ReconcileRevenue(d)
<1> DEFINE d2 == ReconcileRevenue(d)
<1>1. Given(d, d2) /\ HeldTienRut(d2) = HeldTienRut(d) BY ReconcileGives
<1>2. Tidy(d2) /\ SameRows(d, d2) BY ReconcileChanges DEF Changes
<1> HIDE DEF d2
<1>3. /\ DepositBalance(d2) = DepositBalance(d) /\ IsUnpaid(d2) = IsUnpaid(d)
      /\ RevenueLines(d2) = RevenueLines(d) /\ ReceivableLines(d2) = ReceivableLines(d)
  BY <1>2, SameAmounts
<1>4. d2.order = d.order BY <1>2 DEF SameRows
<1>5. ReturnLines(d2) = ReturnLines(d) BY <1>1 DEF ReturnLines
<1>6. Given(d2, d2) BY <1>1, <1>3, <1>4, <1>5 DEF Given
<1>7. ReconcileRevenue(d2) = d2 BY <1>2, <1>6, GivenStays
<1> QED BY <1>7 DEF d2

\* The entries of the order that move deposits.
MovingIn(d) == {e \in EntriesOf(d, "order", TheOrder) : e.lines["deposits"] # 0}

LEMMA MovingIsRevenue ==
  ASSUME NEW d, Tidy(d), AllProper(d)
  PROVE  /\ MovingIn(d) = {e \in At(d, RevenueKey) : e.lines["deposits"] # 0}
         /\ MovingIn(d) \in SUBSET d.journal
<1>1. MovingIn(d) \in SUBSET d.journal BY DEF MovingIn, EntriesOf
<1>2. ASSUME NEW e \in MovingIn(d) PROVE e \in At(d, RevenueKey) /\ e.lines["deposits"] # 0
  <2>1. /\ e \in d.journal /\ e.source = "order" /\ e.of = TheOrder
        /\ e.lines["deposits"] # 0
    BY DEF MovingIn, EntriesOf
  <2>2. e.text = "revenue" BY <2>1 DEF AllProper, Proper
  <2> QED BY <2>1, <2>2 DEF At, Key, RevenueKey, OrderKey
<1>3. \A e \in At(d, RevenueKey) : e \in EntriesOf(d, "order", TheOrder)
  BY DEF At, Key, RevenueKey, OrderKey, EntriesOf
<1> QED BY <1>1, <1>2, <1>3 DEF MovingIn

LEMMA ReceivableGoes ==
  ASSUME NEW d, Tidy(d), AllProper(d)
  PROVE  LET d2 == DeleteReceivable(d)
         IN  /\ Changes(d, d2, {ReceivableKey}) /\ AllProper(d2)
             /\ DeleteReceivable(d2) = d2
<1> DEFINE d2 == DeleteReceivable(d)
           own == OrderEntries(d, "receivable")
<1>1. d2 = DropOrderEntry(d, "receivable")
  <2>1. own \in SUBSET d.journal BY DEF OrderEntries, EntriesOf
  <2> HIDE DEF own
  <2>2. own # {} => Latest(own) \in d.journal BY <2>1, LatestIsThere DEF Tidy
  <2>3. own # {} => ~Latest(own).locked BY <2>2 DEF Tidy, Shaped
  <2> QED BY <2>3 DEF own, DeleteReceivable, DropOrderEntry, ReverseOrDelete
<1> HIDE DEF d2
<1>2. Changes(d, d2, {ReceivableKey}) /\ At(d2, ReceivableKey) = {}
  BY <1>1, DropChanges DEF ReceivableKey
<1>3. d2.journal \subseteq d.journal BY <1>1, DropAdds
<1>4. OrderEntries(d2, "receivable") = {} BY <1>2, LooksFor DEF Changes, ReceivableKey
<1>5. DeleteReceivable(d2) = d2 BY <1>4 DEF DeleteReceivable
<1>6. AllProper(d2) BY <1>3 DEF AllProper
<1> QED BY <1>2, <1>5, <1>6 DEF d2

\* After the hand-over has been synced again nothing is left to repair.
LEMMA RevenueSettles ==
  ASSUME NEW d, Tidy(d), AllProper(d), DepositBalance(d) # 0 \/ At(d, RevenueKey) = {}
  PROVE  RepairRevenue(SyncHandedOver(d)) = SyncHandedOver(d)
<1> DEFINE d2 == SyncHandedOver(d)
<1>1. Given(d, d2) BY ReconcileGives
<1>2. Tidy(d2) /\ SameRows(d, d2) BY HandOverChanges DEF Changes
<1>3. AllProper(d2) BY HandOverAdds DEF AllProper, Adds
<1> HIDE DEF d2
<1>4. DepositBalance(d2) = DepositBalance(d) BY <1>2, SameAmounts
<1>5. /\ MovingIn(d2) = {e \in At(d2, RevenueKey) : e.lines["deposits"] # 0}
      /\ MovingIn(d2) \in SUBSET d2.journal
  BY <1>2, <1>3, MovingIsRevenue
<1>6. CASE DepositBalance(d) = 0
  <2>1. At(d2, RevenueKey) = {} BY <1>1, <1>6 DEF Given
  <2>2. MovingIn(d2) = {} BY <1>5, <2>1
  <2>3. RepairRevenue(d2) = d2 BY <1>4, <1>6, <2>2 DEF RepairRevenue, MovingIn
  <2> QED BY <2>3 DEF d2
<1>7. CASE DepositBalance(d) # 0
  <2>1. ~IsUnpaid(d) BY <1>7 DEF IsUnpaid
  <2>2. At(d2, ReceivableKey) = {} /\ Holds(d2, RevenueKey, RevenueLines(d))
    BY <1>1, <1>7, <2>1 DEF Given
  <2>3. PICK e : At(d2, RevenueKey) = {e} /\ e.lines = RevenueLines(d) BY <2>2 DEF Holds
  <2>4. e.lines["deposits"] = DepositBalance(d) BY <2>3, TheLines
  <2>5. DepositBalance(d) \in Nat BY DepositsAreWhole DEF Tidy
  <2>6. MovingIn(d2) = {e} BY <1>5, <1>7, <2>3, <2>4
  <2>7. Earliest(MovingIn(d2)) = e BY <1>2, <1>5, <2>6, EarliestIsThere DEF Tidy
  <2>8. Debit(e, "deposits") = DepositBalance(d) BY <1>7, <2>4, <2>5 DEF Debit
  <2>9. OrderEntries(d2, "receivable") = {} BY <1>2, <2>2, LooksFor DEF ReceivableKey
  <2>10. DeleteReceivable(d2) = d2 BY <2>9 DEF DeleteReceivable
  <2>11. RepairRevenue(d2) = d2
    BY <1>4, <2>6, <2>7, <2>8, <2>10 DEF RepairRevenue, MovingIn
  <2> QED BY <2>11 DEF d2
<1> QED BY <1>6, <1>7

LEMMA RevenueTwice ==
  ASSUME NEW d, Tidy(d), AllProper(d)
  PROVE  RepairRevenue(RepairRevenue(d)) = RepairRevenue(d)
<1> DEFINE e == Earliest(MovingIn(d))
<1>1. /\ MovingIn(d) = {f \in At(d, RevenueKey) : f.lines["deposits"] # 0}
      /\ MovingIn(d) \in SUBSET d.journal
  BY MovingIsRevenue
<1>2. CASE MovingIn(d) = {} /\ DepositBalance(d) = 0
  <2>1. RepairRevenue(d) = d BY <1>2 DEF RepairRevenue, MovingIn
  <2> QED BY <2>1
<1>3. CASE MovingIn(d) = {} /\ DepositBalance(d) # 0
  <2>1. RepairRevenue(d) = SyncHandedOver(d) BY <1>3 DEF RepairRevenue, MovingIn
  <2> QED BY <1>3, <2>1, RevenueSettles
<1>4. MovingIn(d) # {} => e \in d.journal /\ Key(e) = RevenueKey /\ ~e.locked
  <2> SUFFICES ASSUME MovingIn(d) # {}
               PROVE  e \in d.journal /\ Key(e) = RevenueKey /\ ~e.locked
    OBVIOUS
  <2>1. e \in MovingIn(d) BY <1>1, EarliestIsThere DEF Tidy
  <2>2. e \in d.journal /\ Key(e) = RevenueKey BY <1>1, <2>1 DEF At
  <2> HIDE DEF e
  <2> QED BY <2>2 DEF Tidy, Shaped
<1>5. CASE MovingIn(d) # {} /\ Debit(e, "deposits") = DepositBalance(d)
  <2> DEFINE d2 == DeleteReceivable(d)
  <2>1. RepairRevenue(d) = d2 BY <1>5 DEF RepairRevenue, MovingIn
  <2>2. Changes(d, d2, {ReceivableKey}) /\ AllProper(d2) /\ DeleteReceivable(d2) = d2
    BY ReceivableGoes
  <2> HIDE DEF d2
  <2>3. Tidy(d2) /\ SameRows(d, d2) BY <2>2 DEF Changes
  <2>4. RevenueKey \notin {ReceivableKey} BY KeysDiffer DEF RevenueKey, ReceivableKey
  <2>5. At(d2, RevenueKey) = At(d, RevenueKey) BY <2>2, <2>4, ChangesElsewhere
  <2>6. MovingIn(d2) = MovingIn(d) BY <1>1, <2>2, <2>3, <2>5, MovingIsRevenue
  <2>7. DepositBalance(d2) = DepositBalance(d) BY <2>3, SameAmounts
  <2>8. RepairRevenue(d2) = DeleteReceivable(d2)
    BY <1>5, <2>6, <2>7 DEF RepairRevenue, MovingIn
  <2> QED BY <2>1, <2>2, <2>8
<1>6. CASE MovingIn(d) # {} /\ Debit(e, "deposits") # DepositBalance(d)
  <2> DEFINE without == DeleteCascade(d, e)
  <2>1. RepairRevenue(d) = SyncHandedOver(without)
    BY <1>4, <1>6 DEF RepairRevenue, MovingIn
  <2>2. without = ReverseOrDelete(d, e) BY <1>4, <1>6 DEF ReverseOrDelete
  <2> HIDE DEF without, e
  <2>3. Tidy(without) /\ At(without, RevenueKey) = {}
    BY <1>4, <1>6, <2>2, DeleteChanges DEF Changes
  <2>4. without.journal \subseteq d.journal BY <1>4, <1>6, <2>2, DeleteAdds
  <2>5. AllProper(without) BY <2>4 DEF AllProper
  <2> QED BY <2>1, <2>3, <2>5, RevenueSettles
<1> QED BY <1>2, <1>3, <1>5, <1>6

LEMMA ReleasePosted ==
  ASSUME NEW d, Tidy(d), At(d, ReleaseKey) = {}
  PROVE  \E e : At(PostRelease(d), ReleaseKey) = {e} /\ e.lines["shipping"] = d.order.fee
<1> DEFINE amounts == [shipping |-> d.order.fee, asset |-> -d.order.fee]
           lines == Lines(amounts)
           e == Entered(d, "order_shipping_release", TheOrder, "release", lines)
<1>1. d.order.fee \in Nat BY LedgerEntry DEF Order, Tidy
<1>2. \A a \in DOMAIN amounts : amounts[a] \in Int BY <1>1
<1>3. /\ lines["revenue"] = 0 /\ lines["receivable"] = 0 /\ lines["deposits"] = 0
      /\ lines["tien_rut"] = 0 /\ lines["shipping"] = d.order.fee
  BY TheAccounts DEF Lines
<1>4. PostRelease(d) = Insert(d, "order_shipping_release", TheOrder, "release", lines)
  BY DEF PostRelease
<1> HIDE DEF amounts
<1>5. lines \in LinesSet BY <1>2, LinesAreWhole
<1> HIDE DEF lines
<1>6. Shaped(e) BY <1>3 DEF Shaped, IsRelease, Entered
<1>7. "order_shipping_release" \in Sources /\ "release" \in Texts BY DEF Sources, Texts
<1>8. At(d, <<"order_shipping_release", TheOrder, "release">>) = {} BY DEF ReleaseKey
<1>9. TheOrder \in Nat /\ TheOrder <= d.lastTxn BY TidyHas
<1> DEFINE d2 == Insert(d, "order_shipping_release", TheOrder, "release", lines)
<1>10. /\ Changes(d, d2, {<<"order_shipping_release", TheOrder, "release">>})
       /\ At(d2, <<"order_shipping_release", TheOrder, "release">>) = {e}
  BY <1>5, <1>6, <1>7, <1>8, <1>9, InsertChanges
<1>11. e.lines = lines BY DEF Entered
<1> HIDE DEF e, d2
<1>12. At(PostRelease(d), ReleaseKey) = {e} BY <1>4, <1>10 DEF ReleaseKey, d2
<1> QED BY <1>3, <1>11, <1>12

LEMMA ReleaseTwice ==
  ASSUME NEW d, Tidy(d), IsBus(d)
  PROVE  RepairRelease(RepairRelease(d)) = RepairRelease(d)
<1> DEFINE own == Releases(d)
           d2 == RepairRelease(d)
           Posts(x) == /\ Tidy(x) /\ At(x, ReleaseKey) = {} /\ SameRows(d, x)
                       /\ d2 = PostRelease(x)
<1>1. own = At(d, ReleaseKey) BY LooksFor
<1>2. d2 = d \/ \E x : Posts(x)
  <2>1. CASE own = {}
    <3>1. d2 = PostRelease(d) BY <2>1 DEF RepairRelease, SyncBusShippingRelease
    <3>2. Posts(d) BY <1>1, <2>1, <3>1 DEF SameRows
    <3> QED BY <3>2
  <2>2. CASE own # {} /\ Debit(Latest(own), "shipping") # d.order.fee
    <3> DEFINE x == ReverseOrDelete(d, Latest(own))
    <3>1. d2 = d \/ d2 = PostRelease(x) BY <2>2 DEF RepairRelease, SyncBusShippingRelease
    <3>2. Changes(d, x, {ReleaseKey}) /\ At(x, ReleaseKey) = {}
      BY <1>1, <2>2, ClearChanges
    <3> HIDE DEF x, d2
    <3>3. d2 = PostRelease(x) => Posts(x) BY <3>2 DEF Changes
    <3> QED BY <3>1, <3>3
  <2>3. CASE own # {} /\ Debit(Latest(own), "shipping") = d.order.fee
    BY <2>3 DEF RepairRelease
  <2> QED BY <2>1, <2>2, <2>3
<1>3. CASE d2 = d BY <1>3
<1>4. CASE \E x : Posts(x)
  <2>1. PICK x : Posts(x) BY <1>4
  <2>2. Tidy(x) /\ At(x, ReleaseKey) = {} /\ x.order = d.order /\ d2 = PostRelease(x)
    BY <2>1 DEF SameRows
  <2> HIDE DEF d2, Posts, own
  <2>3. PICK e : At(d2, ReleaseKey) = {e} /\ e.lines["shipping"] = d.order.fee
    BY <2>2, ReleasePosted
  <2>4. Tidy(d2) /\ d2.order = d.order
    BY <2>2, PostReleaseChanges DEF Changes, SameRows
  <2>5. Releases(d2) = {e} BY <2>3, <2>4, LooksFor
  <2>6. Latest({e}) = e
    <3>1. {e} \in SUBSET d2.journal BY <2>3 DEF At
    <3> QED BY <2>4, <3>1, LatestIsThere DEF Tidy
  <2>7. Debit(e, "shipping") = d2.order.fee BY <2>3, <2>4 DEF Debit, IsBus
  <2>8. RepairRelease(d2) = d2 BY <2>5, <2>6, <2>7 DEF RepairRelease
  <2> QED BY <2>8 DEF d2
<1> QED BY <1>2, <1>3, <1>4

LEMMA DebitsNone ==
  ASSUME NEW a PROVE DebitsOf({}, a) = 0 /\ CreditsOf({}, a) = 0
<1> DEFINE f == [e \in {} |-> Debit(e, a)]
           h == [e \in {} |-> Credit(e, a)]
<1>1. DebitsOf({}, a) = (CHOOSE g : SumStep(f, {}, g))[{}]
  BY DEF DebitsOf, MapThenSumSet, MapThenFoldSet, SumStep, Pick
<1>2. CreditsOf({}, a) = (CHOOSE g : SumStep(h, {}, g))[{}]
  BY DEF CreditsOf, MapThenSumSet, MapThenFoldSet, SumStep, Pick
<1>3. SumFunctionOnSet(f, {}) = (CHOOSE g : SumStep(f, {}, g))[{}]
  BY DEF SumFunctionOnSet, FoldFunctionOnSet, MapThenFoldSet, SumStep, Pick
<1>4. SumFunctionOnSet(h, {}) = (CHOOSE g : SumStep(h, {}, g))[{}]
  BY DEF SumFunctionOnSet, FoldFunctionOnSet, MapThenFoldSet, SumStep, Pick
<1> QED BY <1>1, <1>2, <1>3, <1>4, SumOfNone

LEMMA CancelledTwice ==
  ASSUME NEW d, Tidy(d)
  PROVE  RepairCancelled(RepairCancelled(d)) = RepairCancelled(d)
<1> DEFINE d2 == SyncCancelled(d)
<1>1. OnlyPayments(d2) BY CancelChanges
<1> HIDE DEF d2
<1>2. EntriesOf(d2, "order", TheOrder) = {} BY <1>1 DEF OnlyPayments, IsPayment, EntriesOf
<1>3. Posted(EntriesOf(d2, "order", TheOrder)) = {} BY <1>2 DEF Posted
<1>4. RevenueCleared(d2) = 0 BY <1>3, DebitsNone DEF RevenueCleared
<1>5. RepairCancelled(d2) = d2 BY <1>4 DEF RepairCancelled
<1>6. RepairCancelled(d) \in {d, d2} BY DEF RepairCancelled, d2
<1>7. CASE RepairCancelled(d) = d BY <1>7
<1> QED BY <1>5, <1>6, <1>7

\* The transaction t has one entry, which credits 2400 what it should.
BookedAs(d, t) ==
  \E e : /\ At(d, PaymentKey(t.id)) = {e}
         /\ t.type = "tien_rut" => e.lines["tien_rut"] = -t.amount

\* The books when the loop over rows has come to the id k.
Resynced(d, rows, k, x) ==
  /\ Tidy(x) /\ SameRows(d, x)
  /\ \A id : At(d, PaymentKey(id)) # {} => At(x, PaymentKey(id)) # {}
  /\ \A t \in rows : t.id <= k => BookedAs(x, t)

LEMMA SyncBooksRow ==
  ASSUME NEW d, Tidy(d), NEW rows, rows \subseteq d.txns, NEW k \in 1..d.lastTxn,
         NEW x, Resynced(d, rows, k - 1, x), NEW t \in rows, t.id = k
  PROVE  Resynced(d, rows, k, SyncPayment(x, t))
<1> DEFINE y == SyncPayment(x, t)
           K == {PaymentKey(t.id), ReleaseKey}
<1>1. Tidy(x) /\ SameRows(d, x) BY DEF Resynced
<1>2. t \in Transaction /\ t.id <= x.lastTxn
  <2>1. d.txns \subseteq Transaction BY LedgerEntry DEF Tidy
  <2> QED BY <1>1, <2>1 DEF SameRows
<1>3. Changes(x, y, K) /\ \E e : At(y, PaymentKey(t.id)) = {e} /\ e.lines = PaymentLines(x, t)
  BY <1>1, <1>2, SyncPaymentChanges
<1>4. t.type = "tien_rut" => PaymentLines(x, t)["tien_rut"] = -t.amount
  BY <1>1, <1>2, PaymentLinesShape DEF Tidy
<1> HIDE DEF y
<1>5. BookedAs(y, t) BY <1>3, <1>4 DEF BookedAs
<1>6. ASSUME NEW id, id # t.id PROVE At(y, PaymentKey(id)) = At(x, PaymentKey(id))
  <2>1. PaymentKey(id) \notin K BY <1>6, KeysDiffer
  <2> HIDE DEF K
  <2> QED BY <1>3, <2>1, ChangesElsewhere
<1>7. Tidy(y) /\ SameRows(d, y) BY <1>1, <1>3 DEF Changes, SameRows
<1>8. ASSUME NEW id, At(d, PaymentKey(id)) # {} PROVE At(y, PaymentKey(id)) # {}
  <2>1. At(x, PaymentKey(id)) # {} BY <1>8 DEF Resynced
  <2> QED BY <1>3, <1>6, <2>1
<1>9. ASSUME NEW u \in rows, u.id <= k PROVE BookedAs(y, u)
  <2>1. CASE u = t BY <1>5, <2>1
  <2>2. CASE u # t
    <3>1. u.id # t.id /\ u.id \in Nat
      <4>1. \A v, w \in d.txns : v.id = w.id => v = w BY DEF Tidy, Ledger
      <4>2. d.txns \subseteq Transaction BY LedgerEntry DEF Tidy
      <4> QED BY <2>2, <4>1, <4>2 DEF Transaction
    <3>2. u.id <= k - 1 BY <1>9, <3>1
    <3>3. BookedAs(x, u) BY <3>2 DEF Resynced
    <3> QED BY <1>6, <3>1, <3>3 DEF BookedAs
  <2> QED BY <2>1, <2>2
<1>10. Resynced(d, rows, k, y) BY <1>7, <1>8, <1>9 DEF Resynced
<1> QED BY <1>10 DEF y

LEMMA SyncEachBooks ==
  ASSUME NEW d, Tidy(d), NEW rows, rows \subseteq d.txns
  PROVE  Resynced(d, rows, d.lastTxn, SyncEach(d, rows))
<1> DEFINE N == d.lastTxn
<1>1. d.txns \subseteq Transaction /\ Ledger(d) /\ N \in Nat BY LedgerEntry DEF Tidy
<1>2. \A t \in rows : t.id \in 1..N BY DEF Tidy, Ledger
<1>3. PICK g : EachTurn(d, rows, g) BY <1>1, SyncEachTurns
<1>4. /\ g[0] = d /\ SyncEach(d, rows) = g[N]
      /\ \A k \in 1..N : \/ (\A t \in rows : t.id # k) /\ g[k] = g[k - 1]
                        \/ \E t \in rows : t.id = k /\ g[k] = SyncPayment(g[k - 1], t)
  BY <1>3 DEF EachTurn
<1> DEFINE good == {k \in 0..N : Resynced(d, rows, k, g[k])}
<1>5. 0 \in good
  <2>1. Resynced(d, rows, 0, d) BY <1>1, <1>2 DEF Resynced, SameRows
  <2> QED BY <1>1, <1>4, <2>1
<1>6. ASSUME NEW k \in 1..N, k - 1 \in good PROVE k \in good
  <2>1. Resynced(d, rows, k - 1, g[k - 1]) /\ k \in 0..N BY <1>1, <1>6
  <2>2. CASE (\A t \in rows : t.id # k) /\ g[k] = g[k - 1]
    <3>1. \A t \in rows : t.id <= k => t.id <= k - 1 BY <1>1, <1>2, <2>2
    <3>2. Resynced(d, rows, k, g[k]) BY <2>1, <2>2, <3>1 DEF Resynced
    <3> QED BY <2>1, <3>2
  <2>3. CASE \E t \in rows : t.id = k /\ g[k] = SyncPayment(g[k - 1], t)
    <3>1. PICK t \in rows : t.id = k /\ g[k] = SyncPayment(g[k - 1], t) BY <2>3
    <3>2. Resynced(d, rows, k, g[k]) BY <2>1, <3>1, SyncBooksRow
    <3> QED BY <2>1, <3>2
  <2> QED BY <1>4, <2>2, <2>3
<1>7. good \subseteq 0..N OBVIOUS
<1> HIDE DEF good
<1>8. N \in good BY <1>1, <1>5, <1>6, <1>7, Turns
<1> QED BY <1>4, <1>8 DEF good

LEMMA PaymentsTwice ==
  ASSUME NEW d, Tidy(d)
  PROVE  UnbookedPayments(SyncEach(d, UnbookedPayments(d))) = {}
<1> DEFINE rows == UnbookedPayments(d)
           d2 == SyncEach(d, rows)
<1>1. rows \subseteq d.txns BY DEF UnbookedPayments
<1> HIDE DEF rows
<1>2. Resynced(d, rows, d.lastTxn, d2) BY <1>1, SyncEachBooks
<1> HIDE DEF d2
<1>3. Tidy(d2) /\ d2.txns = d.txns BY <1>2 DEF Resynced, SameRows
<1>4. /\ \A t : OwnEntries(d, t) = At(d, PaymentKey(t.id))
      /\ \A t : OwnEntries(d2, t) = At(d2, PaymentKey(t.id))
  BY <1>3, LooksFor DEF OwnEntries
<1>5. ASSUME NEW t \in d2.txns, t.valid PROVE OwnEntries(d2, t) # {}
  <2>1. CASE OwnEntries(d, t) # {} BY <1>2, <1>4, <2>1 DEF Resynced
  <2>2. CASE OwnEntries(d, t) = {}
    <3>1. t \in rows BY <1>3, <1>5, <2>2 DEF rows, UnbookedPayments
    <3>2. t.id <= d.lastTxn BY <1>1, <3>1, LedgerEntry DEF Tidy, Ledger
    <3>3. BookedAs(d2, t) BY <1>2, <3>1, <3>2 DEF Resynced
    <3> QED BY <1>4, <3>3 DEF BookedAs
  <2> QED BY <2>1, <2>2
<1>6. UnbookedPayments(d2) = {} BY <1>5 DEF UnbookedPayments
<1> QED BY <1>6 DEF d2, rows

LEMMA TienRutTwice ==
  ASSUME NEW d, Tidy(d)
  PROVE  LET d2 == RepairTienRut(d) IN \A t \in d2.txns : ~Misrouted(d2, t)
<1> DEFINE rows == {t \in d.txns : t.type = "tien_rut" /\ t.valid}
           synced == SyncEach(d, rows)
           d2 == RepairTienRut(d)
<1>1. rows \subseteq d.txns OBVIOUS
<1>2. d2 = ReconcileRevenue(synced) BY DEF RepairTienRut
<1> HIDE DEF rows, d2
<1>3. Resynced(d, rows, d.lastTxn, synced) BY <1>1, SyncEachBooks
<1> HIDE DEF synced
<1>4. Tidy(synced) /\ SameRows(d, synced) BY <1>3 DEF Resynced
<1>5. Changes(synced, d2, OrderKeys) BY <1>2, <1>4, ReconcileChanges
<1>6. Tidy(d2) /\ d2.txns = d.txns BY <1>4, <1>5 DEF Changes, SameRows
<1>7. ASSUME NEW t \in d2.txns, Misrouted(d2, t) PROVE FALSE
  <2>1. t \in rows BY <1>6, <1>7 DEF Misrouted, rows
  <2>2. t.id <= d.lastTxn BY <1>1, <2>1, LedgerEntry DEF Tidy, Ledger
  <2>3. BookedAs(synced, t) BY <1>3, <2>1, <2>2 DEF Resynced
  <2>4. PaymentKey(t.id) \notin OrderKeys BY KeysDiffer
  <2>5. At(d2, PaymentKey(t.id)) = At(synced, PaymentKey(t.id))
    BY <1>5, <2>4, ChangesElsewhere
  <2>6. OwnEntries(d2, t) = At(d2, PaymentKey(t.id)) BY <1>6, LooksFor DEF OwnEntries
  <2>7. PICK e : At(synced, PaymentKey(t.id)) = {e} /\ e.lines["tien_rut"] = -t.amount
    BY <1>7, <2>3 DEF BookedAs, Misrouted
  <2>8. t.amount \in Nat \ {0}
    <3>1. d.txns \subseteq Transaction BY LedgerEntry DEF Tidy
    <3>2. \A u \in Transaction : u.amount \in Nat \ {0}
      BY BooksAssumption DEF Transaction
    <3> QED BY <1>6, <3>1, <3>2
  <2>9. Credit(e, "tien_rut") # 0
    <3> DEFINE n == t.amount
               c == e.lines["tien_rut"]
    <3>1. n \in Nat \ {0} /\ c = -n BY <2>7, <2>8
    <3> HIDE DEF n, c
    <3>2. c < 0 /\ -c # 0 BY <3>1
    <3> QED BY <3>2 DEF Credit, c
  <2> QED BY <1>7, <2>5, <2>6, <2>7, <2>9 DEF Misrouted
<1> QED BY <1>7 DEF d2

\* Only the entry of the transaction id may have gone, with its entries.
Sheds(d, id, d2) ==
  Changes(d, d2, {PaymentKey(id)}) /\ d2.journal \subseteq d.journal

LEMMA DropEarliestSheds ==
  ASSUME NEW d, Tidy(d), NEW t
  PROVE  Sheds(d, t.id, DropEarliest(d, t)) /\ At(DropEarliest(d, t), PaymentKey(t.id)) = {}
<1> DEFINE own == At(d, PaymentKey(t.id))
           e == Earliest(own)
<1>1. OwnEntries(d, t) = own BY LooksFor DEF OwnEntries
<1>2. CASE own = {} BY <1>1, <1>2, ChangesNothing DEF DropEarliest, Sheds
<1>3. CASE own # {}
  <2>1. DropEarliest(d, t) = ReverseOrDelete(d, e) BY <1>1, <1>3 DEF DropEarliest
  <2>2. own \in SUBSET d.journal BY DEF At
  <2>3. e \in own BY <1>3, <2>2, EarliestIsThere DEF Tidy
  <2>4. e \in d.journal /\ Key(e) = PaymentKey(t.id) BY <2>3 DEF At
  <2> HIDE DEF e, own
  <2>5. /\ Changes(d, ReverseOrDelete(d, e), {Key(e)})
        /\ At(ReverseOrDelete(d, e), Key(e)) = {}
        /\ ReverseOrDelete(d, e).journal \subseteq d.journal
    BY <2>4, DeleteChanges, DeleteAdds
  <2> QED BY <2>1, <2>4, <2>5 DEF Sheds
<1> QED BY <1>2, <1>3

LEMMA DropSomeSheds ==
  ASSUME NEW d, Tidy(d), NEW t, NEW times \in Nat
  PROVE  LET d2 == DropSome(d, t, times)
         IN  Sheds(d, t.id, d2) /\ (times = 0 \/ At(d2, PaymentKey(t.id)) = {})
<1>1. PICK g : DropTurn(d, t, times, g) BY DropSomeTurns DEF Tidy
<1>2. /\ g[0] = d /\ DropSome(d, t, times) = g[times]
      /\ \A k \in 1..times : g[k] = DropEarliest(g[k - 1], t)
  BY <1>1 DEF DropTurn
<1> DEFINE Is(k, x) == Sheds(d, t.id, x) /\ (k = 0 \/ At(x, PaymentKey(t.id)) = {})
           good == {k \in 0..times : Is(k, g[k])}
<1>3. 0 \in good
  <2>1. Is(0, d) BY ChangesNothing DEF Sheds
  <2> HIDE DEF Is
  <2> QED BY <1>2, <2>1
<1>4. ASSUME NEW k \in 1..times, k - 1 \in good PROVE k \in good
  <2> DEFINE x == g[k - 1]
             y == g[k]
  <2>1. Sheds(d, t.id, x) /\ k \in 0..times BY <1>4
  <2>2. y = DropEarliest(x, t) BY <1>2
  <2> HIDE DEF x, y
  <2>3. Sheds(x, t.id, y) /\ At(y, PaymentKey(t.id)) = {}
    BY <2>1, <2>2, DropEarliestSheds DEF Sheds, Changes
  <2>4. Sheds(d, t.id, y) BY <2>1, <2>3, ChangesThrough DEF Sheds
  <2>5. Is(k, y) BY <2>3, <2>4
  <2> HIDE DEF Is
  <2> QED BY <2>1, <2>5 DEF y
<1>5. good \subseteq 0..times OBVIOUS
<1> HIDE DEF good
<1>6. times \in good BY <1>3, <1>4, <1>5, Turns
<1> QED BY <1>2, <1>6 DEF good

\* The books when the loop over a cancelled order's payments has come to the id k.
Unbooked(d, k, x) ==
  /\ Tidy(x) /\ SameRows(d, x) /\ x.journal \subseteq d.journal
  /\ \A id \in 1..k : ValidEntriesOf(x, id) = {}

LEMMA UnbooksOne ==
  ASSUME NEW d, Tidy(d), NEW k \in 1..d.lastTxn, NEW x, Unbooked(d, k - 1, x)
  PROVE  Unbooked(d, k, DropSome(x, [id |-> k], Cardinality(ValidEntriesOf(d, k))))
<1> DEFINE t == [id |-> k]
           times == Cardinality(ValidEntriesOf(d, k))
           y == DropSome(x, t, times)
<1>1. times \in Nat /\ (times = 0 => ValidEntriesOf(d, k) = {}) BY EntriesCount DEF Tidy
<1>2. t.id = k OBVIOUS
<1>3. Tidy(x) /\ SameRows(d, x) /\ x.journal \subseteq d.journal BY DEF Unbooked
<1> HIDE DEF t, times
<1>4. Sheds(x, k, y) /\ (times = 0 \/ At(y, PaymentKey(k)) = {})
  BY <1>1, <1>2, <1>3, DropSomeSheds
<1> HIDE DEF y
<1>5. Tidy(y) /\ SameRows(d, y) /\ SameRows(x, y) /\ y.journal \subseteq x.journal
  BY <1>3, <1>4 DEF Sheds, Changes, SameRows
<1>6. \A id : /\ ValidEntriesOf(y, id) \subseteq ValidEntriesOf(x, id)
              /\ ValidEntriesOf(y, id) \subseteq ValidEntriesOf(d, id)
  BY <1>3, <1>5 DEF ValidEntriesOf, ValidPaymentEntries, SameRows
<1>7. ValidEntriesOf(y, k) = {}
  <2>1. CASE times = 0 BY <1>1, <1>6, <2>1
  <2>2. CASE At(y, PaymentKey(k)) = {}
    <3>1. EntriesOf(y, "payment_transaction", k) = {} BY <1>5, <2>2, LooksFor
    <3> QED BY <3>1 DEF ValidEntriesOf, ValidPaymentEntries, EntriesOf
  <2> QED BY <1>4, <2>1, <2>2
<1>8. ASSUME NEW id \in 1..k PROVE ValidEntriesOf(y, id) = {}
  <2>1. CASE id = k BY <1>7, <2>1
  <2>2. CASE id # k
    <3>1. id \in 1..(k - 1) BY <2>2
    <3> QED BY <1>6, <3>1 DEF Unbooked
  <2> QED BY <2>1, <2>2
<1>9. Unbooked(d, k, y) BY <1>3, <1>5, <1>8 DEF Unbooked
<1> QED BY <1>9 DEF y, t, times

LEMMA UnbookedLeavesNone ==
  ASSUME NEW d, Tidy(d)
  PROVE  /\ SameRows(d, UnbookPayments(d))
         /\ ValidPaymentEntries(UnbookPayments(d)) = {}
<1> DEFINE N == d.lastTxn
           d2 == UnbookPayments(d)
<1>1. PICK g : UnbookTurn(d, g) BY UnbookTurns DEF Tidy
<1>2. /\ g[0] = d /\ d2 = g[N]
      /\ \A k \in 1..N :
           g[k] = DropSome(g[k - 1], [id |-> k], Cardinality(ValidEntriesOf(d, k)))
  BY <1>1 DEF UnbookTurn
<1> DEFINE good == {k \in 0..N : Unbooked(d, k, g[k])}
<1>3. N \in Nat BY LedgerEntry DEF Tidy
<1>4. 0 \in good
  <2>1. Unbooked(d, 0, d) BY DEF Unbooked, SameRows
  <2> QED BY <1>2, <1>3, <2>1
<1>5. ASSUME NEW k \in 1..N, k - 1 \in good PROVE k \in good
  <2>1. Unbooked(d, k - 1, g[k - 1]) /\ k \in 0..N BY <1>3, <1>5
  <2>2. Unbooked(d, k, g[k]) BY <1>2, <2>1, UnbooksOne
  <2> QED BY <2>1, <2>2
<1>6. good \subseteq 0..N OBVIOUS
<1> HIDE DEF good
<1>7. N \in good BY <1>3, <1>4, <1>5, <1>6, Turns
<1>8. Unbooked(d, N, d2) BY <1>2, <1>7 DEF good
<1> HIDE DEF d2
<1>9. ASSUME NEW e \in ValidPaymentEntries(d2) PROVE FALSE
  <2>1. PICK t \in d2.txns : t.id = e.of BY <1>9 DEF ValidPaymentEntries
  <2>2. t.id \in 1..N BY <1>8, <2>1 DEF Unbooked, SameRows, Tidy, Ledger
  <2>3. e \in ValidEntriesOf(d2, t.id) BY <1>9, <2>1 DEF ValidEntriesOf
  <2> QED BY <1>8, <2>2, <2>3 DEF Unbooked
<1>10. SameRows(d, d2) BY <1>8 DEF Unbooked
<1>11. ValidPaymentEntries(d2) = {} BY <1>9
<1> QED BY <1>10, <1>11 DEF d2

LEMMA DepositsTwice ==
  ASSUME NEW d, Tidy(d)
  PROVE  RepairDeposits(RepairDeposits(d)) = RepairDeposits(d)
<1> DEFINE without == UnbookPayments(d)
           reconciled == ReconcileRevenue(d)
<1>1. CASE RepairDeposits(d) = d BY <1>1
<1>2. CASE d.order.status = "cancelled" /\ RepairDeposits(d) = without
  <2>1. without.order = d.order /\ ValidPaymentEntries(without) = {}
    BY UnbookedLeavesNone DEF SameRows
  <2> HIDE DEF without
  <2>2. DepositsIn(without) = 0 BY <2>1, DebitsNone DEF DepositsIn
  <2>3. RepairDeposits(without) = without BY <1>2, <2>1, <2>2 DEF RepairDeposits
  <2> QED BY <1>2, <2>3
<1>3. CASE d.order.status # "cancelled" /\ RepairDeposits(d) = reconciled
  <2>1. reconciled.order = d.order BY ReconcileChanges DEF Changes, SameRows
  <2>2. ReconcileRevenue(reconciled) = reconciled BY ReconcileTwice
  <2> HIDE DEF reconciled
  <2>3. RepairDeposits(reconciled) = reconciled BY <1>3, <2>1, <2>2 DEF RepairDeposits
  <2> QED BY <1>3, <2>3
<1> QED BY <1>1, <1>2, <1>3 DEF RepairDeposits

\* A second run of a command over any such books changes nothing.
LEMMA SecondRun ==
  ASSUME NEW d, Tidy(d), AllProper(d), NEW command \in AllCommands
  PROVE  LET once == Repaired(command, d, TRUE)
         IN  Repaired(command, once, TRUE) = once
<1> DEFINE rows == UnbookedPayments(d)
           once == Process(command, d, rows)
           twice == Process(command, once, UnbookedPayments(once))
<1>1. CASE ~Flags(command, d, TRUE) BY <1>1 DEF Repaired
<1>2. SUFFICES ASSUME Flags(command, d, TRUE) PROVE Repaired(command, once, TRUE) = once
  BY <1>1 DEF Repaired
<1>3. SUFFICES Flags(command, once, TRUE) => twice = once BY DEF Repaired
<1>4. CASE command = "payments"
  <2>1. once = SyncEach(d, rows) BY <1>4 DEF Process
  <2> HIDE DEF once
  <2>2. UnbookedPayments(once) = {} BY <2>1, PaymentsTwice
  <2> QED BY <1>4, <2>2 DEF Flags
<1>5. CASE command = "receivable"
  <2>1. once = ReconcileRevenue(d) BY <1>5 DEF Process
  <2> HIDE DEF once
  <2>2. twice = ReconcileRevenue(once) BY <1>5 DEF Process
  <2> QED BY <2>1, <2>2, ReconcileTwice
<1>6. CASE command = "deposits"
  <2>1. once = RepairDeposits(d) BY <1>6 DEF Process
  <2> HIDE DEF once
  <2>2. twice = RepairDeposits(once) BY <1>6 DEF Process
  <2> QED BY <2>1, <2>2, DepositsTwice
<1>7. CASE command = "cancelled"
  <2>1. once = RepairCancelled(d) BY <1>7 DEF Process
  <2> HIDE DEF once
  <2>2. twice = RepairCancelled(once) BY <1>7 DEF Process
  <2> QED BY <2>1, <2>2, CancelledTwice
<1>8. CASE command = "release"
  <2>1. once = RepairRelease(d) /\ IsBus(d) BY <1>2, <1>8 DEF Process, Flags
  <2> HIDE DEF once
  <2>2. twice = RepairRelease(once) BY <1>8 DEF Process
  <2> QED BY <2>1, <2>2, ReleaseTwice
<1>9. CASE command = "revenue"
  <2>1. once = RepairRevenue(d) BY <1>9 DEF Process
  <2> HIDE DEF once
  <2>2. twice = RepairRevenue(once) BY <1>9 DEF Process
  <2> QED BY <2>1, <2>2, RevenueTwice
<1>10. CASE command = "tien_rut"
  <2>1. once = RepairTienRut(d) BY <1>10 DEF Process
  <2> HIDE DEF once
  <2>2. \A t \in once.txns : ~Misrouted(once, t) BY <2>1, TienRutTwice
  <2> QED BY <1>10, <2>2 DEF Flags
<1> QED BY <1>4, <1>5, <1>6, <1>7, <1>8, <1>9, <1>10 DEF AllCommands

(***************************************************************************)
(* Every repair command is idempotent, as its help says: over the books of *)
(* ordinary business, and over those books with an entry missing that a    *)
(* failed sync never posted, whatever it is, a second run changes nothing. *)
(* The circumstances are those of AuditIsClean.                            *)
(***************************************************************************)
THEOREM SecondRunsDoNothing ==
  ASSUME OneAtATime, Unrepaired = {}
  PROVE  RepairSpec => []RepairsSettle
<1>1. AuditInv => RepairsSettle
  <2> SUFFICES ASSUME AuditInv, NEW d \in Damaged, NEW command \in Commands
               PROVE  LET once == Repaired(command, d, TRUE)
                      IN  Repaired(command, once, TRUE) = once
    BY DEF RepairsSettle
  <2>1. Tidy(db) /\ AllProper(db) BY DEF AuditInv, RepairInv, CalmInv, ProperInv
  <2>2. ASSUME d = db PROVE Tidy(d) /\ AllProper(d) BY <2>1, <2>2
  <2>3. ASSUME NEW e \in db.journal, d = [db EXCEPT !.journal = @ \ {e}]
        PROVE  Tidy(d) /\ AllProper(d)
    <3>1. ~e.locked BY <2>1 DEF Tidy, Shaped
    <3>2. d = ReverseOrDelete(db, e) BY <2>3, <3>1 DEF ReverseOrDelete, DeleteCascade
    <3>3. Tidy(d) /\ d.journal \subseteq db.journal
      BY <2>1, <3>2, DeleteChanges, DeleteAdds DEF Changes
    <3> QED BY <2>1, <3>3 DEF AllProper
  <2>4. Tidy(d) /\ AllProper(d) BY <2>1, <2>2, <2>3 DEF Damaged
  <2>5. command \in AllCommands BY RepairAssumption
  <2> QED BY <2>4, <2>5, SecondRun
<1> QED BY <1>1, InitAudit, NextAudit, PTL DEF RepairSpec
=============================================================================
