-------------------------- MODULE Expenses_proofs --------------------------
(***************************************************************************)
(* Theorems about Expenses and its repair: the entries of an expense come  *)
(* to its amount, and the account of a vendor to what is owed, for any     *)
(* events, vendors, amounts and bounds.                                    *)
(*                                                                         *)
(* An entry is found by the source it has and what it is of, so the        *)
(* journal falls into one set of entries for each such key.  The first     *)
(* part says what a sync makes of the set with its key, and that it leaves *)
(* every other as it was.  The second has the set of each expense in order *)
(* whatever comes in between, a failed sync included; the third that of    *)
(* each settlement, which is there if its source is known and its sync did *)
(* not fail, and sums the two up by the debts they belong to.  The last    *)
(* compares what the audit reads with what the events list.                *)
(***************************************************************************)
EXTENDS ExpenseRepair, SumTheorems

Sources == {"expense", "expense_settlement"}
Texts == Sources \union {"reversal"}
LinesSet == [Accounts -> Int]

IsKey(source, of) ==
  \/ source = "expense" /\ of \in Events
  \/ source = "expense_settlement" /\ of \in Nat

Entry == [id : Nat, source : Sources, of : Events \union Nat, text : Texts,
          lines : LinesSet, locked : BOOLEAN]

Settlement == [amount : Nat \ {0}, known : BOOLEAN]

Row == [amount : Nat, by : {"asset"} \union Vendors, known : BOOLEAN,
        settlements : Seq(Settlement), deleted : BOOLEAN]

Database == [events : [Events -> Row], journal : SUBSET Entry, lastEntry : Nat,
             missed : SUBSET Events, lost : SUBSET Nat]

Journaled(journal, lastEntry) ==
  /\ journal \subseteq Entry /\ IsFiniteSet(journal) /\ lastEntry \in Nat
  /\ \A x \in journal : x.id \in 1..lastEntry /\ IsKey(x.source, x.of)
  /\ \A x, y \in journal : x.id = y.id => x = y

Ledger(d) == d \in Database /\ Journaled(d.journal, d.lastEntry)

\* The journal and its counter are all that the primitives write.
Written(d, journal, lastEntry) ==
  [d EXCEPT !.lastEntry = lastEntry, !.journal = journal]

LEMMA NewJournal ==
  ASSUME NEW d, Ledger(d), NEW journal, NEW lastEntry, Journaled(journal, lastEntry)
  PROVE  LET d2 == Written(d, journal, lastEntry)
         IN  /\ Ledger(d2) /\ d2.events = d.events /\ d2.missed = d.missed
             /\ d2.lost = d.lost /\ d2.journal = journal /\ d2.lastEntry = lastEntry
<1>1. d \in Database BY DEF Ledger
<1> QED BY <1>1 DEF Database, Written, Ledger, Journaled

\* One step of a sync: of d, only the entries with one key are others now.
Changes(d, d2, source, of) ==
  /\ Ledger(d2) /\ d2.events = d.events /\ d2.missed = d.missed /\ d2.lost = d.lost
  /\ \A s, o : s # source \/ o # of => EntriesOf(d2, s, o) = EntriesOf(d, s, o)

LEMMA ChangesNothing ==
  ASSUME NEW d, Ledger(d), NEW source, NEW of PROVE Changes(d, d, source, of)
BY DEF Changes

LEMMA ChangesThrough ==
  ASSUME NEW d, NEW d1, NEW d2, NEW source, NEW of,
         Changes(d, d1, source, of), Changes(d1, d2, source, of)
  PROVE  Changes(d, d2, source, of)
BY DEF Changes

Keyed(S, source, of) == \A x \in S : x.source = source /\ x.of = of

\* Entries with the key are taken out and put in.
LEMMA ReplacesEntries ==
  ASSUME NEW d, Ledger(d), NEW source, NEW of, NEW A, NEW B, NEW lastEntry,
         A \subseteq EntriesOf(d, source, of), Keyed(B, source, of),
         Journaled((d.journal \ A) \union B, lastEntry)
  PROVE  LET d2 == Written(d, (d.journal \ A) \union B, lastEntry)
         IN  /\ Changes(d, d2, source, of)
             /\ EntriesOf(d2, source, of) = (EntriesOf(d, source, of) \ A) \union B
             /\ d2.lastEntry = lastEntry
<1> DEFINE journal == (d.journal \ A) \union B
           d2 == Written(d, journal, lastEntry)
<1>1. /\ Ledger(d2) /\ d2.events = d.events /\ d2.missed = d.missed
      /\ d2.lost = d.lost /\ d2.journal = journal /\ d2.lastEntry = lastEntry
  <2>1. Journaled(journal, lastEntry) OBVIOUS
  <2> HIDE DEF journal
  <2> QED BY <2>1, NewJournal
<1> HIDE DEF d2
<1>2. EntriesOf(d2, source, of) = (EntriesOf(d, source, of) \ A) \union B
  BY <1>1 DEF EntriesOf, Keyed
<1>3. ASSUME NEW s, NEW o, s # source \/ o # of
      PROVE  EntriesOf(d2, s, o) = EntriesOf(d, s, o)
  BY <1>1, <1>3 DEF EntriesOf, Keyed
<1> QED BY <1>1, <1>2, <1>3 DEF Changes, d2

LEMMA KeyedEntries ==
  ASSUME NEW d, Ledger(d), NEW source, NEW of, NEW S \in SUBSET EntriesOf(d, source, of)
  PROVE  /\ S \subseteq Entry /\ IsFiniteSet(S)
         /\ \A x \in S : /\ x.source = source /\ x.of = of
                         /\ x.id \in Nat /\ x.id <= d.lastEntry
<1>1. S \in SUBSET d.journal BY DEF EntriesOf
<1>2. IsFiniteSet(S) BY <1>1, FS_Subset DEF Ledger, Journaled
<1> QED BY <1>1, <1>2 DEF EntriesOf, Ledger, Journaled

-----------------------------------------------------------------------------
(***************************************************************************)
(* The primitives.                                                         *)
(***************************************************************************)
New(d, source, of, text, lines) ==
  [id |-> d.lastEntry + 1, source |-> source, of |-> of, text |-> text,
   lines |-> lines, locked |-> FALSE]

LEMMA InsertAdds ==
  ASSUME NEW d, Ledger(d), NEW source, NEW of, IsKey(source, of), NEW text \in Texts,
         NEW lines \in LinesSet
  PROVE  LET d2 == Insert(d, source, of, text, lines)
             new == New(d, source, of, text, lines)
         IN  /\ Changes(d, d2, source, of)
             /\ EntriesOf(d2, source, of) = EntriesOf(d, source, of) \union {new}
             /\ new \in Entry /\ new \notin EntriesOf(d, source, of)
             /\ d2.lastEntry = d.lastEntry + 1
<1> DEFINE new == New(d, source, of, text, lines)
           E == EntriesOf(d, source, of)
           journal == (d.journal \ {}) \union {new}
           n == d.lastEntry + 1
<1>1. d.lastEntry \in Nat /\ d.journal \subseteq Entry /\ IsFiniteSet(d.journal)
  BY DEF Ledger, Journaled
<1>2. /\ new \in Entry /\ new.id = n /\ new.source = source /\ new.of = of
  BY <1>1 DEF New, Entry, Texts, Sources, IsKey
<1>3. Insert(d, source, of, text, lines) = Written(d, journal, n)
  <2>1. d \in Database BY DEF Ledger
  <2>2. journal = d.journal \union {new} OBVIOUS
  <2> QED BY <2>1, <2>2 DEF Insert, Database, Written, New
<1> HIDE DEF new
<1>4. Journaled(journal, n)
  <2>1. journal = d.journal \union {new} OBVIOUS
  <2>2. IsFiniteSet(journal) BY <1>1, <2>1, FS_AddElement
  <2>3. n \in Nat /\ \A x \in d.journal : x.id \in 1..n /\ x.id # n
    BY <1>1 DEF Ledger, Journaled
  <2>4. /\ \A x \in d.journal : IsKey(x.source, x.of)
        /\ \A x, y \in d.journal : x.id = y.id => x = y
    BY DEF Ledger, Journaled
  <2>5. n \in 1..n BY <1>1
  <2> HIDE DEF journal, n
  <2> QED BY <1>1, <1>2, <2>1, <2>2, <2>3, <2>4, <2>5 DEF Journaled
<1>5. /\ Changes(d, Written(d, journal, n), source, of)
      /\ EntriesOf(Written(d, journal, n), source, of) = (E \ {}) \union {new}
      /\ Written(d, journal, n).lastEntry = n
  <2> DEFINE A == {}
             B == {new}
  <2>1. A \subseteq EntriesOf(d, source, of) /\ Keyed(B, source, of)
    BY <1>2 DEF Keyed
  <2>2. Journaled((d.journal \ A) \union B, n) BY <1>4
  <2> HIDE DEF n, A, B
  <2>3. /\ Changes(d, Written(d, (d.journal \ A) \union B, n), source, of)
        /\ EntriesOf(Written(d, (d.journal \ A) \union B, n), source, of)
             = (EntriesOf(d, source, of) \ A) \union B
        /\ Written(d, (d.journal \ A) \union B, n).lastEntry = n
    BY <2>1, <2>2, ReplacesEntries
  <2>4. (d.journal \ A) \union B = journal /\ (E \ A) \union B = (E \ {}) \union {new}
    BY DEF A, B
  <2> HIDE DEF journal
  <2> QED BY <2>3, <2>4
<1>6. new \notin E
  <2>1. \A x \in E : x.id # n BY <1>1 DEF EntriesOf, Ledger, Journaled
  <2> QED BY <1>2, <2>1
<1> QED BY <1>2, <1>3, <1>5, <1>6 DEF new

LEMMA DeleteTakes ==
  ASSUME NEW d, Ledger(d), NEW source, NEW of, NEW x \in EntriesOf(d, source, of)
  PROVE  LET d2 == DeleteCascade(d, x)
         IN  /\ Changes(d, d2, source, of)
             /\ EntriesOf(d2, source, of) = EntriesOf(d, source, of) \ {x}
<1> DEFINE journal == (d.journal \ {x}) \union {}
<1>1. DeleteCascade(d, x) = Written(d, journal, d.lastEntry)
  <2>1. d \in Database BY DEF Ledger
  <2> QED BY <2>1 DEF DeleteCascade, Database, Written
<1>2. Journaled(journal, d.lastEntry)
  <2>1. journal \subseteq d.journal OBVIOUS
  <2>2. IsFiniteSet(journal)
    <3>1. journal = d.journal \ {x} OBVIOUS
    <3> QED BY <3>1, FS_RemoveElement DEF Ledger, Journaled
  <2> HIDE DEF journal
  <2> QED BY <2>1, <2>2 DEF Ledger, Journaled
<1>3. {x} \subseteq EntriesOf(d, source, of) OBVIOUS
<1> DEFINE d2 == Written(d, journal, d.lastEntry)
<1>4. /\ Changes(d, d2, source, of)
      /\ EntriesOf(d2, source, of) = EntriesOf(d, source, of) \ {x}
  <2> DEFINE A == {x}
             B == {}
  <2>1. A \subseteq EntriesOf(d, source, of) /\ Keyed(B, source, of)
    BY <1>3 DEF Keyed
  <2>2. Journaled((d.journal \ A) \union B, d.lastEntry) BY <1>2
  <2> HIDE DEF A, B
  <2>3. /\ Changes(d, Written(d, (d.journal \ A) \union B, d.lastEntry), source, of)
        /\ EntriesOf(Written(d, (d.journal \ A) \union B, d.lastEntry), source, of)
             = (EntriesOf(d, source, of) \ A) \union B
    BY <2>1, <2>2, ReplacesEntries
  <2>4. /\ (d.journal \ A) \union B = journal
        /\ (EntriesOf(d, source, of) \ A) \union B = EntriesOf(d, source, of) \ {x}
    BY DEF A, B
  <2> HIDE DEF journal
  <2> QED BY <2>3, <2>4
<1> HIDE DEF d2
<1> QED BY <1>1, <1>4 DEF d2

Rewritten(x, text, lines) == [x EXCEPT !.text = text, !.lines = lines]

LEMMA UpdateReplaces ==
  ASSUME NEW d, Ledger(d), NEW source, NEW of, NEW x \in EntriesOf(d, source, of),
         NEW text \in Texts, NEW lines \in LinesSet
  PROVE  LET d2 == UpdateInPlace(d, x, text, lines)
             y == Rewritten(x, text, lines)
         IN  /\ Changes(d, d2, source, of)
             /\ EntriesOf(d2, source, of) = (EntriesOf(d, source, of) \ {x}) \union {y}
             /\ y \in Entry /\ y.id = x.id /\ y.locked = x.locked
             /\ y.text = text /\ y.lines = lines
<1> DEFINE y == Rewritten(x, text, lines)
           journal == (d.journal \ {x}) \union {y}
<1>0. x \in d.journal /\ x.source = source /\ x.of = of /\ x \in Entry
  BY DEF EntriesOf, Ledger, Journaled
<1>1. UpdateInPlace(d, x, text, lines) = Written(d, journal, d.lastEntry)
  <2>1. d \in Database BY DEF Ledger
  <2> QED BY <2>1 DEF UpdateInPlace, Database, Written, Rewritten
<1>2. /\ y \in Entry /\ y.id = x.id /\ y.source = source /\ y.of = of
      /\ y.locked = x.locked /\ y.text = text /\ y.lines = lines
  BY <1>0 DEF Entry, Rewritten
<1> HIDE DEF y
<1>3. Journaled(journal, d.lastEntry)
  <2>1. IsFiniteSet(journal) BY FS_RemoveElement, FS_AddElement DEF Ledger, Journaled
  <2>2. journal \subseteq d.journal \union {y} OBVIOUS
  <2>3. \A z \in journal : z \in Entry /\ z.id \in 1..d.lastEntry /\ IsKey(z.source, z.of)
    BY <1>0, <1>2 DEF Ledger, Journaled
  <2>4. \A z, u \in journal : z.id = u.id => z = u
    BY <1>0, <1>2 DEF Ledger, Journaled
  <2>5. d.lastEntry \in Nat BY DEF Ledger, Journaled
  <2> HIDE DEF journal
  <2> QED BY <2>1, <2>3, <2>4, <2>5 DEF Journaled
<1>4. {x} \subseteq EntriesOf(d, source, of) /\ \A z \in {y} : z.source = source /\ z.of = of
  BY <1>2
<1> DEFINE d2 == Written(d, journal, d.lastEntry)
<1>5. /\ Changes(d, d2, source, of)
      /\ EntriesOf(d2, source, of) = (EntriesOf(d, source, of) \ {x}) \union {y}
  <2> DEFINE A == {x}
             B == {y}
  <2>1. A \subseteq EntriesOf(d, source, of) /\ Keyed(B, source, of)
    BY <1>4 DEF Keyed
  <2>2. Journaled((d.journal \ A) \union B, d.lastEntry) BY <1>3
  <2> HIDE DEF A, B
  <2>3. /\ Changes(d, Written(d, (d.journal \ A) \union B, d.lastEntry), source, of)
        /\ EntriesOf(Written(d, (d.journal \ A) \union B, d.lastEntry), source, of)
             = (EntriesOf(d, source, of) \ A) \union B
    BY <2>1, <2>2, ReplacesEntries
  <2> QED BY <2>3 DEF A, B
<1> QED BY <1>1, <1>2, <1>5 DEF y

(***************************************************************************)
(* ORDER BY id DESC LIMIT 1.                                               *)
(***************************************************************************)
LEMMA LatestIsThere ==
  ASSUME NEW d, Ledger(d), NEW source, NEW of, EntriesOf(d, source, of) # {}
  PROVE  LET E == EntriesOf(d, source, of)
         IN  Latest(E) \in E /\ \A x \in E : x.id <= Latest(E).id
<1> DEFINE E == EntriesOf(d, source, of)
           n == d.lastEntry
           T == {x.id : x \in E}
<1>1. IsFiniteSet(E) /\ \A x \in E : x.id \in Nat
  <2>1. E \in SUBSET E OBVIOUS
  <2> QED BY <2>1, KeyedEntries
<1>2. T \subseteq Nat /\ T # {} BY <1>1
<1>3. IsFiniteSet(T)
  <2> DEFINE f == [x \in E |-> x.id]
  <2>1. f \in Surjection(E, T) BY DEF Surjection
  <2> HIDE DEF f, T, E
  <2> QED BY <1>1, <2>1, FS_Surjection
<1>4. PICK v \in T : \A w \in T : w <= v
  <2> HIDE DEF T
  <2> QED BY <1>2, <1>3, GreatestOf
<1>5. PICK x \in E : x.id = v OBVIOUS
<1>6. \A y \in E : y.id <= x.id BY <1>4, <1>5
<1> HIDE DEF E
<1> QED BY <1>6 DEF Latest, E

\* No two entries have one id.
LEMMA LatestIs ==
  ASSUME NEW d, Ledger(d), NEW source, NEW of, NEW x \in EntriesOf(d, source, of),
         \A y \in EntriesOf(d, source, of) : y.id <= x.id
  PROVE  Latest(EntriesOf(d, source, of)) = x
<1> DEFINE E == EntriesOf(d, source, of)
           l == Latest(E)
<1>1. E # {} OBVIOUS
<1>2. l \in E /\ \A y \in E : y.id <= l.id
  <2> HIDE DEF E
  <2> QED BY <1>1, LatestIsThere DEF E
<1>3. l.id \in Nat /\ x.id \in Nat
  <2>1. E \in SUBSET E OBVIOUS
  <2> HIDE DEF l
  <2> QED BY <1>2, <2>1, KeyedEntries
<1>4. l.id = x.id
  <2>1. x.id <= l.id /\ l.id <= x.id BY <1>2
  <2> HIDE DEF l
  <2> QED BY <1>3, <2>1
<1>5. l \in d.journal /\ x \in d.journal BY <1>2 DEF EntriesOf
<1> HIDE DEF l, E
<1> QED BY <1>4, <1>5 DEF Ledger, Journaled, l, E

-----------------------------------------------------------------------------
(***************************************************************************)
(* Sums of entries.                                                        *)
(***************************************************************************)
On(S, a) == [x \in S |-> x.lines[a]]

\* NetOf is the library's sum of the column.
LEMMA NetIs ==
  ASSUME NEW S, IsFiniteSet(S), NEW a
  PROVE  NetOf(S, a) = SumFunctionOnSet(On(S, a), S)
<1>1. NetOf(S, a) = (CHOOSE g : SumStep(On(S, a), S, g))[S]
  BY DEF NetOf, MapThenSumSet, MapThenFoldSet, SumStep, Pick, On
<1>2. SumFunctionOnSet(On(S, a), S) = (CHOOSE g : SumStep(On(S, a), S, g))[S]
  BY DEF SumFunctionOnSet, FoldFunctionOnSet, MapThenFoldSet, SumStep, Pick
<1> QED BY <1>1, <1>2

LEMMA NetNone == ASSUME NEW a PROVE NetOf({}, a) = 0
BY NetIs, SumOfNone, FS_EmptySet

LEMMA WholeLines ==
  ASSUME NEW S, S \subseteq Entry, NEW a \in Accounts
  PROVE  \A x \in S : x.lines[a] \in Int /\ On(S, a)[x] = x.lines[a]
BY DEF Entry, LinesSet, On

LEMMA NetInt ==
  ASSUME NEW S, S \subseteq Entry, IsFiniteSet(S), NEW a \in Accounts
  PROVE  NetOf(S, a) \in Int
<1>1. \A x \in S : On(S, a)[x] \in Int BY WholeLines
<1> QED BY <1>1, NetIs, SumInt

\* With one entry more.
LEMMA NetAdd ==
  ASSUME NEW S, S \subseteq Entry, IsFiniteSet(S), NEW x \in Entry, x \notin S,
         NEW a \in Accounts
  PROVE  NetOf(S \union {x}, a) = x.lines[a] + NetOf(S, a)
<1> DEFINE T == S \union {x}
           f == On(T, a)
<1>1. IsFiniteSet(T) /\ T \subseteq Entry BY FS_AddElement
<1>2. NetOf(T, a) = SumFunctionOnSet(f, T) BY <1>1, NetIs
<1>3. \A y \in T : f[y] \in Int BY <1>1, WholeLines
<1>4. SumFunctionOnSet(f, T) = f[x] + SumFunctionOnSet(f, S)
  <2> HIDE DEF f
  <2> QED BY <1>3, SumAdd
<1>5. SumFunctionOnSet(f, S) = SumFunctionOnSet(On(S, a), S)
  <2>1. \A y \in S : f[y] = On(S, a)[y] BY DEF On
  <2> HIDE DEF f
  <2> QED BY <2>1, SumEqual
<1>6. f[x] = x.lines[a] BY DEF On
<1>7. NetOf(S, a) = SumFunctionOnSet(On(S, a), S) BY NetIs
<1> HIDE DEF f, T
<1> QED BY <1>2, <1>4, <1>5, <1>6, <1>7 DEF T

LEMMA NetWithout ==
  ASSUME NEW S, S \subseteq Entry, IsFiniteSet(S), NEW x \in S, NEW a \in Accounts
  PROVE  NetOf(S, a) = x.lines[a] + NetOf(S \ {x}, a)
<1> DEFINE T == S \ {x}
<1>1. T \subseteq Entry /\ IsFiniteSet(T) /\ x \notin T /\ x \in Entry
  BY FS_RemoveElement
<1>2. S = T \union {x} OBVIOUS
<1> HIDE DEF T
<1>3. NetOf(T \union {x}, a) = x.lines[a] + NetOf(T, a) BY <1>1, NetAdd
<1> QED BY <1>2, <1>3 DEF T

\* Locking changes no line, and no id.
Lock(x) == [x EXCEPT !.locked = TRUE]

LEMMA LockIs ==
  ASSUME NEW x \in Entry
  PROVE  /\ Lock(x) \in Entry /\ Lock(x).id = x.id /\ Lock(x).source = x.source
         /\ Lock(x).of = x.of /\ Lock(x).text = x.text /\ Lock(x).lines = x.lines
         /\ Lock(x).locked
BY DEF Entry, Lock

LEMMA LockedImage ==
  ASSUME NEW S, IsFiniteSet(S)
  PROVE  IsFiniteSet({Lock(x) : x \in S})
<1> DEFINE T == {Lock(x) : x \in S}
           f == [x \in S |-> Lock(x)]
<1>1. f \in Surjection(S, T) BY DEF Surjection
<1> HIDE DEF f, T
<1> QED BY <1>1, FS_Surjection DEF T

DistinctIds(S) == \A x, y \in S : x.id = y.id => x = y

LEMMA NetOfLocked ==
  ASSUME NEW S, S \subseteq Entry, IsFiniteSet(S), DistinctIds(S), NEW a \in Accounts
  PROVE  NetOf({Lock(x) : x \in S}, a) = NetOf(S, a)
<1> DEFINE T == {Lock(x) : x \in S}
           h == [x \in S |-> Lock(x)]
<1>1. IsFiniteSet(T) BY LockedImage
<1>2. h \in [S -> T] /\ \A t \in T : \E x \in S : t = h[x] OBVIOUS
<1>3. \A x, y \in S : h[x] = h[y] => x = y
  <2>1. \A x \in S : h[x].id = x.id BY LockIs
  <2> HIDE DEF h
  <2> QED BY <2>1 DEF DistinctIds
<1>4. \A x \in S : On(S, a)[x] \in Int /\ On(T, a)[h[x]] = On(S, a)[x]
  <2>1. \A x \in S : h[x] \in T /\ h[x].lines = x.lines BY LockIs
  <2>2. \A x \in S : On(T, a)[h[x]] = h[x].lines[a] BY <2>1 DEF On
  <2> HIDE DEF h, T
  <2> QED BY <2>1, <2>2, WholeLines
<1>5. SumFunctionOnSet(On(T, a), T) = SumFunctionOnSet(On(S, a), S)
  <2> HIDE DEF h, T
  <2> QED BY <1>2, <1>3, <1>4, SumImage
<1> HIDE DEF T
<1> QED BY <1>1, <1>5, NetIs DEF T

-----------------------------------------------------------------------------
(***************************************************************************)
(* In order: the latest entry stands, and the others, reversals among them,*)
(* come to nothing.  Corrections are only of closed entries.               *)
(***************************************************************************)
Rests(E) == \A a \in Accounts : NetOf(E, a) = 0

IsCorrected(E) == \E x \in E : x.text = "reversal"

Orderly(E) ==
  E # {} => /\ Latest(E).text # "reversal"
            /\ E = {Latest(E)} \/ (IsCorrected(E) /\ \E x \in E : x.locked)
            /\ Rests(E \ {Latest(E)})

StandsAs(E, lines) == E # {} /\ Orderly(E) /\ Latest(E).lines = lines

LEMMA NoneRests == Rests({})
BY NetNone DEF Rests

\* What is taken back leaves nothing but what a closed period keeps.
Gone(E) == Rests(E) /\ (E = {} \/ \E x \in E : x.locked)

LEMMA NoneGone == Gone({})
BY NoneRests DEF Gone

LEMMA NoneOrderly == Orderly({})
BY DEF Orderly

\* What stands comes to the lines of the latest entry.
LEMMA StandingNet ==
  ASSUME NEW d, Ledger(d), NEW source, NEW of, NEW lines \in LinesSet,
         StandsAs(EntriesOf(d, source, of), lines), NEW a \in Accounts
  PROVE  NetOf(EntriesOf(d, source, of), a) = lines[a]
<1> DEFINE E == EntriesOf(d, source, of)
           l == Latest(E)
<1>1. E # {} /\ l.lines = lines /\ NetOf(E \ {l}, a) = 0
  BY DEF StandsAs, Orderly, Rests
<1>2. l \in E BY <1>1, LatestIsThere
<1>3. E \subseteq Entry /\ IsFiniteSet(E)
  <2>1. E \in SUBSET E OBVIOUS
  <2> QED BY <2>1, KeyedEntries
<1>4. NetOf(E, a) = l.lines[a] + NetOf(E \ {l}, a)
  <2> HIDE DEF E, l
  <2> QED BY <1>2, <1>3, NetWithout
<1>5. lines[a] \in Int BY DEF LinesSet
<1> HIDE DEF E, l
<1> QED BY <1>1, <1>4, <1>5 DEF E

\* The latest entry of an orderly set, when it is closed, is reversed.
LEMMA ReverseRests ==
  ASSUME NEW d, Ledger(d), NEW source, NEW of, IsKey(source, of),
         EntriesOf(d, source, of) # {}, Orderly(EntriesOf(d, source, of))
  PROVE  LET l == Latest(EntriesOf(d, source, of))
             d2 == Reverse(d, l)
             E2 == EntriesOf(d2, source, of)
         IN  /\ Changes(d, d2, source, of) /\ Rests(E2)
             /\ l \in E2 /\ IsCorrected(E2) /\ d2.lastEntry = d.lastEntry + 1
<1> DEFINE E == EntriesOf(d, source, of)
           l == Latest(E)
           lines == [a \in Accounts |-> -l.lines[a]]
           new == New(d, source, of, "reversal", lines)
           d2 == Reverse(d, l)
           E2 == EntriesOf(d2, source, of)
<1>1. l \in E BY LatestIsThere
<1>2. E \subseteq Entry /\ IsFiniteSet(E) /\ l.source = source /\ l.of = of
  <2>1. E \in SUBSET E OBVIOUS
  <2> QED BY <1>1, <2>1, KeyedEntries
<1>3. l \in Entry BY <1>1, <1>2
<1>4. l.lines \in LinesSet BY <1>3 DEF Entry
<1>5. lines \in LinesSet /\ "reversal" \in Texts BY <1>4 DEF LinesSet, Texts
<1>6. d2 = Insert(d, source, of, "reversal", lines)
  <2> HIDE DEF E
  <2> QED BY <1>2 DEF Reverse
<1>7. /\ Changes(d, d2, source, of) /\ E2 = E \union {new}
      /\ new \in Entry /\ new \notin E /\ d2.lastEntry = d.lastEntry + 1
  <2> HIDE DEF lines, d2, l
  <2> QED BY <1>5, <1>6, InsertAdds
<1>8. new.text = "reversal" /\ new.lines = lines BY DEF New
<1>9. ASSUME NEW a \in Accounts PROVE NetOf(E2, a) = 0
  <2>1. NetOf(E, a) = l.lines[a] + NetOf(E \ {l}, a)
    <3> HIDE DEF E, l
    <3> QED BY <1>1, <1>2, NetWithout
  <2>2. NetOf(E \ {l}, a) = 0 BY DEF Orderly, Rests
  <2>3. NetOf(E2, a) = new.lines[a] + NetOf(E, a)
    <3> HIDE DEF E, new, E2
    <3> QED BY <1>2, <1>7, NetAdd
  <2>4. l.lines[a] \in Int /\ new.lines[a] = -l.lines[a] BY <1>4, <1>8 DEF LinesSet
  <2> HIDE DEF E, l, new, E2
  <2> QED BY <2>1, <2>2, <2>3, <2>4
<1>10. l \in E2 /\ IsCorrected(E2) BY <1>1, <1>7, <1>8 DEF IsCorrected
<1> HIDE DEF E2, d2
<1> QED BY <1>7, <1>9, <1>10 DEF Rests, E2, d2

\* A sync makes the entries stand as they should.
LEMMA ResyncStands ==
  ASSUME NEW d, Ledger(d), NEW source \in Sources, NEW of, IsKey(source, of),
         Orderly(EntriesOf(d, source, of)), NEW lines \in LinesSet
  PROVE  LET d2 == Resync(d, source, of, lines)
         IN  /\ Changes(d, d2, source, of)
             /\ StandsAs(EntriesOf(d2, source, of), lines)
<1> DEFINE E == EntriesOf(d, source, of)
           l == Latest(E)
           d2 == Resync(d, source, of, lines)
           E2 == EntriesOf(d2, source, of)
<1>0. source \in Texts /\ source # "reversal" BY DEF Sources, Texts
<1>1. CASE E = {}
  <2> DEFINE new == New(d, source, of, source, lines)
  <2>1. d2 = Insert(d, source, of, source, lines) BY <1>1 DEF Resync
  <2>2. /\ Changes(d, d2, source, of) /\ E2 = E \union {new}
    <3> HIDE DEF d2
    <3> QED BY <1>0, <2>1, InsertAdds
  <2>3. E2 = {new} BY <1>1, <2>2
  <2>4. new.text = source /\ new.lines = lines BY DEF New
  <2> HIDE DEF new, E2
  <2>5. Latest(E2) = new
    <3>1. Latest(E2) \in E2 BY <2>2, <2>3, LatestIsThere DEF E2, Changes
    <3> QED BY <2>3, <3>1
  <2>6. E2 \ {Latest(E2)} = {} BY <2>3, <2>5
  <2> QED BY <1>0, <2>2, <2>3, <2>4, <2>5, <2>6, NoneRests DEF StandsAs, Orderly, E2
<1>2. CASE E # {} /\ l.locked
  <2> DEFINE d1 == Reverse(d, l)
             E1 == EntriesOf(d1, source, of)
             new == New(d1, source, of, source, lines)
  <2>1. d2 = Insert(d1, source, of, source, lines) BY <1>2 DEF Resync
  <2>2. /\ Changes(d, d1, source, of) /\ Rests(E1) /\ l \in E1 /\ IsCorrected(E1)
    BY <1>2, ReverseRests
  <2>3. Ledger(d1) BY <2>2 DEF Changes
  <2>4. /\ Changes(d1, d2, source, of) /\ E2 = E1 \union {new} /\ new \notin E1
    <3> HIDE DEF d2, d1
    <3> QED BY <1>0, <2>1, <2>3, InsertAdds
  <2>5. Changes(d, d2, source, of) /\ Ledger(d2)
    <3> HIDE DEF d1, d2
    <3> QED BY <2>2, <2>4, ChangesThrough DEF Changes
  <2>6. /\ new.text = source /\ new.lines = lines /\ new.id = d1.lastEntry + 1 BY DEF New
  <2>7. \A x \in E1 : x.id \in Nat /\ x.id <= d1.lastEntry
    <3>1. E1 \in SUBSET E1 OBVIOUS
    <3> HIDE DEF d1
    <3> QED BY <2>3, <3>1, KeyedEntries
  <2>8. d1.lastEntry \in Nat BY <2>3 DEF Ledger, Journaled
  <2>9. new \in E2 /\ \A x \in E2 : x.id <= new.id
    <3> HIDE DEF d1, new, E1, E2
    <3> QED BY <2>4, <2>6, <2>7, <2>8
  <2>10. Latest(E2) = new
    <3> HIDE DEF new, d2
    <3> QED BY <2>5, <2>9, LatestIs
  <2> HIDE DEF l, new, E1, E2, d1, d2
  <2>11. E2 \ {new} = E1 BY <2>4
  <2>12. IsCorrected(E2) /\ \E x \in E2 : x.locked BY <1>2, <2>2, <2>4 DEF IsCorrected
  <2>13. StandsAs(E2, lines)
    BY <1>0, <2>2, <2>6, <2>9, <2>10, <2>11, <2>12 DEF StandsAs, Orderly
  <2> QED BY <2>5, <2>13 DEF E2, d2
<1>3. CASE E # {} /\ ~l.locked
  <2> DEFINE y == Rewritten(l, source, lines)
  <2>1. d2 = UpdateInPlace(d, l, source, lines) BY <1>3 DEF Resync
  <2>2. l \in E /\ \A x \in E : x.id <= l.id BY <1>3, LatestIsThere
  <2>3. /\ Changes(d, d2, source, of) /\ E2 = (E \ {l}) \union {y}
        /\ y.id = l.id /\ y.text = source /\ y.lines = lines
    <3> DEFINE u == UpdateInPlace(d, l, source, lines)
    <3>1. l \in EntriesOf(d, source, of) BY <2>2
    <3> HIDE DEF l
    <3>2. /\ Changes(d, u, source, of)
          /\ EntriesOf(u, source, of) = (EntriesOf(d, source, of) \ {l}) \union {y}
          /\ y.id = l.id /\ y.text = source /\ y.lines = lines
      BY <1>0, <3>1, UpdateReplaces
    <3>3. d2 = u BY <2>1
    <3> HIDE DEF u, y, d2
    <3> QED BY <3>2, <3>3
  <2>4. Ledger(d2) BY <2>3 DEF Changes
  <2>5. \A x \in E2 : x.id <= y.id
    <3>1. l.id \in Nat
      <4>1. E \in SUBSET E OBVIOUS
      <4> HIDE DEF l
      <4> QED BY <2>2, <4>1, KeyedEntries
    <3> HIDE DEF E, E2, l, y
    <3> QED BY <2>2, <2>3, <3>1
  <2>6. Latest(E2) = y
    <3>1. y \in E2 BY <2>3
    <3> HIDE DEF y, d2
    <3> QED BY <2>4, <2>5, <3>1, LatestIs
  <2>7. \A x, z \in E : x.id = z.id => x = z BY DEF EntriesOf, Ledger, Journaled
  <2>8. Orderly(E) OBVIOUS
  <2> HIDE DEF E, l, y, E2, d2
  <2>9. E2 \ {y} = E \ {l} BY <2>2, <2>3, <2>7
  <2>10. E2 = {y} \/ (IsCorrected(E2) /\ \E x \in E2 : x.locked)
    <3>1. CASE E = {l} BY <2>3, <3>1
    <3>2. CASE IsCorrected(E) /\ \E x \in E : x.locked
      <4>1. l.text # "reversal" BY <1>3, <2>8 DEF Orderly, l
      <4> QED BY <1>3, <2>3, <3>2, <4>1 DEF IsCorrected
    <3> QED BY <1>3, <2>8, <3>1, <3>2 DEF Orderly, l
  <2>11. Rests(E \ {l}) BY <1>3, <2>8 DEF Orderly, l
  <2>12. StandsAs(E2, lines)
    <3>1. E2 # {} BY <2>3
    <3> QED BY <1>0, <2>3, <2>6, <2>9, <2>10, <2>11, <3>1 DEF StandsAs, Orderly
  <2> QED BY <2>3, <2>12 DEF E2, d2
<1> QED BY <1>1, <1>2, <1>3

\* What is taken back comes to nothing.
LEMMA UnsyncGone ==
  ASSUME NEW d, Ledger(d), NEW source \in Sources, NEW of, IsKey(source, of),
         Orderly(EntriesOf(d, source, of))
  PROVE  LET d2 == Unsync(d, source, of)
         IN  /\ Changes(d, d2, source, of)
             /\ Gone(EntriesOf(d2, source, of))
<1> DEFINE E == EntriesOf(d, source, of)
           l == Latest(E)
<1>1. CASE E = {}
  <2>1. Unsync(d, source, of) = d BY <1>1 DEF Unsync
  <2> QED BY <1>1, <2>1, ChangesNothing, NoneGone
<1>2. CASE E # {} /\ l.locked
  <2>1. Unsync(d, source, of) = Reverse(d, l) BY <1>2 DEF Unsync, ReverseOrDelete
  <2> QED BY <1>2, <2>1, ReverseRests DEF Gone
<1>3. CASE E # {} /\ ~l.locked
  <2>1. Unsync(d, source, of) = DeleteCascade(d, l) BY <1>3 DEF Unsync, ReverseOrDelete
  <2>2. l \in E BY <1>3, LatestIsThere
  <2>3. /\ Changes(d, DeleteCascade(d, l), source, of)
        /\ EntriesOf(DeleteCascade(d, l), source, of) = E \ {l}
    <3> HIDE DEF l
    <3> QED BY <2>2, DeleteTakes
  <2>4. Gone(E \ {l}) BY <1>3 DEF Orderly, Gone
  <2> QED BY <2>1, <2>3, <2>4
<1> QED BY <1>1, <1>2, <1>3

-----------------------------------------------------------------------------
(***************************************************************************)
(* Closing a period.                                                       *)
(***************************************************************************)
LEMMA LockKeeps ==
  ASSUME NEW d, Ledger(d)
  PROVE  LET d2 == LockRange(d)
         IN  /\ Ledger(d2) /\ d2.events = d.events /\ d2.missed = d.missed
             /\ d2.lost = d.lost
             /\ \A s, o : EntriesOf(d2, s, o) = {Lock(x) : x \in EntriesOf(d, s, o)}
<1> DEFINE J == d.journal
           journal == {Lock(x) : x \in J}
           d2 == LockRange(d)
<1>1. d2 = Written(d, journal, d.lastEntry)
  <2>1. d \in Database BY DEF Ledger
  <2> QED BY <2>1 DEF LockRange, Database, Written, Lock
<1>2. J \subseteq Entry /\ IsFiniteSet(J) BY DEF Ledger, Journaled
<1>3. \A x \in J : /\ Lock(x) \in Entry /\ Lock(x).id = x.id /\ Lock(x).source = x.source
                   /\ Lock(x).of = x.of
  BY <1>2, LockIs
<1>4. Journaled(journal, d.lastEntry)
  <2>1. IsFiniteSet(journal) BY <1>2, LockedImage
  <2>2. \A x \in J : x.id \in 1..d.lastEntry /\ IsKey(x.source, x.of)
    BY DEF Ledger, Journaled
  <2>3. \A x, y \in J : x.id = y.id => x = y BY DEF Ledger, Journaled
  <2>4. \A z \in journal : z \in Entry /\ z.id \in 1..d.lastEntry /\ IsKey(z.source, z.of)
    BY <1>3, <2>2
  <2>5. \A z, u \in journal : z.id = u.id => z = u BY <1>3, <2>3
  <2>6. d.lastEntry \in Nat BY DEF Ledger, Journaled
  <2> HIDE DEF journal
  <2> QED BY <2>1, <2>4, <2>5, <2>6 DEF Journaled
<1>5. /\ Ledger(d2) /\ d2.events = d.events /\ d2.missed = d.missed
      /\ d2.lost = d.lost /\ d2.journal = journal
  <2> HIDE DEF journal, d2
  <2> QED BY <1>1, <1>4, NewJournal
<1>6. ASSUME NEW s, NEW o
      PROVE  EntriesOf(d2, s, o) = {Lock(x) : x \in EntriesOf(d, s, o)}
  <2> HIDE DEF d2
  <2> QED BY <1>3, <1>5 DEF EntriesOf
<1> HIDE DEF d2
<1> QED BY <1>5, <1>6 DEF d2

LEMMA LockedStay ==
  ASSUME NEW d, Ledger(d), NEW source, NEW of
  PROVE  LET E == EntriesOf(d, source, of)
             E2 == EntriesOf(LockRange(d), source, of)
         IN  /\ E2 = {} <=> E = {}
             /\ IsCorrected(E2) <=> IsCorrected(E)
             /\ Gone(E) => Gone(E2)
             /\ Orderly(E) => Orderly(E2)
             /\ \A lines : StandsAs(E, lines) => StandsAs(E2, lines)
<1> DEFINE E == EntriesOf(d, source, of)
           d2 == LockRange(d)
           E2 == EntriesOf(d2, source, of)
           l == Latest(E)
<1>1. E2 = {Lock(x) : x \in E} /\ Ledger(d2)
  <2> HIDE DEF E, E2
  <2> QED BY LockKeeps DEF E, E2
<1>2. E \subseteq Entry /\ IsFiniteSet(E)
  <2>1. E \in SUBSET E OBVIOUS
  <2> QED BY <2>1, KeyedEntries
<1>3. \A x \in E : /\ Lock(x) \in E2 /\ Lock(x).id = x.id /\ Lock(x).text = x.text
                   /\ Lock(x).lines = x.lines /\ Lock(x).locked
  <2> HIDE DEF E, E2
  <2> QED BY <1>1, <1>2, LockIs
<1>4. \A x, y \in E : x.id = y.id => x = y BY DEF EntriesOf, Ledger, Journaled
<1>5. E # {} => l \in E /\ \A x \in E : x.id <= l.id BY LatestIsThere
<1>6. E # {} => Latest(E2) = Lock(l)
  <2> SUFFICES ASSUME E # {} PROVE Latest(E2) = Lock(l) OBVIOUS
  <2>1. Lock(l) \in E2 /\ \A y \in E2 : y.id <= Lock(l).id
    <3> HIDE DEF E, E2, l
    <3> QED BY <1>1, <1>3, <1>5
  <2> HIDE DEF l, d2
  <2> QED BY <1>1, <2>1, LatestIs
<1>7. ASSUME NEW S \in SUBSET E, Rests(S) PROVE Rests({Lock(x) : x \in S})
  <2>1. S \subseteq Entry /\ IsFiniteSet(S) /\ DistinctIds(S)
    <3> HIDE DEF E
    <3> QED BY <1>2, <1>4, FS_Subset DEF DistinctIds
  <2>2. ASSUME NEW a \in Accounts PROVE NetOf({Lock(x) : x \in S}, a) = 0
    BY <1>7, <2>1, NetOfLocked DEF Rests
  <2> QED BY <2>2 DEF Rests
<1>8. E # {} => E2 \ {Lock(l)} = {Lock(x) : x \in E \ {l}}
  <2> HIDE DEF E, E2, l
  <2> QED BY <1>1, <1>3, <1>4, <1>5
<1>9. Gone(E) => Gone(E2)
  <2>1. E \in SUBSET E OBVIOUS
  <2> HIDE DEF E, E2
  <2>2. Rests(E) => Rests(E2) BY <1>1, <1>7, <2>1
  <2> QED BY <1>1, <1>3, <2>2 DEF Gone
<1>10. Orderly(E) => Orderly(E2)
  <2> SUFFICES ASSUME Orderly(E), E2 # {} PROVE Orderly(E2) BY DEF Orderly
  <2> HIDE DEF E, E2, l
  <2>1. E # {} BY <1>1
  <2>2. /\ l.text # "reversal" /\ Rests(E \ {l})
        /\ E = {l} \/ (IsCorrected(E) /\ \E x \in E : x.locked)
    BY <2>1 DEF Orderly, l
  <2>3. Rests(E2 \ {Lock(l)})
    <3>1. E \ {l} \in SUBSET E OBVIOUS
    <3> QED BY <1>7, <1>8, <2>1, <2>2, <3>1
  <2>4. Lock(l).text # "reversal" BY <1>3, <1>5, <2>1, <2>2
  <2>5. E2 = {Lock(l)} \/ (IsCorrected(E2) /\ \E x \in E2 : x.locked)
    <3>1. CASE E = {l} BY <1>1, <3>1
    <3>2. CASE IsCorrected(E) /\ \E x \in E : x.locked BY <1>3, <3>2 DEF IsCorrected
    <3> QED BY <2>2, <3>1, <3>2
  <2> QED BY <1>6, <2>1, <2>3, <2>4, <2>5 DEF Orderly
<1>11. IsCorrected(E2) <=> IsCorrected(E)
  <2> HIDE DEF E, E2
  <2> QED BY <1>1, <1>3 DEF IsCorrected
<1>12. E2 = {} <=> E = {} BY <1>1
<1>13. ASSUME NEW lines, StandsAs(E, lines) PROVE StandsAs(E2, lines)
  <2> HIDE DEF E, E2
  <2> QED BY <1>3, <1>5, <1>6, <1>10, <1>12, <1>13 DEF StandsAs, l
<1> HIDE DEF E, E2
<1> QED BY <1>9, <1>10, <1>11, <1>12, <1>13 DEF E, E2

-----------------------------------------------------------------------------
(***************************************************************************)
(* Expenses and settlements.                                               *)
(***************************************************************************)
LEMMA AccountsAre ==
  /\ "expense" \in Accounts /\ "asset" \in Accounts /\ Vendors \subseteq Accounts
  /\ "expense" \notin Vendors /\ "asset" \notin Vendors
BY ExpensesAssumption DEF ExpenseAccounts

LEMMA MovementIs ==
  ASSUME NEW debit \in Accounts, NEW credit \in Accounts, debit # credit, NEW amount \in Nat
  PROVE  LET m == Movement(debit, credit, amount)
         IN  /\ m \in LinesSet /\ m[debit] = amount /\ m[credit] = -amount
             /\ \A a \in Accounts : a # debit /\ a # credit => m[a] = 0
BY DEF Movement, Lines, LinesSet

ExpenseLines(v) == Movement("expense", v.by, v.amount)

LEMMA ExpenseLinesAre ==
  ASSUME NEW v \in Row
  PROVE  /\ ExpenseLines(v) \in LinesSet /\ ExpenseLines(v)["expense"] = v.amount
         /\ \A vendor \in Vendors :
              ExpenseLines(v)[vendor] = IF v.by = vendor THEN -v.amount ELSE 0
<1>1. /\ "expense" \in Accounts /\ v.by \in Accounts /\ "expense" # v.by /\ v.amount \in Nat
      /\ \A vendor \in Vendors : vendor \in Accounts /\ vendor # "expense"
  BY AccountsAre DEF Row
<1> QED BY <1>1, MovementIs DEF ExpenseLines

SettlementLines(v, n) == Movement(v.by, "asset", v.settlements[n].amount)

LEMMA SettlementLinesAre ==
  ASSUME NEW v \in Row, IsDebt(v), NEW n \in DOMAIN v.settlements
  PROVE  /\ SettlementLines(v, n) \in LinesSet
         /\ \A vendor \in Vendors :
              SettlementLines(v, n)[vendor]
                = IF v.by = vendor THEN v.settlements[n].amount ELSE 0
<1>1. /\ "asset" \in Accounts /\ v.by \in Accounts /\ "asset" # v.by
      /\ \A vendor \in Vendors : vendor \in Accounts /\ vendor # "asset"
  BY AccountsAre DEF Row, IsDebt
<1>2. v.settlements[n].amount \in Nat
  <2>1. v.settlements \in Seq(Settlement) BY DEF Row
  <2>2. v.settlements[n] \in Settlement BY <2>1
  <2> QED BY <2>2 DEF Settlement
<1> QED BY <1>1, <1>2, MovementIs DEF SettlementLines

\* As its event has it, or none when the category is not in the books.
BookedAs(E, v) == IF v.known THEN StandsAs(E, ExpenseLines(v)) ELSE E = {}

LEMMA BookedIsOrderly == ASSUME NEW E, NEW v, BookedAs(E, v) PROVE Orderly(E)
BY NoneOrderly DEF BookedAs, StandsAs

\* A sync books the expense; a closed one stays in the books.
LEMMA SyncBooks ==
  ASSUME NEW d, Ledger(d), NEW e \in Events, NEW v \in Row,
         Orderly(EntriesOf(d, "expense", e)),
         v.known \/ \A x \in EntriesOf(d, "expense", e) : ~x.locked
  PROVE  LET d2 == SyncExpense(d, e, v)
         IN  /\ Changes(d, d2, "expense", e)
             /\ BookedAs(EntriesOf(d2, "expense", e), v)
<1> DEFINE E == EntriesOf(d, "expense", e)
           d2 == SyncExpense(d, e, v)
<1>1. IsKey("expense", e) /\ "expense" \in Sources BY DEF IsKey, Sources
<1>2. CASE v.known
  <2>1. ExpenseLines(v) \in LinesSet BY ExpenseLinesAre
  <2>2. d2 = Resync(d, "expense", e, ExpenseLines(v))
    BY <1>2 DEF SyncExpense, ExpenseLines
  <2>3. /\ Changes(d, d2, "expense", e)
        /\ StandsAs(EntriesOf(d2, "expense", e), ExpenseLines(v))
    <3> HIDE DEF d2
    <3> QED BY <1>1, <2>1, <2>2, ResyncStands
  <2> QED BY <1>2, <2>3 DEF BookedAs
<1>3. CASE ~v.known /\ E = {}
  <2>1. d2 = d BY <1>3 DEF SyncExpense
  <2> QED BY <1>3, <2>1, ChangesNothing DEF BookedAs
<1>4. CASE ~v.known /\ E # {}
  <2> DEFINE l == Latest(E)
  <2>1. l \in E BY <1>4, LatestIsThere
  <2>2. E = {l} /\ ~l.locked
    <3>1. \A x \in E : ~x.locked BY <1>4
    <3>2. Orderly(E) OBVIOUS
    <3> HIDE DEF E
    <3> QED BY <1>4, <2>1, <3>1, <3>2 DEF Orderly
  <2>3. d2 = DeleteCascade(d, l) BY <1>4, <2>2 DEF SyncExpense
  <2>4. Changes(d, d2, "expense", e) /\ EntriesOf(d2, "expense", e) = E \ {l}
    <3> HIDE DEF d2, l
    <3> QED BY <2>1, <2>3, DeleteTakes
  <2>5. EntriesOf(d2, "expense", e) = {}
    <3> HIDE DEF d2, E
    <3> QED BY <2>2, <2>4
  <2> QED BY <1>4, <2>4, <2>5 DEF BookedAs
<1> QED BY <1>2, <1>3, <1>4

\* Whatever the entries with the key are, no other is touched.
LEMMA ReverseChanges ==
  ASSUME NEW d, Ledger(d), NEW source, NEW of, IsKey(source, of),
         NEW l \in EntriesOf(d, source, of)
  PROVE  Changes(d, Reverse(d, l), source, of)
<1> DEFINE lines == [a \in Accounts |-> -l.lines[a]]
<1>1. l \in Entry /\ l.source = source /\ l.of = of
  BY DEF EntriesOf, Ledger, Journaled
<1>2. lines \in LinesSet /\ "reversal" \in Texts BY <1>1 DEF Entry, LinesSet, Texts
<1>3. Reverse(d, l) = Insert(d, source, of, "reversal", lines) BY <1>1 DEF Reverse
<1> HIDE DEF lines
<1> QED BY <1>2, <1>3, InsertAdds

LEMMA UnsyncChanges ==
  ASSUME NEW d, Ledger(d), NEW source, NEW of, IsKey(source, of)
  PROVE  Changes(d, Unsync(d, source, of), source, of)
<1> DEFINE E == EntriesOf(d, source, of)
           l == Latest(E)
<1>1. CASE E = {} BY <1>1, ChangesNothing DEF Unsync
<1>2. CASE E # {}
  <2>1. l \in E BY <1>2, LatestIsThere
  <2>2. Unsync(d, source, of) = IF l.locked THEN Reverse(d, l) ELSE DeleteCascade(d, l)
    BY <1>2 DEF Unsync, ReverseOrDelete
  <2> HIDE DEF l
  <2>3. /\ Changes(d, Reverse(d, l), source, of)
        /\ Changes(d, DeleteCascade(d, l), source, of)
    BY <2>1, ReverseChanges, DeleteTakes
  <2> QED BY <2>2, <2>3
<1> QED BY <1>1, <1>2

LEMMA ResyncChanges ==
  ASSUME NEW d, Ledger(d), NEW source \in Sources, NEW of, IsKey(source, of),
         NEW lines \in LinesSet
  PROVE  Changes(d, Resync(d, source, of, lines), source, of)
<1> DEFINE E == EntriesOf(d, source, of)
           l == Latest(E)
<1>0. source \in Texts BY DEF Sources, Texts
<1>1. CASE E = {}
  <2>1. Resync(d, source, of, lines) = Insert(d, source, of, source, lines)
    BY <1>1 DEF Resync
  <2> QED BY <1>0, <2>1, InsertAdds
<1>2. CASE E # {} /\ l.locked
  <2> DEFINE d1 == Reverse(d, l)
  <2>1. Resync(d, source, of, lines) = Insert(d1, source, of, source, lines)
    BY <1>2 DEF Resync
  <2>2. l \in E BY <1>2, LatestIsThere
  <2>3. Changes(d, d1, source, of)
    <3> HIDE DEF l
    <3> QED BY <2>2, ReverseChanges
  <2> HIDE DEF d1
  <2>4. Changes(d1, Insert(d1, source, of, source, lines), source, of)
    BY <1>0, <2>3, InsertAdds DEF Changes
  <2> QED BY <2>1, <2>3, <2>4, ChangesThrough
<1>3. CASE E # {} /\ ~l.locked
  <2>1. Resync(d, source, of, lines) = UpdateInPlace(d, l, source, lines)
    BY <1>3 DEF Resync
  <2>2. l \in E BY <1>3, LatestIsThere
  <2> HIDE DEF l
  <2>3. Changes(d, UpdateInPlace(d, l, source, lines), source, of)
    BY <1>0, <2>2, UpdateReplaces
  <2> QED BY <2>1, <2>3
<1> QED BY <1>1, <1>2, <1>3

(***************************************************************************)
(* The recursion over the settlements has a solution.                      *)
(***************************************************************************)
\* The next one is taken back, unless its sync fails.
TakeBack(d, k, F) == IF k \in F THEN d ELSE Unsync(d, "expense_settlement", k)

TakenBack(d, n, F, after) ==
  after = [k \in 0..n |-> IF k = 0 THEN d ELSE TakeBack(after[k - 1], k, F)]

\* What holds at first and from one to the next holds at the end.
LEMMA OneByOne ==
  ASSUME NEW n \in Nat, NEW good, good \subseteq 0..n, 0 \in good,
         \A k \in 1..n : k - 1 \in good => k \in good
  PROVE  n \in good
<1> DEFINE bad == (0..n) \ good
<1>1. SUFFICES ASSUME n \notin good PROVE FALSE OBVIOUS
<1>2. IsFiniteSet(bad) /\ bad \subseteq Nat /\ bad # {} /\ bad \subseteq 0..n
  <2>1. IsFiniteSet(0..n) BY FS_Interval
  <2>2. bad \in SUBSET (0..n) OBVIOUS
  <2> QED BY <1>1, <2>1, <2>2, FS_Subset
<1>3. PICK v \in bad : \A w \in bad : v <= w
  <2> HIDE DEF bad
  <2> QED BY <1>2, LeastIs
<1>4. v \in 1..n /\ v - 1 \in 0..n /\ v - 1 \notin bad
  <2>1. v \in 0..n /\ v # 0 BY <1>2
  <2>2. v - 1 < v BY <2>1
  <2> QED BY <1>3, <2>1, <2>2
<1> QED BY <1>4

LEMMA TakenBackExists ==
  ASSUME NEW d, NEW n \in Nat, NEW F
  PROVE  \E after : TakenBack(d, n, F, after)
<1> DEFINE good == {k \in 0..n : \E after : TakenBack(d, k, F, after)}
<1>1. 0 \in good
  <2> DEFINE after == [k \in 0..0 |-> d]
  <2>1. after = [k \in 0..0 |->
                   IF k = 0 THEN d ELSE TakeBack(after[k - 1], k, F)]
    <3>1. \A k \in 0..0 : k = 0 OBVIOUS
    <3> QED BY <3>1
  <2>2. TakenBack(d, 0, F, after)
    <3> HIDE DEF after
    <3> QED BY <2>1 DEF TakenBack
  <2> QED BY <2>2
<1>2. ASSUME NEW k \in 1..n, k - 1 \in good PROVE k \in good
  <2>1. PICK after : TakenBack(d, k - 1, F, after) BY <1>2
  <2> DEFINE m == k - 1
             last == TakeBack(after[m], k, F)
             more == [i \in 0..k |-> IF i = k THEN last ELSE after[i]]
  <2>2. m \in Nat /\ k \in Nat /\ m + 1 = k /\ k # 0 OBVIOUS
  <2>3. ASSUME NEW i \in 0..m
        PROVE  after[i] = IF i = 0 THEN d
                          ELSE TakeBack(after[i - 1], i, F)
    BY <2>1, <2>3 DEF TakenBack
  <2>4. ASSUME NEW i \in 0..k
        PROVE  more[i] = IF i = 0 THEN d
                         ELSE TakeBack(more[i - 1], i, F)
    <3>1. CASE i = k
      <4>1. more[i] = last /\ more[i - 1] = after[m] BY <2>2, <3>1
      <4> HIDE DEF more
      <4> QED BY <2>2, <3>1, <4>1
    <3>2. CASE i # k
      <4>1. i \in 0..m BY <2>2, <3>2
      <4>2. more[i] = after[i] BY <3>2
      <4>3. i # 0 => more[i - 1] = after[i - 1] BY <4>1
      <4> HIDE DEF more
      <4> QED BY <2>3, <4>1, <4>2, <4>3
    <3> QED BY <3>1, <3>2
  <2>5. more = [i \in 0..k |->
                  IF i = 0 THEN d ELSE TakeBack(more[i - 1], i, F)]
    <3>1. more = [i \in 0..k |-> more[i]] OBVIOUS
    <3> HIDE DEF more
    <3> QED BY <2>4, <3>1
  <2>6. TakenBack(d, k, F, more)
    <3> HIDE DEF more
    <3> QED BY <2>5 DEF TakenBack
  <2> QED BY <2>6
<1>3. n \in good
  <2>1. good \subseteq 0..n OBVIOUS
  <2> HIDE DEF good
  <2> QED BY <1>1, <1>2, <2>1, OneByOne
<1> QED BY <1>3

WithLost(d, L) == [d EXCEPT !.lost = L]

LEMMA WithLostKeeps ==
  ASSUME NEW d, Ledger(d), NEW L \in SUBSET Nat
  PROVE  LET d2 == WithLost(d, L)
         IN  /\ Ledger(d2) /\ d2.events = d.events /\ d2.missed = d.missed /\ d2.lost = L
             /\ d2.journal = d.journal /\ \A s, o : EntriesOf(d2, s, o) = EntriesOf(d, s, o)
<1> DEFINE d2 == WithLost(d, L)
<1>1. d \in Database BY DEF Ledger
<1>2. /\ d2 \in Database /\ d2.journal = d.journal /\ d2.missed = d.missed
      /\ d2.events = d.events /\ d2.lastEntry = d.lastEntry /\ d2.lost = L
  BY <1>1 DEF Database, WithLost
<1> HIDE DEF d2
<1>3. Ledger(d2) BY <1>2 DEF Ledger
<1>4. \A s, o : EntriesOf(d2, s, o) = EntriesOf(d, s, o) BY <1>2 DEF EntriesOf
<1> QED BY <1>2, <1>3, <1>4 DEF d2

Rest(d, n, F) == (d.lost \ (1..n)) \union F

LEMMA UnsettledIs ==
  ASSUME NEW d, NEW n \in Nat, NEW F
  PROVE  \E after : /\ TakenBack(d, n, F, after)
                   /\ Unsettled(d, n, F) = WithLost(after[n], Rest(after[n], n, F))
<1> DEFINE f == CHOOSE after : TakenBack(d, n, F, after)
<1>1. TakenBack(d, n, F, f) BY TakenBackExists
<1>2. Unsettled(d, n, F) = WithLost(f[n], Rest(f[n], n, F))
  BY DEF Unsettled, TakenBack, TakeBack, WithLost, Rest
<1> QED BY <1>1, <1>2

\* Nothing but entries of the settlements is touched.
LEMMA UnsettledKeeps ==
  ASSUME NEW d, Ledger(d), NEW n \in Nat, NEW F \in SUBSET (1..n)
  PROVE  LET d2 == Unsettled(d, n, F)
         IN  /\ Ledger(d2) /\ d2.events = d.events /\ d2.missed = d.missed
             /\ d2.lost = Rest(d, n, F)
             /\ \A o : EntriesOf(d2, "expense", o) = EntriesOf(d, "expense", o)
<1> DEFINE Keeps(d2) ==
             /\ Ledger(d2) /\ d2.events = d.events /\ d2.missed = d.missed /\ d2.lost = d.lost
             /\ \A o : EntriesOf(d2, "expense", o) = EntriesOf(d, "expense", o)
<1>1. PICK after : /\ TakenBack(d, n, F, after)
                   /\ Unsettled(d, n, F) = WithLost(after[n], Rest(after[n], n, F))
  BY UnsettledIs
<1> DEFINE good == {k \in 0..n : Keeps(after[k])}
<1>2. \A k \in 0..n : after[k] = IF k = 0 THEN d ELSE TakeBack(after[k - 1], k, F)
  BY <1>1 DEF TakenBack
<1>3. 0 \in good
  <2>1. after[0] = d BY <1>2
  <2> QED BY <2>1
<1>4. ASSUME NEW k \in 1..n, k - 1 \in good PROVE k \in good
  <2> DEFINE d1 == after[k - 1]
             d2 == after[k]
  <2>1. k \in 0..n /\ k # 0 /\ IsKey("expense_settlement", k) BY DEF IsKey
  <2>2. d2 = IF k \in F THEN d1 ELSE Unsync(d1, "expense_settlement", k)
    BY <1>2, <2>1 DEF TakeBack
  <2>3. Keeps(d1) BY <1>4
  <2> HIDE DEF d1, d2
  <2>4. Changes(d1, Unsync(d1, "expense_settlement", k), "expense_settlement", k)
    BY <2>1, <2>3, UnsyncChanges
  <2>5. Keeps(d2) BY <2>2, <2>3, <2>4 DEF Changes
  <2> QED BY <2>1, <2>5 DEF d2
<1>5. n \in good
  <2>1. good \subseteq 0..n OBVIOUS
  <2> HIDE DEF good
  <2> QED BY <1>3, <1>4, <2>1, OneByOne
<1> DEFINE last == after[n]
<1>6. Keeps(last) BY <1>5
<1> HIDE DEF last
<1>7. Rest(last, n, F) = Rest(d, n, F) /\ Rest(d, n, F) \in SUBSET Nat
  <2>1. last.lost = d.lost BY <1>6
  <2>2. d.lost \subseteq Nat BY DEF Ledger, Database
  <2>3. F \subseteq Nat OBVIOUS
  <2> QED BY <2>1, <2>2, <2>3 DEF Rest
<1>8. /\ Ledger(WithLost(last, Rest(d, n, F)))
      /\ WithLost(last, Rest(d, n, F)).events = last.events
      /\ WithLost(last, Rest(d, n, F)).missed = last.missed
      /\ WithLost(last, Rest(d, n, F)).lost = Rest(d, n, F)
      /\ \A s, o : EntriesOf(WithLost(last, Rest(d, n, F)), s, o) = EntriesOf(last, s, o)
  BY <1>6, <1>7, WithLostKeeps
<1>9. Unsettled(d, n, F) = WithLost(last, Rest(d, n, F)) BY <1>1, <1>7 DEF last
<1> QED BY <1>6, <1>8, <1>9

-----------------------------------------------------------------------------
(***************************************************************************)
(* Every expense is in order.                                              *)
(***************************************************************************)
\* Whatever became of its sync, what stands was booked for some expense.
OfExpense(E) ==
  E # {} => \E u \in Row : u.amount # 0 /\ StandsAs(E, ExpenseLines(u))

LEMMA BookedIsOfExpense ==
  ASSUME NEW E, NEW v \in Row, v.amount # 0, BookedAs(E, v) PROVE OfExpense(E)
BY DEF BookedAs, OfExpense

\* The expense of event e: one whose sync has failed was not corrected, unless
\* it was to be taken back.
Standing(d, e) ==
  LET E == EntriesOf(d, "expense", e)
      v == d.events[e]
  IN  IF v.deleted /\ e \notin d.missed THEN Gone(E) /\ (v = Absent => E = {})
      ELSE /\ v.amount # 0 /\ Orderly(E) /\ OfExpense(E)
           /\ ~v.deleted /\ e \in d.missed => ~IsCorrected(E)
           /\ e \notin d.missed => BookedAs(E, v)

AtMostOne(S) == \A e, f \in S : e = f

Upkeep(d) == Ledger(d) /\ (\A e \in Events : Standing(d, e)) /\ AtMostOne(d.missed)

\* Of what the staff do, what leaves the expenses in order.
CareWithExpenses == Practices \subseteq {"second_debt", "edit_settled"}

WithRow(d, e, v) == [d EXCEPT !.events[e] = v]
WithMissed(d, M) == [d EXCEPT !.missed = M]

LEMMA WithRowKeeps ==
  ASSUME NEW d, Ledger(d), NEW e \in Events, NEW v \in Row
  PROVE  LET d2 == WithRow(d, e, v)
         IN  /\ Ledger(d2) /\ d2.journal = d.journal /\ d2.missed = d.missed
             /\ d2.lost = d.lost /\ d2.events[e] = v
             /\ \A f \in Events : f # e => d2.events[f] = d.events[f]
             /\ \A s, o : EntriesOf(d2, s, o) = EntriesOf(d, s, o)
<1> DEFINE d2 == WithRow(d, e, v)
<1>1. d \in Database BY DEF Ledger
<1>2. /\ d2 \in Database /\ d2.journal = d.journal /\ d2.missed = d.missed
      /\ d2.events[e] = v /\ d2.lastEntry = d.lastEntry /\ d2.lost = d.lost
      /\ \A f \in Events : f # e => d2.events[f] = d.events[f]
  BY <1>1 DEF Database, WithRow
<1> HIDE DEF d2
<1>3. Ledger(d2) BY <1>2 DEF Ledger
<1>4. \A s, o : EntriesOf(d2, s, o) = EntriesOf(d, s, o) BY <1>2 DEF EntriesOf
<1> QED BY <1>2, <1>3, <1>4 DEF d2

LEMMA WithMissedKeeps ==
  ASSUME NEW d, Ledger(d), NEW M \in SUBSET Events
  PROVE  LET d2 == WithMissed(d, M)
         IN  /\ Ledger(d2) /\ d2.events = d.events /\ d2.missed = M /\ d2.lost = d.lost
             /\ \A s, o : EntriesOf(d2, s, o) = EntriesOf(d, s, o)
<1> DEFINE d2 == WithMissed(d, M)
<1>1. d \in Database BY DEF Ledger
<1>2. /\ d2 \in Database /\ d2.journal = d.journal /\ d2.missed = M
      /\ d2.events = d.events /\ d2.lastEntry = d.lastEntry /\ d2.lost = d.lost
  BY <1>1 DEF Database, WithMissed
<1> HIDE DEF d2
<1>3. Ledger(d2) BY <1>2 DEF Ledger
<1>4. \A s, o : EntriesOf(d2, s, o) = EntriesOf(d, s, o) BY <1>2 DEF EntriesOf
<1> QED BY <1>2, <1>3, <1>4 DEF d2

\* The columns of a database.
LEMMA Columns ==
  ASSUME NEW d, Ledger(d)
  PROVE  /\ d.missed \subseteq Events /\ d.events \in [Events -> Row]
         /\ \A e \in Events : d.events[e] \in Row
BY DEF Ledger, Database

\* Of d2 and d, all but the expense e is the same.
Aside(d, d2, e) ==
  \A f \in Events : f # e =>
    /\ d2.events[f] = d.events[f]
    /\ f \in d2.missed <=> f \in d.missed
    /\ EntriesOf(d2, "expense", f) = EntriesOf(d, "expense", f)

LEMMA OthersStand ==
  ASSUME NEW d, Upkeep(d), NEW e \in Events, NEW d2, Ledger(d2), Aside(d, d2, e),
         Standing(d2, e), AtMostOne(d2.missed)
  PROVE  Upkeep(d2)
<1>1. ASSUME NEW f \in Events, f # e PROVE Standing(d2, f)
  <2>1. Standing(d, f) BY DEF Upkeep
  <2> QED BY <1>1, <2>1 DEF Aside, Standing
<1> QED BY <1>1 DEF Upkeep

\* What is found before a sync.
Syncable(d, e, v) ==
  LET E == EntriesOf(d, "expense", e)
  IN  Orderly(E) /\ OfExpense(E) /\ (v.known \/ \A x \in E : ~x.locked)

\* The entries of settlements are the same.
SameSettlements(d, d2) ==
  /\ d2.lost = d.lost
  /\ \A n : EntriesOf(d2, "expense_settlement", n) = EntriesOf(d, "expense_settlement", n)

LEMMA AfterSyncStands ==
  ASSUME CareWithExpenses, NEW d0, Upkeep(d0), NEW e \in Events, NEW v \in Row, ~v.deleted,
         v.amount # 0, Syncable(d0, e, v), NEW d2 \in AfterSync(WithRow(d0, e, v), e, v)
  PROVE  /\ Upkeep(d2) /\ SameSettlements(d0, d2)
         /\ d2.events[e] = v /\ \A f \in Events : f # e => d2.events[f] = d0.events[f]
<1> DEFINE d == WithRow(d0, e, v)
           E == EntriesOf(d, "expense", e)
           s == SyncExpense(d, e, v)
<1>0. Ledger(d0) BY DEF Upkeep
<1>1. /\ Ledger(d) /\ d.missed = d0.missed /\ d.lost = d0.lost /\ d.events[e] = v
      /\ \A f \in Events : f # e => d.events[f] = d0.events[f]
      /\ \A t, o : EntriesOf(d, t, o) = EntriesOf(d0, t, o)
  <2> HIDE DEF d
  <2> QED BY <1>0, WithRowKeeps DEF d
<1> HIDE DEF d
<1>2. Orderly(E) /\ OfExpense(E) /\ (v.known \/ \A x \in E : ~x.locked)
  BY <1>1 DEF Syncable
<1>3. AtMostOne(d.missed) /\ d.missed \subseteq Events BY <1>1, Columns DEF Upkeep
<1>4. CASE d2 = WithMissed(s, s.missed \ {e})
  <2>1. /\ Changes(d, s, "expense", e) /\ BookedAs(EntriesOf(s, "expense", e), v)
    BY <1>1, <1>2, SyncBooks
  <2> HIDE DEF s
  <2>2. Ledger(s) /\ s.events = d.events /\ s.missed = d.missed BY <2>1 DEF Changes
  <2>3. \A f \in Events : f # e =>
          EntriesOf(s, "expense", f) = EntriesOf(d, "expense", f)
    BY <2>1 DEF Changes
  <2>10. SameSettlements(d, s) BY <2>1 DEF Changes, SameSettlements
  <2> DEFINE M == s.missed \ {e}
  <2>4. M \in SUBSET Events BY <1>3, <2>2
  <2>5. /\ Ledger(d2) /\ d2.events = s.events /\ d2.missed = M /\ d2.lost = s.lost
        /\ \A t, o : EntriesOf(d2, t, o) = EntriesOf(s, t, o)
    <3> HIDE DEF M
    <3> QED BY <1>4, <2>2, <2>4, WithMissedKeeps DEF M
  <2>6. Aside(d0, d2, e) BY <1>1, <2>2, <2>3, <2>5 DEF Aside
  <2>7. Standing(d2, e)
    <3>1. d2.events[e] = v /\ e \notin d2.missed BY <1>1, <2>2, <2>5
    <3>2. BookedAs(EntriesOf(d2, "expense", e), v) BY <2>1, <2>5
    <3> QED BY <3>1, <3>2, BookedIsOrderly, BookedIsOfExpense DEF Standing
  <2>8. AtMostOne(d2.missed) BY <1>3, <2>2, <2>5 DEF AtMostOne
  <2>9. Upkeep(d2) BY <2>5, <2>6, <2>7, <2>8, OthersStand
  <2> QED BY <1>1, <2>2, <2>5, <2>9, <2>10 DEF SameSettlements
<1>5. CASE d2 = WithMissed(d, {e}) /\ d.missed = {} /\ ~Corrected(d, e)
  <2>1. /\ Ledger(d2) /\ d2.events = d.events /\ d2.missed = {e} /\ d2.lost = d.lost
        /\ \A t, o : EntriesOf(d2, t, o) = EntriesOf(d, t, o)
    <3>1. {e} \in SUBSET Events OBVIOUS
    <3> QED BY <1>1, <1>5, <3>1, WithMissedKeeps
  <2>2. Aside(d0, d2, e) BY <1>1, <1>5, <2>1 DEF Aside
  <2>3. ~IsCorrected(E) BY <1>5 DEF Corrected, IsCorrected
  <2>4. Standing(d2, e)
    <3>1. EntriesOf(d2, "expense", e) = E /\ d2.events[e] = v BY <1>1, <2>1
    <3> HIDE DEF E
    <3> QED BY <1>2, <2>1, <2>3, <3>1 DEF Standing
  <2>5. AtMostOne(d2.missed) BY <2>1 DEF AtMostOne
  <2>6. Upkeep(d2) BY <2>1, <2>2, <2>4, <2>5, OthersStand
  <2> QED BY <1>1, <2>1, <2>6 DEF SameSettlements
<1>6. "fail_corrected" \notin Practices BY DEF CareWithExpenses
<1> QED BY <1>4, <1>5, <1>6 DEF AfterSync, WithMissed, d

-----------------------------------------------------------------------------
(***************************************************************************)
(* What a request holds, the row it read among it.                         *)
(***************************************************************************)
HoldsRow(r) == r.event \in Events /\ r.seen \in Row /\ ~r.seen.deleted

HoldsRepair(r) ==
  /\ DOMAIN r.seen # {} /\ DOMAIN r.seen \subseteq Events
  /\ \A e \in DOMAIN r.seen : r.seen[e] \in Row /\ ~r.seen[e].deleted /\ r.seen[e].known

RequestOK(r) ==
  /\ r.op = "edit" => r.event \in Events
  /\ r.op \in {"rename", "delete", "settle"} => HoldsRow(r)
  /\ r.op = "settle" => r.settlement \in Settlement /\ IsDebt(r.seen)
  /\ r.op = "repair" => HoldsRepair(r)

Requests ==
  /\ pending = [w \in Workers |-> pending[w]]
  /\ \A w \in Workers : RequestOK(pending[w])

LEMMA RequestsStay == ASSUME Requests, UNCHANGED pending PROVE Requests'
BY DEF Requests

LEMMA RequestTaken ==
  ASSUME Requests, NEW w \in Workers, NEW r, RequestOK(r),
         pending' = [pending EXCEPT ![w] = r]
  PROVE  Requests'
BY DEF Requests

LEMMA AnsweredKeeps ==
  ASSUME Requests, NEW w \in Workers, NEW d, Answers(w, d)
  PROVE  Requests' /\ db' = d
<1>1. RequestOK(Idle) BY DEF RequestOK, Idle
<1> QED BY <1>1, RequestTaken DEF Answers

LEMMA FormsAre ==
  ASSUME NEW v \in Row, NEW form \in Forms
  PROVE  LET u == WithData(v, form)
         IN  /\ u \in Row /\ u.known = form.known /\ u.by = form.by
             /\ u.amount = form.amount /\ u.amount # 0 /\ u.deleted = v.deleted
             /\ u.settlements = <<>>
<1>1. form.amount \in Nat \ {0} /\ form.by \in {"asset"} \union Vendors /\ form.known \in BOOLEAN
  BY ExpensesAssumption DEF Forms
<1>2. <<>> \in Seq(Settlement) OBVIOUS
<1> QED BY <1>1, <1>2 DEF Row, WithData

LEMMA AbsentIs ==
  Absent \in Row /\ Absent.deleted /\ Absent.settlements = <<>> /\ Absent.amount = 0
<1>1. <<>> \in Seq(Settlement) OBVIOUS
<1> QED BY <1>1 DEF Absent, Row

-----------------------------------------------------------------------------
(***************************************************************************)
(* The requests.                                                           *)
(***************************************************************************)
\* A category that is not in the books, but of an expense that is not closed.
LEMMA OpenWhenUnknown ==
  ASSUME "unknown" \notin Practices, NEW e, NEW form, form.known \in BOOLEAN,
         KnowsCategory(e, form)
  PROVE  /\ form.known \/ \A x \in EntriesOf(db, "expense", e) : ~x.locked
         /\ IsDebt(form) => form.known
BY DEF KnowsCategory, Closed

LEMMA LiveStands ==
  ASSUME Upkeep(db), NEW e \in Events, ~db.events[e].deleted
  PROVE  /\ Orderly(EntriesOf(db, "expense", e)) /\ OfExpense(EntriesOf(db, "expense", e))
         /\ db.events[e].amount # 0
BY DEF Upkeep, Standing

LEMMA CreateKeeps ==
  ASSUME CareWithExpenses, Upkeep(db), Requests, NEW e \in Events, NEW form \in Forms,
         CreateEvent(e, form)
  PROVE  Upkeep(db)' /\ Requests'
<1> DEFINE u == WithData(Absent, form)
           v == [u EXCEPT !.deleted = FALSE]
<1>0. u \in Row /\ u.known = form.known /\ u.amount # 0 BY AbsentIs, FormsAre
<1>1. v \in Row /\ ~v.deleted /\ v.known = form.known /\ v.amount # 0
  <2> HIDE DEF u
  <2> QED BY <1>0 DEF Row
<1>2. EntriesOf(db, "expense", e) = {}
  <2>1. Standing(db, e) BY DEF Upkeep
  <2>2. db.events[e] = Absent BY DEF CreateEvent
  <2> QED BY <2>1, <2>2, AbsentIs DEF Standing
<1>3. Syncable(db, e, v) BY <1>2, NoneOrderly DEF Syncable, OfExpense
<1>4. db' \in AfterSync(WithRow(db, e, v), e, v) BY DEF CreateEvent, WithRow
<1>5. Upkeep(db')
  <2> HIDE DEF v
  <2> QED BY <1>1, <1>3, <1>4, AfterSyncStands
<1>6. UNCHANGED pending BY DEF CreateEvent
<1> QED BY <1>5, <1>6, RequestsStay DEF Upkeep

LEMMA EditKeeps ==
  ASSUME CareWithExpenses, Upkeep(db), Requests, NEW w \in Workers, NEW form \in Forms,
         WriteEdit(w, form)
  PROVE  Upkeep(db)' /\ Requests'
<1> DEFINE e == pending[w].event
           v == WithData(db.events[e], form)
<1>1. e \in Events BY DEF WriteEdit, Requests, RequestOK
<1>2. "late_edit" \notin Practices /\ "unknown" \notin Practices BY DEF CareWithExpenses
<1>3. db.events[e] \in Row /\ ~db.events[e].deleted
  <2>1. Ledger(db) BY DEF Upkeep
  <2>2. db.events[e] \in Row
    <3> HIDE DEF e
    <3> QED BY <1>1, <2>1, Columns
  <2> QED BY <1>2, <2>2 DEF WriteEdit, Live
<1>4. v \in Row /\ v.known = form.known /\ ~v.deleted /\ v.amount # 0 BY <1>3, FormsAre
<1>5. Syncable(db, e, v)
  <2>1. KnowsCategory(e, form) BY DEF WriteEdit
  <2>2. form.known \in BOOLEAN BY DEF Forms
  <2> HIDE DEF e, v
  <2>3. form.known \/ \A x \in EntriesOf(db, "expense", e) : ~x.locked
    BY <1>2, <2>1, <2>2, OpenWhenUnknown
  <2>4. Orderly(EntriesOf(db, "expense", e)) /\ OfExpense(EntriesOf(db, "expense", e))
  BY <1>1, <1>3, LiveStands
  <2> QED BY <1>4, <2>3, <2>4 DEF Syncable
<1>6. PICK d2 \in AfterSync(WithRow(db, e, v), e, v) : Answers(w, d2)
  BY DEF WriteEdit, WithRow
<1> HIDE DEF e, v
<1>7. Upkeep(d2) BY <1>1, <1>4, <1>5, AfterSyncStands
<1>8. Requests' /\ db' = d2 BY <1>6, AnsweredKeeps
<1> QED BY <1>7, <1>8 DEF Upkeep

LEMMA RenameKeeps ==
  ASSUME CareWithExpenses, Upkeep(db), Requests, NEW w \in Workers, WriteRename(w)
  PROVE  Upkeep(db)' /\ Requests'
<1> DEFINE e == pending[w].event
           v == pending[w].seen
<1>1. e \in Events /\ v \in Row /\ ~v.deleted
  BY DEF WriteRename, Requests, RequestOK, HoldsRow
<1>2. "stale_rename" \notin Practices /\ "unknown" \notin Practices BY DEF CareWithExpenses
<1>3. db.events[e] = v BY <1>2 DEF WriteRename
<1>4. Syncable(db, e, v)
  <2>1. KnowsCategory(e, v) BY DEF WriteRename
  <2>2. v.known \in BOOLEAN BY <1>1 DEF Row
  <2> HIDE DEF e, v
  <2>3. v.known \/ \A x \in EntriesOf(db, "expense", e) : ~x.locked
    BY <1>2, <2>1, <2>2, OpenWhenUnknown
  <2>4. Orderly(EntriesOf(db, "expense", e)) /\ OfExpense(EntriesOf(db, "expense", e))
  BY <1>1, <1>3, LiveStands
  <2> QED BY <2>3, <2>4 DEF Syncable
<1>5. PICK d2 \in AfterSync(db, e, v) : Answers(w, d2) BY DEF WriteRename
<1> HIDE DEF e, v
<1>6. WithRow(db, e, v) = db
  <2>1. db \in Database BY DEF Upkeep, Ledger
  <2> QED BY <1>1, <1>3, <2>1 DEF Database, WithRow
<1>7. v.amount # 0 BY <1>1, <1>3, LiveStands
<1>8. Upkeep(d2) BY <1>1, <1>4, <1>5, <1>6, <1>7, AfterSyncStands
<1>9. Requests' /\ db' = d2 BY <1>5, AnsweredKeeps
<1> QED BY <1>8, <1>9 DEF Upkeep

LEMMA RemovedIs ==
  ASSUME Ledger(db), NEW e \in Events
  PROVE  LET d == Removed(e)
             v == [db.events[e] EXCEPT !.deleted = TRUE]
         IN  /\ Ledger(d) /\ d.missed = db.missed /\ d.lost = db.lost
             /\ d.events[e] = v /\ v \in Row /\ v.deleted
             /\ v.settlements = db.events[e].settlements /\ v.amount = db.events[e].amount
             /\ \A f \in Events : f # e => d.events[f] = db.events[f]
             /\ \A s, o : EntriesOf(d, s, o) = EntriesOf(db, s, o)
<1> DEFINE v == [db.events[e] EXCEPT !.deleted = TRUE]
           d1 == WithRow(db, e, v)
<1>1. db.events[e] \in Row BY Columns
<1>2. /\ v \in Row /\ v.deleted /\ v.settlements = db.events[e].settlements
      /\ v.amount = db.events[e].amount
  BY <1>1 DEF Row
<1>3. Removed(e) = d1
  <2>1. db \in Database BY DEF Ledger
  <2> QED BY <2>1 DEF Removed, WithRow, Database
<1> HIDE DEF v
<1>4. /\ Ledger(d1) /\ d1.events[e] = v /\ d1.missed = db.missed /\ d1.lost = db.lost
      /\ \A f \in Events : f # e => d1.events[f] = db.events[f]
      /\ \A s, o : EntriesOf(d1, s, o) = EntriesOf(db, s, o)
  <2> HIDE DEF d1
  <2> QED BY <1>2, WithRowKeeps DEF d1
<1> HIDE DEF d1
<1> QED BY <1>2, <1>3, <1>4 DEF v

\* A deleted expense comes to nothing, or its sync is missed.
LEMMA AfterUnsyncStands ==
  ASSUME NEW d0, Upkeep(d0), NEW e \in Events, ~d0.events[e].deleted,
         NEW d, Ledger(d), d.missed = d0.missed, d.events[e].deleted,
         d.events[e].amount = d0.events[e].amount,
         \A f \in Events : f # e => d.events[f] = d0.events[f],
         \A t, o : EntriesOf(d, t, o) = EntriesOf(d0, t, o),
         NEW d2 \in AfterUnsync(d, e)
  PROVE  Upkeep(d2) /\ d2.events = d.events /\ SameSettlements(d, d2)
<1> DEFINE E == EntriesOf(d, "expense", e)
           u == Unsync(d, "expense", e)
<1>1. Standing(d0, e) /\ AtMostOne(d0.missed) BY DEF Upkeep
<1>2. Orderly(E) /\ OfExpense(E) /\ d.events[e].amount # 0 BY <1>1 DEF Standing
<1>3. IsKey("expense", e) /\ "expense" \in Sources BY DEF IsKey, Sources
<1>4. d.missed \subseteq Events BY Columns
<1>5. CASE d2 = WithMissed(u, u.missed \ {e})
  <2>1. Changes(d, u, "expense", e) /\ Gone(EntriesOf(u, "expense", e))
    BY <1>2, <1>3, UnsyncGone
  <2> HIDE DEF u
  <2>2. Ledger(u) /\ u.events = d.events /\ u.missed = d.missed /\ u.lost = d.lost
    BY <2>1 DEF Changes
  <2>3. \A f \in Events : f # e =>
          EntriesOf(u, "expense", f) = EntriesOf(d, "expense", f)
    BY <2>1 DEF Changes
  <2> DEFINE M == u.missed \ {e}
  <2>4. M \in SUBSET Events BY <1>4, <2>2
  <2>5. /\ Ledger(d2) /\ d2.events = u.events /\ d2.missed = M /\ d2.lost = u.lost
        /\ \A t, o : EntriesOf(d2, t, o) = EntriesOf(u, t, o)
    <3> HIDE DEF M
    <3> QED BY <1>5, <2>2, <2>4, WithMissedKeeps DEF M
  <2>6. Aside(d0, d2, e) BY <2>2, <2>3, <2>5 DEF Aside
  <2>7. Standing(d2, e)
    <3>1. d2.events[e].deleted /\ e \notin d2.missed BY <2>2, <2>5
    <3>2. Gone(EntriesOf(d2, "expense", e)) BY <2>1, <2>5
    <3>3. d2.events[e] # Absent BY <1>2, <2>2, <2>5, AbsentIs
    <3> QED BY <3>1, <3>2, <3>3 DEF Standing
  <2>8. AtMostOne(d2.missed) BY <1>1, <2>2, <2>5 DEF AtMostOne
  <2>9. Upkeep(d2) BY <2>5, <2>6, <2>7, <2>8, OthersStand
  <2>10. SameSettlements(d, d2) BY <2>1, <2>2, <2>5 DEF Changes, SameSettlements
  <2> QED BY <2>2, <2>5, <2>9, <2>10
<1>6. CASE d2 = WithMissed(d, {e}) /\ d.missed \subseteq {e}
  <2>1. /\ Ledger(d2) /\ d2.events = d.events /\ d2.missed = {e} /\ d2.lost = d.lost
        /\ \A t, o : EntriesOf(d2, t, o) = EntriesOf(d, t, o)
    <3>1. {e} \in SUBSET Events OBVIOUS
    <3> QED BY <1>6, <3>1, WithMissedKeeps
  <2>2. Aside(d0, d2, e) BY <1>6, <2>1 DEF Aside
  <2>3. Standing(d2, e)
    <3>1. EntriesOf(d2, "expense", e) = E BY <2>1
    <3> HIDE DEF E
    <3> QED BY <1>2, <2>1, <3>1 DEF Standing
  <2>4. AtMostOne(d2.missed) BY <2>1 DEF AtMostOne
  <2>5. Upkeep(d2) BY <2>1, <2>2, <2>3, <2>4, OthersStand
  <2> QED BY <2>1, <2>5 DEF SameSettlements
<1> QED BY <1>5, <1>6 DEF AfterUnsync, WithMissed

\* What settlements are booked as has no part in it.
LEMMA SameExpenses ==
  ASSUME NEW d, Upkeep(d), NEW d2, Ledger(d2), d2.events = d.events, d2.missed = d.missed,
         \A o : EntriesOf(d2, "expense", o) = EntriesOf(d, "expense", o)
  PROVE  Upkeep(d2)
<1>1. \A e \in Events : Standing(d2, e) <=> Standing(d, e) BY DEF Standing
<1> QED BY <1>1 DEF Upkeep

ListedBy(v) == IF IsDebt(v) THEN Len(v.settlements) ELSE 0

\* What WriteDelete does, when nothing has come in between.
LEMMA DeleteIs ==
  ASSUME "stale_delete" \notin Practices, Upkeep(db), Requests, NEW w \in Workers,
         WriteDelete(w)
  PROVE  LET e == pending[w].event
             n == ListedBy(db.events[e])
         IN  /\ e \in Events /\ db.events[e] \in Row /\ ~db.events[e].deleted /\ n \in Nat
             /\ pending[w].seen = db.events[e]
             /\ \E d2 \in AfterUnsync(Removed(e), e), F \in SUBSET (1..n) :
                  Answers(w, Unsettled(d2, n, F))
<1> DEFINE e == pending[w].event
           seen == pending[w].seen
<1>1. e \in Events /\ seen \in Row /\ ~seen.deleted
  BY DEF WriteDelete, Requests, RequestOK, HoldsRow
<1>2. db.events[e] = seen BY DEF WriteDelete
<1>3. \E d2 \in AfterUnsync(Removed(e), e), F \in SUBSET (1..ListedBy(seen)) :
        Answers(w, Unsettled(d2, ListedBy(seen), F))
  BY DEF WriteDelete, ListedBy
<1> HIDE DEF e, seen
<1>4. ListedBy(seen) \in Nat BY <1>1 DEF Row, ListedBy
<1> QED BY <1>1, <1>2, <1>3, <1>4 DEF e, seen

LEMMA DeleteKeeps ==
  ASSUME CareWithExpenses, Upkeep(db), Requests, NEW w \in Workers, WriteDelete(w)
  PROVE  Upkeep(db)' /\ Requests'
<1> DEFINE e == pending[w].event
           n == ListedBy(db.events[e])
           d1 == Removed(e)
<1>0. "stale_delete" \notin Practices BY DEF CareWithExpenses
<1>1. e \in Events /\ ~db.events[e].deleted /\ n \in Nat BY <1>0, DeleteIs
<1>2. PICK d2 \in AfterUnsync(d1, e), F \in SUBSET (1..n) : Answers(w, Unsettled(d2, n, F))
  BY <1>0, DeleteIs
<1> HIDE DEF e, n
<1>3. Ledger(db) BY DEF Upkeep
<1>4. /\ Ledger(d1) /\ d1.missed = db.missed /\ d1.events[e].deleted
      /\ d1.events[e].amount = db.events[e].amount
      /\ \A f \in Events : f # e => d1.events[f] = db.events[f]
      /\ \A s, o : EntriesOf(d1, s, o) = EntriesOf(db, s, o)
  <2> HIDE DEF d1
  <2> QED BY <1>1, <1>3, RemovedIs DEF d1
<1> HIDE DEF d1
<1>5. Upkeep(d2) BY <1>1, <1>2, <1>4, AfterUnsyncStands
<1> DEFINE d3 == Unsettled(d2, n, F)
<1>6. /\ Ledger(d3) /\ d3.events = d2.events /\ d3.missed = d2.missed
      /\ \A o : EntriesOf(d3, "expense", o) = EntriesOf(d2, "expense", o)
  <2>1. Ledger(d2) BY <1>5 DEF Upkeep
  <2> HIDE DEF d3
  <2> QED BY <1>1, <2>1, UnsettledKeeps DEF d3
<1>7. Answers(w, d3) BY <1>2
<1> HIDE DEF d3
<1>8. Upkeep(d3) BY <1>5, <1>6, SameExpenses
<1>9. Requests' /\ db' = d3 BY <1>7, AnsweredKeeps
<1> QED BY <1>8, <1>9 DEF Upkeep

\* Only entries of the settlement are written, whatever it is paid from.
LEMMA SyncSettlementChanges ==
  ASSUME NEW d, Ledger(d), NEW id \in Nat, NEW vendor \in Vendors, NEW s \in Settlement
  PROVE  Changes(d, SyncSettlement(d, id, vendor, s), "expense_settlement", id)
<1> DEFINE lines == Movement(vendor, "asset", s.amount)
           E == EntriesOf(d, "expense_settlement", id)
           l == Latest(E)
<1>1. IsKey("expense_settlement", id) /\ "expense_settlement" \in Sources
  BY DEF IsKey, Sources
<1>2. lines \in LinesSet
  <2>1. vendor \in Accounts /\ "asset" \in Accounts /\ vendor # "asset" /\ s.amount \in Nat
    BY AccountsAre DEF Settlement
  <2> QED BY <2>1, MovementIs
<1>3. CASE s.known
  <2>1. SyncSettlement(d, id, vendor, s) = Resync(d, "expense_settlement", id, lines)
    BY <1>3 DEF SyncSettlement
  <2> HIDE DEF lines
  <2> QED BY <1>1, <1>2, <2>1, ResyncChanges
<1>4. CASE ~s.known /\ (E = {} \/ l.locked)
  <2>1. SyncSettlement(d, id, vendor, s) = d BY <1>4 DEF SyncSettlement
  <2> QED BY <2>1, ChangesNothing
<1>5. CASE ~s.known /\ E # {} /\ ~l.locked
  <2>1. SyncSettlement(d, id, vendor, s) = DeleteCascade(d, l) BY <1>5 DEF SyncSettlement
  <2>2. l \in EntriesOf(d, "expense_settlement", id) BY <1>5, LatestIsThere
  <2> HIDE DEF l
  <2> QED BY <2>1, <2>2, DeleteTakes
<1> QED BY <1>3, <1>4, <1>5

\* The row with one settlement more.
WithSettlement(v, s) == [v EXCEPT !.settlements = Append(v.settlements, s)]

LEMMA WithSettlementIs ==
  ASSUME NEW v \in Row, NEW s \in Settlement
  PROVE  LET u == WithSettlement(v, s)
             n == Len(v.settlements)
         IN  /\ u \in Row /\ u.by = v.by /\ u.amount = v.amount /\ u.known = v.known
             /\ u.deleted = v.deleted /\ n \in Nat /\ Len(u.settlements) = n + 1
             /\ DOMAIN u.settlements = 1..(n + 1) /\ u.settlements[n + 1] = s
             /\ \A k \in 1..n : u.settlements[k] = v.settlements[k]
<1> DEFINE S == v.settlements
           T == Append(S, s)
<1>1. S \in Seq(Settlement) BY DEF Row
<1>2. /\ T \in Seq(Settlement) /\ Len(S) \in Nat /\ Len(T) = Len(S) + 1
      /\ DOMAIN T = 1..(Len(S) + 1) /\ T[Len(S) + 1] = s /\ \A k \in 1..Len(S) : T[k] = S[k]
  <2> HIDE DEF S
  <2> QED BY <1>1
<1>3. WithSettlement(v, s) = [v EXCEPT !.settlements = T] BY DEF WithSettlement
<1> HIDE DEF T
<1>4. LET u == [v EXCEPT !.settlements = T]
      IN  /\ u \in Row /\ u.by = v.by /\ u.amount = v.amount /\ u.known = v.known
          /\ u.deleted = v.deleted /\ u.settlements = T
  BY <1>2 DEF Row
<1> QED BY <1>2, <1>3, <1>4

\* What WriteSettle does, when nothing has come in between.
LEMMA SettleIs ==
  ASSUME "stale_settle" \notin Practices, Upkeep(db), Requests, NEW w \in Workers,
         WriteSettle(w)
  PROVE  LET e == pending[w].event
             v == db.events[e]
             s == pending[w].settlement
             u == WithSettlement(v, s)
         IN  /\ e \in Events /\ v \in Row /\ ~v.deleted /\ IsDebt(v) /\ s \in Settlement
             /\ \E d \in AfterSettle(WithRow(db, e, u), Len(v.settlements) + 1, v.by, s) :
                  Answers(w, d)
<1> DEFINE e == pending[w].event
           v == pending[w].seen
           s == pending[w].settlement
           u == WithSettlement(v, s)
           x == [v EXCEPT !.settlements = Append(v.settlements, s),
                          !.deleted = db.events[e].deleted]
<1>1. e \in Events /\ v \in Row /\ ~v.deleted /\ s \in Settlement /\ IsDebt(v)
  BY DEF WriteSettle, Requests, RequestOK, HoldsRow
<1>2. db.events[e] = v BY DEF WriteSettle
<1>3. u \in Row /\ u.deleted = v.deleted /\ u.by = v.by
      /\ Len(u.settlements) = Len(v.settlements) + 1
  <2> HIDE DEF v, s
  <2> QED BY <1>1, WithSettlementIs
<1>4. \E d \in AfterSettle([db EXCEPT !.events[e] = x], Len(Append(v.settlements, s)), x.by, s) :
        Answers(w, d)
  BY DEF WriteSettle
<1> HIDE DEF e, s
<1>5. x = u
  <2>1. v.deleted = db.events[e].deleted BY <1>2
  <2> HIDE DEF v
  <2> QED BY <1>1, <2>1 DEF WithSettlement, Row
<1>6. Append(v.settlements, s) = u.settlements
  <2> HIDE DEF v
  <2> QED BY <1>1 DEF WithSettlement, Row
<1> HIDE DEF u, x, v
<1>7. \E d \in AfterSettle(WithRow(db, e, u), Len(v.settlements) + 1, v.by, s) : Answers(w, d)
  BY <1>3, <1>4, <1>5, <1>6 DEF WithRow
<1> QED BY <1>1, <1>2, <1>7 DEF e, v, s, u

LEMMA SettleKeeps ==
  ASSUME CareWithExpenses, Upkeep(db), Requests, NEW w \in Workers, WriteSettle(w)
  PROVE  Upkeep(db)' /\ Requests'
<1> DEFINE e == pending[w].event
           seen == db.events[e]
           s == pending[w].settlement
           id == Len(seen.settlements) + 1
           v == WithSettlement(seen, s)
           d1 == WithRow(db, e, v)
<1>0. "stale_settle" \notin Practices BY DEF CareWithExpenses
<1>1. e \in Events /\ seen \in Row /\ ~seen.deleted /\ IsDebt(seen) /\ s \in Settlement
  BY <1>0, SettleIs
<1>2. PICK d2 \in AfterSettle(d1, id, seen.by, s) : Answers(w, d2) BY <1>0, SettleIs
<1> HIDE DEF e, s, seen
<1>3. /\ v \in Row /\ v.by = seen.by /\ v.amount = seen.amount /\ v.known = seen.known
      /\ ~v.deleted /\ id \in Nat
  BY <1>1, WithSettlementIs
<1>4. Ledger(db) BY DEF Upkeep
<1> HIDE DEF v, id
<1>5. /\ Ledger(d1) /\ d1.missed = db.missed /\ d1.events[e] = v
      /\ \A f \in Events : f # e => d1.events[f] = db.events[f]
      /\ \A t, o : EntriesOf(d1, t, o) = EntriesOf(db, t, o)
  <2> HIDE DEF d1
  <2> QED BY <1>1, <1>3, <1>4, WithRowKeeps DEF d1
<1> HIDE DEF d1
<1>6. /\ Ledger(d2) /\ d2.events = d1.events /\ d2.missed = db.missed
      /\ \A f : EntriesOf(d2, "expense", f) = EntriesOf(db, "expense", f)
  <2>1. CASE d2 = SyncSettlement(d1, id, seen.by, s)
    <3>1. seen.by \in Vendors BY <1>1 DEF IsDebt
    <3>2. Changes(d1, d2, "expense_settlement", id)
      BY <1>1, <1>3, <1>5, <2>1, <3>1, SyncSettlementChanges
    <3> QED BY <1>5, <3>2 DEF Changes
  <2>2. CASE d2 = WithLost(d1, d1.lost \union {id})
    <3>1. d1.lost \union {id} \in SUBSET Nat BY <1>3, <1>5 DEF Ledger, Database
    <3> QED BY <1>5, <2>2, <3>1, WithLostKeeps
  <2> QED BY <1>2, <2>1, <2>2 DEF AfterSettle, WithLost
<1>7. Aside(db, d2, e) BY <1>5, <1>6 DEF Aside
<1>8. Standing(d2, e)
  <2>1. Standing(db, e) /\ db.events[e] = seen BY <1>1 DEF Upkeep, seen
  <2>2. ExpenseLines(v) = ExpenseLines(seen) BY <1>3 DEF ExpenseLines
  <2>3. \A E : BookedAs(E, seen) => BookedAs(E, v) BY <1>3, <2>2 DEF BookedAs
  <2> QED BY <1>1, <1>3, <1>5, <1>6, <2>1, <2>3 DEF Standing
<1>9. AtMostOne(d2.missed) BY <1>6 DEF Upkeep
<1>10. Upkeep(d2) BY <1>1, <1>6, <1>7, <1>8, <1>9, OthersStand
<1>11. Requests' /\ db' = d2 BY <1>2, AnsweredKeeps
<1> QED BY <1>10, <1>11 DEF Upkeep

LEMMA LockJournalKeeps ==
  ASSUME Upkeep(db), Requests, LockJournal
  PROVE  Upkeep(db)' /\ Requests'
<1> DEFINE d2 == LockRange(db)
<1>1. db' = d2 /\ UNCHANGED pending BY DEF LockJournal
<1>2. Ledger(db) BY DEF Upkeep
<1>3. Ledger(d2) /\ d2.events = db.events /\ d2.missed = db.missed
  <2> HIDE DEF d2
  <2> QED BY <1>2, LockKeeps DEF d2
<1>4. ASSUME NEW e \in Events PROVE Standing(d2, e)
  <2> DEFINE E == EntriesOf(db, "expense", e)
             E2 == EntriesOf(d2, "expense", e)
  <2>1. /\ E2 = {} <=> E = {}
        /\ IsCorrected(E2) <=> IsCorrected(E)
        /\ Gone(E) => Gone(E2)
        /\ Orderly(E) => Orderly(E2)
        /\ \A lines : StandsAs(E, lines) => StandsAs(E2, lines)
    BY <1>2, LockedStay
  <2>2. Standing(db, e) BY DEF Upkeep
  <2> HIDE DEF d2
  <2> QED BY <1>3, <2>1, <2>2 DEF Standing, BookedAs, OfExpense
<1>5. AtMostOne(d2.missed) BY <1>3 DEF Upkeep
<1>6. Upkeep(d2) BY <1>3, <1>4, <1>5 DEF Upkeep
<1> HIDE DEF d2
<1> QED BY <1>1, <1>6, RequestsStay DEF Upkeep

LEMMA ReadKeeps ==
  ASSUME Upkeep(db), Requests, NEW w \in Workers, NEW r, RequestOK(r), Reads(w, r)
  PROVE  Upkeep(db)' /\ Requests'
<1>1. db' = db BY DEF Reads
<1>2. Requests' BY RequestTaken DEF Reads
<1> QED BY <1>1, <1>2 DEF Upkeep

LEMMA ReadEventKeeps ==
  ASSUME Upkeep(db), Requests, NEW w \in Workers, NEW op \in {"edit", "rename", "delete"},
         NEW e \in Events, ReadEvent(w, op, e)
  PROVE  Upkeep(db)' /\ Requests'
<1> DEFINE r == IF op = "edit" THEN [op |-> op, event |-> e]
                ELSE [op |-> op, event |-> e, seen |-> db.events[e]]
<1>1. db.events[e] \in Row /\ ~db.events[e].deleted
  BY Columns DEF Upkeep, ReadEvent, Live
<1>2. RequestOK(r) BY <1>1 DEF RequestOK, HoldsRow
<1>3. Reads(w, r) BY DEF ReadEvent
<1> HIDE DEF r
<1> QED BY <1>2, <1>3, ReadKeeps

LEMMA ReadSettleKeeps ==
  ASSUME Upkeep(db), Requests, NEW w \in Workers, NEW e \in Events, NEW s \in Settlements,
         ReadSettle(w, e, s)
  PROVE  Upkeep(db)' /\ Requests'
<1> DEFINE r == [op |-> "settle", event |-> e, seen |-> db.events[e], settlement |-> s]
<1>1. /\ db.events[e] \in Row /\ ~db.events[e].deleted /\ IsDebt(db.events[e])
      /\ s \in Settlement
  <2>1. s \in Settlement BY ExpensesAssumption DEF Settlements, Settlement
  <2> QED BY <2>1, Columns DEF Upkeep, ReadSettle, Live
<1>2. RequestOK(r) BY <1>1 DEF RequestOK, HoldsRow
<1>3. Reads(w, r) BY DEF ReadSettle
<1> HIDE DEF r
<1> QED BY <1>2, <1>3, ReadKeeps

-----------------------------------------------------------------------------
(***************************************************************************)
(* The repair.                                                             *)
(***************************************************************************)
LEMMA ReadRepairKeeps ==
  ASSUME Upkeep(db), Requests, NEW w \in Workers, ReadRepair(w)
  PROVE  Upkeep(db)' /\ Requests'
<1> DEFINE N == NeedRepair(db)
           r == [op |-> "repair", seen |-> [e \in N |-> db.events[e]],
                 fix |-> {e \in N : Misbooked(db, e)}]
<1>1. \A e \in N : e \in Events /\ ~db.events[e].deleted /\ db.events[e].known
  BY DEF NeedRepair, AliveIn
<1>2. \A e \in N : db.events[e] \in Row BY <1>1, Columns DEF Upkeep
<1>3. N # {} BY DEF ReadRepair
<1>4. RequestOK(r)
  <2> HIDE DEF N
  <2>1. HoldsRepair(r) BY <1>1, <1>2, <1>3 DEF HoldsRepair
  <2> QED BY <2>1 DEF RequestOK
<1>5. Reads(w, r) BY DEF ReadRepair
<1> HIDE DEF r
<1> QED BY <1>4, <1>5, ReadKeeps

\* Over one event the repair is one step.
LEMMA RepairedOne ==
  ASSUME NEW d, NEW seen, NEW fix, NEW e, DOMAIN seen = {e},
         NEW order \in Bijection(1..Cardinality(DOMAIN seen), DOMAIN seen)
  PROVE  Repaired(d, seen, fix, order) = RepairEvent(d, e, seen[e], e \in fix)
<1> DEFINE one == RepairEvent(d, e, seen[e], e \in fix)
           F(g) == g = [k \in 0..1 |->
                          IF k = 0 THEN d
                          ELSE RepairEvent(g[k - 1], order[k], seen[order[k]], order[k] \in fix)]
<1>1. Cardinality(DOMAIN seen) = 1 BY FS_Singleton
<1>2. order[1] = e BY <1>1 DEF Bijection, Injection, Surjection
<1>3. Repaired(d, seen, fix, order) = (CHOOSE g : F(g))[1] BY <1>1 DEF Repaired
<1>4. \E g : F(g)
  <2> DEFINE g == [k \in 0..1 |-> IF k = 0 THEN d ELSE one]
  <2>1. \A k \in 0..1 : k = 0 \/ (k = 1 /\ g[k - 1] = d) OBVIOUS
  <2>2. \A k \in 0..1 :
          g[k] = IF k = 0 THEN d
                 ELSE RepairEvent(g[k - 1], order[k], seen[order[k]], order[k] \in fix)
    BY <1>2, <2>1
  <2>3. g = [k \in 0..1 |-> g[k]] OBVIOUS
  <2> HIDE DEF g
  <2>4. F(g) BY <2>2, <2>3
  <2> QED BY <2>4
<1> DEFINE f == CHOOSE g : F(g)
<1>5. F(f) BY <1>4
<1> HIDE DEF f
<1>6. f[0] = d BY <1>5
<1>7. f[1] = one BY <1>2, <1>5, <1>6
<1> QED BY <1>3, <1>7 DEF f

LEMMA RepairKeeps ==
  ASSUME CareWithExpenses, Upkeep(db), Requests, NEW w \in Workers, WriteRepair(w)
  PROVE  /\ Upkeep(db)' /\ Requests'
         /\ db'.events = db.events /\ SameSettlements(db, db')
<1> DEFINE r == pending[w]
           seen == r.seen
           fix == r.fix
<1>1. HoldsRepair(r) BY DEF WriteRepair, Requests, RequestOK
<1>2. \A e \in DOMAIN seen : e \in db.missed /\ db.events[e] = seen[e]
  BY DEF WriteRepair, CareWithExpenses
<1>3. PICK order \in Bijection(1..Cardinality(DOMAIN seen), DOMAIN seen) :
             Answers(w, Repaired(db, seen, fix, order))
  BY DEF WriteRepair
<1>4. PICK e : e \in DOMAIN seen BY <1>1 DEF HoldsRepair
<1>5. DOMAIN seen = {e} BY <1>2, <1>4 DEF Upkeep, AtMostOne
<1> DEFINE v == seen[e]
<1>6. e \in Events /\ v \in Row /\ ~v.deleted /\ v.known BY <1>1, <1>4 DEF HoldsRepair
<1>7. e \in db.missed /\ db.events[e] = v BY <1>2, <1>4
<1>8. Ledger(db) /\ AtMostOne(db.missed) BY DEF Upkeep
<1> DEFINE E == EntriesOf(db, "expense", e)
           l == Latest(Booked(db, e))
           cleared == IF e \in fix /\ Booked(db, e) # {} THEN DeleteCascade(db, l) ELSE db
           s == SyncExpense(cleared, e, v)
           M == s.missed \ {e}
           d2 == WithMissed(s, M)
<1>9. Answers(w, d2)
  <2>1. Repaired(db, seen, fix, order) = RepairEvent(db, e, v, e \in fix)
    <3> HIDE DEF r, seen, fix
    <3> QED BY <1>3, <1>5, RepairedOne
  <2>2. RepairEvent(db, e, v, e \in fix) = d2 BY DEF RepairEvent, WithMissed
  <2> QED BY <1>3, <2>1, <2>2
<1> HIDE DEF r, seen, fix, v
<1>10. Orderly(E) /\ ~IsCorrected(E) /\ v.amount # 0
  <2>1. Standing(db, e) BY <1>6 DEF Upkeep
  <2> QED BY <1>6, <1>7, <2>1 DEF Standing
<1>11. Booked(db, e) = E
  BY <1>10 DEF Booked, ExpenseEntries, IsCorrected, EntriesOf
<1>12. /\ Ledger(cleared) /\ cleared.events = db.events /\ cleared.missed = db.missed
       /\ cleared.lost = db.lost
       /\ \A t, f : t # "expense" \/ f # e => EntriesOf(cleared, t, f) = EntriesOf(db, t, f)
       /\ Orderly(EntriesOf(cleared, "expense", e))
  <2>1. CASE cleared = db BY <1>8, <1>10, <2>1
  <2>2. CASE cleared = DeleteCascade(db, l) /\ E # {}
    <3>1. l \in E
      <4>1. Latest(E) \in E BY <1>8, <2>2, LatestIsThere
      <4> QED BY <1>11, <4>1
    <3>2. E = {l} BY <1>10, <1>11, <2>2 DEF Orderly
    <3> HIDE DEF l, cleared
    <3>3. /\ Changes(db, cleared, "expense", e)
          /\ EntriesOf(cleared, "expense", e) = E \ {l}
      BY <1>8, <2>2, <3>1, DeleteTakes
    <3>4. EntriesOf(cleared, "expense", e) = {} BY <3>2, <3>3
    <3> QED BY <3>3, <3>4, NoneOrderly DEF Changes
  <2> QED BY <1>11, <2>1, <2>2
<1> HIDE DEF cleared, E
<1>13. /\ Changes(cleared, s, "expense", e)
       /\ BookedAs(EntriesOf(s, "expense", e), v)
  BY <1>6, <1>12, SyncBooks
<1> HIDE DEF s
<1>14. /\ Ledger(s) /\ s.events = db.events /\ s.missed = db.missed /\ s.lost = db.lost
       /\ \A t, f : t # "expense" \/ f # e => EntriesOf(s, t, f) = EntriesOf(db, t, f)
  BY <1>12, <1>13 DEF Changes
<1>15. M \in SUBSET Events BY <1>8, <1>14, Columns
<1>16. /\ Ledger(d2) /\ d2.events = s.events /\ d2.missed = M /\ d2.lost = s.lost
       /\ \A t, f : EntriesOf(d2, t, f) = EntriesOf(s, t, f)
  <2> HIDE DEF M
  <2> QED BY <1>14, <1>15, WithMissedKeeps
<1> HIDE DEF d2
<1>17. Aside(db, d2, e) BY <1>14, <1>16 DEF Aside
<1>18. Standing(d2, e)
  <2>1. d2.events[e] = v /\ e \notin d2.missed BY <1>7, <1>14, <1>16
  <2>2. BookedAs(EntriesOf(d2, "expense", e), v) BY <1>13, <1>16
  <2> QED BY <1>6, <1>10, <2>1, <2>2, BookedIsOrderly, BookedIsOfExpense DEF Standing
<1>19. AtMostOne(d2.missed) BY <1>8, <1>14, <1>16 DEF AtMostOne
<1>20. Upkeep(d2) BY <1>6, <1>8, <1>16, <1>17, <1>18, <1>19, OthersStand
<1>21. Requests' /\ db' = d2 BY <1>9, AnsweredKeeps
<1>22. d2.events = db.events /\ SameSettlements(db, d2)
  BY <1>14, <1>16 DEF SameSettlements
<1> QED BY <1>20, <1>21, <1>22 DEF Upkeep

-----------------------------------------------------------------------------
LEMMA StepKeeps ==
  ASSUME CareWithExpenses, Upkeep(db), Requests, [RepairNext]_vars
  PROVE  Upkeep(db)' /\ Requests'
<1>1. CASE UNCHANGED vars BY <1>1, RequestsStay DEF vars, Upkeep
<1>2. ASSUME NEW e \in Events, NEW form \in Forms, CreateEvent(e, form)
      PROVE  Upkeep(db)' /\ Requests'
  BY <1>2, CreateKeeps
<1>3. ASSUME NEW w \in Workers, NEW e \in Events, NEW op \in {"edit", "rename", "delete"},
             ReadEvent(w, op, e)
      PROVE  Upkeep(db)' /\ Requests'
  BY <1>3, ReadEventKeeps
<1>4. ASSUME NEW w \in Workers, NEW e \in Events, NEW s \in Settlements,
             ReadSettle(w, e, s)
      PROVE  Upkeep(db)' /\ Requests'
  BY <1>4, ReadSettleKeeps
<1>5. ASSUME NEW w \in Workers, NEW form \in Forms, WriteEdit(w, form)
      PROVE  Upkeep(db)' /\ Requests'
  BY <1>5, EditKeeps
<1>6. ASSUME NEW w \in Workers, WriteRename(w) PROVE Upkeep(db)' /\ Requests'
  BY <1>6, RenameKeeps
<1>7. ASSUME NEW w \in Workers, WriteDelete(w) PROVE Upkeep(db)' /\ Requests'
  BY <1>7, DeleteKeeps
<1>8. ASSUME NEW w \in Workers, WriteSettle(w) PROVE Upkeep(db)' /\ Requests'
  BY <1>8, SettleKeeps
<1>9. ASSUME NEW w \in Workers, Refuse(w) PROVE Upkeep(db)' /\ Requests'
  <2>1. Answers(w, db) BY <1>9 DEF Refuse
  <2>2. Requests' /\ db' = db BY <2>1, AnsweredKeeps
  <2> QED BY <2>2 DEF Upkeep
<1>10. CASE LockJournal BY <1>10, LockJournalKeeps
<1>11. ASSUME NEW w \in Workers, ReadRepair(w) PROVE Upkeep(db)' /\ Requests'
  BY <1>11, ReadRepairKeeps
<1>12. ASSUME NEW w \in Workers, WriteRepair(w) PROVE Upkeep(db)' /\ Requests'
  BY <1>12, RepairKeeps
<1> QED
  BY <1>1, <1>2, <1>3, <1>4, <1>5, <1>6, <1>7, <1>8, <1>9, <1>10, <1>11, <1>12
  DEF RepairNext, Next

LEMMA StartsInOrder ==
  ASSUME Init
  PROVE  Upkeep(db) /\ Requests
<1>1. /\ db.events = [e \in Events |-> Absent] /\ db.journal = {} /\ db.lastEntry = 0
      /\ db.missed = {} /\ db.lost = {} /\ db \in Database
  <2>1. Absent \in Row BY AbsentIs
  <2> QED BY <2>1 DEF Init, Database
<1>2. Ledger(db) BY <1>1, FS_EmptySet DEF Ledger, Journaled
<1>3. \A s, o : EntriesOf(db, s, o) = {} BY <1>1 DEF EntriesOf
<1>4. ASSUME NEW e \in Events PROVE Standing(db, e)
  <2>1. db.events[e] = Absent BY <1>1
  <2> QED BY <1>1, <1>3, <2>1, AbsentIs, NoneGone DEF Standing
<1>5. AtMostOne(db.missed) BY <1>1 DEF AtMostOne
<1>6. Requests
  <2>1. RequestOK(Idle) BY DEF RequestOK, Idle
  <2>2. pending = [w \in Workers |-> Idle] BY DEF Init
  <2> QED BY <2>1, <2>2 DEF Requests
<1> QED BY <1>2, <1>4, <1>5, <1>6 DEF Upkeep

LEMMA UpkeepIsBooked ==
  ASSUME Upkeep(db)
  PROVE  ExpensesAreBooked
<1> SUFFICES ASSUME NEW e \in Events, e \notin db.missed
             PROVE  NetOf(EntriesOf(db, "expense", e), "expense")
                      = IF Live(e) /\ db.events[e].known THEN db.events[e].amount ELSE 0
  BY DEF ExpensesAreBooked
<1> DEFINE E == EntriesOf(db, "expense", e)
           v == db.events[e]
<1>1. Ledger(db) /\ Standing(db, e) BY DEF Upkeep
<1>2. v \in Row BY <1>1, Columns
<1>3. "expense" \in Accounts BY AccountsAre
<1>4. CASE v.deleted BY <1>1, <1>3, <1>4 DEF Standing, Gone, Rests, Live
<1>5. CASE ~v.deleted /\ ~v.known
  <2>1. E = {} BY <1>1, <1>5 DEF Standing, BookedAs
  <2> QED BY <1>5, <2>1, NetNone
<1>6. CASE ~v.deleted /\ v.known
  <2>1. StandsAs(E, ExpenseLines(v)) BY <1>1, <1>6 DEF Standing, BookedAs
  <2>2. ExpenseLines(v) \in LinesSet /\ ExpenseLines(v)["expense"] = v.amount
    BY <1>2, ExpenseLinesAre
  <2> HIDE DEF v
  <2>3. NetOf(E, "expense") = ExpenseLines(v)["expense"]
    BY <1>1, <1>3, <2>1, <2>2, StandingNet
  <2> QED BY <1>6, <2>2, <2>3 DEF Live, v
<1> QED BY <1>4, <1>5, <1>6

(***************************************************************************)
(* Whatever is created, edited, settled, deleted, closed and repaired, the *)
(* entries of every expense whose sync has not failed come to its amount,  *)
(* as long as no request works on a row that has changed since it was read *)
(* and the categories are those of the books.  Settlements may be lost to  *)
(* an edit or overwrite those of another debt.                             *)
(***************************************************************************)
THEOREM ExpensesStayBooked ==
  Practices \subseteq {"second_debt", "edit_settled"} =>
    (RepairSpec => []ExpensesAreBooked)
<1> SUFFICES ASSUME CareWithExpenses PROVE RepairSpec => []ExpensesAreBooked
  BY DEF CareWithExpenses
<1>1. Init => Upkeep(db) /\ Requests BY StartsInOrder
<1>2. (Upkeep(db) /\ Requests) /\ [RepairNext]_vars => (Upkeep(db) /\ Requests)'
  BY StepKeeps
<1>3. Upkeep(db) => ExpensesAreBooked BY UpkeepIsBooked
<1> QED BY <1>1, <1>2, <1>3, PTL DEF RepairSpec

-----------------------------------------------------------------------------
(***************************************************************************)
(* Every settlement is in order: it has the number of one debt, and stands *)
(* as that debt lists it until the debt is deleted.  One from a source the *)
(* books do not know, or whose sync failed, has no entry.                  *)
(***************************************************************************)
SettlementsOf(d, n) == EntriesOf(d, "expense_settlement", n)

Listed(d, e) == DOMAIN d.events[e].settlements

SettlementStanding(d, e, n) ==
  LET v == d.events[e]
      E == SettlementsOf(d, n)
  IN  IF v.deleted
      THEN Gone(E) \/ (n \in d.lost /\ StandsAs(E, SettlementLines(v, n)))
      ELSE IF v.settlements[n].known /\ n \notin d.lost
      THEN StandsAs(E, SettlementLines(v, n)) ELSE E = {}

Unlisted(d, n) == \A e \in Events : n \notin Listed(d, e)

DebtIsKnown(v) == ~v.deleted /\ IsDebt(v) => v.known

DebtsKept(d) ==
  /\ \A e \in Events : DebtIsKnown(d.events[e])
  /\ \A e \in Events : d.events[e].settlements # <<>> => IsDebt(d.events[e])
  /\ \A e, f \in Events :
       e = f \/ d.events[e].settlements = <<>> \/ d.events[f].settlements = <<>>
  /\ \A n \in Nat : Unlisted(d, n) => SettlementsOf(d, n) = {} /\ n \notin d.lost
  /\ \A e \in Events : \A n \in Listed(d, e) : SettlementStanding(d, e, n)

\* Settled by no one, before and after.
Unsettling(d, d2, e) ==
  /\ d.events[e].settlements = <<>> /\ d2.events[e].settlements = <<>>
  /\ DebtIsKnown(d2.events[e])

LEMMA KeptAlike ==
  ASSUME NEW d, DebtsKept(d), NEW d2, SameSettlements(d, d2),
         \A e \in Events : d2.events[e] = d.events[e] \/ Unsettling(d, d2, e)
  PROVE  DebtsKept(d2)
<1>1. \A e \in Events : d2.events[e].settlements = d.events[e].settlements
  BY DEF Unsettling
<1>2. \A e \in Events : d2.events[e].settlements # <<>> => d2.events[e] = d.events[e]
  BY DEF Unsettling
<1>3. \A e \in Events : Listed(d2, e) = Listed(d, e) BY <1>1 DEF Listed
<1>4. d2.lost = d.lost /\ \A n : SettlementsOf(d2, n) = SettlementsOf(d, n)
  BY DEF SettlementsOf, SameSettlements
<1>5. \A e \in Events : DebtIsKnown(d2.events[e]) BY DEF DebtsKept, Unsettling
<1>6. \A e \in Events : d2.events[e].settlements # <<>> => IsDebt(d2.events[e])
  BY <1>2 DEF DebtsKept
<1>7. \A n \in Nat : Unlisted(d2, n) => SettlementsOf(d2, n) = {} /\ n \notin d2.lost
  BY <1>3, <1>4 DEF DebtsKept, Unlisted
<1>8. ASSUME NEW e \in Events, NEW n \in Listed(d2, e) PROVE SettlementStanding(d2, e, n)
  <2>1. n \in Listed(d, e) BY <1>3
  <2>2. d2.events[e] = d.events[e]
    <3>1. DOMAIN <<>> = {} OBVIOUS
    <3> QED BY <1>2, <3>1 DEF Listed
  <2>3. SettlementStanding(d, e, n) BY <2>1 DEF DebtsKept
  <2> QED BY <1>4, <2>2, <2>3 DEF SettlementStanding
<1>9. \A e, f \in Events :
        e = f \/ d2.events[e].settlements = <<>> \/ d2.events[f].settlements = <<>>
  BY <1>1 DEF DebtsKept
<1> QED BY <1>5, <1>6, <1>7, <1>8, <1>9 DEF DebtsKept

NoPractices == Practices = {}

LEMMA CreateKeepsDebts ==
  ASSUME NoPractices, Upkeep(db), DebtsKept(db), Requests, NEW e \in Events,
         NEW form \in Forms, CreateEvent(e, form)
  PROVE  DebtsKept(db)'
<1> DEFINE u == WithData(Absent, form)
           v == [u EXCEPT !.deleted = FALSE]
<1>0. /\ u \in Row /\ u.known = form.known /\ u.amount # 0 /\ u.settlements = <<>>
      /\ u.by = form.by
  BY AbsentIs, FormsAre
<1>1. /\ v \in Row /\ ~v.deleted /\ v.known = form.known /\ v.amount # 0
      /\ v.settlements = <<>> /\ v.by = form.by
  <2> HIDE DEF u
  <2> QED BY <1>0 DEF Row
<1>2. CareWithExpenses BY DEF NoPractices, CareWithExpenses
<1>3. db.events[e] = Absent /\ KnowsCategory(e, form) BY DEF CreateEvent
<1>4. EntriesOf(db, "expense", e) = {}
  <2>1. Standing(db, e) BY DEF Upkeep
  <2> QED BY <1>3, <2>1, AbsentIs DEF Standing
<1>5. Syncable(db, e, v) BY <1>4, NoneOrderly DEF Syncable, OfExpense
<1>6. db' \in AfterSync(WithRow(db, e, v), e, v) BY DEF CreateEvent, WithRow
<1> HIDE DEF v
<1>7. /\ SameSettlements(db, db') /\ db'.events[e] = v
      /\ \A f \in Events : f # e => db'.events[f] = db.events[f]
  BY <1>1, <1>2, <1>5, <1>6, AfterSyncStands
<1>8. DebtIsKnown(v)
  <2>1. form.known \in BOOLEAN /\ "unknown" \notin Practices BY DEF Forms, NoPractices
  <2>2. IsDebt(form) => form.known BY <1>3, <2>1, OpenWhenUnknown
  <2> QED BY <1>1, <2>2 DEF DebtIsKnown, IsDebt
<1>9. Unsettling(db, db', e) BY <1>1, <1>3, <1>7, <1>8, AbsentIs DEF Unsettling
<1>10. DebtsKept(db') BY <1>7, <1>9, KeptAlike
<1> QED BY <1>10 DEF DebtsKept, DebtIsKnown, SettlementStanding, Unlisted, Listed, SettlementsOf

LEMMA DebtsHere == ASSUME DebtsKept(db') PROVE DebtsKept(db)'
BY DEF DebtsKept, DebtIsKnown, SettlementStanding, Unlisted, Listed, SettlementsOf

LEMMA NoPracticesIsCare == ASSUME NoPractices PROVE CareWithExpenses
BY DEF NoPractices, CareWithExpenses

LEMMA EditKeepsDebts ==
  ASSUME NoPractices, Upkeep(db), DebtsKept(db), Requests, NEW w \in Workers,
         NEW form \in Forms, WriteEdit(w, form)
  PROVE  DebtsKept(db)'
<1> DEFINE e == pending[w].event
           v == WithData(db.events[e], form)
<1>1. e \in Events BY DEF WriteEdit, Requests, RequestOK
<1>2. "unknown" \notin Practices BY DEF NoPractices
<1>3. db.events[e].settlements = <<>> /\ Live(e) /\ KnowsCategory(e, form)
  BY DEF WriteEdit, NoPractices
<1>4. db.events[e] \in Row /\ ~db.events[e].deleted
  <2>1. Ledger(db) BY DEF Upkeep
  <2> HIDE DEF e
  <2>2. db.events[e] \in Row BY <1>1, <2>1, Columns
  <2> QED BY <1>3, <2>2 DEF Live
<1>5. /\ v \in Row /\ v.known = form.known /\ ~v.deleted /\ v.amount # 0
      /\ v.settlements = <<>> /\ v.by = form.by
  BY <1>4, FormsAre
<1>6. PICK d2 \in AfterSync(WithRow(db, e, v), e, v) : Answers(w, d2)
  BY DEF WriteEdit, WithRow
<1> HIDE DEF e, v
<1>7. form.known \in BOOLEAN BY DEF Forms
<1>8. /\ form.known \/ \A x \in EntriesOf(db, "expense", e) : ~x.locked
      /\ IsDebt(form) => form.known
  BY <1>2, <1>3, <1>7, OpenWhenUnknown
<1>9. Orderly(EntriesOf(db, "expense", e)) /\ OfExpense(EntriesOf(db, "expense", e))
  BY <1>1, <1>4, LiveStands
<1>10. Syncable(db, e, v) BY <1>5, <1>8, <1>9 DEF Syncable
<1>11. /\ SameSettlements(db, d2) /\ d2.events[e] = v
       /\ \A f \in Events : f # e => d2.events[f] = db.events[f]
  BY <1>1, <1>5, <1>6, <1>10, AfterSyncStands, NoPracticesIsCare
<1>12. Unsettling(db, d2, e)
  BY <1>3, <1>5, <1>8, <1>11 DEF Unsettling, DebtIsKnown, IsDebt
<1>13. DebtsKept(d2) BY <1>11, <1>12, KeptAlike
<1>14. db' = d2 BY <1>6, AnsweredKeeps
<1> QED BY <1>13, <1>14, DebtsHere

LEMMA RenameKeepsDebts ==
  ASSUME NoPractices, Upkeep(db), DebtsKept(db), Requests, NEW w \in Workers, WriteRename(w)
  PROVE  DebtsKept(db)'
<1> DEFINE e == pending[w].event
           v == pending[w].seen
<1>1. e \in Events /\ v \in Row /\ ~v.deleted
  BY DEF WriteRename, Requests, RequestOK, HoldsRow
<1>2. db.events[e] = v /\ KnowsCategory(e, v) BY DEF WriteRename, NoPractices
<1>3. "unknown" \notin Practices BY DEF NoPractices
<1>4. PICK d2 \in AfterSync(db, e, v) : Answers(w, d2) BY DEF WriteRename
<1>5. v.known \in BOOLEAN BY <1>1 DEF Row
<1> HIDE DEF e, v
<1>6. v.known \/ \A x \in EntriesOf(db, "expense", e) : ~x.locked
  BY <1>2, <1>3, <1>5, OpenWhenUnknown
<1>7. /\ Orderly(EntriesOf(db, "expense", e)) /\ OfExpense(EntriesOf(db, "expense", e))
      /\ v.amount # 0
  BY <1>1, <1>2, LiveStands
<1>8. Syncable(db, e, v) BY <1>6, <1>7 DEF Syncable
<1>9. WithRow(db, e, v) = db
  <2>1. db \in Database BY DEF Upkeep, Ledger
  <2> QED BY <1>1, <1>2, <2>1 DEF Database, WithRow
<1>10. /\ SameSettlements(db, d2) /\ d2.events[e] = v
       /\ \A f \in Events : f # e => d2.events[f] = db.events[f]
  BY <1>1, <1>4, <1>7, <1>8, <1>9, AfterSyncStands, NoPracticesIsCare
<1>11. DebtsKept(d2) BY <1>2, <1>10, KeptAlike
<1>12. db' = d2 BY <1>4, AnsweredKeeps
<1> QED BY <1>11, <1>12, DebtsHere

\* Of the settlements 1 to n those whose sync fails stay, as do all of other
\* numbers; the rest come to nothing.
LEMMA UnsettledGone ==
  ASSUME NEW d, Ledger(d), NEW n \in Nat, NEW F \in SUBSET (1..n),
         \A k \in 1..n : Orderly(SettlementsOf(d, k))
  PROVE  LET d2 == Unsettled(d, n, F)
         IN  /\ \A k \in (1..n) \ F : Gone(SettlementsOf(d2, k))
             /\ \A k : k \notin (1..n) \ F => SettlementsOf(d2, k) = SettlementsOf(d, k)
<1> DEFINE Taken(d2, k) ==
             /\ Ledger(d2)
             /\ \A i \in (1..k) \ F : Gone(SettlementsOf(d2, i))
             /\ \A i : i \notin (1..k) \ F => SettlementsOf(d2, i) = SettlementsOf(d, i)
<1>1. PICK after : /\ TakenBack(d, n, F, after)
                   /\ Unsettled(d, n, F) = WithLost(after[n], Rest(after[n], n, F))
  BY UnsettledIs
<1> DEFINE good == {k \in 0..n : Taken(after[k], k)}
<1>2. \A k \in 0..n : after[k] = IF k = 0 THEN d ELSE TakeBack(after[k - 1], k, F)
  BY <1>1 DEF TakenBack
<1>3. 0 \in good
  <2>1. after[0] = d BY <1>2
  <2>2. \A i \in 1..0 : FALSE OBVIOUS
  <2> QED BY <2>1, <2>2
<1>4. ASSUME NEW k \in 1..n, k - 1 \in good PROVE k \in good
  <2> DEFINE d1 == after[k - 1]
             d2 == after[k]
  <2>1. /\ k \in 0..n /\ k # 0 /\ IsKey("expense_settlement", k)
        /\ "expense_settlement" \in Sources
    BY DEF IsKey, Sources
  <2>2. d2 = IF k \in F THEN d1 ELSE Unsync(d1, "expense_settlement", k)
    BY <1>2, <2>1 DEF TakeBack
  <2>3. Taken(d1, k - 1) BY <1>4
  <2>4. k \notin 1..(k - 1) OBVIOUS
  <2>5. \A i : i \in 1..k <=> i \in 1..(k - 1) \/ i = k OBVIOUS
  <2> HIDE DEF d1, d2
  <2>6. CASE k \in F
    <3>1. \A i : i \in (1..k) \ F <=> i \in (1..(k - 1)) \ F BY <2>5, <2>6
    <3>2. Taken(d2, k) BY <2>2, <2>3, <2>6, <3>1
    <3> QED BY <2>1, <3>2 DEF d2
  <2>7. CASE k \notin F
    <3>1. Orderly(EntriesOf(d1, "expense_settlement", k)) BY <2>3, <2>4 DEF SettlementsOf
    <3>2. /\ Changes(d1, d2, "expense_settlement", k)
          /\ Gone(EntriesOf(d2, "expense_settlement", k))
      BY <2>1, <2>2, <2>3, <2>7, <3>1, UnsyncGone
    <3>3. Ledger(d2) /\ \A i : i # k => SettlementsOf(d2, i) = SettlementsOf(d1, i)
      BY <3>2 DEF Changes, SettlementsOf
    <3>4. Gone(SettlementsOf(d2, k)) BY <3>2 DEF SettlementsOf
    <3>5. ASSUME NEW i \in (1..k) \ F PROVE Gone(SettlementsOf(d2, i))
      BY <2>3, <2>5, <3>3, <3>4
    <3>6. ASSUME NEW i, i \notin (1..k) \ F PROVE SettlementsOf(d2, i) = SettlementsOf(d, i)
      <4>1. i # k /\ i \notin (1..(k - 1)) \ F BY <2>5, <2>7, <3>6
      <4> QED BY <2>3, <3>3, <4>1
    <3>7. Taken(d2, k) BY <3>3, <3>5, <3>6
    <3> QED BY <2>1, <3>7 DEF d2
  <2> QED BY <2>6, <2>7
<1>5. n \in good
  <2>1. good \subseteq 0..n OBVIOUS
  <2> HIDE DEF good
  <2> QED BY <1>3, <1>4, <2>1, OneByOne
<1> DEFINE last == after[n]
<1>6. Taken(last, n) BY <1>5
<1>7. last.lost \subseteq Nat BY <1>6 DEF Ledger, Database
<1> HIDE DEF last
<1>8. Rest(last, n, F) \in SUBSET Nat
  <2>1. F \subseteq Nat OBVIOUS
  <2> QED BY <1>7, <2>1 DEF Rest
<1>9. Unsettled(d, n, F) = WithLost(last, Rest(last, n, F)) BY <1>1 DEF last
<1>10. \A k : SettlementsOf(Unsettled(d, n, F), k) = SettlementsOf(last, k)
  BY <1>6, <1>8, <1>9, WithLostKeeps DEF SettlementsOf
<1> QED BY <1>6, <1>10

LEMMA NoneListed == ASSUME NEW d, NEW e, d.events[e].settlements = <<>>
                    PROVE  Listed(d, e) = {}
BY DEF Listed

\* What a debt lists is in order: its entries can be taken back.
LEMMA ListedOrderly ==
  ASSUME NEW d, NEW e, NEW n, ~d.events[e].deleted, SettlementStanding(d, e, n)
  PROVE  LET E == SettlementsOf(d, n)
         IN  Orderly(E) /\ (E = {} \/ StandsAs(E, SettlementLines(d.events[e], n)))
BY NoneOrderly DEF SettlementStanding, StandsAs

LEMMA DeleteKeepsDebts ==
  ASSUME NoPractices, Upkeep(db), DebtsKept(db), Requests, NEW w \in Workers, WriteDelete(w)
  PROVE  DebtsKept(db)'
<1> DEFINE e == pending[w].event
           seen == db.events[e]
           n == ListedBy(seen)
           d1 == Removed(e)
<1>0. "stale_delete" \notin Practices BY DEF NoPractices
<1>1. e \in Events /\ seen \in Row /\ ~seen.deleted /\ n \in Nat BY <1>0, DeleteIs
<1>2. PICK d2 \in AfterUnsync(d1, e), F \in SUBSET (1..n) : Answers(w, Unsettled(d2, n, F))
  BY <1>0, DeleteIs
<1>3. Ledger(db) BY DEF Upkeep
<1> HIDE DEF e
<1>4. /\ Ledger(d1) /\ d1.missed = db.missed /\ d1.lost = db.lost /\ d1.events[e].deleted
      /\ d1.events[e].amount = seen.amount /\ d1.events[e].settlements = seen.settlements
      /\ d1.events[e].by = seen.by
      /\ \A f \in Events : f # e => d1.events[f] = db.events[f]
      /\ \A s, o : EntriesOf(d1, s, o) = EntriesOf(db, s, o)
  <2>1. [seen EXCEPT !.deleted = TRUE].by = seen.by BY <1>1 DEF Row
  <2> HIDE DEF d1
  <2> QED BY <1>1, <1>3, <2>1, RemovedIs DEF d1
<1>5. Listed(db, e) = 1..n
  <2>1. seen.settlements \in Seq(Settlement) BY <1>1 DEF Row
  <2>2. ~IsDebt(seen) => seen.settlements = <<>> BY <1>1 DEF DebtsKept
  <2>3. DOMAIN seen.settlements = 1..Len(seen.settlements) BY <2>1
  <2>4. DOMAIN <<>> = 1..0 OBVIOUS
  <2> QED BY <2>2, <2>3, <2>4 DEF Listed, ListedBy
<1> HIDE DEF d1, seen, n
<1>6. Upkeep(d2) /\ d2.events = d1.events /\ SameSettlements(d1, d2)
  BY <1>1, <1>2, <1>4, AfterUnsyncStands DEF seen
<1>7. /\ Ledger(d2) /\ d2.lost = db.lost
      /\ \A k : SettlementsOf(d2, k) = SettlementsOf(db, k)
  BY <1>4, <1>6 DEF Upkeep, SameSettlements, SettlementsOf
<1> DEFINE d3 == Unsettled(d2, n, F)
<1>8. ASSUME NEW k \in 1..n
      PROVE  /\ Orderly(SettlementsOf(db, k))
             /\ SettlementsOf(db, k) = {}
                \/ StandsAs(SettlementsOf(db, k), SettlementLines(seen, k))
  <2>1. SettlementStanding(db, e, k) BY <1>1, <1>5 DEF DebtsKept
  <2> QED BY <1>1, <2>1, ListedOrderly DEF seen
<1>9. /\ d3.events = d1.events /\ d3.lost = (db.lost \ (1..n)) \union F
      /\ \A k \in (1..n) \ F : Gone(SettlementsOf(d3, k))
      /\ \A k : k \notin (1..n) \ F => SettlementsOf(d3, k) = SettlementsOf(db, k)
  <2>1. \A k \in 1..n : Orderly(SettlementsOf(d2, k)) BY <1>7, <1>8
  <2>2. d3.events = d2.events /\ d3.lost = Rest(d2, n, F)
    <3> HIDE DEF d3
    <3> QED BY <1>1, <1>7, UnsettledKeeps DEF d3
  <2>3. /\ \A k \in (1..n) \ F : Gone(SettlementsOf(d3, k))
        /\ \A k : k \notin (1..n) \ F => SettlementsOf(d3, k) = SettlementsOf(d2, k)
    <3> HIDE DEF d3
    <3> QED BY <1>1, <1>7, <2>1, UnsettledGone DEF d3
  <2> HIDE DEF d3
  <2> QED BY <1>6, <1>7, <2>2, <2>3 DEF Rest
<1>10. Answers(w, d3) BY <1>2
<1> HIDE DEF d3
<1>11. \A f \in Events : d3.events[f].settlements = db.events[f].settlements
  BY <1>4, <1>9 DEF seen
<1>12. \A f \in Events : Listed(d3, f) = Listed(db, f) BY <1>11 DEF Listed
<1>13. \A f \in Events : DebtIsKnown(d3.events[f])
  BY <1>4, <1>9 DEF DebtsKept, DebtIsKnown
<1>14. \A f \in Events : d3.events[f].settlements # <<>> => IsDebt(d3.events[f])
  BY <1>4, <1>9, <1>11 DEF DebtsKept, IsDebt, seen
<1>15. \A f, g \in Events :
         f = g \/ d3.events[f].settlements = <<>> \/ d3.events[g].settlements = <<>>
  BY <1>11 DEF DebtsKept
<1>16. ASSUME NEW k \in Nat, Unlisted(d3, k)
       PROVE  SettlementsOf(d3, k) = {} /\ k \notin d3.lost
  <2>1. Unlisted(db, k) BY <1>12, <1>16 DEF Unlisted
  <2>2. k \notin 1..n BY <1>1, <1>5, <2>1 DEF Unlisted
  <2>3. k \notin F BY <1>2, <2>2
  <2> QED BY <1>9, <2>1, <2>2, <2>3 DEF DebtsKept
<1>17. ASSUME NEW f \in Events, NEW k \in Listed(d3, f) PROVE SettlementStanding(d3, f, k)
  <2>1. CASE f = e
    <3>1. k \in 1..n BY <1>5, <1>12, <2>1
    <3>2. d3.events[e].deleted BY <1>4, <1>9
    <3>3. CASE k \notin F BY <1>9, <2>1, <3>1, <3>2, <3>3 DEF SettlementStanding
    <3>4. CASE k \in F
      <4>1. k \in d3.lost /\ SettlementsOf(d3, k) = SettlementsOf(db, k) BY <1>9, <3>4
      <4>2. SettlementLines(d3.events[e], k) = SettlementLines(seen, k)
        BY <1>4, <1>9 DEF SettlementLines
      <4>3. Gone(SettlementsOf(d3, k)) \/ StandsAs(SettlementsOf(d3, k), SettlementLines(seen, k))
        BY <1>8, <3>1, <4>1, NoneGone
      <4> QED BY <2>1, <3>2, <4>1, <4>2, <4>3 DEF SettlementStanding
    <3> QED BY <3>3, <3>4
  <2>2. CASE f # e
    <3>1. k \in Listed(db, f) BY <1>12
    <3>2. db.events[f].settlements # <<>> BY <3>1, NoneListed
    <3>3. db.events[e].settlements = <<>> BY <1>1, <2>2, <3>2 DEF DebtsKept
    <3>4. 1..n = {} BY <1>5, <3>3, NoneListed
    <3>5. SettlementStanding(db, f, k) BY <3>1 DEF DebtsKept
    <3>6. d3.lost = db.lost /\ SettlementsOf(d3, k) = SettlementsOf(db, k) BY <1>2, <1>9, <3>4
    <3>7. d3.events[f] = db.events[f] BY <1>4, <1>9, <2>2
    <3> QED BY <3>5, <3>6, <3>7 DEF SettlementStanding
  <2> QED BY <2>1, <2>2
<1>18. DebtsKept(d3) BY <1>13, <1>14, <1>15, <1>16, <1>17 DEF DebtsKept
<1>19. db' = d3 BY <1>10, AnsweredKeeps
<1> QED BY <1>18, <1>19, DebtsHere

\* A settlement under a new number is booked, if its source is known and its
\* sync does not fail.
LEMMA NewSettlement ==
  ASSUME NEW d, Ledger(d), NEW id \in Nat, SettlementsOf(d, id) = {},
         NEW vendor \in Vendors, NEW s \in Settlement, NEW d2 \in AfterSettle(d, id, vendor, s)
  PROVE  /\ d2.events = d.events /\ d2.lost \in {d.lost, d.lost \union {id}}
         /\ \A k : k # id => SettlementsOf(d2, k) = SettlementsOf(d, k)
         /\ IF s.known /\ (id \in d.lost <=> id \in d2.lost)
              THEN id \notin d.lost =>
                     StandsAs(SettlementsOf(d2, id), Movement(vendor, "asset", s.amount))
              ELSE SettlementsOf(d2, id) = {}
<1> DEFINE lines == Movement(vendor, "asset", s.amount)
<1>1. CASE d2 = SyncSettlement(d, id, vendor, s)
  <2>1. Changes(d, d2, "expense_settlement", id) BY <1>1, SyncSettlementChanges
  <2>2. /\ d2.events = d.events /\ d2.lost = d.lost
        /\ \A k : k # id => SettlementsOf(d2, k) = SettlementsOf(d, k)
    BY <2>1 DEF Changes, SettlementsOf
  <2>3. CASE ~s.known
    <3>1. d2 = d BY <1>1, <2>3 DEF SyncSettlement, SettlementsOf
    <3> QED BY <2>2, <2>3, <3>1
  <2>4. CASE s.known
    <3>1. lines \in LinesSet
      <4>1. vendor \in Accounts /\ "asset" \in Accounts /\ vendor # "asset" /\ s.amount \in Nat
        BY AccountsAre DEF Settlement
      <4> QED BY <4>1, MovementIs
    <3>2. IsKey("expense_settlement", id) /\ "expense_settlement" \in Sources
      BY DEF IsKey, Sources
    <3>3. Orderly(EntriesOf(d, "expense_settlement", id)) BY NoneOrderly DEF SettlementsOf
    <3>4. d2 = Resync(d, "expense_settlement", id, lines) BY <1>1, <2>4 DEF SyncSettlement
    <3> HIDE DEF lines
    <3>5. StandsAs(EntriesOf(d2, "expense_settlement", id), lines)
      BY <3>1, <3>2, <3>3, <3>4, ResyncStands
    <3> QED BY <2>2, <2>4, <3>5 DEF SettlementsOf, lines
  <2> QED BY <2>3, <2>4
<1>2. CASE d2 = WithLost(d, d.lost \union {id})
  <2>1. d.lost \union {id} \in SUBSET Nat BY DEF Ledger, Database
  <2>2. /\ d2.events = d.events /\ d2.lost = d.lost \union {id}
        /\ \A k : SettlementsOf(d2, k) = SettlementsOf(d, k)
    BY <1>2, <2>1, WithLostKeeps DEF SettlementsOf
  <2> QED BY <2>2
<1> QED BY <1>1, <1>2 DEF AfterSettle, WithLost

LEMMA SettleKeepsDebts ==
  ASSUME NoPractices, Upkeep(db), DebtsKept(db), Requests, NEW w \in Workers, WriteSettle(w)
  PROVE  DebtsKept(db)'
<1> DEFINE e == pending[w].event
           seen == db.events[e]
           s == pending[w].settlement
           n == Len(seen.settlements)
           id == n + 1
           v == WithSettlement(seen, s)
           d1 == WithRow(db, e, v)
<1>0. "stale_settle" \notin Practices BY DEF NoPractices
<1>1. e \in Events /\ seen \in Row /\ ~seen.deleted /\ IsDebt(seen) /\ s \in Settlement
  BY <1>0, SettleIs
<1>2. PICK d2 \in AfterSettle(d1, id, seen.by, s) : Answers(w, d2) BY <1>0, SettleIs
<1>3. \A f \in Events \ {e} : ~(Len(db.events[f].settlements) >= id)
  <2>1. pending[w].seen = seen BY <1>0 DEF WriteSettle
  <2>2. Len(Append(seen.settlements, s)) = id
    <3>1. seen.settlements \in Seq(Settlement) BY <1>1 DEF Row
    <3> HIDE DEF seen, s
    <3> QED BY <1>1, <3>1
  <2>3. \A f \in Events \ {e} :
          ~(Len(db.events[f].settlements) >= Len(Append(pending[w].seen.settlements, s)))
    BY DEF WriteSettle, NoPractices
  <2> HIDE DEF seen, s, id, e
  <2> QED BY <2>1, <2>2, <2>3
<1> HIDE DEF e, s, seen
<1>4. /\ v \in Row /\ v.by = seen.by /\ v.known = seen.known /\ ~v.deleted
      /\ n \in Nat /\ DOMAIN v.settlements = 1..id /\ v.settlements[id] = s
      /\ \A k \in 1..n : v.settlements[k] = seen.settlements[k]
  BY <1>1, WithSettlementIs
<1>5. DOMAIN seen.settlements = 1..n
  <2>1. seen.settlements \in Seq(Settlement) BY <1>1 DEF Row
  <2> QED BY <2>1
<1>6. Ledger(db) BY DEF Upkeep
<1> HIDE DEF v
<1>7. /\ Ledger(d1) /\ d1.events[e] = v /\ d1.lost = db.lost
      /\ \A f \in Events : f # e => d1.events[f] = db.events[f]
      /\ \A t, o : EntriesOf(d1, t, o) = EntriesOf(db, t, o)
  <2> HIDE DEF d1
  <2> QED BY <1>1, <1>4, <1>6, WithRowKeeps DEF d1
<1> HIDE DEF d1
<1>8. \A f \in Events : f # e => db.events[f].settlements = <<>>
  <2> SUFFICES ASSUME NEW f \in Events, f # e, db.events[f].settlements # <<>>
               PROVE  FALSE
    OBVIOUS
  <2>1. seen.settlements = <<>> BY <1>1 DEF DebtsKept, seen
  <2>2. id = 1 BY <2>1
  <2>3. db.events[f].settlements \in Seq(Settlement) BY <1>6, Columns DEF Row
  <2>4. Len(db.events[f].settlements) >= 1 BY <2>3
  <2> HIDE DEF id
  <2> QED BY <1>3, <2>2, <2>4
<1>9. \A f \in Events : f # e => Listed(db, f) = {} BY <1>8, NoneListed
<1>10. Listed(db, e) = 1..n BY <1>5 DEF Listed, seen
<1>11. id \in Nat /\ id \notin 1..n /\ \A k : k \in 1..id <=> k \in 1..n \/ k = id
  <2> HIDE DEF n
  <2> QED BY <1>4
<1> HIDE DEF n, id
<1>12. SettlementsOf(db, id) = {} /\ id \notin db.lost
  <2>1. Unlisted(db, id) BY <1>9, <1>10, <1>11 DEF Unlisted
  <2> QED BY <1>11, <2>1 DEF DebtsKept
<1>13. seen.by \in Vendors BY <1>1 DEF IsDebt
<1> DEFINE lines == Movement(seen.by, "asset", s.amount)
<1>14. /\ d2.events = d1.events /\ d2.lost \in {db.lost, db.lost \union {id}}
       /\ \A k : k # id => SettlementsOf(d2, k) = SettlementsOf(db, k)
       /\ IF s.known /\ id \notin d2.lost THEN StandsAs(SettlementsOf(d2, id), lines)
          ELSE SettlementsOf(d2, id) = {}
  <2>1. SettlementsOf(d1, id) = {} /\ \A k : SettlementsOf(d1, k) = SettlementsOf(db, k)
    BY <1>7, <1>12 DEF SettlementsOf
  <2> HIDE DEF lines
  <2>2. /\ d2.events = d1.events /\ d2.lost \in {d1.lost, d1.lost \union {id}}
        /\ \A k : k # id => SettlementsOf(d2, k) = SettlementsOf(d1, k)
        /\ IF s.known /\ (id \in d1.lost <=> id \in d2.lost)
             THEN id \notin d1.lost => StandsAs(SettlementsOf(d2, id), lines)
             ELSE SettlementsOf(d2, id) = {}
    BY <1>1, <1>2, <1>7, <1>11, <1>13, <2>1, NewSettlement DEF lines
  <2> QED BY <1>7, <1>12, <2>1, <2>2
<1>15. d2.events[e] = v /\ \A f \in Events : f # e => d2.events[f] = db.events[f]
  BY <1>7, <1>14
<1>16. Listed(d2, e) = 1..id /\ \A f \in Events : f # e => Listed(d2, f) = {}
  BY <1>4, <1>9, <1>15 DEF Listed
<1>17. \A f \in Events : DebtIsKnown(d2.events[f])
  <2>1. DebtIsKnown(seen) BY <1>1 DEF DebtsKept, seen
  <2>2. DebtIsKnown(v) BY <1>1, <1>4, <2>1 DEF DebtIsKnown, IsDebt
  <2> QED BY <1>15, <2>2 DEF DebtsKept
<1>18. \A f \in Events : d2.events[f].settlements # <<>> => IsDebt(d2.events[f])
  BY <1>1, <1>4, <1>8, <1>15 DEF IsDebt
<1>19. \A f, g \in Events :
         f = g \/ d2.events[f].settlements = <<>> \/ d2.events[g].settlements = <<>>
  BY <1>8, <1>15
<1>20. ASSUME NEW k \in Nat, Unlisted(d2, k)
       PROVE  SettlementsOf(d2, k) = {} /\ k \notin d2.lost
  <2>1. k # id /\ k \notin 1..n BY <1>1, <1>11, <1>16, <1>20 DEF Unlisted
  <2>2. Unlisted(db, k) BY <1>9, <1>10, <2>1 DEF Unlisted
  <2> QED BY <1>14, <2>1, <2>2 DEF DebtsKept
<1>21. ASSUME NEW f \in Events, NEW k \in Listed(d2, f) PROVE SettlementStanding(d2, f, k)
  <2>1. f = e /\ k \in 1..id BY <1>16
  <2>2. CASE k = id
    <3>1. SettlementLines(v, id) = lines BY <1>4 DEF SettlementLines
    <3> HIDE DEF lines
    <3> QED BY <1>4, <1>14, <1>15, <2>1, <2>2, <3>1 DEF SettlementStanding
  <2>3. CASE k # id
    <3>1. k \in 1..n BY <1>11, <2>1, <2>3
    <3>2. SettlementStanding(db, e, k) BY <1>1, <1>10, <3>1 DEF DebtsKept
    <3>3. /\ SettlementLines(v, k) = SettlementLines(seen, k)
          /\ v.settlements[k] = seen.settlements[k]
      BY <1>4, <3>1 DEF SettlementLines
    <3>4. (k \in d2.lost <=> k \in db.lost) /\ SettlementsOf(d2, k) = SettlementsOf(db, k)
      BY <1>14, <2>3
    <3> QED BY <1>1, <1>4, <1>15, <2>1, <3>2, <3>3, <3>4 DEF SettlementStanding, seen
  <2> QED BY <2>2, <2>3
<1>22. DebtsKept(d2) BY <1>17, <1>18, <1>19, <1>20, <1>21 DEF DebtsKept
<1>23. db' = d2 BY <1>2, AnsweredKeeps
<1> QED BY <1>22, <1>23, DebtsHere

LEMMA LockKeepsDebts ==
  ASSUME Upkeep(db), DebtsKept(db), LockJournal
  PROVE  DebtsKept(db)'
<1> DEFINE d2 == LockRange(db)
<1>1. db' = d2 BY DEF LockJournal
<1>2. Ledger(db) BY DEF Upkeep
<1>3. d2.events = db.events /\ d2.lost = db.lost
  <2> HIDE DEF d2
  <2> QED BY <1>2, LockKeeps DEF d2
<1>4. \A n : /\ SettlementsOf(d2, n) = {} <=> SettlementsOf(db, n) = {}
             /\ Gone(SettlementsOf(db, n)) => Gone(SettlementsOf(d2, n))
             /\ \A lines : StandsAs(SettlementsOf(db, n), lines)
                             => StandsAs(SettlementsOf(d2, n), lines)
  BY <1>2, LockedStay DEF SettlementsOf
<1> HIDE DEF d2
<1>5. \A e \in Events : Listed(d2, e) = Listed(db, e) BY <1>3 DEF Listed
<1>6. \A n \in Nat : Unlisted(d2, n) => SettlementsOf(d2, n) = {} /\ n \notin d2.lost
  BY <1>3, <1>4, <1>5 DEF DebtsKept, Unlisted
<1>7. \A e \in Events : \A n \in Listed(d2, e) : SettlementStanding(d2, e, n)
  BY <1>3, <1>4, <1>5 DEF DebtsKept, SettlementStanding
<1>8. DebtsKept(d2) BY <1>3, <1>6, <1>7 DEF DebtsKept
<1> QED BY <1>1, <1>8, DebtsHere

LEMMA StepKeepsDebts ==
  ASSUME NoPractices, Upkeep(db), DebtsKept(db), Requests, [RepairNext]_vars
  PROVE  DebtsKept(db)'
<1>1. ASSUME db' = db PROVE DebtsKept(db)'
  BY <1>1, DebtsHere
<1>2. CASE UNCHANGED vars BY <1>1, <1>2 DEF vars
<1>3. ASSUME NEW e \in Events, NEW form \in Forms, CreateEvent(e, form)
      PROVE  DebtsKept(db)'
  BY <1>3, CreateKeepsDebts
<1>4. ASSUME NEW w \in Workers, NEW r, Reads(w, r) PROVE DebtsKept(db)'
  BY <1>1, <1>4 DEF Reads
<1>5. ASSUME NEW w \in Workers, NEW e \in Events, NEW op, ReadEvent(w, op, e)
      PROVE  DebtsKept(db)'
  BY <1>4, <1>5 DEF ReadEvent
<1>6. ASSUME NEW w \in Workers, NEW e \in Events, NEW s, ReadSettle(w, e, s)
      PROVE  DebtsKept(db)'
  BY <1>4, <1>6 DEF ReadSettle
<1>7. ASSUME NEW w \in Workers, NEW form \in Forms, WriteEdit(w, form)
      PROVE  DebtsKept(db)'
  BY <1>7, EditKeepsDebts
<1>8. ASSUME NEW w \in Workers, WriteRename(w) PROVE DebtsKept(db)'
  BY <1>8, RenameKeepsDebts
<1>9. ASSUME NEW w \in Workers, WriteDelete(w) PROVE DebtsKept(db)'
  BY <1>9, DeleteKeepsDebts
<1>10. ASSUME NEW w \in Workers, WriteSettle(w) PROVE DebtsKept(db)'
  BY <1>10, SettleKeepsDebts
<1>11. ASSUME NEW w \in Workers, Refuse(w) PROVE DebtsKept(db)'
  BY <1>1, <1>11 DEF Refuse, Answers
<1>12. CASE LockJournal BY <1>12, LockKeepsDebts
<1>13. ASSUME NEW w \in Workers, ReadRepair(w) PROVE DebtsKept(db)'
  BY <1>4, <1>13 DEF ReadRepair
<1>14. ASSUME NEW w \in Workers, WriteRepair(w) PROVE DebtsKept(db)'
  <2>1. db'.events = db.events /\ SameSettlements(db, db')
    BY <1>14, RepairKeeps, NoPracticesIsCare
  <2>2. DebtsKept(db') BY <2>1, KeptAlike
  <2> QED BY <2>2, DebtsHere
<1> QED
  BY <1>2, <1>3, <1>5, <1>6, <1>7, <1>8, <1>9, <1>10, <1>11, <1>12, <1>13, <1>14
  DEF RepairNext, Next

LEMMA StartsWithoutDebts == ASSUME Init PROVE DebtsKept(db)
<1>1. db.events = [e \in Events |-> Absent] /\ db.journal = {} /\ db.lost = {} BY DEF Init
<1>2. \A e \in Events : db.events[e].settlements = <<>> /\ db.events[e].deleted
  BY <1>1, AbsentIs
<1>3. \A n : SettlementsOf(db, n) = {} BY <1>1 DEF SettlementsOf, EntriesOf
<1>4. \A e \in Events : Listed(db, e) = {} BY <1>2, NoneListed
<1> QED BY <1>1, <1>2, <1>3, <1>4 DEF DebtsKept, DebtIsKnown

-----------------------------------------------------------------------------
(***************************************************************************)
(* What the account of a vendor comes to: the journal is summed up expense *)
(* by expense and settlement by settlement.                                *)
(***************************************************************************)
LEMMA SumOfZeros ==
  ASSUME NEW f, NEW S, IsFiniteSet(S), \A x \in S : f[x] = 0
  PROVE  SumFunctionOnSet(f, S) = 0
<1>1. SumFunctionOnSet(f, S) = Cardinality(S) * 0 BY SumConstant
<1>2. Cardinality(S) \in Nat BY FS_CardinalityType
<1> QED BY <1>1, <1>2

\* What counts for nothing outside D may be summed up over more than D.
LEMMA SumWhere ==
  ASSUME NEW S, IsFiniteSet(S), NEW D \in SUBSET S, NEW f, \A x \in D : f[x] \in Int,
         NEW g, \A x \in S : g[x] = IF x \in D THEN f[x] ELSE 0
  PROVE  SumFunctionOnSet(g, S) = SumFunctionOnSet(f, D)
<1> DEFINE rest == S \ D
<1>1. /\ D \cap rest = {} /\ S = D \cup rest
      /\ \A x \in D : g[x] = f[x]
      /\ \A x \in rest : g[x] = 0
      /\ \A x \in D \cup rest : g[x] \in Int
  OBVIOUS
<1>2. IsFiniteSet(D) /\ IsFiniteSet(rest)
  <2>1. rest \in SUBSET S OBVIOUS
  <2> HIDE DEF rest
  <2> QED BY <2>1, FS_Subset
<1> HIDE DEF rest
<1>3. SumFunctionOnSet(g, S) = SumFunctionOnSet(g, D) + SumFunctionOnSet(g, rest)
  <2>1. SumFunctionOnSet(g, D \cup rest)
          = SumFunctionOnSet(g, D) + SumFunctionOnSet(g, rest)
    BY <1>1, <1>2, SumUnion
  <2> QED BY ONLY <1>1, <2>1
<1>4. SumFunctionOnSet(g, rest) = 0 BY <1>1, <1>2, SumOfZeros
<1>5. SumFunctionOnSet(g, D) = SumFunctionOnSet(f, D) BY <1>1, <1>2, SumEqual
<1>6. SumFunctionOnSet(f, D) \in Int BY <1>2, SumInt
<1> QED BY ONLY <1>3, <1>4, <1>5, <1>6

LEMMA ColumnOfSettlements ==
  ASSUME NEW v \in Row
  PROVE  /\ IsFiniteSet(DOMAIN v.settlements)
         /\ \A k \in DOMAIN v.settlements : v.settlements[k] \in Settlement
         /\ v.settlements = <<>> => DOMAIN v.settlements = {}
<1> DEFINE s == v.settlements
           m == Len(s)
<1>1. s \in Seq(Settlement) BY DEF Row
<1>2. /\ m \in Nat /\ DOMAIN s = 1..m /\ \A k \in DOMAIN s : s[k] \in Settlement
      /\ s = <<>> => DOMAIN s = {}
  <2> HIDE DEF s
  <2> QED BY <1>1
<1> HIDE DEF s, m
<1>3. IsFiniteSet(1..m) BY <1>2, FS_Interval
<1> QED BY <1>2, <1>3 DEF s

\* MapThenSumSet is the library's sum of the column.
LEMMA PaidIs ==
  ASSUME NEW v \in Row, NEW ids \in SUBSET (DOMAIN v.settlements)
  PROVE  /\ Paid(v, ids) = SumFunctionOnSet([k \in ids |-> v.settlements[k].amount], ids)
         /\ Paid(v, ids) \in Int /\ IsFiniteSet(ids)
         /\ ids = {} => Paid(v, ids) = 0
<1> DEFINE f == [k \in ids |-> v.settlements[k].amount]
<1>1. Paid(v, ids) = (CHOOSE g : SumStep(f, ids, g))[ids]
  BY DEF Paid, MapThenSumSet, MapThenFoldSet, SumStep, Pick
<1>2. SumFunctionOnSet(f, ids) = (CHOOSE g : SumStep(f, ids, g))[ids]
  BY DEF SumFunctionOnSet, FoldFunctionOnSet, MapThenFoldSet, SumStep, Pick
<1>3. IsFiniteSet(ids) BY ColumnOfSettlements, FS_Subset
<1>4. \A k \in ids : f[k] \in Int
  <2>1. \A k \in ids : v.settlements[k] \in Settlement BY ColumnOfSettlements
  <2> QED BY <2>1 DEF Settlement
<1> HIDE DEF f
<1>5. SumFunctionOnSet(f, ids) \in Int BY <1>3, <1>4, SumInt
<1>6. ids = {} => SumFunctionOnSet(f, ids) = 0 BY SumOfNone
<1> QED BY <1>1, <1>2, <1>3, <1>5, <1>6 DEF f

KnownOf(v) == {k \in DOMAIN v.settlements : v.settlements[k].known}

LEMMA SettledIs ==
  ASSUME NEW v \in Row
  PROVE  /\ Settled(v) \in Int /\ SettledAsKnown(v) \in Int
         /\ v.settlements = <<>> => Settled(v) = 0 /\ SettledAsKnown(v) = 0
<1> DEFINE T == DOMAIN v.settlements
           K == KnownOf(v)
<1>1. T \in SUBSET T /\ K \in SUBSET T BY DEF KnownOf
<1>2. Settled(v) = Paid(v, T) /\ SettledAsKnown(v) = Paid(v, K)
  BY DEF Settled, SettledAsKnown, KnownOf
<1>3. v.settlements = <<>> => T = {} BY ColumnOfSettlements
<1> HIDE DEF K
<1>4. Paid(v, T) \in Int /\ (T = {} => Paid(v, T) = 0) BY <1>1, PaidIs
<1>5. Paid(v, K) \in Int /\ (K = {} => Paid(v, K) = 0) BY <1>1, PaidIs
<1>6. T = {} => K = {} BY <1>1
<1> QED BY <1>2, <1>3, <1>4, <1>5, <1>6

\* The entries with one key, as a part of a column of the journal.
LEMMA KeyNet ==
  ASSUME NEW d, Ledger(d), NEW source, NEW of, NEW a \in Accounts
  PROVE  LET E == EntriesOf(d, source, of)
         IN  NetOf(E, a) = SumFunctionOnSet(On(d.journal, a), E)
<1> DEFINE E == EntriesOf(d, source, of)
<1>1. E \subseteq d.journal /\ IsFiniteSet(E)
  <2>1. E \in SUBSET d.journal BY DEF EntriesOf
  <2> QED BY <2>1, FS_Subset DEF Ledger, Journaled
<1> HIDE DEF E
<1>2. NetOf(E, a) = SumFunctionOnSet(On(E, a), E) BY <1>1, NetIs
<1>3. \A x \in E : On(E, a)[x] = On(d.journal, a)[x] BY <1>1 DEF On
<1>4. SumFunctionOnSet(On(E, a), E) = SumFunctionOnSet(On(d.journal, a), E)
  BY <1>1, <1>3, SumEqual
<1> QED BY <1>2, <1>4 DEF E

FromSource(d, source) == {x \in d.journal : x.source = source}

\* Summed up by what the entries are of.
LEMMA SourceNet ==
  ASSUME NEW d, Ledger(d), NEW source, NEW K, IsFiniteSet(K), NEW a \in Accounts,
         \A x \in FromSource(d, source) : x.of \in K,
         NEW g, \A k \in K : g[k] = NetOf(EntriesOf(d, source, k), a)
  PROVE  SumFunctionOnSet(On(d.journal, a), FromSource(d, source))
           = SumFunctionOnSet(g, K)
<1> DEFINE S == FromSource(d, source)
           f == On(d.journal, a)
           kind == [x \in S |-> x.of]
<1>1. S \in SUBSET d.journal /\ IsFiniteSet(S)
  <2>1. S \in SUBSET d.journal BY DEF FromSource
  <2> QED BY <2>1, FS_Subset DEF Ledger, Journaled
<1>2. \A x \in S : f[x] \in Int
  BY <1>1, WholeLines DEF Ledger, Journaled
<1>3. \A x \in S : kind[x] \in K OBVIOUS
<1>4. ASSUME NEW k \in K PROVE g[k] = SumFunctionOnSet(f, OfKind(S, kind, k))
  <2>1. OfKind(S, kind, k) = EntriesOf(d, source, k) BY DEF OfKind, FromSource, EntriesOf
  <2> QED BY <2>1, KeyNet
<1> HIDE DEF S, f, kind
<1>5. SumFunctionOnSet(g, K) = SumFunctionOnSet(f, S) BY <1>1, <1>2, <1>3, <1>4, SumByKind
<1> QED BY <1>5 DEF S, f

LEMMA JournalNet ==
  ASSUME NEW d, Ledger(d), NEW a \in Accounts
  PROVE  LET f == On(d.journal, a)
         IN  /\ NetOf(d.journal, a) \in Int
             /\ NetOf(d.journal, a)
                  = SumFunctionOnSet(f, FromSource(d, "expense"))
                    + SumFunctionOnSet(f, FromSource(d, "expense_settlement"))
<1> DEFINE f == On(d.journal, a)
           X == FromSource(d, "expense")
           T == FromSource(d, "expense_settlement")
<1>1. d.journal \subseteq Entry /\ IsFiniteSet(d.journal) BY DEF Ledger, Journaled
<1>2. X \in SUBSET d.journal /\ T \in SUBSET d.journal BY DEF FromSource
<1>3. X \cup T = d.journal /\ X \cap T = {} BY <1>1 DEF FromSource, Entry, Sources
<1>4. IsFiniteSet(X) /\ IsFiniteSet(T)
  <2> HIDE DEF X, T
  <2> QED BY <1>1, <1>2, FS_Subset
<1>5. \A x \in X \cup T : f[x] \in Int
  <2> HIDE DEF X, T
  <2> QED BY <1>1, <1>3, WholeLines
<1>6. NetOf(d.journal, a) = SumFunctionOnSet(f, X \cup T)
  <2> HIDE DEF X, T
  <2> QED BY <1>1, <1>3, NetIs
<1>7. SumFunctionOnSet(f, X \cup T) = SumFunctionOnSet(f, X) + SumFunctionOnSet(f, T)
  <2> HIDE DEF X, T, f
  <2> QED BY <1>3, <1>4, <1>5, SumUnion
<1>8. NetOf(d.journal, a) \in Int BY <1>1, NetInt
<1> QED BY <1>6, <1>7, <1>8

\* The debts that stand with a vendor.
OwedTo(d, vendor) == {e \in Events : ~d.events[e].deleted /\ d.events[e].by = vendor}

LEMMA ExpenseNet ==
  ASSUME NEW d, Upkeep(d), DebtsKept(d), d.missed = {}, NEW vendor \in Vendors,
         NEW e \in Events
  PROVE  NetOf(EntriesOf(d, "expense", e), vendor)
           = IF e \in OwedTo(d, vendor) THEN -d.events[e].amount ELSE 0
<1> DEFINE E == EntriesOf(d, "expense", e)
           v == d.events[e]
<1>1. Ledger(d) /\ Standing(d, e) BY DEF Upkeep
<1>2. v \in Row /\ vendor \in Accounts BY <1>1, Columns, AccountsAre
<1>3. CASE v.deleted BY <1>1, <1>2, <1>3 DEF Standing, Gone, Rests, OwedTo
<1>4. CASE ~v.deleted /\ ~v.known
  <2>1. E = {} BY <1>1, <1>4 DEF Standing, BookedAs
  <2>2. v.by # vendor BY <1>4 DEF DebtsKept, DebtIsKnown, IsDebt
  <2> QED BY <2>1, <2>2, NetNone DEF OwedTo
<1>5. CASE ~v.deleted /\ v.known
  <2>1. StandsAs(E, ExpenseLines(v)) BY <1>1, <1>5 DEF Standing, BookedAs
  <2>2. e \in OwedTo(d, vendor) <=> v.by = vendor BY <1>5 DEF OwedTo
  <2> HIDE DEF v
  <2>3. /\ ExpenseLines(v) \in LinesSet
        /\ ExpenseLines(v)[vendor] = IF v.by = vendor THEN -v.amount ELSE 0
    BY <1>2, ExpenseLinesAre
  <2>4. NetOf(E, vendor) = ExpenseLines(v)[vendor]
    BY <1>1, <1>2, <2>1, <2>3, StandingNet
  <2> QED BY <2>2, <2>3, <2>4 DEF v
<1> QED BY <1>3, <1>4, <1>5

LEMMA SettlementNet ==
  ASSUME NEW d, Upkeep(d), DebtsKept(d), d.lost = {}, NEW vendor \in Vendors,
         NEW e \in Events, NEW n \in Listed(d, e)
  PROVE  NetOf(SettlementsOf(d, n), vendor)
           = IF e \in OwedTo(d, vendor) /\ n \in KnownOf(d.events[e])
             THEN d.events[e].settlements[n].amount ELSE 0
<1> DEFINE v == d.events[e]
           S == SettlementsOf(d, n)
<1>1. Ledger(d) BY DEF Upkeep
<1>2. v \in Row /\ vendor \in Accounts BY <1>1, Columns, AccountsAre
<1>3. SettlementStanding(d, e, n) BY DEF DebtsKept
<1>4. IsDebt(v)
  <2>1. v.settlements # <<>> BY NoneListed
  <2> QED BY <2>1 DEF DebtsKept
<1>5. n \in KnownOf(v) <=> v.settlements[n].known BY DEF Listed, KnownOf
<1>6. CASE v.deleted BY <1>2, <1>3, <1>6 DEF SettlementStanding, Gone, Rests, OwedTo
<1>7. CASE ~v.deleted /\ ~v.settlements[n].known
  <2>1. S = {} BY <1>3, <1>7 DEF SettlementStanding
  <2> QED BY <1>5, <1>7, <2>1, NetNone
<1>8. CASE ~v.deleted /\ v.settlements[n].known
  <2>1. StandsAs(S, SettlementLines(v, n)) BY <1>3, <1>8 DEF SettlementStanding
  <2>2. e \in OwedTo(d, vendor) <=> v.by = vendor BY <1>8 DEF OwedTo
  <2>3. n \in DOMAIN v.settlements BY DEF Listed
  <2> HIDE DEF v
  <2>4. /\ SettlementLines(v, n) \in LinesSet
        /\ SettlementLines(v, n)[vendor]
             = IF v.by = vendor THEN v.settlements[n].amount ELSE 0
    BY <1>2, <1>4, <2>3, SettlementLinesAre
  <2>5. NetOf(S, vendor) = SettlementLines(v, n)[vendor]
    BY <1>1, <1>2, <2>1, <2>4, StandingNet DEF SettlementsOf
  <2> QED BY <1>5, <1>8, <2>2, <2>4, <2>5 DEF v
<1> QED BY <1>6, <1>7, <1>8

LEMMA SumOfOne ==
  ASSUME NEW f, NEW x, f[x] \in Int PROVE SumFunctionOnSet(f, {x}) = f[x]
<1>1. IsFiniteSet({x}) /\ {x} \ {x} = {} BY FS_Singleton
<1>2. SumFunctionOnSet(f, {x}) = f[x] + SumFunctionOnSet(f, {}) BY <1>1, SumRemove
<1> QED BY <1>2, SumOfNone

\* Every settlement in the books is listed.
LEMMA BookedIsListed ==
  ASSUME NEW d, Upkeep(d), DebtsKept(d), NEW x \in FromSource(d, "expense_settlement")
  PROVE  /\ x.of \in Nat /\ x \in SettlementsOf(d, x.of)
         /\ \E e \in Events : x.of \in Listed(d, e)
<1>1. x.of \in Nat /\ x \in SettlementsOf(d, x.of)
  <2>1. x \in d.journal /\ x.source = "expense_settlement" BY DEF FromSource
  <2>2. IsKey(x.source, x.of) BY <2>1 DEF Upkeep, Ledger, Journaled
  <2> QED BY <2>1, <2>2 DEF IsKey, SettlementsOf, EntriesOf
<1> QED BY <1>1 DEF DebtsKept, Unlisted

OnlyDebt(d, c) == \A e \in Events : e # c => d.events[e].settlements = <<>>

\* At most one debt has settlements, and those are all that are booked.
LEMMA SettlementsByNumber ==
  ASSUME NEW d, Upkeep(d), DebtsKept(d), NEW vendor \in Vendors,
         NEW c \in Events, OnlyDebt(d, c),
         NEW g, \A n \in Listed(d, c) : g[n] = NetOf(SettlementsOf(d, n), vendor)
  PROVE  SumFunctionOnSet(On(d.journal, vendor), FromSource(d, "expense_settlement"))
           = SumFunctionOnSet(g, Listed(d, c))
<1> DEFINE K == Listed(d, c)
<1>1. Ledger(d) /\ vendor \in Accounts BY AccountsAre DEF Upkeep
<1>2. \A x \in FromSource(d, "expense_settlement") : x.of \in K
  <2>1. \A e \in Events : e # c => Listed(d, e) = {} BY NoneListed DEF OnlyDebt
  <2> QED BY <2>1, BookedIsListed
<1>3. IsFiniteSet(K)
  <2>1. d.events[c] \in Row BY <1>1, Columns
  <2> QED BY <2>1, ColumnOfSettlements DEF Listed
<1>4. \A n \in K : g[n] = NetOf(EntriesOf(d, "expense_settlement", n), vendor)
  BY DEF SettlementsOf
<1> HIDE DEF K
<1>5. SumFunctionOnSet(On(d.journal, vendor), FromSource(d, "expense_settlement"))
        = SumFunctionOnSet(g, K)
  BY <1>1, <1>2, <1>3, <1>4, SourceNet
<1> QED BY <1>5 DEF K

LEMMA NoSettlements ==
  ASSUME NEW d, Upkeep(d), DebtsKept(d), \A e \in Events : d.events[e].settlements = <<>>
  PROVE  FromSource(d, "expense_settlement") = {}
<1>1. \A e \in Events : Listed(d, e) = {} BY NoneListed
<1> QED BY <1>1, BookedIsListed

LEMMA SettlementsNet ==
  ASSUME NEW d, Upkeep(d), DebtsKept(d), d.lost = {}, NEW vendor \in Vendors, NEW h,
         \A e \in Events :
           h[e] = IF e \in OwedTo(d, vendor) THEN SettledAsKnown(d.events[e]) ELSE 0
  PROVE  SumFunctionOnSet(On(d.journal, vendor), FromSource(d, "expense_settlement"))
           = SumFunctionOnSet(h, Events)
<1> DEFINE f == On(d.journal, vendor)
           T == FromSource(d, "expense_settlement")
<1>1. Ledger(d) /\ IsFiniteSet(Events) BY ExpensesAssumption DEF Upkeep
<1>2. \A e \in Events : /\ d.events[e] \in Row /\ SettledAsKnown(d.events[e]) \in Int
                        /\ d.events[e].settlements = <<>> => SettledAsKnown(d.events[e]) = 0
  BY <1>1, Columns, SettledIs
<1>3. CASE \A e \in Events : d.events[e].settlements = <<>>
  <2>1. T = {} BY <1>3, NoSettlements
  <2>2. \A e \in Events : h[e] = 0 BY <1>2, <1>3
  <2>3. SumFunctionOnSet(h, Events) = 0 BY <1>1, <2>2, SumOfZeros
  <2>4. SumFunctionOnSet(f, T) = 0
    <3> HIDE DEF T
    <3> QED BY <2>1, SumOfNone
  <2> QED BY <2>3, <2>4
<1>4. ASSUME NEW c \in Events, d.events[c].settlements # <<>>
      PROVE  SumFunctionOnSet(f, T) = SumFunctionOnSet(h, Events)
  <2> DEFINE v == d.events[c]
             K == Listed(d, c)
             D == KnownOf(v)
             paid == [n \in D |-> v.settlements[n].amount]
             g == [n \in K |-> NetOf(SettlementsOf(d, n), vendor)]
  <2>1. OnlyDebt(d, c) BY <1>4 DEF DebtsKept, OnlyDebt
  <2>2. IsFiniteSet(K) /\ D \in SUBSET K /\ \A n \in D : paid[n] \in Int
    <3>1. v \in Row BY <1>2
    <3>2. IsFiniteSet(K) /\ \A n \in K : v.settlements[n] \in Settlement
      BY <3>1, ColumnOfSettlements DEF Listed
    <3>3. D \in SUBSET K BY DEF KnownOf, Listed
    <3> HIDE DEF D, K, v
    <3> QED BY <3>2, <3>3 DEF Settlement
  <2>3. SumFunctionOnSet(f, T) = SumFunctionOnSet(g, K)
    <3>1. \A n \in Listed(d, c) : g[n] = NetOf(SettlementsOf(d, n), vendor) OBVIOUS
    <3> HIDE DEF g
    <3> QED BY <2>1, <3>1, SettlementsByNumber
  <2>4. \A n \in K : g[n] = IF c \in OwedTo(d, vendor) /\ n \in D
                            THEN v.settlements[n].amount ELSE 0
    BY SettlementNet
  <2>5. SumFunctionOnSet(g, K) = h[c]
    <3>1. CASE c \in OwedTo(d, vendor)
      <4>1. \A n \in K : g[n] = IF n \in D THEN paid[n] ELSE 0 BY <2>4, <3>1
      <4>2. SumFunctionOnSet(g, K) = SumFunctionOnSet(paid, D)
        <5> HIDE DEF g, K, D, paid
        <5> QED BY <2>2, <4>1, SumWhere
      <4>3. SettledAsKnown(v) = SumFunctionOnSet(paid, D)
        <5>1. D \in SUBSET (DOMAIN v.settlements) BY DEF KnownOf
        <5>2. SettledAsKnown(v) = Paid(v, D) BY DEF SettledAsKnown, KnownOf
        <5>3. v \in Row BY <1>2
        <5> HIDE DEF D, v
        <5> QED BY <5>1, <5>2, <5>3, PaidIs
      <4> HIDE DEF g, K, D, paid
      <4> QED BY <3>1, <4>2, <4>3
    <3>2. CASE c \notin OwedTo(d, vendor)
      <4>1. \A n \in K : g[n] = 0 BY <2>4, <3>2
      <4>2. SumFunctionOnSet(g, K) = 0
        <5> HIDE DEF g, K
        <5> QED BY <2>2, <4>1, SumOfZeros
      <4> HIDE DEF g, K
      <4> QED BY <3>2, <4>2
    <3> QED BY <3>1, <3>2
  <2>6. SumFunctionOnSet(h, Events) = h[c]
    <3>1. \A e \in {c} : h[e] \in Int BY <1>2
    <3>2. \A e \in Events : h[e] = IF e \in {c} THEN h[e] ELSE 0
      BY <1>2, <2>1 DEF OnlyDebt
    <3>3. {c} \in SUBSET Events OBVIOUS
    <3>4. SumFunctionOnSet(h, Events) = SumFunctionOnSet(h, {c})
      BY <1>1, <3>1, <3>2, <3>3, SumWhere
    <3> QED BY <3>1, <3>4, SumOfOne
  <2> HIDE DEF f, T, g, K
  <2> QED BY <2>3, <2>5, <2>6
<1> QED BY <1>3, <1>4

LEMMA OwedSum ==
  ASSUME NEW S, IsFiniteSet(S)
  PROVE  MapThenSumSet(LAMBDA e : db.events[e].amount - SettledAsKnown(db.events[e]), S)
           = SumFunctionOnSet([e \in S |-> db.events[e].amount - SettledAsKnown(db.events[e])], S)
<1> DEFINE f == [e \in S |-> db.events[e].amount - SettledAsKnown(db.events[e])]
<1>1. MapThenSumSet(LAMBDA e : db.events[e].amount - SettledAsKnown(db.events[e]), S)
        = (CHOOSE g : SumStep(f, S, g))[S]
  BY DEF MapThenSumSet, MapThenFoldSet, SumStep, Pick
<1>2. SumFunctionOnSet(f, S) = (CHOOSE g : SumStep(f, S, g))[S]
  BY DEF SumFunctionOnSet, FoldFunctionOnSet, MapThenFoldSet, SumStep, Pick
<1> QED BY <1>1, <1>2

LEMMA DebtsAreOwed ==
  ASSUME Upkeep(db), DebtsKept(db), NothingFailed, NEW vendor \in Vendors
  PROVE  LET D == OwedTo(db, vendor)
             left == [e \in D |-> db.events[e].amount - SettledAsKnown(db.events[e])]
         IN  /\ NetOf(db.journal, vendor) \in Int
             /\ NetOf(db.journal, vendor) + SumFunctionOnSet(left, D) = 0
<1> DEFINE D == OwedTo(db, vendor)
           amount(e) == db.events[e].amount
           settled(e) == SettledAsKnown(db.events[e])
           left == [e \in D |-> amount(e) - settled(e)]
           booked == [e \in Events |-> IF e \in D THEN -amount(e) ELSE 0]
           paid == [e \in Events |-> IF e \in D THEN settled(e) ELSE 0]
           net == [e \in Events |-> IF e \in D THEN settled(e) - amount(e) ELSE 0]
           owed == [e \in Events |-> IF e \in D THEN amount(e) - settled(e) ELSE 0]
           none == [e \in Events |-> 0]
           f == On(db.journal, vendor)
<1>1. Ledger(db) /\ vendor \in Accounts /\ IsFiniteSet(Events)
  BY AccountsAre, ExpensesAssumption DEF Upkeep
<1>2. \A e \in Events : amount(e) \in Int /\ settled(e) \in Int
  <2>1. \A e \in Events : db.events[e] \in Row BY <1>1, Columns
  <2> QED BY <2>1, SettledIs DEF Row
<1>3. D \in SUBSET Events BY DEF OwedTo
<1>4. SumFunctionOnSet(f, FromSource(db, "expense")) = SumFunctionOnSet(booked, Events)
  <2>1. \A x \in FromSource(db, "expense") : x.of \in Events
    BY <1>1 DEF FromSource, Ledger, Journaled, IsKey
  <2>2. \A e \in Events : booked[e] = NetOf(EntriesOf(db, "expense", e), vendor)
    BY ExpenseNet DEF NothingFailed
  <2> HIDE DEF booked
  <2> QED BY <1>1, <2>1, <2>2, SourceNet
<1>5. SumFunctionOnSet(f, FromSource(db, "expense_settlement"))
        = SumFunctionOnSet(paid, Events)
  <2>1. \A e \in Events :
          paid[e] = IF e \in OwedTo(db, vendor) THEN SettledAsKnown(db.events[e]) ELSE 0
    OBVIOUS
  <2> HIDE DEF paid
  <2> QED BY <2>1, SettlementsNet DEF NothingFailed
<1> HIDE DEF D, amount, settled
<1>6. SumFunctionOnSet(net, Events)
        = SumFunctionOnSet(booked, Events) + SumFunctionOnSet(paid, Events)
  <2>1. \A e \in Events : booked[e] \in Int /\ paid[e] \in Int /\ net[e] = booked[e] + paid[e]
    BY <1>2
  <2> HIDE DEF booked, paid, net
  <2> QED BY <1>1, <2>1, SumPlus
<1>7. SumFunctionOnSet(none, Events)
        = SumFunctionOnSet(net, Events) + SumFunctionOnSet(owed, Events)
  <2>1. \A e \in Events : net[e] \in Int /\ owed[e] \in Int /\ none[e] = net[e] + owed[e]
    BY <1>2
  <2> HIDE DEF none, net, owed
  <2> QED BY <1>1, <2>1, SumPlus
<1>8. SumFunctionOnSet(none, Events) = 0
  <2>1. \A e \in Events : none[e] = 0 OBVIOUS
  <2> HIDE DEF none
  <2> QED BY <1>1, <2>1, SumOfZeros
<1>9. SumFunctionOnSet(owed, Events) = SumFunctionOnSet(left, D)
  <2>1. \A e \in D : left[e] \in Int BY <1>2, <1>3
  <2>2. \A e \in Events : owed[e] = IF e \in D THEN left[e] ELSE 0 OBVIOUS
  <2> HIDE DEF owed, left
  <2> QED BY <1>1, <1>3, <2>1, <2>2, SumWhere
<1> HIDE DEF left, booked, paid, net, owed, none
<1>10. /\ NetOf(db.journal, vendor) \in Int
       /\ NetOf(db.journal, vendor)
            = SumFunctionOnSet(f, FromSource(db, "expense"))
              + SumFunctionOnSet(f, FromSource(db, "expense_settlement"))
  BY <1>1, JournalNet
<1>11. NetOf(db.journal, vendor) = SumFunctionOnSet(net, Events)
  BY <1>4, <1>5, <1>6, <1>10
<1>12. NetOf(db.journal, vendor) + SumFunctionOnSet(left, D) = 0
  BY <1>7, <1>8, <1>9, <1>11
<1> QED BY <1>10, <1>12 DEF left, D, amount, settled

LEMMA OwedAndCleared ==
  ASSUME Upkeep(db), DebtsKept(db)
  PROVE  VendorOwed /\ SettledIsCleared
<1> SUFFICES ASSUME NothingFailed, NEW vendor \in Vendors
             PROVE
               /\ NetOf(db.journal, vendor)
                    + MapThenSumSet(LAMBDA e : db.events[e].amount - SettledAsKnown(db.events[e]),
                                    DebtsTo(vendor)) = 0
               /\ (\A e \in DebtsTo(vendor) :
                     SettledAsKnown(db.events[e]) = db.events[e].amount)
                    => NetOf(db.journal, vendor) = 0
  BY DEF VendorOwed, SettledIsCleared
<1> DEFINE D == OwedTo(db, vendor)
           left == [e \in D |-> db.events[e].amount - SettledAsKnown(db.events[e])]
<1>1. D = DebtsTo(vendor) BY DEF OwedTo, DebtsTo, LiveEvents, Live
<1>2. IsFiniteSet(D)
  <2>1. D \in SUBSET Events BY DEF OwedTo
  <2> HIDE DEF D
  <2> QED BY <2>1, FS_Subset, ExpensesAssumption
<1>3. /\ NetOf(db.journal, vendor) \in Int
      /\ NetOf(db.journal, vendor) + SumFunctionOnSet(left, D) = 0
  BY DebtsAreOwed
<1>4. MapThenSumSet(LAMBDA e : db.events[e].amount - SettledAsKnown(db.events[e]), D)
        = SumFunctionOnSet(left, D)
  <2> HIDE DEF D
  <2> QED BY <1>2, OwedSum
<1>5. ASSUME \A e \in DebtsTo(vendor) : SettledAsKnown(db.events[e]) = db.events[e].amount
      PROVE  NetOf(db.journal, vendor) = 0
  <2>1. \A e \in D : left[e] = 0
    <3>1. \A e \in D : db.events[e].amount \in Int
      <4>1. Ledger(db) BY DEF Upkeep
      <4>2. \A e \in Events : db.events[e] \in Row BY <4>1, Columns
      <4> QED BY <4>2 DEF OwedTo, Row
    <3>2. \A e \in D : SettledAsKnown(db.events[e]) = db.events[e].amount BY <1>1, <1>5
    <3> HIDE DEF D
    <3> QED BY <3>1, <3>2
  <2> HIDE DEF D, left
  <2>2. SumFunctionOnSet(left, D) = 0 BY <1>2, <2>1, SumOfZeros
  <2> QED BY <1>3, <2>2
<1> HIDE DEF left
<1> QED BY <1>1, <1>3, <1>4, <1>5

LEMMA DebtsAlwaysKept ==
  NoPractices => (RepairSpec => [](VendorOwed /\ SettledIsCleared))
<1> SUFFICES ASSUME NoPractices
             PROVE  RepairSpec => [](VendorOwed /\ SettledIsCleared)
  OBVIOUS
<1>1. Init => Upkeep(db) /\ Requests /\ DebtsKept(db)
  BY StartsInOrder, StartsWithoutDebts
<1>2. (Upkeep(db) /\ Requests /\ DebtsKept(db)) /\ [RepairNext]_vars
        => (Upkeep(db) /\ Requests /\ DebtsKept(db))'
  BY StepKeeps, StepKeepsDebts, NoPracticesIsCare
<1>3. Upkeep(db) /\ Requests /\ DebtsKept(db) => VendorOwed /\ SettledIsCleared
  BY OwedAndCleared
<1> QED BY <1>1, <1>2, <1>3, PTL DEF RepairSpec

(***************************************************************************)
(* As long as nothing is done that Practices names, what the account of    *)
(* every vendor has is what is left to pay of the debts that stand, after  *)
(* any sequence of debts, settlements, deletions, closings and repairs and *)
(* once no failed sync is left, if only the settlements from a source the  *)
(* books know are counted as paid: one from another source is listed on    *)
(* the debt and pays nothing in the books.                                 *)
(* _sync_debt_expense_journal and _sync_debt_settlement_journal agree.     *)
(***************************************************************************)
THEOREM VendorsAreOwed == Practices = {} => (RepairSpec => []VendorOwed)
<1>1. VendorOwed /\ SettledIsCleared => VendorOwed OBVIOUS
<1>2. Practices = {} => NoPractices BY DEF NoPractices
<1> QED BY <1>1, <1>2, DebtsAlwaysKept, PTL

(***************************************************************************)
(* So debts that are settled in full from sources the books know leave     *)
(* nothing on the account of the vendor, as _sync_debt_settlement_journal  *)
(* says: it is when the source is another, a sync fails, a second debt is  *)
(* settled by a number already used, a settled debt is edited, or a        *)
(* request overwrites another, that they may.                              *)
(***************************************************************************)
THEOREM SettledDebtsClear == Practices = {} => (RepairSpec => []SettledIsCleared)
<1>1. VendorOwed /\ SettledIsCleared => SettledIsCleared OBVIOUS
<1>2. Practices = {} => NoPractices BY DEF NoPractices
<1> QED BY <1>1, <1>2, DebtsAlwaysKept, PTL

-----------------------------------------------------------------------------
(***************************************************************************)
(* The audit, until a period is closed: a key has one entry or none.       *)
(***************************************************************************)
Open(d) == \A x \in d.journal : ~x.locked

LEMMA OpenIsOne ==
  ASSUME NEW E, \A x \in E : ~x.locked
  PROVE  /\ Orderly(E) => E = {} \/ (E = {Latest(E)} /\ Latest(E).text # "reversal")
         /\ Gone(E) => E = {}
BY DEF Orderly, Gone

LEMMA OpenKeys ==
  ASSUME NEW d, Open(d), NEW source, NEW of
  PROVE  \A x \in EntriesOf(d, source, of) : ~x.locked
BY DEF Open, EntriesOf

\* A sync would leave one entry with the lines of the expense, or none.
LEMMA OpenSync ==
  ASSUME NEW d, Ledger(d), Open(d), NEW e \in Events, NEW v \in Row,
         Orderly(EntriesOf(d, "expense", e))
  PROVE  {x.lines : x \in EntriesOf(SyncExpense(d, e, v), "expense", e)}
           = IF v.known THEN {ExpenseLines(v)} ELSE {}
<1> DEFINE E == EntriesOf(d, "expense", e)
           l == Latest(E)
           lines == ExpenseLines(v)
           d2 == SyncExpense(d, e, v)
           E2 == EntriesOf(d2, "expense", e)
<1>1. (\A x \in E : ~x.locked) /\ Orderly(E) BY OpenKeys
<1>2. E = {} \/ (l \in E /\ E = {l} /\ ~l.locked)
  <2>1. E = {} \/ E = {l}
    <3> HIDE DEF E
    <3> QED BY <1>1, OpenIsOne
  <2> HIDE DEF l, E
  <2> QED BY <1>1, <2>1
<1>3. lines \in LinesSet BY ExpenseLinesAre
<1>4. IsKey("expense", e) /\ "expense" \in Texts BY DEF IsKey, Texts, Sources
<1>5. CASE v.known /\ E = {}
  <2> DEFINE new == New(d, "expense", e, "expense", lines)
  <2>1. d2 = Insert(d, "expense", e, "expense", lines)
    BY <1>5 DEF SyncExpense, Resync, ExpenseLines
  <2>2. new.lines = lines BY DEF New
  <2> HIDE DEF lines, d2, new
  <2>3. E2 = E \union {new} BY <1>3, <1>4, <2>1, InsertAdds DEF new
  <2>4. E2 = {new} BY <1>5, <2>3
  <2> HIDE DEF E2
  <2> QED BY <1>5, <2>2, <2>4 DEF E2, d2, lines
<1>6. CASE v.known /\ E # {}
  <2> DEFINE y == Rewritten(l, "expense", lines)
  <2>1. d2 = UpdateInPlace(d, l, "expense", lines)
    BY <1>2, <1>6 DEF SyncExpense, Resync, ExpenseLines
  <2>2. l \in E /\ E = {l} BY <1>2, <1>6
  <2> HIDE DEF lines, d2, l, y
  <2>3. E2 = (E \ {l}) \union {y} /\ y.lines = lines
    BY <1>3, <1>4, <2>1, <2>2, UpdateReplaces DEF y
  <2>4. E2 = {y} BY <2>2, <2>3
  <2> HIDE DEF E2
  <2> QED BY <1>6, <2>3, <2>4 DEF E2, d2, lines
<1>7. CASE ~v.known /\ E = {} BY <1>7 DEF SyncExpense
<1>8. CASE ~v.known /\ E # {}
  <2>1. d2 = DeleteCascade(d, l) BY <1>2, <1>8 DEF SyncExpense
  <2>2. l \in E /\ E = {l} BY <1>2, <1>8
  <2> HIDE DEF l, d2
  <2>3. E2 = E \ {l} BY <2>1, <2>2, DeleteTakes
  <2>4. E2 = {} BY <2>2, <2>3
  <2> QED BY <1>8, <2>4 DEF d2
<1> QED BY <1>5, <1>6, <1>7, <1>8

\* What an expense is to come to in the end: booked as its event has it, and
\* gone with it.
Correct(d, e) ==
  LET E == EntriesOf(d, "expense", e)
  IN  IF d.events[e].deleted THEN E = {} ELSE BookedAs(E, d.events[e])

LEMMA AsSyncedIsCorrect ==
  ASSUME Upkeep(db), Open(db), NEW e \in Events
  PROVE  AsSynced(e) <=> Correct(db, e)
<1> DEFINE E == EntriesOf(db, "expense", e)
           v == db.events[e]
           l == Latest(E)
<1>1. CASE v.deleted
  <2>1. AsSynced(e) <=> {x.lines : x \in E} = {} BY <1>1 DEF AsSynced, LinesOf, Live
  <2>2. {x.lines : x \in E} = {} <=> E = {} OBVIOUS
  <2> QED BY <1>1, <2>1, <2>2 DEF Correct
<1>2. CASE ~v.deleted
  <2>1. Ledger(db) /\ v \in Row /\ Orderly(E)
    <3>1. Ledger(db) /\ Standing(db, e) BY DEF Upkeep
    <3> QED BY <1>2, <3>1, Columns DEF Standing
  <2>2. {x.lines : x \in EntriesOf(SyncExpense(db, e, v), "expense", e)}
          = IF v.known THEN {ExpenseLines(v)} ELSE {}
    <3> HIDE DEF v
    <3> QED BY <2>1, OpenSync
  <2>3. AsSynced(e) <=> {x.lines : x \in E} = IF v.known THEN {ExpenseLines(v)} ELSE {}
    BY <1>2, <2>2 DEF AsSynced, LinesOf, Live
  <2>4. Correct(db, e) <=> BookedAs(E, v) BY <1>2 DEF Correct
  <2>5. E = {} \/ E = {l}
    <3>1. \A x \in E : ~x.locked BY OpenKeys
    <3> HIDE DEF E
    <3> QED BY <2>1, <3>1, OpenIsOne
  <2> HIDE DEF E, v, l
  <2>6. CASE E = {}
    <3>1. {x.lines : x \in E} = {} BY <2>6
    <3>2. AsSynced(e) <=> ~v.known BY <2>3, <3>1
    <3>3. BookedAs(E, v) <=> ~v.known BY <2>6 DEF BookedAs, StandsAs
    <3> QED BY <2>4, <3>2, <3>3
  <2>7. CASE E # {}
    <3>1. {x.lines : x \in E} = {l.lines} BY <2>5, <2>7
    <3>2. AsSynced(e) <=> v.known /\ l.lines = ExpenseLines(v) BY <2>3, <3>1
    <3>3. BookedAs(E, v) <=> v.known /\ l.lines = ExpenseLines(v)
      BY <2>1, <2>7 DEF BookedAs, StandsAs, l
    <3> QED BY <2>4, <3>2, <3>3
  <2> QED BY <2>6, <2>7
<1> QED BY <1>1, <1>2

LEMMA ExpenseLinesOn ==
  ASSUME NEW v \in Row, NEW a \in Accounts
  PROVE  ExpenseLines(v)[a]
           = IF a = "expense" THEN v.amount ELSE IF a = v.by THEN -v.amount ELSE 0
<1>1. "expense" \in Accounts /\ v.by \in Accounts /\ "expense" # v.by /\ v.amount \in Nat
  BY AccountsAre DEF Row
<1> QED BY <1>1, MovementIs DEF ExpenseLines

\* An entry of an expense is the only one of its event.
LEMMA EntryOfExpense ==
  ASSUME NEW d, Upkeep(d), Open(d), NEW x \in FromSource(d, "expense")
  PROVE  LET E == EntriesOf(d, "expense", x.of)
         IN  /\ x.of \in Events /\ x.text # "reversal"
             /\ d.events[x.of].deleted => x.of \in d.missed
             /\ E = {x} /\ Latest(E) = x
             /\ \E u \in Row : u.amount # 0 /\ x.lines = ExpenseLines(u)
<1> DEFINE e == x.of
           E == EntriesOf(d, "expense", e)
<1>1. x \in d.journal /\ x.source = "expense" BY DEF FromSource
<1>2. e \in Events
  <2>1. IsKey(x.source, x.of) BY <1>1 DEF Upkeep, Ledger, Journaled
  <2> QED BY <1>1, <2>1 DEF IsKey
<1>3. x \in E BY <1>1 DEF EntriesOf
<1>4. \A y \in E : ~y.locked BY OpenKeys
<1>5. Standing(d, e) BY <1>2 DEF Upkeep
<1> HIDE DEF E
<1>6. d.events[e].deleted => e \in d.missed
  <2>1. d.events[e].deleted /\ e \notin d.missed => Gone(E) BY <1>5 DEF Standing, E
  <2> QED BY <1>3, <1>4, <2>1, OpenIsOne
<1>7. Orderly(E) /\ OfExpense(E) BY <1>5, <1>6 DEF Standing, E
<1>8. E = {Latest(E)} /\ Latest(E).text # "reversal" BY <1>3, <1>4, <1>7, OpenIsOne
<1>9. Latest(E) = x BY <1>3, <1>8
<1>10. \E u \in Row : u.amount # 0 /\ x.lines = ExpenseLines(u)
  BY <1>3, <1>7, <1>9 DEF OfExpense, StandsAs
<1> QED BY <1>2, <1>6, <1>8, <1>9, <1>10 DEF E

\* It debits what the category stands for, and nothing else.
LEMMA ExpenseDebits ==
  ASSUME NEW d, Upkeep(d), Open(d), NEW x \in FromSource(d, "expense")
  PROVE  /\ Debit(x, "expense") = x.lines["expense"] /\ x.lines["expense"] \in Nat \ {0}
         /\ \A a \in Accounts : a # "expense" => Debit(x, a) = 0
<1>1. PICK u \in Row : u.amount # 0 /\ x.lines = ExpenseLines(u) BY EntryOfExpense
<1>2. u.amount \in Nat BY DEF Row
<1>3. x.lines["expense"] = u.amount BY <1>1, AccountsAre, ExpenseLinesOn
<1>4. ASSUME NEW a \in Accounts, a # "expense" PROVE Debit(x, a) = 0
  <2>1. x.lines[a] = IF a = u.by THEN -u.amount ELSE 0 BY <1>1, <1>4, ExpenseLinesOn
  <2> QED BY <1>2, <2>1 DEF Debit
<1> QED BY <1>1, <1>2, <1>3, <1>4 DEF Debit

\* A settlement has one entry, as it is listed, or none.
LEMMA OneOrNone ==
  ASSUME NEW d, Upkeep(d), DebtsKept(d), Open(d), NEW e \in Events, NEW n \in Listed(d, e)
  PROVE  LET v == d.events[e]
             S == SettlementsOf(d, n)
         IN  /\ v \in Row /\ IsDebt(v) /\ v.settlements[n].amount \in Nat \ {0}
             /\ S = {} \/ \E x \in S : /\ S = {x} /\ x.text # "reversal"
                                        /\ x.lines = SettlementLines(v, n)
<1> DEFINE v == d.events[e]
           S == SettlementsOf(d, n)
<1>1. SettlementStanding(d, e, n) BY DEF DebtsKept
<1>2. v \in Row /\ IsDebt(v)
  <2>1. v.settlements # <<>> BY NoneListed
  <2>2. Ledger(d) BY DEF Upkeep
  <2> QED BY <2>1, <2>2, Columns DEF DebtsKept
<1>3. v.settlements[n].amount \in Nat \ {0}
  <2>1. v.settlements[n] \in Settlement BY <1>2, ColumnOfSettlements DEF Listed
  <2> QED BY <2>1 DEF Settlement
<1>4. \A y \in S : ~y.locked BY OpenKeys DEF SettlementsOf
<1>5. Gone(S) \/ S = {} \/ StandsAs(S, SettlementLines(v, n))
  BY <1>1 DEF SettlementStanding
<1> HIDE DEF S, v
<1>6. S = {} \/ StandsAs(S, SettlementLines(v, n)) BY <1>4, <1>5, OpenIsOne
<1>7. ASSUME StandsAs(S, SettlementLines(v, n))
      PROVE  \E x \in S : S = {x} /\ x.text # "reversal" /\ x.lines = SettlementLines(v, n)
  <2>1. S = {Latest(S)} /\ Latest(S).text # "reversal"
    BY <1>4, <1>7, OpenIsOne DEF StandsAs
  <2> QED BY <1>7, <2>1 DEF StandsAs
<1> QED BY <1>2, <1>3, <1>6, <1>7 DEF S, v

\* That of a settlement credits no vendor.
LEMMA EntryOfSettlement ==
  ASSUME NEW d, Upkeep(d), DebtsKept(d), Open(d),
         NEW x \in FromSource(d, "expense_settlement")
  PROVE  /\ x.text # "reversal"
         /\ \A vendor \in Vendors : Debit(x, vendor) = x.lines[vendor]
<1> DEFINE n == x.of
<1>1. x \in SettlementsOf(d, n) BY BookedIsListed
<1>2. PICK e \in Events : n \in Listed(d, e) BY BookedIsListed
<1> DEFINE v == d.events[e]
<1>3. /\ v \in Row /\ IsDebt(v) /\ v.settlements[n].amount \in Nat
      /\ x.text # "reversal" /\ x.lines = SettlementLines(v, n)
  BY <1>1, <1>2, OneOrNone
<1>4. n \in DOMAIN v.settlements BY <1>2 DEF Listed
<1> HIDE DEF v, n
<1>5. ASSUME NEW vendor \in Vendors PROVE Debit(x, vendor) = x.lines[vendor]
  <2>1. x.lines[vendor] = IF v.by = vendor THEN v.settlements[n].amount ELSE 0
    BY <1>3, <1>4, SettlementLinesAre
  <2> QED BY <1>3, <2>1 DEF Debit
<1> QED BY <1>3, <1>5

-----------------------------------------------------------------------------
(***************************************************************************)
(* The sums of the audit, as sums of the library.                          *)
(***************************************************************************)
LEMMA SumOverAccounts ==
  ASSUME NEW S, NEW K
  PROVE  MapThenSumSet(LAMBDA a : Debits(S, a), K)
           = SumFunctionOnSet([a \in K |-> Debits(S, a)], K)
<1> DEFINE f == [a \in K |-> Debits(S, a)]
<1>1. MapThenSumSet(LAMBDA a : Debits(S, a), K) = (CHOOSE g : SumStep(f, K, g))[K]
  BY DEF MapThenSumSet, MapThenFoldSet, SumStep, Pick
<1>2. SumFunctionOnSet(f, K) = (CHOOSE g : SumStep(f, K, g))[K]
  BY DEF SumFunctionOnSet, FoldFunctionOnSet, MapThenFoldSet, SumStep, Pick
<1> QED BY <1>1, <1>2

LEMMA DebitsSum ==
  ASSUME NEW S, NEW a
  PROVE  Debits(S, a) = SumFunctionOnSet([x \in S |-> Debit(x, a)], S)
<1> DEFINE f == [x \in S |-> Debit(x, a)]
<1>1. Debits(S, a) = (CHOOSE g : SumStep(f, S, g))[S]
  BY DEF Debits, MapThenSumSet, MapThenFoldSet, SumStep, Pick
<1>2. SumFunctionOnSet(f, S) = (CHOOSE g : SumStep(f, S, g))[S]
  BY DEF SumFunctionOnSet, FoldFunctionOnSet, MapThenFoldSet, SumStep, Pick
<1> QED BY <1>1, <1>2

LEMMA AmountsSum ==
  ASSUME NEW d, NEW S
  PROVE  AmountsOf(d, S) = SumFunctionOnSet([e \in S |-> d.events[e].amount], S)
<1> DEFINE f == [e \in S |-> d.events[e].amount]
<1>1. AmountsOf(d, S) = (CHOOSE g : SumStep(f, S, g))[S]
  BY DEF AmountsOf, MapThenSumSet, MapThenFoldSet, SumStep, Pick
<1>2. SumFunctionOnSet(f, S) = (CHOOSE g : SumStep(f, S, g))[S]
  BY DEF SumFunctionOnSet, FoldFunctionOnSet, MapThenFoldSet, SumStep, Pick
<1> QED BY <1>1, <1>2

LEMMA ListedSum ==
  ASSUME NEW d
  PROVE  LET S == {e \in AliveIn(d) : IsDebt(d.events[e])}
         IN  SettlementsListed(d) = SumFunctionOnSet([e \in S |-> Settled(d.events[e])], S)
<1> DEFINE S == {e \in AliveIn(d) : IsDebt(d.events[e])}
           f == [e \in S |-> Settled(d.events[e])]
<1> HIDE DEF S
<1>1. MapThenSumSet(LAMBDA e : Settled(d.events[e]), S) = (CHOOSE g : SumStep(f, S, g))[S]
  BY DEF MapThenSumSet, MapThenFoldSet, SumStep, Pick
<1>2. SumFunctionOnSet(f, S) = (CHOOSE g : SumStep(f, S, g))[S]
  BY DEF SumFunctionOnSet, FoldFunctionOnSet, MapThenFoldSet, SumStep, Pick
<1>3. MapThenSumSet(LAMBDA e : Settled(d.events[e]), S) = SumFunctionOnSet(f, S)
  BY <1>1, <1>2
<1> QED BY <1>3 DEF SettlementsListed, S

LEMMA FinitelyMany == IsFiniteSet(Events) /\ IsFiniteSet(Vendors) /\ IsFiniteSet(Accounts)
<1>1. IsFiniteSet(Vendors) BY ExpensesAssumption
<1>2. IsFiniteSet(Vendors \union {"asset"}) BY <1>1, FS_AddElement
<1>3. IsFiniteSet((Vendors \union {"asset"}) \union {"expense"}) BY <1>2, FS_AddElement
<1>4. Accounts = (Vendors \union {"asset"}) \union {"expense"}
  BY ExpensesAssumption DEF ExpenseAccounts
<1> QED BY <1>1, <1>3, <1>4, ExpensesAssumption

LEMMA FromSourceFinite ==
  ASSUME NEW d, Ledger(d), NEW source
  PROVE  LET S == FromSource(d, source)
         IN  /\ IsFiniteSet(S) /\ S \subseteq Entry
             /\ \A a \in Accounts : \A x \in S :
                  x.lines[a] \in Int /\ On(d.journal, a)[x] = x.lines[a]
<1> DEFINE S == FromSource(d, source)
<1>1. S \in SUBSET d.journal BY DEF FromSource
<1>2. d.journal \subseteq Entry /\ IsFiniteSet(d.journal) BY DEF Ledger, Journaled
<1> HIDE DEF S
<1>3. IsFiniteSet(S) BY <1>1, <1>2, FS_Subset
<1> QED BY <1>1, <1>2, <1>3, WholeLines DEF S

\* What the entries of expenses debit is what they come to on "expense".
LEMMA ExpensesDebited ==
  ASSUME NEW d, Upkeep(d), Open(d), NEW g,
         \A e \in Events : g[e] = NetOf(EntriesOf(d, "expense", e), "expense")
  PROVE  MapThenSumSet(LAMBDA a : Debits(ExpenseEntries(d), a), Accounts)
           = SumFunctionOnSet(g, Events)
<1> DEFINE X == FromSource(d, "expense")
           f == [a \in Accounts |-> Debits(X, a)]
           on(a) == [x \in X |-> Debit(x, a)]
           lines == On(d.journal, "expense")
<1>1. Ledger(d) /\ "expense" \in Accounts BY AccountsAre DEF Upkeep
<1>2. ExpenseEntries(d) = X
  <2>1. \A x \in X : x.text # "reversal" BY EntryOfExpense
  <2> QED BY <2>1 DEF ExpenseEntries, FromSource
<1>3. IsFiniteSet(X) BY <1>1, FromSourceFinite
<1>4. \A x \in X : /\ on("expense")[x] = lines[x] /\ lines[x] \in Int
                   /\ \A a \in Accounts : a # "expense" => on(a)[x] = 0
  <2>1. \A x \in X : lines[x] = x.lines["expense"] /\ x.lines["expense"] \in Int
    BY <1>1, FromSourceFinite
  <2>2. \A x \in X : /\ Debit(x, "expense") = x.lines["expense"]
                     /\ \A a \in Accounts : a # "expense" => Debit(x, a) = 0
    BY ExpenseDebits
  <2> HIDE DEF lines, X
  <2> QED BY <2>1, <2>2
<1> HIDE DEF X, lines
<1>5. \A a : Debits(X, a) = SumFunctionOnSet(on(a), X) BY DebitsSum
<1> HIDE DEF on
<1>6. ASSUME NEW a \in Accounts, a # "expense" PROVE Debits(X, a) = 0
  <2>1. SumFunctionOnSet(on(a), X) = 0 BY <1>3, <1>4, <1>6, SumOfZeros
  <2> QED BY <1>5, <2>1
<1>7. Debits(X, "expense") = SumFunctionOnSet(lines, X)
  <2>1. SumFunctionOnSet(on("expense"), X) = SumFunctionOnSet(lines, X)
    BY <1>3, <1>4, SumEqual
  <2> QED BY <1>5, <2>1
<1>8. SumFunctionOnSet(lines, X) \in Int BY <1>3, <1>4, SumInt
<1>9. SumFunctionOnSet(f, Accounts) = SumFunctionOnSet(lines, X)
  <2>1. \A a \in Accounts : f[a] = IF a \in {"expense"} THEN f[a] ELSE 0 BY <1>6
  <2>2. f["expense"] = SumFunctionOnSet(lines, X) /\ f["expense"] \in Int
    BY <1>1, <1>7, <1>8
  <2>3. {"expense"} \in SUBSET Accounts BY <1>1
  <2> HIDE DEF f
  <2>4. SumFunctionOnSet(f, Accounts) = SumFunctionOnSet(f, {"expense"})
    BY <2>1, <2>2, <2>3, FinitelyMany, SumWhere
  <2>5. SumFunctionOnSet(f, {"expense"}) = f["expense"] BY <2>2, SumOfOne
  <2> QED BY <2>2, <2>4, <2>5
<1>10. SumFunctionOnSet(lines, X) = SumFunctionOnSet(g, Events)
  <2>1. \A x \in FromSource(d, "expense") : x.of \in Events BY EntryOfExpense
  <2> QED BY <1>1, <2>1, FinitelyMany, SourceNet DEF X, lines
<1>11. MapThenSumSet(LAMBDA a : Debits(X, a), Accounts) = SumFunctionOnSet(f, Accounts)
  BY SumOverAccounts
<1> HIDE DEF f
<1> QED BY <1>2, <1>9, <1>10, <1>11

\* What the gap counts of one event, and what the books have of it.
Counted(d, e) ==
  IF ~d.events[e].deleted /\ d.events[e].known THEN d.events[e].amount ELSE 0

OnBooks(d, e) == NetOf(EntriesOf(d, "expense", e), "expense")

LEMMA CountedInt ==
  ASSUME NEW d, Ledger(d), NEW e \in Events
  PROVE  Counted(d, e) \in Int /\ OnBooks(d, e) \in Int
<1> DEFINE E == EntriesOf(d, "expense", e)
<1>1. d.events[e] \in Row BY Columns
<1>2. E \in SUBSET d.journal BY DEF EntriesOf
<1>3. d.journal \subseteq Entry /\ IsFiniteSet(d.journal) BY DEF Ledger, Journaled
<1> HIDE DEF E
<1>4. NetOf(E, "expense") \in Int BY <1>2, <1>3, FS_Subset, NetInt, AccountsAre
<1> QED BY <1>1, <1>4 DEF Counted, OnBooks, Row, E

LEMMA ExpenseGapIs ==
  ASSUME NEW d, Upkeep(d), Open(d)
  PROVE  ExpenseGap(d)
           = SumFunctionOnSet([e \in Events |-> Counted(d, e) - OnBooks(d, e)], Events)
<1> DEFINE D == {e \in AliveIn(d) : d.events[e].known}
           amounts == [e \in D |-> d.events[e].amount]
           counted == [e \in Events |-> Counted(d, e)]
           booked == [e \in Events |-> OnBooks(d, e)]
           gap == [e \in Events |-> Counted(d, e) - OnBooks(d, e)]
<1>1. Ledger(d) BY DEF Upkeep
<1>2. \A e \in Events : Counted(d, e) \in Int /\ OnBooks(d, e) \in Int
  BY <1>1, CountedInt
<1>3. AmountsOf(d, D) = SumFunctionOnSet(counted, Events)
  <2>1. D \in SUBSET Events BY DEF AliveIn
  <2>2. \A e \in D : amounts[e] \in Int
    <3>1. \A e \in D : d.events[e] \in Row BY <1>1, <2>1, Columns
    <3> QED BY <3>1 DEF Row
  <2>3. \A e \in Events : counted[e] = IF e \in D THEN amounts[e] ELSE 0
    BY DEF Counted, AliveIn
  <2>4. AmountsOf(d, D) = SumFunctionOnSet(amounts, D)
    <3> HIDE DEF D
    <3> QED BY AmountsSum
  <2> HIDE DEF D, amounts, counted
  <2>5. SumFunctionOnSet(counted, Events) = SumFunctionOnSet(amounts, D)
    BY <2>1, <2>2, <2>3, FinitelyMany, SumWhere
  <2> QED BY <2>4, <2>5
<1>4. MapThenSumSet(LAMBDA a : Debits(ExpenseEntries(d), a), Accounts)
        = SumFunctionOnSet(booked, Events)
  <2>1. \A e \in Events : booked[e] = NetOf(EntriesOf(d, "expense", e), "expense")
    BY DEF OnBooks
  <2> HIDE DEF booked
  <2> QED BY <2>1, ExpensesDebited
<1>5. SumFunctionOnSet(counted, Events)
        = SumFunctionOnSet(gap, Events) + SumFunctionOnSet(booked, Events)
  <2>1. \A e \in Events : gap[e] \in Int /\ booked[e] \in Int
                          /\ counted[e] = gap[e] + booked[e]
    BY <1>2
  <2> HIDE DEF gap, booked, counted
  <2> QED BY <2>1, FinitelyMany, SumPlus
<1>6. SumFunctionOnSet(gap, Events) \in Int /\ SumFunctionOnSet(booked, Events) \in Int
  <2>1. \A e \in Events : gap[e] \in Int /\ booked[e] \in Int BY <1>2
  <2> HIDE DEF gap, booked
  <2> QED BY <2>1, FinitelyMany, SumInt
<1>7. ExpenseGap(d) = SumFunctionOnSet(counted, Events) - SumFunctionOnSet(booked, Events)
  <2> HIDE DEF counted, booked
  <2> QED BY <1>3, <1>4 DEF ExpenseGap
<1>8. ExpenseGap(d) = SumFunctionOnSet(gap, Events)
  <2> HIDE DEF counted, booked, gap
  <2> QED BY <1>5, <1>6, <1>7
<1> QED BY <1>8

\* Only the event whose sync failed, if there is one, leaves a gap.
LEMMA GapOfMissed ==
  ASSUME Upkeep(db), Open(db)
  PROVE  /\ (\A e \in Events : Counted(db, e) = OnBooks(db, e)) => ExpenseGap(db) = 0
         /\ \A m \in db.missed : ExpenseGap(db) = Counted(db, m) - OnBooks(db, m)
<1> DEFINE gap == [e \in Events |-> Counted(db, e) - OnBooks(db, e)]
<1>1. Ledger(db) /\ AtMostOne(db.missed) BY DEF Upkeep
<1>2. \A e \in Events : Counted(db, e) \in Int /\ OnBooks(db, e) \in Int
  BY <1>1, CountedInt
<1>3. ExpenseGap(db) = SumFunctionOnSet(gap, Events) BY ExpenseGapIs
<1>4. \A e \in Events \ db.missed : Counted(db, e) = OnBooks(db, e)
  BY UpkeepIsBooked DEF ExpensesAreBooked, Counted, OnBooks, Live
<1>5. ASSUME \A e \in Events : Counted(db, e) = OnBooks(db, e) PROVE ExpenseGap(db) = 0
  <2>1. \A e \in Events : gap[e] = 0 BY <1>2, <1>5
  <2> HIDE DEF gap
  <2> QED BY <1>3, <2>1, FinitelyMany, SumOfZeros
<1>6. ASSUME NEW m \in db.missed PROVE ExpenseGap(db) = Counted(db, m) - OnBooks(db, m)
  <2>1. m \in Events /\ \A e \in Events : e # m => e \notin db.missed
    BY <1>1 DEF Ledger, Database, AtMostOne
  <2>2. gap[m] = Counted(db, m) - OnBooks(db, m) /\ gap[m] \in Int BY <1>2, <2>1
  <2>3. \A e \in Events : gap[e] = IF e \in {m} THEN gap[e] ELSE 0
    BY <1>2, <1>4, <2>1
  <2>4. {m} \in SUBSET Events BY <2>1
  <2> HIDE DEF gap
  <2>5. SumFunctionOnSet(gap, Events) = SumFunctionOnSet(gap, {m})
    BY <2>2, <2>3, <2>4, FinitelyMany, SumWhere
  <2>6. SumFunctionOnSet(gap, {m}) = gap[m] BY <2>2, SumOfOne
  <2> QED BY <1>3, <2>2, <2>5, <2>6
<1> QED BY <1>5, <1>6

\* Of numbers that are not negative none makes up for another.
LEMMA SumOfNoneOver ==
  ASSUME NEW f, NEW S, IsFiniteSet(S), \A x \in S : f[x] \in Nat
  PROVE  SumFunctionOnSet(f, S) = 0 <=> \A x \in S : f[x] = 0
<1>1. (\A x \in S : f[x] = 0) => SumFunctionOnSet(f, S) = 0 BY SumOfZeros
<1>2. ASSUME SumFunctionOnSet(f, S) = 0, NEW x \in S PROVE f[x] = 0
  <2>1. \A y \in S : f[y] \in Int OBVIOUS
  <2>2. SumFunctionOnSet(f, S) = f[x] + SumFunctionOnSet(f, S \ {x}) BY <2>1, SumRemove
  <2>3. IsFiniteSet(S \ {x}) /\ \A y \in S \ {x} : f[y] \in Nat BY FS_RemoveElement
  <2>4. SumFunctionOnSet(f, S \ {x}) \in Nat BY <2>3, SumNat
  <2> QED BY <1>2, <2>2, <2>4
<1> QED BY <1>1, <1>2

\* Every settlement that a debt lists is booked, and none of a deleted one.
Tidy(d, e) ==
  \A n \in Listed(d, e) : SettlementsOf(d, n) = {} <=> d.events[e].deleted

LEMMA AsListedIsTidy ==
  ASSUME Upkeep(db), DebtsKept(db), Open(db), NEW e \in Events
  PROVE  AsListed(e) <=> Tidy(db, e)
<1> DEFINE v == db.events[e]
           At(n) == LinesOf(db, "expense_settlement", n)
           Due(n) == Movement(v.by, "asset", v.settlements[n].amount)
<1>1. ASSUME NEW n \in Listed(db, e)
      PROVE  (At(n) = IF Live(e) THEN {Due(n)} ELSE {})
               <=> (SettlementsOf(db, n) = {} <=> v.deleted)
  <2> DEFINE S == SettlementsOf(db, n)
  <2>1. At(n) = {x.lines : x \in S} BY DEF LinesOf, SettlementsOf
  <2>2. S = {} \/ \E x \in S : S = {x} /\ x.lines = Due(n)
    BY OneOrNone DEF SettlementLines
  <2>3. Live(e) <=> ~v.deleted BY DEF Live
  <2> HIDE DEF S, At, Due
  <2>4. IF S = {} THEN At(n) = {} ELSE At(n) = {Due(n)} BY <2>1, <2>2
  <2> QED BY <2>3, <2>4 DEF S
<1>2. AsListed(e) <=> \A n \in Listed(db, e) : At(n) = IF Live(e) THEN {Due(n)} ELSE {}
  BY DEF AsListed, Listed
<1> HIDE DEF At, Due
<1> QED BY <1>1, <1>2 DEF Tidy

\* The debits of the vendors come to what the books have of the settlements.
Has(d, e, n) == IF SettlementsOf(d, n) = {} THEN 0 ELSE d.events[e].settlements[n].amount

LEMMA SettlementHas ==
  ASSUME NEW d, Upkeep(d), DebtsKept(d), Open(d), NEW vendor \in Vendors,
         NEW e \in Events, NEW n \in Listed(d, e)
  PROVE  NetOf(SettlementsOf(d, n), vendor)
           = IF d.events[e].by = vendor THEN Has(d, e, n) ELSE 0
<1> DEFINE v == d.events[e]
           S == SettlementsOf(d, n)
<1>1. CASE S = {} BY <1>1, NetNone DEF Has
<1>2. CASE S # {}
  <2>1. v \in Row /\ IsDebt(v) /\ v.settlements[n].amount \in Nat BY OneOrNone
  <2>2. PICK x \in S : S = {x} /\ x.lines = SettlementLines(v, n) BY <1>2, OneOrNone
  <2>3. n \in DOMAIN v.settlements BY DEF Listed
  <2>4. Ledger(d) /\ vendor \in Accounts BY AccountsAre DEF Upkeep
  <2>5. x.of = n /\ x \in FromSource(d, "expense_settlement")
    BY DEF SettlementsOf, EntriesOf, FromSource
  <2>6. NetOf(S, vendor) = SumFunctionOnSet(On(d.journal, vendor), {x})
    BY <2>2, <2>4, KeyNet DEF SettlementsOf
  <2>7. On(d.journal, vendor)[x] = x.lines[vendor] /\ x.lines[vendor] \in Int
    BY <2>4, <2>5, FromSourceFinite
  <2>8. NetOf(S, vendor) = x.lines[vendor] BY <2>6, <2>7, SumOfOne
  <2> HIDE DEF v
  <2>9. x.lines[vendor] = IF v.by = vendor THEN v.settlements[n].amount ELSE 0
    BY <2>1, <2>2, <2>3, SettlementLinesAre
  <2> QED BY <1>2, <2>8, <2>9 DEF Has, v
<1> QED BY <1>1, <1>2

VendorDebits(d) ==
  MapThenSumSet(LAMBDA vendor : Debits(FromSource(d, "expense_settlement"), vendor), Vendors)

LEMMA SettlementGapIs ==
  ASSUME NEW d, Upkeep(d), DebtsKept(d), Open(d)
  PROVE  SettlementGap(d) = SettlementsListed(d) - VendorDebits(d)
<1> DEFINE B == {x \in d.journal : x.source = "expense_settlement" /\ x.text # "reversal"}
           T == FromSource(d, "expense_settlement")
<1>1. SettlementGap(d)
        = SettlementsListed(d) - MapThenSumSet(LAMBDA vendor : Debits(B, vendor), Vendors)
  BY DEF SettlementGap
<1>2. B = T
  <2>1. \A x \in T : x.text # "reversal" BY EntryOfSettlement
  <2> QED BY <2>1 DEF FromSource
<1> HIDE DEF B
<1> QED BY <1>1, <1>2 DEF VendorDebits

LEMMA VendorDebitsAre ==
  ASSUME NEW d, Upkeep(d), DebtsKept(d), Open(d), NEW c \in Events, OnlyDebt(d, c),
         d.events[c].settlements # <<>>
  PROVE  VendorDebits(d)
           = SumFunctionOnSet([n \in Listed(d, c) |-> Has(d, c, n)], Listed(d, c))
<1> DEFINE T == FromSource(d, "expense_settlement")
           K == Listed(d, c)
           has == [n \in K |-> Has(d, c, n)]
           debits == [vendor \in Vendors |-> Debits(T, vendor)]
           by == d.events[c].by
<1>1. Ledger(d) /\ by \in Vendors BY DEF Upkeep, DebtsKept, IsDebt
<1>2. IsFiniteSet(K) /\ \A n \in K : has[n] \in Int
  <2>1. d.events[c] \in Row BY <1>1, Columns
  <2>2. IsFiniteSet(K) BY <2>1, ColumnOfSettlements DEF Listed
  <2>3. \A n \in K : d.events[c].settlements[n].amount \in Nat BY OneOrNone
  <2> QED BY <2>2, <2>3 DEF Has
<1>3. ASSUME NEW vendor \in Vendors
      PROVE  debits[vendor] = IF vendor = by THEN SumFunctionOnSet(has, K) ELSE 0
  <2> DEFINE lines == On(d.journal, vendor)
             debit == [x \in T |-> Debit(x, vendor)]
             g == [n \in K |-> NetOf(SettlementsOf(d, n), vendor)]
  <2>1. IsFiniteSet(T) BY <1>1, FromSourceFinite
  <2>2. \A x \in T : debit[x] = lines[x]
    <3>1. \A x \in T : lines[x] = x.lines[vendor] BY <1>1, FromSourceFinite, AccountsAre
    <3>2. \A x \in T : Debit(x, vendor) = x.lines[vendor] BY EntryOfSettlement
    <3> HIDE DEF lines, T
    <3> QED BY <3>1, <3>2
  <2>3. Debits(T, vendor) = SumFunctionOnSet(debit, T)
    <3> HIDE DEF T
    <3> QED BY DebitsSum
  <2>4. SumFunctionOnSet(debit, T) = SumFunctionOnSet(lines, T)
    <3> HIDE DEF T, debit, lines
    <3> QED BY <2>1, <2>2, SumEqual
  <2>5. SumFunctionOnSet(lines, T) = SumFunctionOnSet(g, K)
    <3>1. \A n \in Listed(d, c) : g[n] = NetOf(SettlementsOf(d, n), vendor) OBVIOUS
    <3> HIDE DEF g
    <3> QED BY <3>1, SettlementsByNumber
  <2>6. \A n \in K : g[n] = IF vendor = by THEN has[n] ELSE 0 BY SettlementHas
  <2>7. SumFunctionOnSet(g, K) = IF vendor = by THEN SumFunctionOnSet(has, K) ELSE 0
    <3> HIDE DEF g, K, has, by
    <3>1. CASE vendor = by
      <4>1. \A n \in K : g[n] = has[n] BY <2>6, <3>1
      <4> QED BY <1>2, <3>1, <4>1, SumEqual
    <3>2. CASE vendor # by
      <4>1. \A n \in K : g[n] = 0 BY <2>6, <3>2
      <4> QED BY <1>2, <3>2, <4>1, SumOfZeros
    <3> QED BY <3>1, <3>2
  <2>8. debits[vendor] = Debits(T, vendor) OBVIOUS
  <2> HIDE DEF debits, debit, lines, g, T, K, has, by
  <2> QED BY <2>3, <2>4, <2>5, <2>7, <2>8
<1>4. SumFunctionOnSet(has, K) \in Int
  <2> HIDE DEF has, K
  <2> QED BY <1>2, SumInt
<1>5. SumFunctionOnSet(debits, Vendors) = SumFunctionOnSet(has, K)
  <2> HIDE DEF debits, has, K, by
  <2>1. \A a \in Vendors : debits[a] = IF a \in {by} THEN debits[a] ELSE 0 BY <1>3
  <2>2. debits[by] = SumFunctionOnSet(has, K) BY <1>1, <1>3
  <2>3. {by} \in SUBSET Vendors /\ \A a \in {by} : debits[a] \in Int BY <1>1, <1>4, <2>2
  <2>4. SumFunctionOnSet(debits, Vendors) = SumFunctionOnSet(debits, {by})
    BY <2>1, <2>3, FinitelyMany, SumWhere
  <2> QED BY <1>4, <2>2, <2>4, SumOfOne
<1>6. VendorDebits(d) = SumFunctionOnSet(debits, Vendors)
  <2> HIDE DEF T
  <2>1. MapThenSumSet(LAMBDA a : Debits(T, a), Vendors) = SumFunctionOnSet(debits, Vendors)
    BY SumOverAccounts
  <2> QED BY <2>1 DEF VendorDebits, T
<1> QED BY <1>5, <1>6

\* What is listed is what that debt lists, until it is deleted.
LEMMA SettlementsListedAre ==
  ASSUME NEW d, Upkeep(d), DebtsKept(d), NEW c \in Events, OnlyDebt(d, c)
  PROVE  /\ Settled(d.events[c]) \in Int
         /\ SettlementsListed(d) = IF d.events[c].deleted THEN 0 ELSE Settled(d.events[c])
<1> DEFINE S == {e \in AliveIn(d) : IsDebt(d.events[e])}
           f == [e \in S |-> Settled(d.events[e])]
<1>1. \A e \in Events : /\ Settled(d.events[e]) \in Int
                        /\ d.events[e].settlements = <<>> => Settled(d.events[e]) = 0
  <2>1. \A e \in Events : d.events[e] \in Row BY Columns DEF Upkeep
  <2> QED BY <2>1, SettledIs
<1>2. S \in SUBSET Events BY DEF AliveIn
<1>3. IsFiniteSet(S)
  <2> HIDE DEF S
  <2> QED BY <1>2, FinitelyMany, FS_Subset
<1>4. SettlementsListed(d) = SumFunctionOnSet(f, S) BY ListedSum
<1>5. \A e \in S : f[e] = Settled(d.events[e]) OBVIOUS
<1>6. c \in S <=> ~d.events[c].deleted /\ IsDebt(d.events[c]) BY DEF AliveIn
<1>7. ~IsDebt(d.events[c]) => Settled(d.events[c]) = 0 BY <1>1 DEF DebtsKept
<1> HIDE DEF S, f
<1>8. \A e \in S : e # c => f[e] = 0 BY <1>1, <1>2, <1>5 DEF OnlyDebt
<1>9. CASE c \in S
  <2>1. {c} \in SUBSET S /\ \A e \in {c} : f[e] \in Int BY <1>1, <1>5, <1>9
  <2>2. \A e \in S : f[e] = IF e \in {c} THEN f[e] ELSE 0 BY <1>8
  <2>3. SumFunctionOnSet(f, S) = SumFunctionOnSet(f, {c}) BY <1>3, <2>1, <2>2, SumWhere
  <2>4. SumFunctionOnSet(f, {c}) = f[c] BY <2>1, SumOfOne
  <2> QED BY <1>1, <1>4, <1>5, <1>6, <1>9, <2>3, <2>4
<1>10. CASE c \notin S
  <2>1. \A e \in S : f[e] = 0 BY <1>8, <1>10
  <2>2. SumFunctionOnSet(f, S) = 0 BY <1>3, <2>1, SumOfZeros
  <2> QED BY <1>1, <1>4, <1>6, <1>7, <1>10, <2>2
<1> QED BY <1>9, <1>10

\* The gap is of one debt: of what is missing while it stands, and of what is
\* left once it is deleted.
LEMMA GapOfDebt ==
  ASSUME NEW d, Upkeep(d), DebtsKept(d), Open(d), NEW c \in Events, OnlyDebt(d, c),
         d.events[c].settlements # <<>>
  PROVE  SettlementGap(d) = 0 <=> Tidy(d, c)
<1> DEFINE v == d.events[c]
           K == Listed(d, c)
           amounts == [n \in K |-> v.settlements[n].amount]
           has == [n \in K |-> Has(d, c, n)]
           lacks == [n \in K |-> v.settlements[n].amount - Has(d, c, n)]
<1>1. v \in Row /\ \A n \in K : v.settlements[n].amount \in Nat \ {0}
  <2>1. v \in Row BY Columns DEF Upkeep
  <2>2. \A n \in K : v.settlements[n].amount \in Nat \ {0} BY OneOrNone
  <2> QED BY <2>1, <2>2
<1>2. IsFiniteSet(K) BY <1>1, ColumnOfSettlements DEF Listed
<1>3. ASSUME NEW n \in K
      PROVE  /\ has[n] \in Nat /\ lacks[n] \in Nat /\ amounts[n] = lacks[n] + has[n]
             /\ amounts[n] \in Int /\ has[n] \in Int /\ lacks[n] \in Int
             /\ has[n] = 0 <=> SettlementsOf(d, n) = {}
             /\ lacks[n] = 0 <=> SettlementsOf(d, n) # {}
  BY <1>1 DEF Has
<1>4. SettlementGap(d) = SettlementsListed(d) - SumFunctionOnSet(has, K)
  BY SettlementGapIs, VendorDebitsAre
<1>5. SettlementsListed(d) = IF v.deleted THEN 0 ELSE SumFunctionOnSet(amounts, K)
  <2>1. K \in SUBSET (DOMAIN v.settlements) /\ Settled(v) = Paid(v, K)
    BY DEF Settled, Listed
  <2>2. Paid(v, K) = SumFunctionOnSet(amounts, K)
    <3> HIDE DEF v, K
    <3> QED BY <1>1, <2>1, PaidIs
  <2> QED BY <2>1, <2>2, SettlementsListedAre
<1>6. Tidy(d, c) <=> \A n \in K : SettlementsOf(d, n) = {} <=> v.deleted BY DEF Tidy
<1> HIDE DEF v, K, amounts, has, lacks
<1>7. SumFunctionOnSet(amounts, K) = SumFunctionOnSet(lacks, K) + SumFunctionOnSet(has, K)
  BY <1>2, <1>3, SumPlus
<1>8. SumFunctionOnSet(lacks, K) \in Int /\ SumFunctionOnSet(has, K) \in Int
  BY <1>2, <1>3, SumInt
<1>9. SumFunctionOnSet(lacks, K) = 0 <=> \A n \in K : lacks[n] = 0
  BY <1>2, <1>3, SumOfNoneOver
<1>10. SumFunctionOnSet(has, K) = 0 <=> \A n \in K : has[n] = 0
  BY <1>2, <1>3, SumOfNoneOver
<1>11. CASE v.deleted
  <2>1. SettlementGap(d) = 0 <=> SumFunctionOnSet(has, K) = 0 BY <1>4, <1>5, <1>8, <1>11
  <2> QED BY <1>3, <1>6, <1>10, <1>11, <2>1
<1>12. CASE ~v.deleted
  <2>1. SettlementGap(d) = 0 <=> SumFunctionOnSet(lacks, K) = 0
    BY <1>4, <1>5, <1>7, <1>8, <1>12
  <2> QED BY <1>3, <1>6, <1>9, <1>12, <2>1
<1> QED BY <1>11, <1>12

LEMMA SettlementsBalance ==
  ASSUME NEW d, Upkeep(d), DebtsKept(d), Open(d)
  PROVE  SettlementGap(d) = 0 <=> \A e \in Events : Tidy(d, e)
<1>1. \A e \in Events : d.events[e].settlements = <<>> => Tidy(d, e)
  BY NoneListed DEF Tidy
<1>2. CASE \A e \in Events : d.events[e].settlements = <<>>
  <2> DEFINE S == {e \in AliveIn(d) : IsDebt(d.events[e])}
             f == [e \in S |-> Settled(d.events[e])]
             T == FromSource(d, "expense_settlement")
             debits == [vendor \in Vendors |-> Debits(T, vendor)]
  <2>1. \A e \in S : f[e] = 0
    <3>1. \A e \in Events : d.events[e] \in Row BY Columns DEF Upkeep
    <3>2. \A e \in Events : Settled(d.events[e]) = 0 BY <1>2, <3>1, SettledIs
    <3> QED BY <3>2 DEF AliveIn
  <2>2. IsFiniteSet(S)
    <3>1. S \in SUBSET Events BY DEF AliveIn
    <3> HIDE DEF S
    <3> QED BY <3>1, FinitelyMany, FS_Subset
  <2>3. SettlementsListed(d) = SumFunctionOnSet(f, S) BY ListedSum
  <2>4. SumFunctionOnSet(f, S) = 0
    <3> HIDE DEF S, f
    <3> QED BY <2>1, <2>2, SumOfZeros
  <2>5. T = {} BY <1>2, NoSettlements
  <2>6. \A vendor \in Vendors : debits[vendor] = 0
    <3>1. \A vendor \in Vendors :
            Debits(T, vendor) = SumFunctionOnSet([x \in T |-> Debit(x, vendor)], T)
      <4> HIDE DEF T
      <4> QED BY DebitsSum
    <3>2. \A g : SumFunctionOnSet(g, T) = 0
      <4> HIDE DEF T
      <4> QED BY <2>5, SumOfNone
    <3> HIDE DEF T
    <3> QED BY <3>1, <3>2
  <2>7. SumFunctionOnSet(debits, Vendors) = 0
    <3> HIDE DEF debits
    <3> QED BY <2>6, FinitelyMany, SumOfZeros
  <2>8. VendorDebits(d) = SumFunctionOnSet(debits, Vendors)
    <3> HIDE DEF T
    <3>1. MapThenSumSet(LAMBDA a : Debits(T, a), Vendors) = SumFunctionOnSet(debits, Vendors)
      BY SumOverAccounts
    <3> QED BY <3>1 DEF VendorDebits, T
  <2>9. SettlementGap(d) = SettlementsListed(d) - VendorDebits(d) BY SettlementGapIs
  <2> HIDE DEF S, f, T, debits
  <2>10. SettlementGap(d) = 0 BY <2>3, <2>4, <2>7, <2>8, <2>9
  <2> QED BY <1>1, <1>2, <2>10
<1>3. ASSUME NEW c \in Events, d.events[c].settlements # <<>>
      PROVE  SettlementGap(d) = 0 <=> \A e \in Events : Tidy(d, e)
  <2>1. OnlyDebt(d, c) BY <1>3 DEF DebtsKept, OnlyDebt
  <2>2. SettlementGap(d) = 0 <=> Tidy(d, c) BY <1>3, <2>1, GapOfDebt
  <2>3. \A e \in Events : e # c => Tidy(d, e) BY <1>1, <2>1 DEF OnlyDebt
  <2> QED BY <2>2, <2>3
<1> QED BY <1>2, <1>3

-----------------------------------------------------------------------------
(***************************************************************************)
(* The audit passes when every expense is booked as a sync would book it   *)
(* and every settlement as it is listed, and only then.                    *)
(***************************************************************************)
\* One entry has the lines of the event, or there is none to have.
LEMMA OnBooksIs ==
  ASSUME NEW d, Upkeep(d), Open(d), NEW e \in Events
  PROVE  LET E == EntriesOf(d, "expense", e)
         IN  IF E = {} THEN OnBooks(d, e) = 0
             ELSE \E x \in FromSource(d, "expense") :
                    /\ E = {x} /\ x.of = e /\ OnBooks(d, e) = x.lines["expense"]
<1> DEFINE E == EntriesOf(d, "expense", e)
<1>1. Ledger(d) /\ "expense" \in Accounts BY AccountsAre DEF Upkeep
<1>2. CASE E = {} BY <1>2, NetNone DEF OnBooks
<1>3. ASSUME NEW x \in E
      PROVE  /\ x \in FromSource(d, "expense") /\ E = {x} /\ x.of = e
             /\ OnBooks(d, e) = x.lines["expense"]
  <2>1. x \in FromSource(d, "expense") /\ x.of = e BY DEF EntriesOf, FromSource
  <2>2. E = {x} BY <2>1, EntryOfExpense
  <2>3. OnBooks(d, e) = SumFunctionOnSet(On(d.journal, "expense"), {x})
    BY <1>1, <2>2, KeyNet DEF OnBooks
  <2>4. On(d.journal, "expense")[x] = x.lines["expense"] /\ x.lines["expense"] \in Int
    BY <1>1, <2>1, FromSourceFinite
  <2>5. OnBooks(d, e) = x.lines["expense"] BY <2>3, <2>4, SumOfOne
  <2> QED BY <2>1, <2>2, <2>5
<1> QED BY <1>2, <1>3

\* The lines tell the amount of the expense, and who paid it.
LEMMA LinesTell ==
  ASSUME NEW u \in Row, NEW v \in Row, u.amount # 0,
         ExpenseLines(u)["expense"] = v.amount, ExpenseLines(u)[v.by] < 0
  PROVE  ExpenseLines(u) = ExpenseLines(v)
<1>1. v.by \in Accounts /\ v.by # "expense" BY AccountsAre DEF Row
<1>2. u.amount \in Nat /\ v.amount \in Nat BY DEF Row
<1>3. ExpenseLines(u)["expense"] = u.amount BY AccountsAre, ExpenseLinesOn
<1>4. ExpenseLines(u)[v.by] = IF v.by = u.by THEN -u.amount ELSE 0
  BY <1>1, ExpenseLinesOn
<1>5. u.by = v.by BY <1>2, <1>4
<1>6. u.amount = v.amount BY <1>3
<1> QED BY <1>5, <1>6 DEF ExpenseLines

LEMMA BookedPasses ==
  ASSUME Upkeep(db), DebtsKept(db), Open(db),
         \A e \in Events : Correct(db, e) /\ Tidy(db, e)
  PROVE  AuditPasses(db)
<1>1. Ledger(db) BY DEF Upkeep
<1>2. ASSUME NEW x \in FromSource(db, "expense")
      PROVE  /\ db.events[x.of] \in Row /\ db.events[x.of].known
             /\ x.lines = ExpenseLines(db.events[x.of])
             /\ db.events[x.of].amount # 0
  <2> DEFINE E == EntriesOf(db, "expense", x.of)
             v == db.events[x.of]
  <2>1. x.of \in Events /\ E = {x} /\ Latest(E) = x BY EntryOfExpense
  <2>2. Correct(db, x.of) BY <2>1
  <2>3. ~v.deleted /\ BookedAs(E, v) BY <2>1, <2>2 DEF Correct
  <2>4. v \in Row /\ v.amount # 0 BY <1>1, <2>1, <2>3, Columns DEF Upkeep, Standing
  <2> HIDE DEF E, v
  <2>5. v.known /\ x.lines = ExpenseLines(v) BY <2>1, <2>3 DEF BookedAs, StandsAs
  <2> QED BY <2>4, <2>5 DEF v
<1>3. CategoryMismatches(db) = {}
  <2>1. ASSUME NEW x \in CategoryMismatches(db) PROVE FALSE
    <3>1. x \in FromSource(db, "expense") /\ Debit(x, "expense") = 0
      BY DEF CategoryMismatches, FromSource
    <3> QED BY <3>1, ExpenseDebits
  <2> QED BY <2>1
<1>4. PaymentMismatches(db) = {}
  <2>1. ASSUME NEW x \in PaymentMismatches(db) PROVE FALSE
    <3> DEFINE v == db.events[x.of]
    <3>1. x \in FromSource(db, "expense") /\ ~(x.lines[v.by] < 0)
      BY DEF PaymentMismatches, ExpenseEntries, Credits, FromSource
    <3>2. v \in Row /\ v.amount # 0 /\ x.lines = ExpenseLines(v) BY <1>2, <3>1
    <3> HIDE DEF v
    <3>3. v.by \in Accounts /\ v.by # "expense" /\ v.amount \in Nat
      BY <3>2, AccountsAre DEF Row
    <3>4. x.lines[v.by] = -v.amount BY <3>2, <3>3, ExpenseLinesOn
    <3> QED BY <3>1, <3>2, <3>3, <3>4
  <2> QED BY <2>1
<1>5. \A e \in WithoutEntry(db) : ~db.events[e].known
  BY DEF WithoutEntry, AliveIn, Correct, BookedAs, StandsAs
<1>6. ASSUME NEW e \in Events PROVE Counted(db, e) = OnBooks(db, e)
  <2> DEFINE E == EntriesOf(db, "expense", e)
             v == db.events[e]
  <2>1. CASE E = {}
    <3>1. OnBooks(db, e) = 0 BY <2>1, OnBooksIs
    <3>2. v.deleted \/ ~v.known
      <4>1. ~v.deleted => BookedAs(E, v) BY DEF Correct
      <4> HIDE DEF E, v
      <4> QED BY <2>1, <4>1 DEF BookedAs, StandsAs
    <3> QED BY <3>1, <3>2 DEF Counted
  <2>2. CASE E # {}
    <3>1. PICK x \in FromSource(db, "expense") :
            x.of = e /\ OnBooks(db, e) = x.lines["expense"]
      BY <2>2, OnBooksIs
    <3>2. ~v.deleted BY <2>2 DEF Correct
    <3>3. v \in Row /\ v.known /\ x.lines = ExpenseLines(v) BY <1>2, <3>1
    <3>4. x.lines["expense"] = v.amount BY <3>3, ExpenseLinesAre
    <3> QED BY <3>1, <3>2, <3>3, <3>4 DEF Counted
  <2> QED BY <2>1, <2>2
<1>7. ExpenseGap(db) = 0 BY <1>6, GapOfMissed
<1>8. SettlementGap(db) = 0 BY SettlementsBalance
<1> QED BY <1>3, <1>4, <1>5, <1>7, <1>8 DEF AuditPasses

LEMMA PassesBooked ==
  ASSUME Upkeep(db), Open(db), AuditPasses(db), NEW e \in Events, ~db.events[e].deleted
  PROVE  BookedAs(EntriesOf(db, "expense", e), db.events[e])
<1> DEFINE E == EntriesOf(db, "expense", e)
           v == db.events[e]
<1>1. Ledger(db) /\ ~v.deleted BY DEF Upkeep
<1>2. Standing(db, e) /\ v \in Row BY <1>1, Columns DEF Upkeep
<1>3. CASE e \notin db.missed BY <1>1, <1>2, <1>3 DEF Standing
<1>4. CASE e \in db.missed /\ E = {}
  <2>1. e \in WithoutEntry(db) BY <1>1, <1>4 DEF WithoutEntry, AliveIn
  <2>2. ~v.known BY <2>1 DEF AuditPasses
  <2> HIDE DEF E, v
  <2>3. BookedAs(E, v) BY <1>4, <2>2 DEF BookedAs
  <2> QED BY <2>3 DEF E, v
<1>5. CASE e \in db.missed /\ E # {}
  <2>1. PICK x \in FromSource(db, "expense") :
          E = {x} /\ x.of = e /\ OnBooks(db, e) = x.lines["expense"]
    BY <1>1, <1>5, OnBooksIs
  <2>2. /\ x.text # "reversal" /\ Latest(E) = x
        /\ \E u \in Row : u.amount # 0 /\ x.lines = ExpenseLines(u)
    BY <2>1, EntryOfExpense
  <2>3. x.lines["expense"] \in Nat \ {0} BY ExpenseDebits
  <2>4. ExpenseGap(db) = 0 /\ ExpenseGap(db) = Counted(db, e) - OnBooks(db, e)
    BY <1>5, GapOfMissed DEF AuditPasses
  <2>5. Counted(db, e) = x.lines["expense"]
    <3>1. Counted(db, e) \in Int BY <1>1, CountedInt
    <3> QED BY <2>1, <2>3, <2>4, <3>1
  <2>6. v.known /\ v.amount = x.lines["expense"] BY <2>3, <2>5 DEF Counted
  <2>7. x.lines[v.by] < 0
    <3>1. x \notin PaymentMismatches(db) BY DEF AuditPasses
    <3>2. x \in ExpenseEntries(db) BY <2>2 DEF ExpenseEntries, FromSource
    <3> QED BY <2>1, <3>1, <3>2 DEF PaymentMismatches, Credits
  <2>8. Orderly(E) BY <1>1, <1>2 DEF Standing
  <2> HIDE DEF E, v
  <2>9. x.lines = ExpenseLines(v) BY <1>2, <2>2, <2>6, <2>7, LinesTell
  <2>10. BookedAs(E, v) BY <1>5, <2>2, <2>6, <2>8, <2>9 DEF BookedAs, StandsAs
  <2> QED BY <2>10 DEF E, v
<1> QED BY <1>3, <1>4, <1>5

LEMMA PassesGone ==
  ASSUME Upkeep(db), Open(db), AuditPasses(db), NEW e \in Events, db.events[e].deleted
  PROVE  EntriesOf(db, "expense", e) = {}
<1> SUFFICES ASSUME EntriesOf(db, "expense", e) # {} PROVE FALSE OBVIOUS
<1>1. PICK x \in FromSource(db, "expense") :
        x.of = e /\ OnBooks(db, e) = x.lines["expense"]
  BY OnBooksIs
<1>2. e \in db.missed BY <1>1, EntryOfExpense
<1>3. x.lines["expense"] \in Nat \ {0} BY ExpenseDebits
<1>4. ExpenseGap(db) = 0 /\ ExpenseGap(db) = Counted(db, e) - OnBooks(db, e)
  BY <1>2, GapOfMissed DEF AuditPasses
<1>5. Counted(db, e) = 0 BY DEF Counted
<1> QED BY <1>1, <1>3, <1>4, <1>5

LEMMA AuditIsRight ==
  ASSUME Upkeep(db), DebtsKept(db)
  PROVE  AuditTells
<1> SUFFICES ASSUME Open(db)
             PROVE  AuditPasses(db) <=> \A e \in Events : AsSynced(e) /\ AsListed(e)
  BY DEF AuditTells, Open
<1>1. \A e \in Events : AsSynced(e) <=> Correct(db, e) BY AsSyncedIsCorrect
<1>2. \A e \in Events : AsListed(e) <=> Tidy(db, e) BY AsListedIsTidy
<1>3. ASSUME AuditPasses(db), NEW e \in Events PROVE Correct(db, e) /\ Tidy(db, e)
  <2>1. Correct(db, e) BY <1>3, PassesBooked, PassesGone DEF Correct
  <2>2. SettlementGap(db) = 0 BY <1>3 DEF AuditPasses
  <2> QED BY <2>1, <2>2, SettlementsBalance
<1>4. (\A e \in Events : Correct(db, e) /\ Tidy(db, e)) => AuditPasses(db) BY BookedPasses
<1> QED BY <1>1, <1>2, <1>3, <1>4

(***************************************************************************)
(* Until a period is closed, the checks of the audit are right about the   *)
(* expenses and the settlements: they tell of every failed sync that left  *)
(* an expense otherwise than it should, or left its entry when its event   *)
(* was deleted, of every settlement that is listed and not booked, because *)
(* its sync failed or its source is of no account, and of every one left   *)
(* by a deleted debt; and of nothing else.                                 *)
(* _check_expense_category_mismatch, ..._payment_account_mismatch,         *)
(* _check_source_completeness and _check_source_ledger_totals, together.   *)
(***************************************************************************)
THEOREM AuditTellsFailures == Practices = {} => (RepairSpec => []AuditTells)
<1> SUFFICES ASSUME NoPractices PROVE RepairSpec => []AuditTells
  BY DEF NoPractices
<1>1. Init => Upkeep(db) /\ Requests /\ DebtsKept(db)
  BY StartsInOrder, StartsWithoutDebts
<1>2. (Upkeep(db) /\ Requests /\ DebtsKept(db)) /\ [RepairNext]_vars
        => (Upkeep(db) /\ Requests /\ DebtsKept(db))'
  BY StepKeeps, StepKeepsDebts, NoPracticesIsCare
<1>3. Upkeep(db) /\ Requests /\ DebtsKept(db) => AuditTells BY AuditIsRight
<1> QED BY <1>1, <1>2, <1>3, PTL DEF RepairSpec

=============================================================================
