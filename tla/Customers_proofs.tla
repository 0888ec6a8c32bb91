--------------------------- MODULE Customers_proofs ---------------------------
(***************************************************************************)
(* Theorems about Customers: what refers to a customer refers to one that  *)
(* is there, the volume of a year is that of its orders, a merge loses no  *)
(* number, and saving an order no address that is used.                    *)
(***************************************************************************)
EXTENDS Customers, SumTheorems

-----------------------------------------------------------------------------
(***************************************************************************)
(* The loops of the module are folds: of rows kept, of numbers copied, and *)
(* of customers merged, each over the indexes of a sequence.  The kind     *)
(* says which.                                                             *)
(***************************************************************************)
Turn(kind, acc, i) ==
  IF kind.op = "mark"
  THEN IF kind.rows[i].primary = kind.primary THEN Append(acc, kind.rows[i]) ELSE acc
  ELSE IF kind.op = "copy"
  THEN IF kind.rows[i].phone \in PhonesOf(acc) THEN acc
       ELSE Append(acc, [phone |-> kind.rows[i].phone, primary |-> acc = <<>>])
  ELSE MergeInto(acc, kind.t, kind.sources[i])

FoldStep(kind, base, S, g) ==
  g = [s \in SUBSET S |-> IF s = {} THEN base ELSE Turn(kind, g[s \ {Max(s)}], Max(s))]

LEMMA MaxIs ==
  ASSUME NEW s, s \subseteq Nat, IsFiniteSet(s), s # {}
  PROVE  Max(s) \in s /\ \A x \in s : x <= Max(s)
<1>1. PICK v \in s : \A w \in s : w <= v BY GreatestOf
<1>2. \E x \in s : \A y \in s : x >= y BY <1>1
<1> QED BY <1>2 DEF Max

HasMaxima(S) == \A s \in SUBSET S : s # {} => Max(s) \in s

LEMMA FoldAgrees ==
  ASSUME NEW kind, NEW base, NEW S, IsFiniteSet(S), HasMaxima(S), NEW T, NEW g, NEW h,
         FoldStep(kind, base, S, g), FoldStep(kind, base, T, h),
         NEW u \in SUBSET S, u \subseteq T
  PROVE  g[u] = h[u]
<1> DEFINE P == {v \in SUBSET u : g[v] # h[v]}
<1>1. SUFFICES ASSUME P # {} PROVE FALSE OBVIOUS
<1>2. IsFiniteSet(u) BY FS_Subset
<1>3. PICK m \in P : \A t \in P : t \subseteq m => t = m
  <2>1. P \in SUBSET (SUBSET u) OBVIOUS
  <2> HIDE DEF P
  <2> QED BY <1>1, <1>2, <2>1, SmallestSubset
<1> DEFINE r == m \ {Max(m)}
<1>4. m # {} => Max(m) \in m BY DEF HasMaxima
<1>5. m \in SUBSET S /\ m \in SUBSET T OBVIOUS
<1>6. /\ g[m] = IF m = {} THEN base ELSE Turn(kind, g[r], Max(m))
      /\ h[m] = IF m = {} THEN base ELSE Turn(kind, h[r], Max(m))
  BY <1>5 DEF FoldStep
<1>7. m # {} => r \notin P BY <1>3, <1>4
<1>8. m # {} => g[r] = h[r] BY <1>7
<1> QED BY <1>6, <1>8

\* The recursion has a solution.
LEMMA FoldExists ==
  ASSUME NEW kind, NEW base, NEW S, IsFiniteSet(S), HasMaxima(S)
  PROVE  \E g : FoldStep(kind, base, S, g)
<1> DEFINE P == {s \in SUBSET S : ~ \E g : FoldStep(kind, base, s, g)}
<1>1. SUFFICES ASSUME P # {} PROVE FALSE OBVIOUS
<1>2. PICK m \in P : \A t \in P : t \subseteq m => t = m
  <2>1. P \in SUBSET (SUBSET S) OBVIOUS
  <2> HIDE DEF P
  <2> QED BY <1>1, <2>1, SmallestSubset
<1> DEFINE G(u) == CHOOSE g : FoldStep(kind, base, u, g)
           Less(u) == u \ {Max(u)}
           H == [u \in SUBSET m |-> IF u = {} THEN base
                                    ELSE Turn(kind, G(Less(u))[Less(u)], Max(u))]
<1>3. ASSUME NEW u \in SUBSET m, u # m PROVE FoldStep(kind, base, u, G(u))
  <2>1. \E g : FoldStep(kind, base, u, g) BY <1>2, <1>3
  <2> QED BY <2>1
<1>0. ASSUME NEW u \in SUBSET m
      PROVE  HasMaxima(u) /\ IsFiniteSet(u) /\ (u # {} => Max(u) \in u)
  <2>1. u \in SUBSET S OBVIOUS
  <2>2. IsFiniteSet(u) BY <2>1, FS_Subset
  <2> QED BY <2>1, <2>2 DEF HasMaxima
<1>4. ASSUME NEW u \in SUBSET m, u # {} PROVE H[Less(u)] = G(Less(u))[Less(u)]
  <2> DEFINE v == Less(u)
             w == Less(v)
  <2>1. Max(u) \in u BY <1>0, <1>4
  <2>2. v \in SUBSET m /\ v # m BY <2>1
  <2>3. FoldStep(kind, base, v, G(v)) BY <1>3, <2>2
  <2>4. G(v)[v] = IF v = {} THEN base ELSE Turn(kind, G(v)[w], Max(v))
    <3> HIDE DEF G
    <3> QED BY <2>3 DEF FoldStep
  <2>5. H[v] = IF v = {} THEN base ELSE Turn(kind, G(w)[w], Max(v)) BY <2>2
  <2>6. CASE v = {} BY <2>4, <2>5, <2>6
  <2>7. CASE v # {}
    <3>1. Max(v) \in v BY <1>0, <2>2, <2>7
    <3>2. w \in SUBSET m /\ w # m /\ w \subseteq v BY <2>2, <3>1
    <3>3. FoldStep(kind, base, w, G(w)) BY <1>3, <3>2
    <3>4. IsFiniteSet(w) /\ HasMaxima(w) BY <1>0, <3>2
    <3>5. G(w)[w] = G(v)[w]
      <4> HIDE DEF G, w, v
      <4> QED BY <2>3, <3>2, <3>3, <3>4, FoldAgrees
    <3> QED BY <2>4, <2>5, <2>7, <3>5
  <2> QED BY <2>6, <2>7
<1>5. FoldStep(kind, base, m, H)
  <2>1. ASSUME NEW u \in SUBSET m
        PROVE  H[u] = IF u = {} THEN base ELSE Turn(kind, H[Less(u)], Max(u))
    <3>1. CASE u = {} BY <3>1
    <3>2. CASE u # {}
      <4>1. H[u] = Turn(kind, G(Less(u))[Less(u)], Max(u))
        <5> HIDE DEF G
        <5> QED BY <3>2
      <4>2. H[Less(u)] = G(Less(u))[Less(u)] BY <1>4, <3>2
      <4> HIDE DEF G, H
      <4> QED BY <3>2, <4>1, <4>2
    <3> QED BY <3>1, <3>2
  <2>2. H = [u \in SUBSET m |-> IF u = {} THEN base ELSE Turn(kind, H[Less(u)], Max(u))]
    <3>1. H = [u \in SUBSET m |-> H[u]] OBVIOUS
    <3> HIDE DEF H
    <3> QED BY <2>1, <3>1
  <2> HIDE DEF H
  <2> QED BY <2>2 DEF FoldStep
<1> QED BY <1>5

\* Over the first n indexes it goes one by one.
LEMMA FoldTurns ==
  ASSUME NEW kind, NEW base, NEW n \in Nat, NEW g, FoldStep(kind, base, 1..n, g)
  PROVE  \E h : /\ h[0] = base
                /\ \A k \in 1..n : h[k] = Turn(kind, h[k - 1], k)
                /\ h[n] = g[1..n]
<1> DEFINE h == [k \in 0..n |-> g[1..k]]
<1>1. h[0] = base
  <2>1. 1..0 = {} /\ {} \in SUBSET (1..n) OBVIOUS
  <2>2. g[{}] = base BY <2>1 DEF FoldStep
  <2> QED BY <2>1, <2>2
<1>2. ASSUME NEW k \in 1..n PROVE h[k] = Turn(kind, h[k - 1], k)
  <2> DEFINE s == 1..k
  <2>1. s \in SUBSET (1..n) /\ s # {} /\ k \in s /\ s \subseteq Nat OBVIOUS
  <2>2. IsFiniteSet(s) BY FS_Interval
  <2>3. Max(s) \in s /\ \A x \in s : x <= Max(s)
    <3> HIDE DEF s
    <3> QED BY <2>1, <2>2, MaxIs
  <2>4. Max(s) = k BY <2>1, <2>3
  <2>5. s \ {k} = 1..(k - 1) OBVIOUS
  <2>6. g[s] = Turn(kind, g[s \ {Max(s)}], Max(s))
    <3> HIDE DEF s
    <3> QED BY <2>1 DEF FoldStep
  <2>7. h[k] = g[s] /\ h[k - 1] = g[1..(k - 1)] OBVIOUS
  <2> HIDE DEF s, h
  <2> QED BY <2>4, <2>5, <2>6, <2>7
<1>3. h[n] = g[1..n] OBVIOUS
<1> HIDE DEF h
<1> QED BY <1>1, <1>2, <1>3

LEMMA FoldGoes ==
  ASSUME NEW kind, NEW base, NEW n \in Nat
  PROVE  /\ FoldStep(kind, base, 1..n, CHOOSE g : FoldStep(kind, base, 1..n, g))
         /\ \E h : /\ h[0] = base
                   /\ \A k \in 1..n : h[k] = Turn(kind, h[k - 1], k)
                   /\ h[n] = (CHOOSE g : FoldStep(kind, base, 1..n, g))[1..n]
<1> DEFINE f == CHOOSE g : FoldStep(kind, base, 1..n, g)
<1>1. IsFiniteSet(1..n) /\ HasMaxima(1..n)
  <2>1. IsFiniteSet(1..n) BY FS_Interval
  <2>2. ASSUME NEW s \in SUBSET (1..n), s # {} PROVE Max(s) \in s
    <3>1. s \subseteq Nat OBVIOUS
    <3>2. IsFiniteSet(s) BY <2>1, FS_Subset
    <3> QED BY <2>2, <3>1, <3>2, MaxIs
  <2> QED BY <2>1, <2>2 DEF HasMaxima
<1>2. \E g : FoldStep(kind, base, 1..n, g) BY <1>1, FoldExists
<1>3. FoldStep(kind, base, 1..n, f) BY <1>2
<1> HIDE DEF f
<1>4. \E h : /\ h[0] = base
             /\ \A k \in 1..n : h[k] = Turn(kind, h[k - 1], k)
             /\ h[n] = f[1..n]
  BY <1>3, FoldTurns
<1> QED BY <1>3, <1>4 DEF f

-----------------------------------------------------------------------------
(***************************************************************************)
(* Phones                                                                  *)
(***************************************************************************)
LEMMA MarkedGoes ==
  ASSUME NEW rows \in Seq(PhoneRow), NEW primary
  PROVE  \E h : /\ h[0] = <<>>
                /\ \A k \in 1..Len(rows) :
                     h[k] = IF rows[k].primary = primary THEN Append(h[k - 1], rows[k])
                            ELSE h[k - 1]
                /\ h[Len(rows)] = Marked(rows, primary)
<1> DEFINE kind == [op |-> "mark", primary |-> primary, rows |-> rows]
           n == Len(rows)
           F(g) == g = [s \in SUBSET (1..n) |->
                          IF s = {} THEN <<>>
                          ELSE IF rows[Max(s)].primary = primary
                               THEN Append(g[s \ {Max(s)}], rows[Max(s)])
                               ELSE g[s \ {Max(s)}]]
<1>1. n \in Nat /\ DOMAIN rows = 1..n OBVIOUS
<1>2. Marked(rows, primary) = (CHOOSE g : F(g))[1..n]
  BY <1>1 DEF Marked, FoldLeft, MapThenFoldSet
<1>3. \A g : F(g) <=> FoldStep(kind, <<>>, 1..n, g)
  <2>1. \A acc, i : Turn(kind, acc, i)
                      = IF rows[i].primary = primary THEN Append(acc, rows[i]) ELSE acc
    BY DEF Turn
  <2> HIDE DEF kind, n
  <2> QED BY <2>1 DEF FoldStep
<1>4. (CHOOSE g : F(g)) = CHOOSE g : FoldStep(kind, <<>>, 1..n, g)
  <2> HIDE DEF F
  <2> QED BY <1>3
<1>5. \E h : /\ h[0] = <<>>
             /\ \A k \in 1..n : h[k] = Turn(kind, h[k - 1], k)
             /\ h[n] = (CHOOSE g : FoldStep(kind, <<>>, 1..n, g))[1..n]
  <2> HIDE DEF kind, n
  <2> QED BY <1>1, FoldGoes
<1>6. \A acc, i : Turn(kind, acc, i)
                    = IF rows[i].primary = primary THEN Append(acc, rows[i]) ELSE acc
  BY DEF Turn
<1>7. PICK h : /\ h[0] = <<>>
               /\ \A k \in 1..n : h[k] = Turn(kind, h[k - 1], k)
               /\ h[n] = (CHOOSE g : FoldStep(kind, <<>>, 1..n, g))[1..n]
  BY <1>5
<1>8. h[n] = Marked(rows, primary) BY <1>2, <1>4, <1>7
<1>9. \A k \in 1..n : h[k] = IF rows[k].primary = primary THEN Append(h[k - 1], rows[k])
                             ELSE h[k - 1]
  <2> HIDE DEF kind, n
  <2> QED BY <1>6, <1>7
<1> QED BY <1>7, <1>8, <1>9

LEMMA CopyGoes ==
  ASSUME NEW mine, NEW theirs \in Seq(PhoneRow)
  PROVE  \E h : /\ h[0] = mine
                /\ \A k \in 1..Len(theirs) :
                     h[k] = IF theirs[k].phone \in PhonesOf(h[k - 1]) THEN h[k - 1]
                            ELSE Append(h[k - 1], [phone |-> theirs[k].phone,
                                                   primary |-> h[k - 1] = <<>>])
                /\ h[Len(theirs)] = CopyPhones(mine, theirs)
<1> DEFINE kind == [op |-> "copy", rows |-> theirs]
           n == Len(theirs)
           Copied(acc, i) == IF theirs[i].phone \in PhonesOf(acc) THEN acc
                             ELSE Append(acc, [phone |-> theirs[i].phone,
                                               primary |-> acc = <<>>])
           F(g) == g = [s \in SUBSET (1..n) |->
                          IF s = {} THEN mine ELSE Copied(g[s \ {Max(s)}], Max(s))]
<1>1. n \in Nat /\ DOMAIN theirs = 1..n OBVIOUS
<1>2. CopyPhones(mine, theirs) = (CHOOSE g : F(g))[1..n]
  BY <1>1 DEF CopyPhones, FoldLeft, MapThenFoldSet
<1>3. \A acc, i : Turn(kind, acc, i) = Copied(acc, i) BY DEF Turn
<1>4. \A g : F(g) <=> FoldStep(kind, mine, 1..n, g)
  <2> HIDE DEF kind, n, Copied
  <2> QED BY <1>3 DEF FoldStep
<1>5. (CHOOSE g : F(g)) = CHOOSE g : FoldStep(kind, mine, 1..n, g)
  <2> HIDE DEF F
  <2> QED BY <1>4
<1>6. \E h : /\ h[0] = mine
             /\ \A k \in 1..n : h[k] = Turn(kind, h[k - 1], k)
             /\ h[n] = (CHOOSE g : FoldStep(kind, mine, 1..n, g))[1..n]
  <2> HIDE DEF kind, n
  <2> QED BY <1>1, FoldGoes
<1>7. PICK h : /\ h[0] = mine
               /\ \A k \in 1..n : h[k] = Turn(kind, h[k - 1], k)
               /\ h[n] = (CHOOSE g : FoldStep(kind, mine, 1..n, g))[1..n]
  BY <1>6
<1>8. h[n] = CopyPhones(mine, theirs) BY <1>2, <1>5, <1>7
<1>9. \A k \in 1..n : h[k] = Copied(h[k - 1], k)
  <2> HIDE DEF kind, n, Copied
  <2> QED BY <1>3, <1>7
<1> QED BY <1>7, <1>8, <1>9

LEMMA MergesGo ==
  ASSUME NEW d, NEW t, NEW sources, NEW n \in Nat, DOMAIN sources = 1..n
  PROVE  \E h : /\ h[0] = d
                /\ \A k \in 1..n : h[k] = MergeInto(h[k - 1], t, sources[k])
                /\ h[n] = MergeAll(d, t, sources)
<1> DEFINE kind == [op |-> "merge", t |-> t, sources |-> sources]
           Merged(acc, i) == MergeInto(acc, t, sources[i])
           F(g) == g = [s \in SUBSET (1..n) |->
                          IF s = {} THEN d ELSE Merged(g[s \ {Max(s)}], Max(s))]
<1>1. MergeAll(d, t, sources) = (CHOOSE g : F(g))[1..n]
  BY DEF MergeAll, FoldLeft, MapThenFoldSet
<1>2. \A acc, i : Turn(kind, acc, i) = Merged(acc, i) BY DEF Turn
<1>3. \A g : F(g) <=> FoldStep(kind, d, 1..n, g)
  <2> HIDE DEF kind, Merged
  <2> QED BY <1>2 DEF FoldStep
<1>4. (CHOOSE g : F(g)) = CHOOSE g : FoldStep(kind, d, 1..n, g)
  <2> HIDE DEF F
  <2> QED BY <1>3
<1>5. \E h : /\ h[0] = d
             /\ \A k \in 1..n : h[k] = Turn(kind, h[k - 1], k)
             /\ h[n] = (CHOOSE g : FoldStep(kind, d, 1..n, g))[1..n]
  <2> HIDE DEF kind
  <2> QED BY FoldGoes
<1> HIDE DEF kind, F
<1> QED BY <1>1, <1>2, <1>4, <1>5

(***************************************************************************)
(* Putting the main number first keeps the numbers, and the marks.         *)
(***************************************************************************)
RowsIn(rows) == {rows[i] : i \in DOMAIN rows}

LEMMA AppendedRows ==
  ASSUME NEW rows \in Seq(PhoneRow), NEW row \in PhoneRow
  PROVE  /\ Append(rows, row) \in Seq(PhoneRow)
         /\ RowsIn(Append(rows, row)) = RowsIn(rows) \cup {row}
<1> DEFINE x == Append(rows, row)
           n == Len(rows)
<1>1. /\ n \in Nat /\ DOMAIN rows = 1..n /\ DOMAIN x = 1..(n + 1) /\ x \in Seq(PhoneRow)
      /\ (\A i \in 1..n : x[i] = rows[i]) /\ x[n + 1] = row
  OBVIOUS
<1>2. \A i \in 1..(n + 1) : i \in 1..n \/ i = n + 1 BY <1>1
<1>3. \A i \in 1..n : i \in 1..(n + 1) BY <1>1
<1>4. n + 1 \in 1..(n + 1) BY <1>1
<1> HIDE DEF x, n
<1> QED BY <1>1, <1>2, <1>3, <1>4 DEF RowsIn, x

LEMMA MarkedKeeps ==
  ASSUME NEW rows \in Seq(PhoneRow), NEW primary \in BOOLEAN
  PROVE  /\ Marked(rows, primary) \in Seq(PhoneRow)
         /\ RowsIn(Marked(rows, primary)) = {row \in RowsIn(rows) : row.primary = primary}
<1> DEFINE n == Len(rows)
           first(k) == {rows[i] : i \in 1..k}
           Good(x, k) == /\ x \in Seq(PhoneRow)
                         /\ RowsIn(x) = {row \in first(k) : row.primary = primary}
<1>1. PICK h : /\ h[0] = <<>>
               /\ \A k \in 1..n :
                    h[k] = IF rows[k].primary = primary THEN Append(h[k - 1], rows[k])
                           ELSE h[k - 1]
               /\ h[n] = Marked(rows, primary)
  BY MarkedGoes
<1> DEFINE good == {k \in 0..n : Good(h[k], k)}
<1>2. n \in Nat OBVIOUS
<1>3. 0 \in good
  <2>1. RowsIn(<<>>) = {} /\ <<>> \in Seq(PhoneRow) BY DEF RowsIn
  <2>2. first(0) = {} OBVIOUS
  <2>3. Good(h[0], 0)
    <3> HIDE DEF first
    <3> QED BY <1>1, <2>1, <2>2
  <2>4. 0 \in 0..n BY <1>2
  <2> HIDE DEF Good
  <2> QED BY <2>3, <2>4
<1>4. ASSUME NEW k \in 1..n, k - 1 \in good PROVE k \in good
  <2>1. Good(h[k - 1], k - 1) /\ k \in 0..n /\ rows[k] \in PhoneRow BY <1>4
  <2>2. first(k) = first(k - 1) \cup {rows[k]} OBVIOUS
  <2>3. RowsIn(Append(h[k - 1], rows[k])) = RowsIn(h[k - 1]) \cup {rows[k]}
    <3>1. h[k - 1] \in Seq(PhoneRow) BY <2>1
    <3> QED BY <2>1, <3>1, AppendedRows
  <2>4. CASE rows[k].primary = primary
    <3>1. h[k] = Append(h[k - 1], rows[k]) BY <1>1, <2>4
    <3>2. h[k] \in Seq(PhoneRow) BY <2>1, <3>1
    <3>3. RowsIn(h[k]) = {row \in first(k - 1) : row.primary = primary} \cup {rows[k]}
      BY <2>1, <2>3, <3>1
    <3>4. RowsIn(h[k]) = {row \in first(k) : row.primary = primary}
      <4> HIDE DEF first
      <4> QED BY <2>2, <2>4, <3>3
    <3> QED BY <2>1, <3>2, <3>4
  <2>5. CASE rows[k].primary # primary
    <3>1. h[k] = h[k - 1] BY <1>1, <2>5
    <3>2. {row \in first(k) : row.primary = primary}
            = {row \in first(k - 1) : row.primary = primary}
      <4> HIDE DEF first
      <4> QED BY <2>2, <2>5
    <3> QED BY <2>1, <3>1, <3>2
  <2> QED BY <2>4, <2>5
<1>5. n \in good
  <2>1. good \subseteq 0..n OBVIOUS
  <2> HIDE DEF good, n
  <2> QED BY <1>2, <1>3, <1>4, <2>1, Turns
<1>6. first(n) = RowsIn(rows) BY DEF RowsIn
<1> QED BY <1>1, <1>5, <1>6

LEMMA PrimaryFirstKeeps ==
  ASSUME NEW rows \in Seq(PhoneRow)
  PROVE  /\ PrimaryFirst(rows) \in Seq(PhoneRow)
         /\ RowsIn(PrimaryFirst(rows)) = RowsIn(rows)
         /\ rows # <<>> => PrimaryFirst(rows) # <<>>
<1> DEFINE a == Marked(rows, TRUE)
           b == Marked(rows, FALSE)
<1>1. /\ a \in Seq(PhoneRow) /\ b \in Seq(PhoneRow)
      /\ RowsIn(a) = {row \in RowsIn(rows) : row.primary = TRUE}
      /\ RowsIn(b) = {row \in RowsIn(rows) : row.primary = FALSE}
  BY MarkedKeeps
<1>2. RowsIn(rows) \subseteq PhoneRow BY DEF RowsIn
<1>3. RowsIn(a) \cup RowsIn(b) = RowsIn(rows)
  <2>1. \A row \in RowsIn(rows) : row.primary \in BOOLEAN BY <1>2 DEF PhoneRow
  <2> HIDE DEF a, b
  <2> QED BY <1>1, <2>1
<1> HIDE DEF a, b
<1>4. a \o b \in Seq(PhoneRow) BY <1>1
<1>5. RowsIn(a \o b) = RowsIn(a) \cup RowsIn(b)
  <2>1. /\ DOMAIN (a \o b) = 1..(Len(a) + Len(b))
        /\ \A i \in 1..Len(a) : (a \o b)[i] = a[i]
        /\ \A i \in 1..Len(b) : (a \o b)[Len(a) + i] = b[i]
    BY <1>1
  <2>2. DOMAIN a = 1..Len(a) /\ DOMAIN b = 1..Len(b) /\ Len(a) \in Nat /\ Len(b) \in Nat
    BY <1>1
  <2>3. ASSUME NEW i \in DOMAIN (a \o b) PROVE (a \o b)[i] \in RowsIn(a) \cup RowsIn(b)
    <3>1. CASE i <= Len(a) BY <2>1, <2>2, <2>3, <3>1 DEF RowsIn
    <3>2. CASE ~(i <= Len(a))
      <4>1. i - Len(a) \in 1..Len(b) /\ Len(a) + (i - Len(a)) = i BY <2>1, <2>2, <3>2
      <4>2. (a \o b)[i] = b[i - Len(a)] BY <2>1, <4>1
      <4> QED BY <2>2, <4>1, <4>2 DEF RowsIn
    <3> QED BY <3>1, <3>2
  <2>4. ASSUME NEW i \in DOMAIN a PROVE a[i] \in RowsIn(a \o b)
    BY <2>1, <2>2, <2>4 DEF RowsIn
  <2>5. ASSUME NEW i \in DOMAIN b PROVE b[i] \in RowsIn(a \o b)
    <3>1. Len(a) + i \in DOMAIN (a \o b) BY <2>1, <2>2, <2>5
    <3>2. b[i] = (a \o b)[Len(a) + i] BY <2>1, <2>2, <2>5
    <3> QED BY <3>1, <3>2 DEF RowsIn
  <2> QED BY <2>3, <2>4, <2>5 DEF RowsIn
<1>6. rows # <<>> => a \o b # <<>>
  <2>1. rows # <<>> => RowsIn(rows) # {}
    <3>1. rows # <<>> => 1 \in DOMAIN rows OBVIOUS
    <3> QED BY <3>1 DEF RowsIn
  <2>2. RowsIn(<<>>) = {} BY DEF RowsIn
  <2> QED BY <1>3, <1>5, <2>1, <2>2
<1> QED BY <1>3, <1>4, <1>5, <1>6 DEF PrimaryFirst, a, b

-----------------------------------------------------------------------------
(***************************************************************************)
(* Volumes                                                                 *)
(***************************************************************************)
TotalsOf(d, S) == [i \in S |-> d.orders[i].total]

LEMMA VolumeIs ==
  ASSUME NEW d, NEW c, NEW y, IsFiniteSet(OrdersIn(d, c, y))
  PROVE  Volume(d, c, y)
           = [count |-> Cardinality(OrdersIn(d, c, y)),
              total |-> SumFunctionOnSet(TotalsOf(d, OrdersIn(d, c, y)), OrdersIn(d, c, y))]
<1> DEFINE S == OrdersIn(d, c, y)
           f == TotalsOf(d, S)
<1> HIDE DEF S
<1>1. MapThenSumSet(LAMBDA i : d.orders[i].total, S) = (CHOOSE g : SumStep(f, S, g))[S]
  BY DEF MapThenSumSet, MapThenFoldSet, SumStep, Pick, TotalsOf
<1>2. SumFunctionOnSet(f, S) = (CHOOSE g : SumStep(f, S, g))[S]
  BY DEF SumFunctionOnSet, FoldFunctionOnSet, MapThenFoldSet, SumStep, Pick
<1>3. MapThenSumSet(LAMBDA i : d.orders[i].total, S) = SumFunctionOnSet(f, S)
  BY <1>1, <1>2, Zenon
<1>4. Volume(d, c, y)
        = [count |-> Cardinality(S), total |-> MapThenSumSet(LAMBDA i : d.orders[i].total, S)]
  BY Zenon DEF Volume, S
<1> QED BY <1>3, <1>4, Zenon DEF S

LEMMA OrdersFinite ==
  ASSUME NEW d, NEW T, d.orders \in Seq(T), NEW c, NEW y
  PROVE  /\ IsFiniteSet(OrdersOf(d, c)) /\ IsFiniteSet(OrdersIn(d, c, y))
         /\ IsFiniteSet(DOMAIN d.orders)
<1>1. DOMAIN d.orders = 1..Len(d.orders) /\ Len(d.orders) \in Nat OBVIOUS
<1>2. IsFiniteSet(1..Len(d.orders)) BY <1>1, FS_Interval
<1>3. /\ OrdersOf(d, c) \in SUBSET (1..Len(d.orders))
      /\ OrdersIn(d, c, y) \in SUBSET (1..Len(d.orders))
  BY <1>1 DEF OrdersOf, OrdersIn
<1> QED BY <1>1, <1>2, <1>3, FS_Subset

\* The volume is of the orders and their totals.
LEMMA VolumeSame ==
  ASSUME NEW d, NEW e, NEW c, NEW y, NEW c2, IsFiniteSet(OrdersIn(d, c, y)),
         OrdersIn(e, c2, y) = OrdersIn(d, c, y),
         \A i \in OrdersIn(d, c, y) : e.orders[i].total = d.orders[i].total
  PROVE  Volume(e, c2, y) = Volume(d, c, y)
<1> DEFINE S == OrdersIn(d, c, y)
<1>1. IsFiniteSet(S) OBVIOUS
<1>2. \A i \in S : TotalsOf(e, S)[i] = TotalsOf(d, S)[i] BY DEF TotalsOf
<1> HIDE DEF S
<1>3. SumFunctionOnSet(TotalsOf(e, S), S) = SumFunctionOnSet(TotalsOf(d, S), S)
  BY <1>1, <1>2, SumEqual
<1>4. Volume(e, c2, y)
        = [count |-> Cardinality(S), total |-> SumFunctionOnSet(TotalsOf(e, S), S)]
  <2>1. OrdersIn(e, c2, y) = S BY DEF S
  <2>2. IsFiniteSet(OrdersIn(e, c2, y)) BY <1>1, <2>1
  <2> QED BY <2>1, <2>2, VolumeIs, Zenon
<1>5. Volume(d, c, y)
        = [count |-> Cardinality(S), total |-> SumFunctionOnSet(TotalsOf(d, S), S)]
  BY <1>1, VolumeIs, Zenon DEF S
<1> QED BY <1>3, <1>4, <1>5, Zenon

LEMMA VolumeOfOrders ==
  ASSUME NEW d, NEW e, NEW T, d.orders \in Seq(T), e.orders = d.orders, NEW c, NEW y
  PROVE  Volume(e, c, y) = Volume(d, c, y)
<1>1. OrdersIn(e, c, y) = OrdersIn(d, c, y) BY DEF OrdersIn, OrdersOf
<1>2. \A i \in OrdersIn(d, c, y) : e.orders[i].total = d.orders[i].total OBVIOUS
<1>3. IsFiniteSet(OrdersIn(d, c, y)) BY OrdersFinite
<1> QED BY <1>1, <1>2, <1>3, VolumeSame

Nothing == [count |-> 0, total |-> 0]

LEMMA VolumeOfNone ==
  ASSUME NEW d, NEW c, NEW y, OrdersIn(d, c, y) = {}
  PROVE  Volume(d, c, y) = Nothing
<1>1. IsFiniteSet(OrdersIn(d, c, y)) BY FS_EmptySet
<1>2. Volume(d, c, y)
        = [count |-> Cardinality({}), total |-> SumFunctionOnSet(TotalsOf(d, {}), {})]
  BY <1>1, VolumeIs
<1>3. Cardinality({}) = 0 BY FS_EmptySet
<1> QED BY <1>2, <1>3, SumOfNone DEF Nothing

(***************************************************************************)
(* Several years recomputed                                                *)
(***************************************************************************)
IsFcn(f) == f = [x \in DOMAIN f |-> f[x]]

YearKeys(c, years) == {<<c, y>> : y \in years}

Summed(d, c, years) ==
  [k \in DOMAIN d.summary \union YearKeys(c, years) |->
     IF k \in YearKeys(c, years) THEN Volume(d, c, k[2]) ELSE d.summary[k]]

Anew(d, c, years) ==
  [d EXCEPT !.summary = Summed(d, c, years), !.stale = @ \ YearKeys(c, years)]

\* Only the two columns of the summary change.
LEMMA AnewIs ==
  ASSUME NEW d, {"orders", "summary", "stale"} \subseteq DOMAIN d,
         d = [f \in DOMAIN d |-> d[f]], NEW c, NEW years
  PROVE  LET e == Anew(d, c, years) IN
         /\ e.orders = d.orders /\ e.summary = Summed(d, c, years) /\ DOMAIN e = DOMAIN d
         /\ e.stale = d.stale \ YearKeys(c, years) /\ IsFcn(e)
         /\ \A f \in DOMAIN d \ {"summary", "stale"} : e[f] = d[f]
<1> DEFINE S == Summed(d, c, years)
           K == YearKeys(c, years)
<1>1. Anew(d, c, years) = [d EXCEPT !.summary = S, !.stale = @ \ K] BY DEF Anew
<1> HIDE DEF S, K
<1> DEFINE e == [d EXCEPT !.summary = S, !.stale = @ \ K]
<1>2. DOMAIN e = DOMAIN d OBVIOUS
<1>3. e.summary = S /\ e.stale = d.stale \ K OBVIOUS
<1>4. \A f \in DOMAIN d \ {"summary", "stale"} : e[f] = d[f] OBVIOUS
<1>5. IsFcn(e) BY DEF IsFcn
<1> HIDE DEF e
<1>6. e.orders = d.orders BY <1>4
<1>7. Anew(d, c, years) = e BY <1>1 DEF e
<1> QED BY <1>2, <1>3, <1>4, <1>5, <1>6, <1>7 DEF S, K

LEMMA RecomputeAllIs ==
  ASSUME NEW d, {"orders", "summary", "stale"} \subseteq DOMAIN d, d = [f \in DOMAIN d |-> d[f]],
         d.summary = [k \in DOMAIN d.summary |-> d.summary[k]],
         NEW T, d.orders \in Seq(T),
         NEW c, c # NoCustomer, NEW years, IsFiniteSet(years)
  PROVE  RecomputeAll(d, c, years) = Anew(d, c, years)
<1> DEFINE F(g) == g = [s \in SUBSET years |->
                          IF s = {} THEN d ELSE Recompute(g[s \ {Pick(s)}], c, Pick(s))]
           H == [s \in SUBSET years |-> Anew(d, c, s)]
<1>1. RecomputeAll(d, c, years) = (CHOOSE g : F(g))[years]
  BY DEF RecomputeAll, FoldSet, MapThenFoldSet, Pick
<1>2. ASSUME NEW s \in SUBSET years, s # {}
      PROVE  H[s] = Recompute(H[s \ {Pick(s)}], c, Pick(s))
  <2> DEFINE y == Pick(s)
             r == s \ {y}
             e == Anew(d, c, r)
             k == <<c, y>>
  <2>1. y \in s BY <1>2, PickIs
  <2>2. /\ e.orders = d.orders /\ e.summary = Summed(d, c, r) /\ DOMAIN e = DOMAIN d
        /\ e.stale = d.stale \ YearKeys(c, r) /\ IsFcn(e)
        /\ \A f \in DOMAIN d \ {"summary", "stale"} : e[f] = d[f]
    BY AnewIs
  <2> HIDE DEF e
  <2>3. Volume(e, c, y) = Volume(d, c, y)
    <3>1. e.orders = d.orders BY <2>2
    <3>2. d.orders \in Seq(T) OBVIOUS
    <3> HIDE DEF y, r, k, F, H
    <3> QED BY ONLY <3>1, <3>2, VolumeOfOrders
  <2> DEFINE q == Recompute(e, c, y)
  <2>4. q = [e EXCEPT !.summary = Put(@, k, Volume(d, c, y)), !.stale = @ \ {k}]
    BY <2>3 DEF Recompute
  <2> HIDE DEF q
  <2>5. /\ q.summary = Put(Summed(d, c, r), k, Volume(d, c, y)) /\ DOMAIN q = DOMAIN d
        /\ q.stale = (d.stale \ YearKeys(c, r)) \ {k} /\ IsFcn(q)
        /\ \A f \in DOMAIN d \ {"summary", "stale"} : q[f] = d[f]
    BY <2>2, <2>4 DEF IsFcn
  <2>6. YearKeys(c, s) = YearKeys(c, r) \cup {k} BY <2>1 DEF YearKeys
  <2>7. Put(Summed(d, c, r), k, Volume(d, c, y)) = Summed(d, c, s)
    <3>1. k \in YearKeys(c, s) /\ k[2] = y BY <2>1 DEF YearKeys
    <3>2. YearKeys(c, r) \subseteq YearKeys(c, s) BY <2>6
    <3> HIDE DEF y, r, k
    <3> QED BY <2>6, <3>1, <3>2 DEF Put, Summed
  <2>8. q.summary = Summed(d, c, s) /\ q.stale = d.stale \ YearKeys(c, s)
    <3> HIDE DEF k, y, r
    <3> QED BY <2>5, <2>6, <2>7
  <2>9. q = Anew(d, c, s)
    <3> DEFINE z == Anew(d, c, s)
    <3>1. /\ DOMAIN z = DOMAIN d /\ IsFcn(z) /\ z.summary = Summed(d, c, s)
          /\ z.stale = d.stale \ YearKeys(c, s)
          /\ \A f \in DOMAIN d \ {"summary", "stale"} : z[f] = d[f]
      BY AnewIs
    <3> HIDE DEF z
    <3>2. \A f \in DOMAIN d : q[f] = z[f] BY <2>5, <2>8, <3>1
    <3>3. q = z BY <2>5, <3>1, <3>2 DEF IsFcn
    <3> QED BY <3>3 DEF z
  <2>10. H[s] = Anew(d, c, s) OBVIOUS
  <2>11. H[r] = e BY DEF e
  <2>12. H[s] = Recompute(H[r], c, y)
    <3> HIDE DEF H, r, y, F
    <3> QED BY <2>9, <2>10, <2>11 DEF q
  <2> QED BY <2>12
<1>3. H[{}] = d
  <2>1. Summed(d, c, {}) = d.summary BY DEF Summed, YearKeys
  <2>2. d.stale \ YearKeys(c, {}) = d.stale BY DEF YearKeys
  <2>3. Anew(d, c, {}) = [d EXCEPT !.summary = d.summary, !.stale = d.stale]
    BY <2>1, <2>2 DEF Anew
  <2> QED BY <2>3
<1>4. F(H)
  <2>1. \A s \in SUBSET years :
          H[s] = IF s = {} THEN d ELSE Recompute(H[s \ {Pick(s)}], c, Pick(s))
    <3> HIDE DEF H
    <3> QED BY <1>2, <1>3
  <2>2. H = [s \in SUBSET years |-> H[s]] OBVIOUS
  <2> HIDE DEF H
  <2> QED BY <2>1, <2>2
<1> DEFINE g == CHOOSE f : F(f)
<1>5. F(g)
  <2> HIDE DEF F, H
  <2> QED BY <1>4
<1> HIDE DEF g
<1> DEFINE P == {s \in SUBSET years : g[s] # H[s]}
<1>6. P = {}
  <2>1. SUFFICES ASSUME P # {} PROVE FALSE OBVIOUS
  <2>2. PICK m \in P : \A t \in P : t \subseteq m => t = m
    <3>1. P \in SUBSET (SUBSET years) OBVIOUS
    <3> HIDE DEF P
    <3> QED BY <2>1, <3>1, SmallestSubset
  <2>3. m \in SUBSET years /\ g[m] # H[m] OBVIOUS
  <2>4. g[m] = IF m = {} THEN d ELSE Recompute(g[m \ {Pick(m)}], c, Pick(m))
    <3> HIDE DEF H
    <3> QED BY <1>5, <2>3
  <2>5. m # {} BY <1>3, <2>3, <2>4
  <2>6. Pick(m) \in m BY <2>5, PickIs
  <2>7. g[m \ {Pick(m)}] = H[m \ {Pick(m)}]
    <3>1. m \ {Pick(m)} \notin P BY <2>2, <2>6
    <3> HIDE DEF H
    <3> QED BY <2>3, <3>1
  <2>8. H[m] = Recompute(H[m \ {Pick(m)}], c, Pick(m)) BY <1>2, <2>3, <2>5
  <2> HIDE DEF H
  <2> QED BY <2>3, <2>4, <2>5, <2>7, <2>8
<1>7. g[years] = H[years]
  <2> HIDE DEF H
  <2> QED BY <1>6
<1>8. H[years] = Anew(d, c, years) OBVIOUS
<1> HIDE DEF F, H
<1> QED BY <1>1, <1>7, <1>8 DEF g

-----------------------------------------------------------------------------
(***************************************************************************)
(* A sound database: typed rows, and whatever refers to a customer refers  *)
(* to one that is there; customers with phones have a main number.         *)
(***************************************************************************)
CustomerName == Names \union {WalkIn, Nameless}

Customer == [name : CustomerName, phone : Phones \union {None}, phones : Seq(PhoneRow)]

HasMain(rows) == rows # <<>> => \E i \in DOMAIN rows : rows[i].primary

OrderRow ==
  [door : BOOLEAN, address : Addresses, link : Links \union {None}, total : Totals,
   customer : Nat, year : Nat]

Columns == {"customers", "lastCustomer", "orders", "summary", "library", "links", "stale"}

Shaped(d) ==
  /\ DOMAIN d = Columns /\ IsFcn(d)
  /\ IsFcn(d.customers) /\ IsFcn(d.summary)
  /\ d.lastCustomer \in Nat /\ d.orders \in Seq(OrderRow)

Peopled(d) ==
  /\ Ids(d) \subseteq 1..d.lastCustomer
  /\ \A c \in Ids(d) : d.customers[c] \in Customer /\ HasMain(d.customers[c].phones)

Refers(d) ==
  /\ \A i \in DOMAIN d.orders : d.orders[i].customer \in Ids(d)
  /\ \A k \in DOMAIN d.summary : k[1] \in Ids(d)
  /\ d.library \subseteq Pair /\ d.links \subseteq Ids(d) \X d.library

Sound(d) == Shaped(d) /\ Peopled(d) /\ Refers(d)

LEMMA SoundIsTyped == Sound(db) => TypeOK
BY DEF Sound, Shaped, Peopled, Refers, TypeOK, Customer, CustomerName

LEMMA OnePhoneIs ==
  ASSUME NEW p \in Phones \union {None}
  PROVE  /\ OnePhone(p) \in Seq(PhoneRow) /\ HasMain(OnePhone(p))
         /\ PhonesOf(OnePhone(p)) = {p} \ {None}
<1>1. CASE p = None BY <1>1 DEF OnePhone, HasMain, PhonesOf
<1>2. CASE p # None
  <2> DEFINE x == <<[phone |-> p, primary |-> TRUE]>>
  <2>1. x \in Seq(PhoneRow) /\ DOMAIN x = {1} /\ x[1].phone = p /\ x[1].primary
    BY <1>2 DEF PhoneRow
  <2>2. OnePhone(p) = x BY <1>2 DEF OnePhone
  <2> HIDE DEF x
  <2>3. PhonesOf(x) = {p} BY <2>1 DEF PhonesOf
  <2>4. HasMain(x) BY <2>1 DEF HasMain
  <2> QED BY <1>2, <2>1, <2>2, <2>3, <2>4
<1> QED BY <1>1, <1>2

\* The same numbers in the same rows.
LEMMA SameRowsSamePhones ==
  ASSUME NEW a, NEW b, RowsIn(a) = RowsIn(b)
  PROVE  /\ PhonesOf(a) = PhonesOf(b)
         /\ (\E i \in DOMAIN a : a[i].primary) <=> \E i \in DOMAIN b : b[i].primary
<1>1. PhonesOf(a) = {row.phone : row \in RowsIn(a)} BY DEF PhonesOf, RowsIn
<1>2. PhonesOf(b) = {row.phone : row \in RowsIn(b)} BY DEF PhonesOf, RowsIn
<1>3. (\E i \in DOMAIN a : a[i].primary) <=> \E row \in RowsIn(a) : row.primary BY DEF RowsIn
<1>4. (\E i \in DOMAIN b : b[i].primary) <=> \E row \in RowsIn(b) : row.primary BY DEF RowsIn
<1> QED BY <1>1, <1>2, <1>3, <1>4

LEMMA PrimaryPhoneIs ==
  ASSUME NEW rows \in Seq(PhoneRow)
  PROVE  PrimaryPhone(rows) \in Phones \union {None}
<1>1. CASE rows = <<>> BY <1>1 DEF PrimaryPhone
<1>2. CASE rows # <<>>
  <2>1. PrimaryFirst(rows) \in Seq(PhoneRow) /\ PrimaryFirst(rows) # <<>>
    BY <1>2, PrimaryFirstKeeps
  <2>2. PrimaryFirst(rows)[1] \in PhoneRow BY <2>1
  <2> QED BY <1>2, <2>2 DEF PrimaryPhone, PhoneRow
<1> QED BY <1>1, <1>2

LEMMA FirstStaysMain ==
  ASSUME NEW rows \in Seq(PhoneRow), HasMain(rows)
  PROVE  HasMain(PrimaryFirst(rows))
<1>1. CASE rows = <<>>
  <2>1. RowsIn(rows) = {} BY <1>1 DEF RowsIn
  <2>2. RowsIn(PrimaryFirst(rows)) = {} BY <2>1, PrimaryFirstKeeps
  <2>3. DOMAIN PrimaryFirst(rows) = {} BY <2>2 DEF RowsIn
  <2>4. PrimaryFirst(rows) \in Seq(PhoneRow) BY PrimaryFirstKeeps
  <2>5. PrimaryFirst(rows) = <<>> BY <2>3, <2>4
  <2> QED BY <2>5 DEF HasMain
<1>2. CASE rows # <<>>
  <2>1. RowsIn(PrimaryFirst(rows)) = RowsIn(rows) BY PrimaryFirstKeeps
  <2>2. \E i \in DOMAIN rows : rows[i].primary BY <1>2 DEF HasMain
  <2>3. \E i \in DOMAIN PrimaryFirst(rows) : PrimaryFirst(rows)[i].primary
    BY <2>1, <2>2, SameRowsSamePhones
  <2> QED BY <2>3 DEF HasMain
<1> QED BY <1>1, <1>2

(***************************************************************************)
(* Copying phones                                                          *)
(***************************************************************************)
LEMMA CopyKeeps ==
  ASSUME NEW mine \in Seq(PhoneRow), HasMain(mine), NEW theirs \in Seq(PhoneRow)
  PROVE  /\ CopyPhones(mine, theirs) \in Seq(PhoneRow)
         /\ HasMain(CopyPhones(mine, theirs))
         /\ PhonesOf(mine) \cup PhonesOf(theirs) \subseteq PhonesOf(CopyPhones(mine, theirs))
<1> DEFINE n == Len(theirs)
           new(x, k) == [phone |-> theirs[k].phone, primary |-> x = <<>>]
           first(k) == {theirs[i].phone : i \in 1..k}
           Good(x, k) == /\ x \in Seq(PhoneRow) /\ HasMain(x)
                         /\ PhonesOf(mine) \cup first(k) \subseteq PhonesOf(x)
<1>1. PICK h : /\ h[0] = mine
               /\ \A k \in 1..n :
                    h[k] = IF theirs[k].phone \in PhonesOf(h[k - 1]) THEN h[k - 1]
                           ELSE Append(h[k - 1], new(h[k - 1], k))
               /\ h[n] = CopyPhones(mine, theirs)
  BY CopyGoes
<1> DEFINE good == {k \in 0..n : Good(h[k], k)}
<1>2. n \in Nat OBVIOUS
<1>3. 0 \in good
  <2>1. first(0) = {} OBVIOUS
  <2>2. Good(h[0], 0)
    <3> HIDE DEF first
    <3> QED BY <1>1, <2>1
  <2>3. 0 \in 0..n BY <1>2
  <2> HIDE DEF Good
  <2> QED BY <2>2, <2>3
<1>4. ASSUME NEW k \in 1..n, k - 1 \in good PROVE k \in good
  <2> DEFINE x == h[k - 1]
  <2>1. Good(x, k - 1) /\ k \in 0..n /\ theirs[k] \in PhoneRow BY <1>4
  <2>2. first(k) = first(k - 1) \cup {theirs[k].phone} OBVIOUS
  <2>3. CASE theirs[k].phone \in PhonesOf(x)
    <3>1. h[k] = x BY <1>1, <2>3
    <3>2. Good(h[k], k)
      <4> HIDE DEF first, x
      <4> QED BY <2>1, <2>2, <2>3, <3>1
    <3> QED BY <2>1, <3>2
  <2>4. CASE theirs[k].phone \notin PhonesOf(x)
    <3>1. h[k] = Append(x, new(x, k)) BY <1>1, <2>4
    <3>2. new(x, k) \in PhoneRow /\ new(x, k).phone = theirs[k].phone
          /\ new(x, k).primary = (x = <<>>)
      BY <2>1 DEF PhoneRow
    <3> HIDE DEF new
    <3>3. /\ h[k] \in Seq(PhoneRow) /\ RowsIn(h[k]) = RowsIn(x) \cup {new(x, k)}
      <4> HIDE DEF x
      <4> QED BY <2>1, <3>1, <3>2, AppendedRows
    <3>4. PhonesOf(x) \subseteq PhonesOf(h[k]) /\ theirs[k].phone \in PhonesOf(h[k])
      <4>1. PhonesOf(x) = {row.phone : row \in RowsIn(x)} BY DEF PhonesOf, RowsIn
      <4>2. PhonesOf(h[k]) = {row.phone : row \in RowsIn(h[k])} BY DEF PhonesOf, RowsIn
      <4> HIDE DEF x
      <4> QED BY <3>2, <3>3, <4>1, <4>2
    <3>5. HasMain(h[k])
      <4>1. (\E i \in DOMAIN h[k] : h[k][i].primary) <=> \E row \in RowsIn(h[k]) : row.primary
        BY DEF RowsIn
      <4>2. (\E i \in DOMAIN x : x[i].primary) <=> \E row \in RowsIn(x) : row.primary
        BY DEF RowsIn
      <4> HIDE DEF x
      <4>3. \E row \in RowsIn(h[k]) : row.primary
        BY <2>1, <3>2, <3>3, <4>2 DEF HasMain
      <4> QED BY <4>1, <4>3 DEF HasMain
    <3>6. Good(h[k], k)
      <4> HIDE DEF first, x
      <4> QED BY <2>1, <2>2, <3>3, <3>4, <3>5
    <3> HIDE DEF Good
    <3> QED BY <2>1, <3>6
  <2> QED BY <2>3, <2>4
<1>5. n \in good
  <2>1. good \subseteq 0..n OBVIOUS
  <2> HIDE DEF good, n
  <2> QED BY <1>2, <1>3, <1>4, <2>1, Turns
<1>6. first(n) = PhonesOf(theirs) BY DEF PhonesOf
<1> HIDE DEF first
<1> QED BY <1>1, <1>5, <1>6

-----------------------------------------------------------------------------
(***************************************************************************)
(* What each of the module's operations does to a sound database.  While a *)
(* request writes, the volumes in but are not those of the orders yet.     *)
(***************************************************************************)
Agrees(d, c, y) ==
  /\ SummaryOf(d, c, y).count = Volume(d, c, y).count
  /\ <<c, y>> \notin d.stale => SummaryOf(d, c, y).total = Volume(d, c, y).total

CurrentBut(d, but) ==
  \A c \in Ids(d), y \in Nat : <<c, y>> \notin but => Agrees(d, c, y)

LEMMA CurrentIs == CurrentBut(db, {}) => SummaryIsCurrent
<1>1. 1..MaxYear \subseteq Nat OBVIOUS
<1> QED BY <1>1 DEF CurrentBut, Agrees, SummaryIsCurrent

LEMMA NothingSummed ==
  ASSUME NEW d, NEW c, NEW y, <<c, y>> \notin DOMAIN d.summary
  PROVE  SummaryOf(d, c, y) = Nothing
BY DEF SummaryOf, Nothing

SameVolume(d, e, c, y) ==
  /\ OrdersIn(e, c, y) = OrdersIn(d, c, y)
  /\ \A i \in OrdersIn(d, c, y) : e.orders[i].total = d.orders[i].total

LEMMA SameVolumeIs ==
  ASSUME NEW d, Shaped(d), NEW e, NEW c, NEW y, SameVolume(d, e, c, y)
  PROVE  Volume(e, c, y) = Volume(d, c, y)
<1>1. IsFiniteSet(OrdersIn(d, c, y))
  <2>1. d.orders \in Seq(OrderRow) BY DEF Shaped
  <2> QED BY <2>1, OrdersFinite
<1> QED BY <1>1, VolumeSame DEF SameVolume

\* The volume of c in y is what it was, and what its page says.
SameSummary(d, e, c, y) ==
  /\ SummaryOf(e, c, y) = SummaryOf(d, c, y)
  /\ <<c, y>> \in d.stale => <<c, y>> \in e.stale

LEMMA AgreesStill ==
  ASSUME NEW d, Shaped(d), NEW e, NEW c, NEW y, Agrees(d, c, y),
         SameVolume(d, e, c, y), SameSummary(d, e, c, y)
  PROVE  Agrees(e, c, y)
<1>1. Volume(e, c, y) = Volume(d, c, y) BY SameVolumeIs
<1> QED BY <1>1 DEF Agrees, SameSummary

LEMMA StaysCurrent ==
  ASSUME NEW d, Shaped(d), NEW e, NEW but, NEW but2, CurrentBut(d, but),
         \A c \in Ids(e), y \in Nat : <<c, y>> \notin but2 =>
           \/ Volume(e, c, y) = SummaryOf(e, c, y)
           \/ /\ c \in Ids(d) /\ <<c, y>> \notin but
              /\ SameVolume(d, e, c, y) /\ SameSummary(d, e, c, y)
  PROVE  CurrentBut(e, but2)
<1>1. SUFFICES ASSUME NEW c \in Ids(e), NEW y \in Nat, <<c, y>> \notin but2
               PROVE  Agrees(e, c, y)
  BY DEF CurrentBut
<1>2. CASE Volume(e, c, y) = SummaryOf(e, c, y) BY <1>2 DEF Agrees
<1>3. CASE /\ c \in Ids(d) /\ <<c, y>> \notin but
           /\ SameVolume(d, e, c, y) /\ SameSummary(d, e, c, y)
  <2>1. Agrees(d, c, y) BY <1>3 DEF CurrentBut
  <2> QED BY <1>3, <2>1, AgreesStill
<1> QED BY <1>1, <1>2, <1>3

(***************************************************************************)
(* A new customer                                                          *)
(***************************************************************************)
LEMMA SaveCustomerKeeps ==
  ASSUME NEW d, Sound(d), NEW name \in CustomerName, NEW phone \in Phones \union {None},
         NEW rows \in Seq(PhoneRow), HasMain(rows)
  PROVE  /\ Sound(SaveCustomer(d, name, phone, rows))
         /\ SaveCustomer(d, name, phone, rows).orders = d.orders
         /\ SaveCustomer(d, name, phone, rows).library = d.library
         /\ Ids(SaveCustomer(d, name, phone, rows)) = Ids(d) \cup {d.lastCustomer + 1}
         /\ SaveCustomer(d, name, phone, rows).lastCustomer = d.lastCustomer + 1
         /\ \A but : CurrentBut(d, but)
                         => CurrentBut(SaveCustomer(d, name, phone, rows), but)
<1> DEFINE e == SaveCustomer(d, name, phone, rows)
           new == d.lastCustomer + 1
           row == [name |-> name, phone |-> phone, phones |-> rows]
<1>1. DOMAIN d = Columns /\ IsFcn(d) /\ d.lastCustomer \in Nat BY DEF Sound, Shaped
<1>2. /\ e.customers = Put(d.customers, new, row) /\ e.lastCustomer = new
      /\ e.orders = d.orders /\ e.summary = d.summary /\ e.library = d.library
      /\ e.links = d.links /\ e.stale = d.stale /\ DOMAIN e = Columns /\ IsFcn(e)
  BY <1>1 DEF SaveCustomer, Columns, IsFcn
<1>3. row \in Customer BY DEF Customer
<1>4. new \notin Ids(d) /\ new \in 1..new /\ new \in Nat
  BY <1>1 DEF Sound, Peopled
<1> HIDE DEF e, row
<1>5. Ids(e) = Ids(d) \cup {new} BY <1>2 DEF Ids, Put
<1>6. /\ e.customers[new] = row
      /\ \A c \in Ids(d) : e.customers[c] = d.customers[c]
      /\ IsFcn(e.customers)
  BY <1>2, <1>4 DEF Ids, Put, IsFcn
<1>7. Sound(e)
  <2>1. Shaped(e) BY <1>2, <1>4, <1>6 DEF Sound, Shaped
  <2>2. Peopled(e)
    <3>1. Ids(e) \subseteq 1..e.lastCustomer BY <1>1, <1>2, <1>4, <1>5 DEF Sound, Peopled
    <3>2. row.phones = rows BY DEF row
    <3> QED BY <1>3, <1>5, <1>6, <3>1, <3>2 DEF Sound, Peopled
  <2>3. Refers(e) BY <1>2, <1>5 DEF Sound, Refers
  <2> QED BY <2>1, <2>2, <2>3 DEF Sound
<1>8. ASSUME NEW but, CurrentBut(d, but) PROVE CurrentBut(e, but)
  <2>1. ASSUME NEW c \in Ids(e), NEW y \in Nat, <<c, y>> \notin but
        PROVE  \/ Volume(e, c, y) = SummaryOf(e, c, y)
               \/ /\ c \in Ids(d) /\ <<c, y>> \notin but
                  /\ SameVolume(d, e, c, y) /\ SameSummary(d, e, c, y)
    <3>1. CASE c \in Ids(d)
      BY <1>2, <2>1, <3>1 DEF SameVolume, OrdersIn, OrdersOf, SameSummary, SummaryOf
    <3>2. CASE c = new
      <4>1. OrdersIn(e, c, y) = {}
        BY <1>2, <1>4, <3>2 DEF OrdersIn, OrdersOf, Sound, Refers
      <4>2. <<c, y>> \notin DOMAIN e.summary
        <5>1. <<c, y>>[1] = c OBVIOUS
        <5> QED BY <1>2, <1>4, <3>2, <5>1 DEF Sound, Refers
      <4> QED BY <4>1, <4>2, VolumeOfNone, NothingSummed
    <3> QED BY <1>5, <3>1, <3>2
  <2>2. Shaped(d) BY DEF Sound
  <2> QED BY <1>8, <2>1, <2>2, StaysCurrent
<1> QED BY <1>2, <1>5, <1>7, <1>8 DEF e

WhoOK(who) == who.phone \in Phones \union {None} /\ who.name \in Names \union {None}

LEMMA WithCustomerKeeps ==
  ASSUME NEW d, Sound(d), NEW who, WhoOK(who), who.customer \in Ids(d) \union {NoCustomer}
  PROVE  /\ Sound(WithCustomer(d, who))
         /\ WithCustomer(d, who).orders = d.orders
         /\ WithCustomer(d, who).library = d.library
         /\ Ids(d) \subseteq Ids(WithCustomer(d, who))
         /\ CustomerOf(WithCustomer(d, who), who) \in Ids(WithCustomer(d, who))
         /\ who.customer # NoCustomer => CustomerOf(WithCustomer(d, who), who) = who.customer
         /\ \A but : CurrentBut(d, but) => CurrentBut(WithCustomer(d, who), but)
<1>1. CASE who.customer # NoCustomer BY <1>1 DEF WithCustomer, CustomerOf
<1>2. CASE who.customer = NoCustomer
  <2>1. CreatedName(who.phone, who.name) \in CustomerName
    BY DEF CreatedName, CustomerName, WhoOK
  <2>2. OnePhone(who.phone) \in Seq(PhoneRow) /\ HasMain(OnePhone(who.phone))
    BY OnePhoneIs DEF WhoOK
  <2>3. WithCustomer(d, who)
          = SaveCustomer(d, CreatedName(who.phone, who.name), who.phone, OnePhone(who.phone))
    BY <1>2 DEF WithCustomer
  <2>4. who.phone \in Phones \union {None} BY DEF WhoOK
  <2>5. CustomerOf(WithCustomer(d, who), who) = WithCustomer(d, who).lastCustomer
    BY <1>2 DEF CustomerOf
  <2> DEFINE name == CreatedName(who.phone, who.name)
             rows == OnePhone(who.phone)
             e == SaveCustomer(d, name, who.phone, rows)
  <2>6. name \in CustomerName /\ rows \in Seq(PhoneRow) /\ HasMain(rows) BY <2>1, <2>2
  <2> HIDE DEF name, rows
  <2>7. /\ Sound(e) /\ e.orders = d.orders /\ e.library = d.library
        /\ Ids(e) = Ids(d) \cup {d.lastCustomer + 1} /\ e.lastCustomer = d.lastCustomer + 1
        /\ \A but : CurrentBut(d, but) => CurrentBut(e, but)
    BY <2>4, <2>6, SaveCustomerKeeps
  <2>8. WithCustomer(d, who) = e BY <2>3 DEF name, rows
  <2> HIDE DEF e
  <2> QED BY <1>2, <2>5, <2>7, <2>8
<1> QED BY <1>1, <1>2

(***************************************************************************)
(* A volume computed anew                                                  *)
(***************************************************************************)
LEMMA RecomputeKeeps ==
  ASSUME NEW d, Sound(d), NEW c \in Ids(d), NEW y
  PROVE  /\ Sound(Recompute(d, c, y))
         /\ Recompute(d, c, y).orders = d.orders
         /\ Recompute(d, c, y).library = d.library
         /\ Recompute(d, c, y).customers = d.customers
         /\ \A but : CurrentBut(d, but)
                         => CurrentBut(Recompute(d, c, y), but \ {<<c, y>>})
<1> DEFINE e == Recompute(d, c, y)
           v == Volume(d, c, y)
<1>1. DOMAIN d = Columns /\ IsFcn(d) BY DEF Sound, Shaped
<1>2. c # NoCustomer BY DEF Sound, Peopled, NoCustomer
<1> HIDE DEF v
<1>3. e = [d EXCEPT !.summary = Put(@, <<c, y>>, v), !.stale = @ \ {<<c, y>>}]
  BY <1>2 DEF Recompute, v
<1>4. /\ e.customers = d.customers /\ e.lastCustomer = d.lastCustomer
      /\ e.orders = d.orders /\ e.library = d.library
      /\ e.links = d.links /\ DOMAIN e = Columns /\ IsFcn(e)
      /\ e.summary = Put(d.summary, <<c, y>>, v) /\ e.stale = d.stale \ {<<c, y>>}
  BY <1>1, <1>3 DEF Columns, IsFcn
<1> HIDE DEF e
<1>5. /\ DOMAIN e.summary = DOMAIN d.summary \cup {<<c, y>>} /\ IsFcn(e.summary)
      /\ \A k \in DOMAIN e.summary : e.summary[k] = IF k = <<c, y>> THEN v ELSE d.summary[k]
  BY <1>4 DEF Put, IsFcn
<1>6. Sound(e)
  <2>1. Shaped(e) BY <1>4, <1>5 DEF Sound, Shaped
  <2>2. Peopled(e) BY <1>4 DEF Sound, Peopled, Ids
  <2>3. <<c, y>>[1] = c OBVIOUS
  <2>4. Refers(e) BY <1>4, <1>5, <2>3 DEF Sound, Refers, Ids
  <2> QED BY <2>1, <2>2, <2>4 DEF Sound
<1>7. ASSUME NEW but, CurrentBut(d, but) PROVE CurrentBut(e, but \ {<<c, y>>})
  <2>1. Shaped(d) BY DEF Sound
  <2>2. \A c2, y2 : SameVolume(d, e, c2, y2) BY <1>4 DEF SameVolume, OrdersIn, OrdersOf
  <2>3. ASSUME NEW c2 \in Ids(e), NEW y2 \in Nat, <<c2, y2>> \notin but \ {<<c, y>>}
        PROVE  \/ Volume(e, c2, y2) = SummaryOf(e, c2, y2)
               \/ /\ c2 \in Ids(d) /\ <<c2, y2>> \notin but
                  /\ SameVolume(d, e, c2, y2) /\ SameSummary(d, e, c2, y2)
    <3>1. CASE <<c2, y2>> = <<c, y>>
      <4>1. c2 = c /\ y2 = y BY <3>1
      <4>2. Volume(e, c, y) = v BY <2>1, <2>2, SameVolumeIs DEF v
      <4>3. SummaryOf(e, c, y) = v BY <1>5 DEF SummaryOf
      <4> QED BY <4>1, <4>2, <4>3
    <3>2. CASE <<c2, y2>> # <<c, y>>
      <4>1. SameSummary(d, e, c2, y2) BY <1>4, <1>5, <3>2 DEF SameSummary, SummaryOf
      <4> QED BY <1>4, <2>2, <2>3, <3>2, <4>1 DEF Ids
    <3> QED BY <3>1, <3>2
  <2> QED BY <1>7, <2>1, <2>3, StaysCurrent
<1> QED BY <1>4, <1>6, <1>7 DEF e

(***************************************************************************)
(* The library                                                             *)
(***************************************************************************)
Stays(d, e) ==
  /\ e.customers = d.customers /\ e.lastCustomer = d.lastCustomer
  /\ e.orders = d.orders /\ e.summary = d.summary /\ e.stale = d.stale
  /\ DOMAIN e = DOMAIN d /\ (IsFcn(d) => IsFcn(e))

LEMMA StaysSound ==
  ASSUME NEW d, Sound(d), NEW e, Stays(d, e),
         e.library \subseteq Pair, e.links \subseteq Ids(d) \X e.library
  PROVE  Sound(e) /\ \A but : CurrentBut(d, but) => CurrentBut(e, but)
<1>1. Sound(e) BY DEF Stays, Sound, Shaped, Peopled, Refers, Ids
<1>2. Shaped(d) BY DEF Sound
<1>3. \A c, y : SameVolume(d, e, c, y) /\ SameSummary(d, e, c, y)
  BY DEF Stays, SameVolume, SameSummary, SummaryOf, OrdersIn, OrdersOf
<1>4. Ids(e) = Ids(d) BY DEF Stays, Ids
<1>5. ASSUME NEW but, CurrentBut(d, but) PROVE CurrentBut(e, but)
  BY <1>2, <1>3, <1>4, <1>5, StaysCurrent
<1> QED BY <1>1, <1>5

LEMMA PairIs == ASSUME NEW order \in OrderRow PROVE PairOf(order) \subseteq Pair
BY DEF PairOf, Pair, OrderRow

LEMMA UpsertKeeps ==
  ASSUME NEW d, Sound(d), NEW pairs, pairs \subseteq Pair, NEW c \in Ids(d)
  PROVE  /\ Sound(UpsertPairs(d, pairs, c)) /\ Stays(d, UpsertPairs(d, pairs, c))
         /\ UpsertPairs(d, pairs, c).library = d.library \cup pairs
         /\ \A but : CurrentBut(d, but) => CurrentBut(UpsertPairs(d, pairs, c), but)
<1> DEFINE e == UpsertPairs(d, pairs, c)
<1>1. DOMAIN d = Columns /\ IsFcn(d) BY DEF Sound, Shaped
<1>2. /\ e.library = d.library \cup pairs /\ e.links = d.links \cup ({c} \X pairs)
      /\ Stays(d, e)
  BY <1>1 DEF UpsertPairs, Stays, Columns, IsFcn
<1>3. e.library \subseteq Pair /\ e.links \subseteq Ids(d) \X e.library
  <2> HIDE DEF e
  <2> QED BY <1>2 DEF Sound, Refers
<1> HIDE DEF e
<1>4. Sound(e) /\ \A but : CurrentBut(d, but) => CurrentBut(e, but)
  BY <1>2, <1>3, StaysSound
<1> QED BY <1>2, <1>4 DEF e

LEMMA DeletePairsKeep ==
  ASSUME NEW d, Sound(d), NEW pairs
  PROVE  /\ Sound(DeletePairs(d, pairs)) /\ Stays(d, DeletePairs(d, pairs))
         /\ DeletePairs(d, pairs).library = d.library \ pairs
         /\ \A but : CurrentBut(d, but) => CurrentBut(DeletePairs(d, pairs), but)
<1> DEFINE e == DeletePairs(d, pairs)
<1>1. DOMAIN d = Columns /\ IsFcn(d) BY DEF Sound, Shaped
<1>2. /\ e.library = d.library \ pairs /\ e.links = {x \in d.links : x[2] \notin pairs}
      /\ Stays(d, e)
  BY <1>1 DEF DeletePairs, Stays, Columns, IsFcn
<1>3. e.library \subseteq Pair /\ e.links \subseteq Ids(d) \X e.library
  <2> HIDE DEF e
  <2> QED BY <1>2 DEF Sound, Refers
<1> HIDE DEF e
<1>4. Sound(e) /\ \A but : CurrentBut(d, but) => CurrentBut(e, but)
  BY <1>2, <1>3, StaysSound
<1> QED BY <1>2, <1>4 DEF e

LEMMA SyncOnEditKeeps ==
  ASSUME NEW d, Sound(d), NEW i, NEW old, NEW new \in OrderRow, NEW c \in Ids(d)
  PROVE  /\ Sound(SyncOnEdit(d, i, old, new, c)) /\ Stays(d, SyncOnEdit(d, i, old, new, c))
         /\ SyncOnEdit(d, i, old, new, c).library
              = (d.library \ ((PairOf(old) \ PairOf(new)) \ UsedByOthers(d, i))) \cup PairOf(new)
         /\ \A but : CurrentBut(d, but) => CurrentBut(SyncOnEdit(d, i, old, new, c), but)
<1> DEFINE gone == (PairOf(old) \ PairOf(new)) \ UsedByOthers(d, i)
           e == DeletePairs(d, gone)
           f == UpsertPairs(e, PairOf(new), c)
<1>1. SyncOnEdit(d, i, old, new, c) = f BY DEF SyncOnEdit, MaybeDeletePair
<1> HIDE DEF gone
<1>2. /\ Sound(e) /\ Stays(d, e) /\ e.library = d.library \ gone
      /\ \A but : CurrentBut(d, but) => CurrentBut(e, but)
  BY DeletePairsKeep
<1> HIDE DEF e
<1>3. PairOf(new) \subseteq Pair BY PairIs
<1>4. c \in Ids(e) BY <1>2 DEF Stays, Ids
<1>5. /\ Sound(f) /\ Stays(e, f) /\ f.library = e.library \cup PairOf(new)
      /\ \A but : CurrentBut(e, but) => CurrentBut(f, but)
  BY <1>2, <1>3, <1>4, UpsertKeeps
<1> HIDE DEF f
<1>6. Stays(d, f) BY <1>2, <1>5 DEF Stays
<1>7. f.library = (d.library \ gone) \cup PairOf(new) BY <1>2, <1>5
<1> QED BY <1>1, <1>2, <1>5, <1>6, <1>7 DEF gone

(***************************************************************************)
(* An order taken or changed                                               *)
(***************************************************************************)
\* The volumes that the order i is part of.
VolumesOf(d, i) ==
  IF i \in DOMAIN d.orders THEN {<<d.orders[i].customer, d.orders[i].year>>} ELSE {}

\* In e the order j is as in os, the others are as they were.
Saved(d, os, j, e) ==
  /\ os \in Seq(OrderRow) /\ j \in DOMAIN os
  /\ DOMAIN os = DOMAIN d.orders \cup {j}
  /\ \A i \in DOMAIN os : i # j => os[i] = d.orders[i]
  /\ os[j].customer \in Ids(d)
  /\ e = [d EXCEPT !.orders = os]

LEMMA OrderSaved ==
  ASSUME NEW d, Sound(d), NEW os, NEW j, NEW e, Saved(d, os, j, e)
  PROVE  /\ Sound(e) /\ e.orders = os /\ e.library = d.library
         /\ e.customers = d.customers
         /\ CurrentBut(d, {}) => CurrentBut(e, VolumesOf(d, j) \cup VolumesOf(e, j))
         /\ (/\ CurrentBut(d, {}) /\ j \in DOMAIN d.orders
             /\ os[j].total = d.orders[j].total /\ os[j].customer = d.orders[j].customer
             /\ os[j].year = d.orders[j].year)
              => CurrentBut(e, {})
<1>0. /\ os \in Seq(OrderRow) /\ j \in DOMAIN os /\ DOMAIN os = DOMAIN d.orders \cup {j}
      /\ \A i \in DOMAIN os : i # j => os[i] = d.orders[i]
      /\ os[j].customer \in Ids(d) /\ e = [d EXCEPT !.orders = os]
  BY DEF Saved
<1>1. DOMAIN d = Columns /\ IsFcn(d) BY DEF Sound, Shaped
<1>2. /\ e.orders = os /\ e.customers = d.customers /\ e.lastCustomer = d.lastCustomer
      /\ e.summary = d.summary /\ e.library = d.library /\ e.links = d.links
      /\ e.stale = d.stale /\ DOMAIN e = Columns /\ IsFcn(e)
  BY <1>0, <1>1 DEF Columns, IsFcn
<1>3. Sound(e)
  <2>1. \A i \in DOMAIN os : os[i].customer \in Ids(d)
    BY <1>0 DEF Sound, Refers
  <2> QED BY <1>0, <1>2, <2>1 DEF Sound, Shaped, Peopled, Refers, Ids
<1>4. Shaped(d) /\ Ids(e) = Ids(d) BY <1>2 DEF Sound, Ids
<1>5. \A c, y : SameSummary(d, e, c, y) BY <1>2 DEF SameSummary, SummaryOf
<1>6. ASSUME CurrentBut(d, {}) PROVE CurrentBut(e, VolumesOf(d, j) \cup VolumesOf(e, j))
  <2>1. ASSUME NEW c, NEW y, <<c, y>> \notin VolumesOf(d, j) \cup VolumesOf(e, j)
        PROVE  SameVolume(d, e, c, y)
    <3>1. ~(os[j].customer = c /\ os[j].year = y) BY <1>0, <1>2, <2>1 DEF VolumesOf
    <3>2. j \in DOMAIN d.orders => ~(d.orders[j].customer = c /\ d.orders[j].year = y)
      BY <2>1 DEF VolumesOf
    <3> QED BY <1>0, <1>2, <3>1, <3>2 DEF SameVolume, OrdersIn, OrdersOf
  <2> QED BY <1>4, <1>5, <1>6, <2>1, StaysCurrent
<1>7. ASSUME CurrentBut(d, {}), j \in DOMAIN d.orders, os[j].total = d.orders[j].total,
             os[j].customer = d.orders[j].customer, os[j].year = d.orders[j].year
      PROVE  CurrentBut(e, {})
  <2>1. \A c, y : SameVolume(d, e, c, y)
    BY <1>0, <1>2, <1>7 DEF SameVolume, OrdersIn, OrdersOf
  <2> QED BY <1>4, <1>5, <1>7, <2>1, StaysCurrent
<1> QED BY <1>2, <1>3, <1>6, <1>7

(***************************************************************************)
(* A customer changed, and one that goes                                   *)
(***************************************************************************)
LEMMA RowKeeps ==
  ASSUME NEW d, Sound(d), NEW c \in Ids(d), NEW row \in Customer, HasMain(row.phones),
         NEW e, e = [d EXCEPT !.customers[c] = row]
  PROVE  /\ Sound(e) /\ e.orders = d.orders /\ e.library = d.library
         /\ Ids(e) = Ids(d) /\ e.customers[c] = row
         /\ \A x \in Ids(d) : x # c => e.customers[x] = d.customers[x]
         /\ \A but : CurrentBut(d, but) => CurrentBut(e, but)
<1>1. DOMAIN d = Columns /\ IsFcn(d) /\ IsFcn(d.customers) BY DEF Sound, Shaped
<1>2. /\ e.customers = [d.customers EXCEPT ![c] = row] /\ e.lastCustomer = d.lastCustomer
      /\ e.orders = d.orders /\ e.summary = d.summary /\ e.library = d.library
      /\ e.links = d.links /\ e.stale = d.stale /\ DOMAIN e = Columns /\ IsFcn(e)
  BY <1>1 DEF Columns, IsFcn
<1>3. /\ Ids(e) = Ids(d) /\ e.customers[c] = row /\ IsFcn(e.customers)
      /\ \A x \in Ids(d) : x # c => e.customers[x] = d.customers[x]
  BY <1>1, <1>2 DEF Ids, IsFcn
<1>4. Sound(e)
  <2>1. Shaped(e) BY <1>2, <1>3 DEF Sound, Shaped
  <2>2. Peopled(e)
    <3>1. ASSUME NEW x \in Ids(e)
          PROVE  e.customers[x] \in Customer /\ HasMain(e.customers[x].phones)
      BY <1>3 DEF Sound, Peopled
    <3> QED BY <1>2, <1>3, <3>1 DEF Sound, Peopled
  <2>3. Refers(e) BY <1>2, <1>3 DEF Sound, Refers
  <2> QED BY <2>1, <2>2, <2>3 DEF Sound
<1>5. ASSUME NEW but, CurrentBut(d, but) PROVE CurrentBut(e, but)
  <2>1. \A x, y : SameVolume(d, e, x, y) /\ SameSummary(d, e, x, y)
    BY <1>2 DEF SameVolume, SameSummary, SummaryOf, OrdersIn, OrdersOf
  <2>2. Shaped(d) BY DEF Sound
  <2> QED BY <1>3, <1>5, <2>1, <2>2, StaysCurrent
<1> QED BY <1>2, <1>3, <1>4, <1>5

LEMMA DeleteRowKeeps ==
  ASSUME NEW d, Sound(d), NEW c, OrdersOf(d, c) = {}, NEW e, e = DeleteCustomerRow(d, c)
  PROVE  /\ Sound(e) /\ e.orders = d.orders /\ e.library = d.library
         /\ Ids(e) = Ids(d) \ {c}
         /\ \A x \in Ids(e) : e.customers[x] = d.customers[x]
         /\ \A but : CurrentBut(d, but) => CurrentBut(e, but \ ({c} \X Nat))
<1>1. DOMAIN d = Columns /\ IsFcn(d) BY DEF Sound, Shaped
<1> DEFINE S == DOMAIN d.customers \ {c}
           K == {k \in DOMAIN d.summary : k[1] # c}
<1>2. /\ e.customers = [x \in S |-> d.customers[x]] /\ e.lastCustomer = d.lastCustomer
      /\ e.orders = d.orders /\ e.summary = [k \in K |-> d.summary[k]]
      /\ e.library = d.library
      /\ e.links = {x \in d.links : x[1] # c} /\ e.stale = d.stale
      /\ DOMAIN e = Columns /\ IsFcn(e)
  BY <1>1 DEF Columns, IsFcn, DeleteCustomerRow, Restrict
<1>3. /\ Ids(e) = Ids(d) \ {c} /\ IsFcn(e.customers) /\ IsFcn(e.summary)
      /\ \A x \in Ids(e) : e.customers[x] = d.customers[x]
  BY <1>2 DEF Ids, IsFcn
<1>4. DOMAIN e.summary = K /\ \A k \in K : e.summary[k] = d.summary[k] BY <1>2
<1>5. Sound(e)
  <2>1. Shaped(e) BY <1>2, <1>3 DEF Sound, Shaped
  <2>2. Peopled(e) BY <1>2, <1>3 DEF Sound, Peopled
  <2>3. Refers(e)
    <3>1. \A i \in DOMAIN e.orders : e.orders[i].customer \in Ids(e)
      BY <1>2, <1>3 DEF Sound, Refers, OrdersOf
    <3>2. \A k \in DOMAIN e.summary : k[1] \in Ids(e) BY <1>3, <1>4 DEF Sound, Refers
    <3>3. e.library \subseteq Pair BY <1>2 DEF Sound, Refers
    <3>4. e.links \subseteq Ids(e) \X e.library BY <1>2, <1>3 DEF Sound, Refers
    <3> QED BY <3>1, <3>2, <3>3, <3>4 DEF Refers
  <2> QED BY <2>1, <2>2, <2>3 DEF Sound
<1>6. ASSUME NEW but, CurrentBut(d, but) PROVE CurrentBut(e, but \ ({c} \X Nat))
  <2>1. ASSUME NEW x \in Ids(e), NEW y \in Nat, <<x, y>> \notin but \ ({c} \X Nat)
        PROVE  /\ x \in Ids(d) /\ <<x, y>> \notin but
               /\ SameVolume(d, e, x, y) /\ SameSummary(d, e, x, y)
    <3>1. x \in Ids(d) /\ x # c BY <1>3
    <3>2. <<x, y>> \notin but BY <2>1, <3>1
    <3>3. SameVolume(d, e, x, y) BY <1>2 DEF SameVolume, OrdersIn, OrdersOf
    <3>4. <<x, y>>[1] = x OBVIOUS
    <3>5. <<x, y>> \in K <=> <<x, y>> \in DOMAIN d.summary BY <3>1, <3>4
    <3> HIDE DEF K
    <3>6. SameSummary(d, e, x, y) BY <1>2, <1>4, <3>5 DEF SameSummary, SummaryOf
    <3> QED BY <3>1, <3>2, <3>3, <3>6
  <2>2. Shaped(d) BY DEF Sound
  <2> QED BY <1>6, <2>1, <2>2, StaysCurrent
<1> QED BY <1>2, <1>3, <1>5, <1>6

(***************************************************************************)
(* A merge: the orders of s go to t, whose volumes are computed anew.      *)
(***************************************************************************)
LEMMA RelinkKeeps ==
  ASSUME NEW d, Sound(d), NEW s, NEW t \in Ids(d), s # t, NEW e, e = Relink(d, s, t)
  PROVE  /\ Sound(e) /\ e.library = d.library /\ e.customers = d.customers
         /\ DOMAIN e.orders = DOMAIN d.orders /\ OrdersOf(e, s) = {}
         /\ \A i \in DOMAIN e.orders : e.orders[i].year = d.orders[i].year
         /\ \A y : OrdersIn(d, t, y) \subseteq OrdersIn(e, t, y)
         /\ \A y : SameSummary(d, e, t, y)
         /\ CurrentBut(d, {}) => CurrentBut(e, ({s} \X Nat) \cup ({t} \X Nat))
<1> DEFINE os == [i \in DOMAIN d.orders |-> IF d.orders[i].customer = s
                                            THEN [d.orders[i] EXCEPT !.customer = t]
                                            ELSE d.orders[i]]
<1>1. DOMAIN d = Columns /\ IsFcn(d) /\ d.orders \in Seq(OrderRow) BY DEF Sound, Shaped
<1>2. /\ e.orders = os /\ e.customers = d.customers /\ e.lastCustomer = d.lastCustomer
      /\ e.summary = d.summary /\ e.library = d.library /\ e.links = d.links
      /\ e.stale = d.stale /\ DOMAIN e = Columns /\ IsFcn(e)
  BY <1>1 DEF Columns, IsFcn, Relink
<1>3. ASSUME NEW i \in DOMAIN d.orders
      PROVE  /\ os[i] \in OrderRow /\ os[i].customer \in Ids(d) /\ os[i].customer # s
             /\ os[i].year = d.orders[i].year /\ os[i].total = d.orders[i].total
             /\ os[i].customer = IF d.orders[i].customer = s THEN t ELSE d.orders[i].customer
  <2>1. d.orders[i] \in OrderRow BY <1>1
  <2>2. t \in Nat BY DEF Sound, Peopled, Shaped
  <2>3. os[i] = IF d.orders[i].customer = s THEN [d.orders[i] EXCEPT !.customer = t]
                ELSE d.orders[i]
    OBVIOUS
  <2>4. d.orders[i].customer \in Ids(d) BY DEF Sound, Refers
  <2> HIDE DEF os
  <2> QED BY <2>1, <2>2, <2>3, <2>4 DEF OrderRow
<1>4. os \in Seq(OrderRow) /\ DOMAIN os = DOMAIN d.orders
  <2>1. DOMAIN d.orders = 1..Len(d.orders) /\ Len(d.orders) \in Nat BY <1>1
  <2>2. DOMAIN os = 1..Len(d.orders) /\ os = [i \in 1..Len(d.orders) |-> os[i]] BY <2>1
  <2> HIDE DEF os
  <2> QED BY <1>3, <2>1, <2>2
<1> HIDE DEF os
<1>5. Sound(e)
  <2>1. \A i \in DOMAIN e.orders : e.orders[i].customer \in Ids(d) BY <1>2, <1>3, <1>4
  <2>2. Shaped(e) BY <1>2, <1>4 DEF Sound, Shaped
  <2>3. Peopled(e) BY <1>2 DEF Sound, Peopled, Ids
  <2>4. Refers(e) BY <1>2, <2>1 DEF Sound, Refers, Ids
  <2> QED BY <2>2, <2>3, <2>4 DEF Sound
<1>6. OrdersOf(e, s) = {} BY <1>2, <1>3, <1>4 DEF OrdersOf
<1>7. \A y : OrdersIn(d, t, y) \subseteq OrdersIn(e, t, y)
  BY <1>2, <1>3, <1>4 DEF OrdersOf, OrdersIn
<1>8. \A c, y : SameSummary(d, e, c, y) BY <1>2 DEF SameSummary, SummaryOf
<1>9. ASSUME CurrentBut(d, {}) PROVE CurrentBut(e, ({s} \X Nat) \cup ({t} \X Nat))
  <2>1. ASSUME NEW c \in Ids(e), NEW y \in Nat, <<c, y>> \notin ({s} \X Nat) \cup ({t} \X Nat)
        PROVE  c \in Ids(d) /\ SameVolume(d, e, c, y)
    <3>1. c # s /\ c # t BY <2>1
    <3>2. OrdersIn(e, c, y) = OrdersIn(d, c, y)
      BY <1>2, <1>3, <1>4, <3>1 DEF OrdersOf, OrdersIn
    <3>3. \A i \in OrdersIn(d, c, y) : e.orders[i].total = d.orders[i].total
      BY <1>2, <1>3 DEF OrdersOf, OrdersIn
    <3>4. c \in Ids(d) BY <1>2 DEF Ids
    <3> QED BY <3>2, <3>3, <3>4 DEF SameVolume
  <2>2. Shaped(d) BY DEF Sound
  <2>3. \A c, y : <<c, y>> \notin {} OBVIOUS
  <2> QED BY <1>8, <1>9, <2>1, <2>2, <2>3, StaysCurrent
<1> QED BY <1>2, <1>3, <1>4, <1>5, <1>6, <1>7, <1>8, <1>9

\* The volumes of a customer computed anew are current, if the years without orders were.
LEMMA RecomputeAllKeeps ==
  ASSUME NEW d, Sound(d), NEW t \in Ids(d), NEW e, e = RecomputeAll(d, t, YearsOf(d, t))
  PROVE  /\ Sound(e) /\ e.orders = d.orders /\ e.library = d.library
         /\ e.customers = d.customers
         /\ \A but :
              (/\ CurrentBut(d, but \cup ({t} \X Nat))
               /\ \A y \in Nat : OrdersIn(d, t, y) = {} => Agrees(d, t, y))
                => CurrentBut(e, but)
<1> DEFINE years == YearsOf(d, t)
           keys == YearKeys(t, years)
<1>1. DOMAIN d = Columns /\ IsFcn(d) /\ IsFcn(d.summary) /\ d.orders \in Seq(OrderRow)
  BY DEF Sound, Shaped
<1>2. IsFiniteSet(years)
  <2>1. IsFiniteSet(OrdersOf(d, t)) BY <1>1, OrdersFinite
  <2> DEFINE f == [i \in OrdersOf(d, t) |-> d.orders[i].year]
  <2>2. f \in Surjection(OrdersOf(d, t), years) BY DEF Surjection, YearsOf
  <2> HIDE DEF f, years
  <2> QED BY <2>1, <2>2, FS_Surjection
<1>3. t # NoCustomer BY DEF Sound, Peopled, NoCustomer
<1>4. e = Anew(d, t, years)
  <2>1. {"orders", "summary", "stale"} \subseteq DOMAIN d /\ d = [f \in DOMAIN d |-> d[f]]
        /\ d.summary = [k \in DOMAIN d.summary |-> d.summary[k]]
    BY <1>1 DEF Columns, IsFcn
  <2> HIDE DEF years
  <2>2. RecomputeAll(d, t, years) = Anew(d, t, years)
    BY <1>1, <1>2, <1>3, <2>1, RecomputeAllIs
  <2> QED BY <2>2 DEF years
<1> HIDE DEF years
<1>5. /\ e.customers = d.customers /\ e.lastCustomer = d.lastCustomer
      /\ e.orders = d.orders /\ e.library = d.library
      /\ e.links = d.links /\ DOMAIN e = Columns /\ IsFcn(e)
      /\ e.summary = Summed(d, t, years) /\ e.stale = d.stale \ keys
  BY <1>1, <1>4 DEF Anew, Columns, IsFcn
<1>6. \A k \in keys : k[1] = t BY DEF YearKeys
<1>7. /\ DOMAIN e.summary = DOMAIN d.summary \cup keys /\ IsFcn(e.summary)
      /\ \A k \in DOMAIN e.summary : e.summary[k] = IF k \in keys THEN Volume(d, t, k[2])
                                                    ELSE d.summary[k]
  BY <1>5 DEF Summed, IsFcn
<1>8. Sound(e)
  <2>1. Shaped(e) BY <1>5, <1>7, <1>1 DEF Sound, Shaped
  <2>2. Peopled(e) BY <1>5 DEF Sound, Peopled, Ids
  <2> HIDE DEF keys
  <2>3. Refers(e) BY <1>5, <1>6, <1>7 DEF Sound, Refers, Ids
  <2> QED BY <2>1, <2>2, <2>3 DEF Sound
<1>9. \A c, y : SameVolume(d, e, c, y) BY <1>5 DEF SameVolume, OrdersIn, OrdersOf
<1>10. Shaped(d) BY DEF Sound
<1>11. \A c, y : <<c, y>> \notin keys => SameSummary(d, e, c, y)
  <2>1. SUFFICES ASSUME NEW c, NEW y, <<c, y>> \notin keys PROVE SameSummary(d, e, c, y)
    OBVIOUS
  <2> HIDE DEF keys
  <2> QED BY <1>5, <1>7, <2>1 DEF SameSummary, SummaryOf
<1>12. ASSUME NEW but, CurrentBut(d, but \cup ({t} \X Nat)),
              \A y \in Nat : OrdersIn(d, t, y) = {} => Agrees(d, t, y)
       PROVE  CurrentBut(e, but)
  <2>1. SUFFICES ASSUME NEW c \in Ids(e), NEW y \in Nat, <<c, y>> \notin but
                 PROVE  Agrees(e, c, y)
    BY DEF CurrentBut
  <2>2. <<c, y>>[2] = y /\ <<c, y>>[1] = c OBVIOUS
  <2>3. CASE c # t
    <3>1. <<c, y>> \notin keys BY <1>6, <2>2, <2>3
    <3>2. c \in Ids(d) BY <1>5 DEF Ids
    <3>3. <<c, y>> \notin but \cup ({t} \X Nat) BY <2>1, <2>3
    <3>4. Agrees(d, c, y) BY <1>12, <3>2, <3>3 DEF CurrentBut
    <3> HIDE DEF keys
    <3> QED BY <1>9, <1>10, <1>11, <3>1, <3>4, AgreesStill
  <2>4. CASE c = t /\ y \in years
    <3>1. <<c, y>> \in keys BY <2>4 DEF YearKeys
    <3> HIDE DEF keys
    <3>2. SummaryOf(e, c, y) = Volume(d, t, y) BY <1>7, <2>2, <3>1 DEF SummaryOf
    <3>3. Volume(e, c, y) = Volume(d, c, y) BY <1>9, <1>10, SameVolumeIs
    <3> QED BY <2>4, <3>2, <3>3 DEF Agrees
  <2>5. CASE c = t /\ y \notin years
    <3>1. <<c, y>> \notin keys BY <2>5 DEF YearKeys
    <3>2. OrdersIn(d, t, y) = {} BY <2>5 DEF years, YearsOf, OrdersIn
    <3>3. Agrees(d, c, y) BY <1>12, <2>5, <3>2
    <3> HIDE DEF keys
    <3> QED BY <1>9, <1>10, <1>11, <3>1, <3>3, AgreesStill
  <2> QED BY <2>3, <2>4, <2>5
<1> QED BY <1>5, <1>8, <1>12

\* The numbers a customer is reached at.
Reached(d, c) == PhonesOf(PhonesOfId(d, c))

LEMMA ReachedAtIs ==
  ASSUME NEW x \in Customer, HasMain(x.phones)
  PROVE  /\ ReachedAt(x) \in Seq(PhoneRow) /\ Materialized(x) \in Seq(PhoneRow)
         /\ HasMain(Materialized(x))
         /\ PhonesOf(ReachedAt(x)) = PhonesOf(Materialized(x))
<1>1. x.phones \in Seq(PhoneRow) /\ x.phone \in Phones \union {None} BY DEF Customer
<1>2. CASE x.phones # <<>>
  <2> DEFINE rows == x.phones
  <2>1. rows \in Seq(PhoneRow) BY <1>1
  <2> HIDE DEF rows
  <2>2. PrimaryFirst(rows) \in Seq(PhoneRow) /\ RowsIn(PrimaryFirst(rows)) = RowsIn(rows)
    BY <2>1, PrimaryFirstKeeps
  <2>3. PhonesOf(PrimaryFirst(rows)) = PhonesOf(rows) BY <2>2, SameRowsSamePhones
  <2>4. ReachedAt(x) = PrimaryFirst(rows) /\ Materialized(x) = rows
    BY <1>2 DEF ReachedAt, Materialized, rows
  <2>5. HasMain(rows) BY DEF rows
  <2> QED BY <2>1, <2>2, <2>3, <2>4, <2>5
<1>3. CASE x.phones = <<>>
  <2> DEFINE rows == OnePhone(x.phone)
  <2>1. rows \in Seq(PhoneRow) /\ HasMain(rows) BY <1>1, OnePhoneIs
  <2>2. ReachedAt(x) = rows /\ Materialized(x) = rows BY <1>3 DEF ReachedAt, Materialized
  <2> HIDE DEF rows
  <2> QED BY <2>1, <2>2
<1> QED BY <1>2, <1>3

LEMMA PhonesOfIdIs ==
  ASSUME NEW d, Sound(d), NEW c PROVE PhonesOfId(d, c) \in Seq(PhoneRow)
<1>1. CASE c \in Ids(d)
  <2>1. d.customers[c] \in Customer /\ HasMain(d.customers[c].phones)
    BY <1>1 DEF Sound, Peopled
  <2>2. ReachedAt(d.customers[c]) \in Seq(PhoneRow) BY <2>1, ReachedAtIs
  <2> QED BY <1>1, <2>2 DEF PhonesOfId
<1>2. CASE c \notin Ids(d) BY <1>2 DEF PhonesOfId
<1> QED BY <1>1, <1>2

\* What a customer's record becomes when phones are merged into it.
WithPhones(x, phones) == [x EXCEPT !.phones = phones, !.phone = PrimaryPhone(phones)]

LEMMA WithPhonesIs ==
  ASSUME NEW x \in Customer, NEW phones \in Seq(PhoneRow), HasMain(phones)
  PROVE  /\ WithPhones(x, phones) \in Customer /\ WithPhones(x, phones).phones = phones
         /\ PhonesOf(ReachedAt(WithPhones(x, phones))) = PhonesOf(phones)
<1> DEFINE r == WithPhones(x, phones)
<1>1. PrimaryPhone(phones) \in Phones \union {None} BY PrimaryPhoneIs
<1>2. r \in Customer /\ r.phones = phones /\ r.phone = PrimaryPhone(phones)
  BY <1>1 DEF WithPhones, Customer
<1> HIDE DEF r
<1>3. PhonesOf(ReachedAt(r)) = PhonesOf(Materialized(r)) BY <1>2, ReachedAtIs
<1>4. Materialized(r) = phones
  <2>1. PrimaryPhone(<<>>) = None BY DEF PrimaryPhone
  <2>2. OnePhone(None) = <<>> BY DEF OnePhone
  <2> QED BY <1>2, <2>1, <2>2 DEF Materialized
<1> QED BY <1>2, <1>3, <1>4 DEF r

LEMMA MergeIntoKeeps ==
  ASSUME NEW d, Sound(d), NEW t \in Ids(d), NEW s, s # t, NEW e, e = MergeInto(d, t, s)
  PROVE  /\ Sound(e) /\ e.library = d.library /\ Ids(e) = Ids(d) \ {s}
         /\ DOMAIN e.orders = DOMAIN d.orders
         /\ \A i \in DOMAIN e.orders : e.orders[i].year = d.orders[i].year
         /\ \A c : c \notin {s, t} => Reached(e, c) = Reached(d, c)
         /\ Reached(d, t) \cup Reached(d, s) \subseteq PhonesOf(e.customers[t].phones)
         /\ Reached(e, t) = PhonesOf(e.customers[t].phones)
         /\ HasMain(e.customers[t].phones)
         /\ CurrentBut(d, {}) => CurrentBut(e, {})
<1> DEFINE x == d.customers[t]
           mine == Materialized(x)
           theirs == PhonesOfId(d, s)
           phones == CopyPhones(mine, theirs)
           r == Relink(d, s, t)
           q == RecomputeAll(r, t, YearsOf(r, t))
           p == DeleteCustomerRow(q, s)
<1>1. x \in Customer /\ HasMain(x.phones) BY DEF Sound, Peopled
<1>2. /\ mine \in Seq(PhoneRow) /\ HasMain(mine) /\ theirs \in Seq(PhoneRow)
      /\ PhonesOf(mine) = Reached(d, t) /\ PhonesOf(theirs) = Reached(d, s)
  <2>1. mine \in Seq(PhoneRow) /\ HasMain(mine) /\ PhonesOf(mine) = PhonesOf(ReachedAt(x))
    BY <1>1, ReachedAtIs
  <2>2. theirs \in Seq(PhoneRow) BY PhonesOfIdIs
  <2> QED BY <2>1, <2>2 DEF Reached, PhonesOfId
<1> HIDE DEF mine, theirs
<1>3. /\ phones \in Seq(PhoneRow) /\ HasMain(phones)
      /\ Reached(d, t) \cup Reached(d, s) \subseteq PhonesOf(phones)
  BY <1>2, CopyKeeps
<1>4. e = [p EXCEPT !.customers[t].phones = phones, !.customers[t].phone = PrimaryPhone(phones)]
  BY DEF MergeInto, mine, theirs
<1> HIDE DEF phones, x, p, q, r
<1>5. /\ Sound(r) /\ r.library = d.library /\ r.customers = d.customers
      /\ DOMAIN r.orders = DOMAIN d.orders /\ OrdersOf(r, s) = {}
      /\ \A i \in DOMAIN r.orders : r.orders[i].year = d.orders[i].year
      /\ \A y : OrdersIn(d, t, y) \subseteq OrdersIn(r, t, y)
      /\ \A y : SameSummary(d, r, t, y)
      /\ CurrentBut(d, {}) => CurrentBut(r, ({s} \X Nat) \cup ({t} \X Nat))
  BY RelinkKeeps DEF r
<1>6. t \in Ids(r) BY <1>5 DEF Ids
<1>7. /\ Sound(q) /\ q.orders = r.orders /\ q.library = r.library /\ q.customers = r.customers
      /\ CurrentBut(d, {}) => CurrentBut(q, {s} \X Nat)
  <2>1. Sound(q) /\ q.orders = r.orders /\ q.library = r.library /\ q.customers = r.customers
    BY <1>5, <1>6, RecomputeAllKeeps DEF q
  <2>2. ASSUME CurrentBut(d, {}) PROVE CurrentBut(q, {s} \X Nat)
    <3>1. ASSUME NEW y \in Nat, OrdersIn(r, t, y) = {} PROVE Agrees(r, t, y)
      <4>1. OrdersIn(d, t, y) = {} BY <1>5, <3>1
      <4>2. SameVolume(d, r, t, y) BY <3>1, <4>1 DEF SameVolume
      <4>3. Agrees(d, t, y) BY <2>2 DEF CurrentBut
      <4>4. Shaped(d) BY DEF Sound
      <4> QED BY <1>5, <4>2, <4>3, <4>4, AgreesStill
    <3>2. CurrentBut(r, ({s} \X Nat) \cup ({t} \X Nat)) BY <1>5, <2>2
    <3> DEFINE but == {s} \X Nat
    <3> HIDE DEF but
    <3>3. CurrentBut(r, but \cup ({t} \X Nat)) BY <3>2 DEF but
    <3>4. CurrentBut(q, but) BY <1>5, <1>6, <3>1, <3>3, RecomputeAllKeeps DEF q
    <3> QED BY <3>4 DEF but
  <2> QED BY <2>1, <2>2
<1>8. OrdersOf(q, s) = {} BY <1>5, <1>7 DEF OrdersOf
<1>9. /\ Sound(p) /\ p.orders = q.orders /\ p.library = q.library /\ Ids(p) = Ids(q) \ {s}
      /\ \A c \in Ids(p) : p.customers[c] = q.customers[c]
      /\ \A but : CurrentBut(q, but) => CurrentBut(p, but \ ({s} \X Nat))
  BY <1>7, <1>8, DeleteRowKeeps DEF p
<1>10. t \in Ids(p) /\ p.customers[t] = x BY <1>5, <1>6, <1>7, <1>9 DEF Ids, x
<1> DEFINE row == WithPhones(x, phones)
<1>11. /\ row \in Customer /\ row.phones = phones
       /\ PhonesOf(ReachedAt(row)) = PhonesOf(phones)
  BY <1>1, <1>3, WithPhonesIs
<1>12. e = [p EXCEPT !.customers[t] = row]
  <2>1. IsFcn(p) /\ IsFcn(p.customers) /\ DOMAIN p = Columns
    BY <1>9 DEF Sound, Shaped
  <2>2. row = [x EXCEPT !.phones = phones, !.phone = PrimaryPhone(phones)] BY DEF WithPhones
  <2> DEFINE f == [p EXCEPT !.customers[t] = row]
             a1 == [p.customers[t] EXCEPT !.phones = phones]
             a2 == [a1 EXCEPT !.phone = PrimaryPhone(phones)]
             c1 == [p.customers EXCEPT ![t] = a1]
             c2 == [c1 EXCEPT ![t] = a2]
  <2>3. a2 = row BY <1>10, <2>2
  <2>4. c1[t] = a1 /\ c2 = [p.customers EXCEPT ![t] = row]
    <3>1. t \in DOMAIN p.customers BY <1>10 DEF Ids
    <3> HIDE DEF a1, row
    <3> QED BY <2>1, <2>3, <3>1
  <2> HIDE DEF a1, row
  <2>5. e = [[p EXCEPT !.customers = c1]
                EXCEPT !.customers = [c1 EXCEPT ![t].phone = PrimaryPhone(phones)]]
    BY <1>4, <2>1 DEF a1, Columns
  <2>6. [c1 EXCEPT ![t].phone = PrimaryPhone(phones)] = c2 BY <2>4
  <2> HIDE DEF c1, c2
  <2> QED BY <2>1, <2>4, <2>5, <2>6 DEF IsFcn
<1> HIDE DEF row
<1>13. HasMain(row.phones) BY <1>3, <1>11
<1>14. /\ Sound(e) /\ e.orders = p.orders /\ e.library = p.library
       /\ Ids(e) = Ids(p) /\ e.customers[t] = row
       /\ \A c \in Ids(p) : c # t => e.customers[c] = p.customers[c]
       /\ \A but : CurrentBut(p, but) => CurrentBut(e, but)
  BY <1>9, <1>10, <1>11, <1>12, <1>13, RowKeeps
<1>15. Ids(q) = Ids(d) BY <1>5, <1>7 DEF Ids
<1>16. ASSUME NEW c, c \notin {s, t} PROVE Reached(e, c) = Reached(d, c)
  <2>1. c \in Ids(e) <=> c \in Ids(d) BY <1>9, <1>14, <1>15, <1>16
  <2>2. c \in Ids(d) => e.customers[c] = d.customers[c]
    BY <1>5, <1>7, <1>9, <1>14, <1>15, <1>16
  <2> QED BY <2>1, <2>2 DEF Reached, PhonesOfId
<1>17. Reached(e, t) = PhonesOf(phones) BY <1>10, <1>11, <1>14 DEF Reached, PhonesOfId
<1>18. ASSUME CurrentBut(d, {}) PROVE CurrentBut(e, {})
  <2>1. CurrentBut(q, {s} \X Nat) BY <1>7, <1>18
  <2>2. CurrentBut(p, ({s} \X Nat) \ ({s} \X Nat)) BY <1>9, <2>1
  <2>3. ({s} \X Nat) \ ({s} \X Nat) = {} OBVIOUS
  <2>4. CurrentBut(p, {}) BY <2>2, <2>3
  <2> QED BY <1>14, <2>4
<1>19. e.customers[t].phones = phones BY <1>11, <1>14
<1> QED BY <1>3, <1>5, <1>7, <1>9, <1>14, <1>15, <1>16, <1>17, <1>18, <1>19

\* One source after the other, each with what it is reached at.
LEMMA MergesKeep ==
  ASSUME NEW d, Sound(d), NEW t \in Ids(d), NEW sources, NEW n \in Nat,
         DOMAIN sources = 1..n, \A k \in 1..n : sources[k] # t,
         NEW e, e = MergeAll(d, t, sources)
  PROVE  /\ Sound(e) /\ e.library = d.library /\ t \in Ids(e)
         /\ DOMAIN e.orders = DOMAIN d.orders
         /\ \A i \in DOMAIN e.orders : e.orders[i].year = d.orders[i].year
         /\ CurrentBut(d, {}) => CurrentBut(e, {})
         /\ HasMain(e.customers[t].phones)
         /\ n # 0 => \A c \in {t} \cup {sources[k] : k \in 1..n} :
                       Reached(d, c) \subseteq PhonesOf(e.customers[t].phones)
<1> DEFINE Tied(x) == /\ Sound(x) /\ x.library = d.library /\ t \in Ids(x)
                      /\ DOMAIN x.orders = DOMAIN d.orders
                      /\ \A i \in DOMAIN x.orders : x.orders[i].year = d.orders[i].year
                      /\ (CurrentBut(d, {}) => CurrentBut(x, {}))
                      /\ HasMain(x.customers[t].phones)
           Met(x, k) == /\ Reached(d, t) \subseteq Reached(x, t)
                        /\ \A i \in 1..k : Reached(d, sources[i]) \subseteq Reached(x, t)
                        /\ k # 0 => Reached(x, t) = PhonesOf(x.customers[t].phones)
           Left(x, k) == \A c : (c # t /\ \A i \in 1..k : c # sources[i])
                                  => Reached(x, c) = Reached(d, c)
           Good(x, k) == Tied(x) /\ Met(x, k) /\ Left(x, k)
<1>1. PICK h : /\ h[0] = d
               /\ \A k \in 1..n : h[k] = MergeInto(h[k - 1], t, sources[k])
               /\ h[n] = MergeAll(d, t, sources)
  BY MergesGo
<1> DEFINE good == {k \in 0..n : Good(h[k], k)}
<1>2. 0 \in good
  <2>1. HasMain(d.customers[t].phones) BY DEF Sound, Peopled
  <2>2. Tied(d) BY <2>1
  <2>3. Met(d, 0)
    <3>1. 1..0 = {} OBVIOUS
    <3> QED BY <3>1
  <2>4. Left(d, 0) OBVIOUS
  <2>5. 0 \in 0..n OBVIOUS
  <2> HIDE DEF Tied, Met, Left
  <2> QED BY <1>1, <2>2, <2>3, <2>4, <2>5
<1>3. ASSUME NEW k \in 1..n, k - 1 \in good PROVE k \in good
  <2> DEFINE x == h[k - 1]
             s == sources[k]
             z == h[k]
  <2>1. Tied(x) /\ Met(x, k - 1) /\ Left(x, k - 1) /\ k \in 0..n
    <3> HIDE DEF Tied, Met, Left
    <3> QED BY <1>3
  <2>2. Sound(x) /\ t \in Ids(x) BY <2>1
  <2>3. z = MergeInto(x, t, s) /\ s # t BY <1>1
  <2> HIDE DEF x, z, s
  <2>4. /\ Sound(z) /\ z.library = x.library /\ Ids(z) = Ids(x) \ {s}
        /\ DOMAIN z.orders = DOMAIN x.orders
        /\ \A i \in DOMAIN z.orders : z.orders[i].year = x.orders[i].year
        /\ \A c : c \notin {s, t} => Reached(z, c) = Reached(x, c)
        /\ Reached(x, t) \cup Reached(x, s) \subseteq PhonesOf(z.customers[t].phones)
        /\ Reached(z, t) = PhonesOf(z.customers[t].phones)
        /\ HasMain(z.customers[t].phones)
        /\ CurrentBut(x, {}) => CurrentBut(z, {})
    BY <2>2, <2>3, MergeIntoKeeps
  <2>5. Tied(z) BY <2>1, <2>3, <2>4
  <2>6. Met(z, k)
    <3>1. Reached(x, t) \subseteq Reached(z, t) BY <2>4
    <3>2. ASSUME NEW i \in 1..k PROVE Reached(d, sources[i]) \subseteq Reached(z, t)
      <4>1. CASE i \in 1..(k - 1) BY <2>1, <3>1, <4>1
      <4>2. CASE i = k
        <5>1. CASE \A j \in 1..(k - 1) : s # sources[j]
          <6>1. Reached(x, s) = Reached(d, s) BY <2>1, <2>3, <5>1
          <6> QED BY <2>4, <4>2, <6>1 DEF s
        <5>2. CASE \E j \in 1..(k - 1) : s = sources[j] BY <2>1, <3>1, <4>2, <5>2 DEF s
        <5> QED BY <5>1, <5>2
      <4> QED BY <4>1, <4>2
    <3> QED BY <2>1, <2>4, <3>1, <3>2
  <2>7. Left(z, k)
    <3>1. SUFFICES ASSUME NEW c, c # t, \A i \in 1..k : c # sources[i]
                   PROVE  Reached(z, c) = Reached(d, c)
      OBVIOUS
    <3>2. c # s BY <3>1 DEF s
    <3>3. \A i \in 1..(k - 1) : c # sources[i] BY <3>1
    <3>4. Reached(x, c) = Reached(d, c) BY <2>1, <3>1, <3>3
    <3> QED BY <2>4, <3>1, <3>2, <3>4
  <2>8. Good(z, k)
    <3> HIDE DEF Tied, Met, Left
    <3> QED BY <2>5, <2>6, <2>7
  <2> HIDE DEF Good
  <2> QED BY <2>1, <2>8 DEF z
<1>4. n \in good
  <2>1. good \subseteq 0..n OBVIOUS
  <2> HIDE DEF good
  <2> QED BY <1>2, <1>3, <2>1, Turns
<1>5. Tied(e) /\ Met(e, n)
  <2> HIDE DEF Tied, Met, Left
  <2> QED BY <1>1, <1>4
<1> QED BY <1>5

-----------------------------------------------------------------------------
(***************************************************************************)
(* The requests.  What one has read may be old as it writes, but what it   *)
(* writes is well formed, and an order keeps its year.                     *)
(***************************************************************************)
RequestOK(d, p) ==
  \/ p.op = "idle"
  \/ p.op = "update" /\ p.data \in CustomerData /\ p.row \in Customer /\ HasMain(p.row.phones)
  \/ p.op = "delete"
  \/ /\ p.op = "merge"
     /\ \E n \in Nat \ {0} : DOMAIN p.sources = 1..n /\ \A k \in 1..n : p.sources[k] # p.t
  \/ p.op = "order" /\ WhoOK(p.who) /\ p.order \in NewOrders
  \/ /\ p.op \in {"edit", "move"} /\ WhoOK(p.who)
     /\ p.i \in DOMAIN d.orders /\ p.row \in OrderRow /\ p.row.year = d.orders[p.i].year
     /\ p.op = "edit" => p.data \in OrderData /\ p.who = Chosen(p.row.customer)
     /\ p.op = "move" => p.data = NoData

OrdersStay(d, e) ==
  \A i \in DOMAIN d.orders : i \in DOMAIN e.orders /\ e.orders[i].year = d.orders[i].year

Kept(d, e) == Sound(e) /\ OrdersStay(d, e)

KeptCurrent(d, e) == CurrentBut(d, {}) => CurrentBut(e, {})

LEMMA RequestStays ==
  ASSUME NEW d, NEW e, NEW p, RequestOK(d, p), OrdersStay(d, e) PROVE RequestOK(e, p)
BY DEF RequestOK, OrdersStay

LEMMA ReplacedKeeps ==
  ASSUME NEW rows \in Seq(PhoneRow), HasMain(rows), NEW phone \in Phones
  PROVE  Replaced(rows, phone) \in Seq(PhoneRow) /\ HasMain(Replaced(rows, phone))
<1>1. CASE rows = <<>>
  <2>1. Replaced(rows, phone) = OnePhone(phone)
    BY <1>1, CustomersAssumption DEF Replaced, OnePhone
  <2> QED BY <2>1, OnePhoneIs
<1>2. CASE rows # <<>>
  <2> DEFINE new == [rows EXCEPT ![1].phone = phone]
  <2>1. 1 \in DOMAIN rows BY <1>2
  <2>2. \A i \in DOMAIN rows : rows[i] \in PhoneRow OBVIOUS
  <2>3. \A i \in DOMAIN rows : new[i] = IF i = 1 THEN [rows[1] EXCEPT !.phone = phone] ELSE rows[i]
    OBVIOUS
  <2>4. \A i \in DOMAIN rows : new[i] \in PhoneRow /\ new[i].primary = rows[i].primary
    <3> HIDE DEF new
    <3> QED BY <2>1, <2>2, <2>3 DEF PhoneRow
  <2>5. new \in Seq(PhoneRow)
    <3>1. Len(rows) \in Nat /\ DOMAIN rows = 1..Len(rows) OBVIOUS
    <3>2. DOMAIN new = DOMAIN rows /\ new = [i \in DOMAIN rows |-> new[i]] OBVIOUS
    <3> HIDE DEF new
    <3> QED BY <2>4, <3>1, <3>2
  <2>6. DOMAIN new = DOMAIN rows OBVIOUS
  <2>7. HasMain(new)
    <3> HIDE DEF new
    <3> QED BY <1>2, <2>4, <2>6 DEF HasMain
  <2> QED BY <1>2, <2>5, <2>7 DEF Replaced
<1> QED BY <1>1, <1>2

LEMMA GivenPhones ==
  ASSUME NEW rows \in PhoneLists PROVE rows \in Seq(PhoneRow) /\ HasMain(rows)
<1>1. CASE \E p \in Phones \union {None} : rows = OnePhone(p) BY <1>1, OnePhoneIs
<1>2. CASE \E p \in Phones, q \in Phones : rows = TwoPhones(p, q)
  <2>1. PICK p \in Phones, q \in Phones : rows = TwoPhones(p, q) BY <1>2
  <2> DEFINE a == [phone |-> p, primary |-> TRUE]
             b == [phone |-> q, primary |-> FALSE]
  <2>2. a \in PhoneRow /\ b \in PhoneRow /\ a.primary BY DEF PhoneRow
  <2>3. p # None BY CustomersAssumption
  <2>4. rows = <<a>> \o <<b>> BY <2>1, <2>3 DEF TwoPhones, OnePhone
  <2> HIDE DEF a, b
  <2>5. rows \in Seq(PhoneRow) /\ 1 \in DOMAIN rows /\ rows[1] = a BY <2>2, <2>4
  <2> QED BY <2>2, <2>5 DEF HasMain
<1> QED BY <1>1, <1>2 DEF PhoneLists

LEMMA UpdateKeeps ==
  ASSUME Sound(db), NEW w, RequestOK(db, pending[w]), WriteUpdateCustomer(w)
  PROVE  Kept(db, db') /\ KeptCurrent(db, db') /\ Commits(w, db') /\ db'.library = db.library
<1> DEFINE p == pending[w]
           row == p.row
           rows == IF "phones" \in DOMAIN p.data THEN p.data.phones
                   ELSE IF "phone" \in DOMAIN p.data THEN Replaced(row.phones, p.data.phone)
                   ELSE db.customers[p.c].phones
           main == IF "name" \in DOMAIN p.data \/ rows = <<>> THEN row.phone
                   ELSE PrimaryPhone(rows)
           name == IF "name" \in DOMAIN p.data THEN p.data.name ELSE row.name
           new == [name |-> name, phone |-> main, phones |-> rows]
<1>1. /\ p.op = "update" /\ p.c \in Ids(db)
      /\ Commits(w, [db EXCEPT !.customers[p.c] = new])
  BY DEF WriteUpdateCustomer, Refused
<1>2. p.data \in CustomerData /\ row \in Customer /\ HasMain(row.phones)
  BY <1>1 DEF RequestOK
<1> HIDE DEF p
<1>3. /\ "phones" \in DOMAIN p.data => p.data.phones \in PhoneLists
      /\ "phone" \in DOMAIN p.data => p.data.phone \in Phones
      /\ "name" \in DOMAIN p.data => p.data.name \in Names
  BY <1>2 DEF CustomerData
<1>4. /\ row.name \in CustomerName /\ row.phone \in Phones \union {None}
      /\ row.phones \in Seq(PhoneRow)
  BY <1>2 DEF Customer
<1>5. rows \in Seq(PhoneRow) /\ HasMain(rows)
  <2>1. CASE "phones" \in DOMAIN p.data BY <1>3, <2>1, GivenPhones
  <2>2. CASE "phones" \notin DOMAIN p.data /\ "phone" \in DOMAIN p.data
    <3>1. Replaced(row.phones, p.data.phone) \in Seq(PhoneRow)
          /\ HasMain(Replaced(row.phones, p.data.phone))
      BY <1>2, <1>3, <1>4, <2>2, ReplacedKeeps
    <3> QED BY <2>2, <3>1
  <2>3. CASE "phones" \notin DOMAIN p.data /\ "phone" \notin DOMAIN p.data
    <3>1. db.customers[p.c] \in Customer /\ HasMain(db.customers[p.c].phones)
      BY <1>1 DEF Sound, Peopled
    <3> QED BY <2>3, <3>1 DEF Customer
  <2> QED BY <2>1, <2>2, <2>3
<1> HIDE DEF rows, row
<1>6. main \in Phones \union {None} BY <1>4, <1>5, PrimaryPhoneIs
<1>7. name \in CustomerName BY <1>3, <1>4 DEF CustomerName
<1> HIDE DEF main, name
<1>8. new \in Customer /\ new.phones = rows BY <1>5, <1>6, <1>7 DEF Customer
<1> HIDE DEF new
<1> DEFINE e == [db EXCEPT !.customers[p.c] = new]
<1>9. HasMain(new.phones) BY <1>5, <1>8
<1>10. /\ Sound(e) /\ e.orders = db.orders /\ e.library = db.library
       /\ \A but : CurrentBut(db, but) => CurrentBut(e, but)
  BY <1>1, <1>8, <1>9, RowKeeps
<1>11. db' = e BY <1>1 DEF Commits
<1> HIDE DEF e
<1> QED BY <1>1, <1>10, <1>11 DEF Kept, KeptCurrent, OrdersStay, e

LEMMA DeleteKeeps ==
  ASSUME Sound(db), NEW w, WriteDeleteCustomer(w)
  PROVE  Kept(db, db') /\ KeptCurrent(db, db') /\ Commits(w, db') /\ db'.library = db.library
<1> DEFINE c == pending[w].c
<1>1. OrdersOf(db, c) = {} /\ Commits(w, DeleteCustomerRow(db, c))
  BY DEF WriteDeleteCustomer, Refused
<1>2. db' = DeleteCustomerRow(db, c) BY <1>1 DEF Commits
<1> HIDE DEF c
<1>3. /\ Sound(db') /\ db'.orders = db.orders /\ db'.library = db.library
      /\ \A but : CurrentBut(db, but) => CurrentBut(db', but \ ({c} \X Nat))
  BY <1>1, <1>2, DeleteRowKeeps
<1>4. KeptCurrent(db, db')
  <2>1. {} \ ({c} \X Nat) = {} OBVIOUS
  <2> QED BY <1>3, <2>1 DEF KeptCurrent
<1> QED BY <1>1, <1>2, <1>3, <1>4 DEF Kept, OrdersStay

LEMMA MergeWriteKeeps ==
  ASSUME Sound(db), NEW w, RequestOK(db, pending[w]), WriteMerge(w)
  PROVE  /\ Kept(db, db') /\ KeptCurrent(db, db') /\ Commits(w, db') /\ db'.library = db.library
         /\ HasMain(db'.customers[pending[w].t].phones)
         /\ \A c \in {pending[w].t} \cup Range(pending[w].sources) :
              Reached(db, c) \subseteq PhonesOf(db'.customers[pending[w].t].phones)
<1> DEFINE t == pending[w].t
           sources == pending[w].sources
<1>1. /\ pending[w].op = "merge" /\ t \in Ids(db)
      /\ Commits(w, MergeAll(db, t, sources))
  BY DEF WriteMerge, Refused
<1>2. PICK n \in Nat \ {0} : DOMAIN sources = 1..n /\ \A k \in 1..n : sources[k] # t
  BY <1>1 DEF RequestOK
<1>3. db' = MergeAll(db, t, sources) /\ Commits(w, db') BY <1>1 DEF Commits
<1>4. Range(sources) = {sources[k] : k \in 1..n} BY <1>2 DEF Range
<1> HIDE DEF t, sources
<1>5. n \in Nat /\ n # 0 BY <1>2
<1>6. /\ Sound(db') /\ db'.library = db.library
      /\ DOMAIN db'.orders = DOMAIN db.orders
      /\ \A i \in DOMAIN db'.orders : db'.orders[i].year = db.orders[i].year
      /\ CurrentBut(db, {}) => CurrentBut(db', {})
      /\ HasMain(db'.customers[t].phones)
      /\ n # 0 => \A c \in {t} \cup {sources[k] : k \in 1..n} :
                       Reached(db, c) \subseteq PhonesOf(db'.customers[t].phones)
  BY <1>1, <1>2, <1>3, <1>5, MergesKeep
<1>7. \A c \in {t} \cup Range(sources) : Reached(db, c) \subseteq PhonesOf(db'.customers[t].phones)
  BY <1>4, <1>5, <1>6
<1> QED BY <1>3, <1>6, <1>7 DEF Kept, KeptCurrent, OrdersStay, t, sources

(***************************************************************************)
(* Orders taken                                                            *)
(***************************************************************************)
LEMMA AppendedOrder ==
  ASSUME NEW os \in Seq(OrderRow), NEW order \in OrderRow
  PROVE  /\ Append(os, order) \in Seq(OrderRow)
         /\ Len(os) + 1 \in DOMAIN Append(os, order) /\ Len(os) + 1 \notin DOMAIN os
         /\ DOMAIN Append(os, order) = DOMAIN os \cup {Len(os) + 1}
         /\ \A i \in DOMAIN Append(os, order) : i # Len(os) + 1 => Append(os, order)[i] = os[i]
         /\ Append(os, order)[Len(os) + 1] = order
OBVIOUS

LEMMA NewOrderIs ==
  ASSUME NEW order \in NewOrders, NEW c \in Nat, NEW y \in Nat
  PROVE  LET full == Put(Put(order, "customer", c), "year", y)
         IN  full \in OrderRow /\ full.customer = c /\ full.year = y
<1>1. order \in [door : BOOLEAN, address : Addresses, link : Links \union {None}, total : Totals]
  <2>1. PICK address \in Addresses, link \in Links \union {None}, total \in NewTotals :
          order = [door |-> link # None, address |-> address, link |-> link, total |-> total]
    BY DEF NewOrders
  <2> DEFINE door == link # None
  <2>2. door \in BOOLEAN OBVIOUS
  <2>3. order = [door |-> door, address |-> address, link |-> link, total |-> total] BY <2>1
  <2>4. total \in Totals BY <2>1, CustomersAssumption
  <2> HIDE DEF door
  <2> QED BY <2>2, <2>3, <2>4
<1> DEFINE a == Put(order, "customer", c)
           b == Put(a, "year", y)
<1>2. DOMAIN order = {"door", "address", "link", "total"} BY <1>1
<1>3. /\ DOMAIN a = {"door", "address", "link", "total", "customer"}
      /\ a.customer = c /\ a.door = order.door /\ a.address = order.address
      /\ a.link = order.link /\ a.total = order.total
  BY <1>2 DEF Put
<1> HIDE DEF a
<1>4. b = [f \in {"door", "address", "link", "total", "customer", "year"} |->
             IF f = "year" THEN y ELSE a[f]]
  BY <1>3 DEF Put
<1>5. b \in OrderRow /\ b.customer = c /\ b.year = y BY <1>1, <1>3, <1>4 DEF OrderRow
<1> QED BY <1>5 DEF a

LEMMA CreateOrderKeeps ==
  ASSUME Sound(db), year \in Nat, NEW w, RequestOK(db, pending[w]), WriteCreateOrder(w)
  PROVE  /\ Kept(db, db') /\ KeptCurrent(db, db') /\ Commits(w, db')
         /\ db.library \subseteq db'.library
<1> DEFINE p == pending[w]
           found == WithCustomer(db, p.who)
           c == CustomerOf(found, p.who)
           order == Put(Put(p.order, "customer", c), "year", year)
           created == [found EXCEPT !.orders = Append(@, order)]
           summed == Recompute(created, c, year)
<1>1. /\ p.op = "order" /\ p.who.customer \in Ids(db) \union {NoCustomer}
      /\ Commits(w, UpsertPairs(summed, PairOf(order), c))
  BY DEF WriteCreateOrder, Refused
<1>2. WhoOK(p.who) /\ p.order \in NewOrders BY <1>1 DEF RequestOK
<1> HIDE DEF p
<1>3. /\ Sound(found) /\ found.orders = db.orders /\ found.library = db.library
      /\ c \in Ids(found) /\ (CurrentBut(db, {}) => CurrentBut(found, {}))
  BY <1>1, <1>2, WithCustomerKeeps
<1> HIDE DEF found, c
<1>4. c \in Nat BY <1>3 DEF Sound, Peopled, Shaped
<1>5. order \in OrderRow /\ order.customer = c /\ order.year = year
  BY <1>2, <1>4, NewOrderIs
<1> HIDE DEF order
<1> DEFINE os == Append(found.orders, order)
           j == Len(found.orders) + 1
<1>6. found.orders \in Seq(OrderRow) /\ DOMAIN found = Columns /\ IsFcn(found)
  BY <1>3 DEF Sound, Shaped
<1>7. /\ os \in Seq(OrderRow) /\ j \in DOMAIN os /\ j \notin DOMAIN found.orders
      /\ DOMAIN os = DOMAIN found.orders \cup {j}
      /\ \A i \in DOMAIN os : i # j => os[i] = found.orders[i]
      /\ os[j] = order
  BY <1>5, <1>6, AppendedOrder
<1>8. created = [found EXCEPT !.orders = os] BY <1>6 DEF Columns
<1> HIDE DEF os, j, created
<1>9. os[j].customer \in Ids(found) BY <1>3, <1>5, <1>7
<1>10. /\ Sound(created) /\ created.orders = os /\ created.library = found.library
       /\ created.customers = found.customers
       /\ CurrentBut(found, {})
            => CurrentBut(created, VolumesOf(found, j) \cup VolumesOf(created, j))
  <2>1. Saved(found, os, j, created) BY <1>7, <1>8, <1>9 DEF Saved
  <2> QED BY <1>3, <2>1, OrderSaved
<1>11. VolumesOf(found, j) \cup VolumesOf(created, j) = {<<c, year>>}
  BY <1>5, <1>7, <1>10 DEF VolumesOf
<1>12. c \in Ids(created) BY <1>3, <1>10 DEF Ids
<1>13. /\ Sound(summed) /\ summed.orders = created.orders
       /\ summed.library = created.library /\ summed.customers = created.customers
       /\ \A but : CurrentBut(created, but) => CurrentBut(summed, but \ {<<c, year>>})
  BY <1>10, <1>12, RecomputeKeeps
<1> HIDE DEF summed
<1>14. PairOf(order) \subseteq Pair BY <1>5, PairIs
<1>15. c \in Ids(summed) BY <1>12, <1>13 DEF Ids
<1> DEFINE e == UpsertPairs(summed, PairOf(order), c)
<1>16. /\ Sound(e) /\ Stays(summed, e) /\ e.library = summed.library \cup PairOf(order)
       /\ \A but : CurrentBut(summed, but) => CurrentBut(e, but)
  BY <1>13, <1>14, <1>15, UpsertKeeps
<1>17. db' = e /\ Commits(w, db') BY <1>1 DEF Commits
<1> HIDE DEF e
<1>18. OrdersStay(db, e)
  BY <1>3, <1>7, <1>10, <1>13, <1>16 DEF OrdersStay, Stays
<1>19. KeptCurrent(db, e)
  <2>1. SUFFICES ASSUME CurrentBut(db, {}) PROVE CurrentBut(e, {}) BY DEF KeptCurrent
  <2>2. CurrentBut(created, {<<c, year>>}) BY <1>3, <1>10, <1>11, <2>1
  <2>3. CurrentBut(summed, {<<c, year>>} \ {<<c, year>>}) BY <1>13, <2>2
  <2>4. {<<c, year>>} \ {<<c, year>>} = {} OBVIOUS
  <2>5. CurrentBut(summed, {}) BY <2>3, <2>4
  <2> QED BY <1>16, <2>5
<1>20. db.library \subseteq e.library BY <1>3, <1>10, <1>13, <1>16
<1> QED BY <1>16, <1>17, <1>18, <1>19, <1>20 DEF Kept

(***************************************************************************)
(* Orders changed                                                          *)
(***************************************************************************)
Fields == {"door", "address", "link", "total", "customer", "year"}

LEMMA EditedIs ==
  ASSUME NEW order \in OrderRow, NEW data,
         \/ data \in OrderData
         \/ data = NoData
         \/ \E c \in Nat : data = [customer |-> c]
  PROVE  /\ Edited(order, data) \in OrderRow
         /\ Edited(order, data).year = order.year
         /\ "total" \notin DOMAIN data => Edited(order, data).total = order.total
         /\ Edited(order, data).customer
              = IF "customer" \in DOMAIN data THEN data.customer ELSE order.customer
         /\ \A f \in {"door", "address", "link"} :
              Edited(order, data)[f] = IF f \in DOMAIN data THEN data[f] ELSE order[f]
<1> DEFINE e == Edited(order, data)
<1>1. DOMAIN order = Fields BY DEF OrderRow, Fields
<1>2. e = [f \in Fields |-> IF f \in DOMAIN data THEN data[f] ELSE order[f]]
  BY <1>1 DEF Edited
<1>3. /\ "year" \notin DOMAIN data
      /\ "door" \in DOMAIN data => data.door \in BOOLEAN
      /\ "address" \in DOMAIN data => data.address \in Addresses
      /\ "link" \in DOMAIN data => data.link \in Links \union {None}
      /\ "total" \in DOMAIN data => data.total \in Totals
      /\ "customer" \in DOMAIN data => data.customer \in Nat
  <2>1. CASE data \in OrderData BY <2>1 DEF OrderData
  <2>2. CASE data = NoData BY <2>2 DEF NoData
  <2>3. CASE \E c \in Nat : data = [customer |-> c] BY <2>3
  <2> QED BY <2>1, <2>2, <2>3
<1> HIDE DEF e
<1>4. /\ order.door \in BOOLEAN /\ order.address \in Addresses
      /\ order.link \in Links \union {None} /\ order.total \in Totals
      /\ order.customer \in Nat /\ order.year \in Nat
  BY DEF OrderRow
<1>5. \A f \in Fields : e[f] = IF f \in DOMAIN data THEN data[f] ELSE order[f] BY <1>2
<1>6. /\ e.year = order.year /\ e.door \in BOOLEAN /\ e.address \in Addresses
      /\ e.link \in Links \union {None} /\ e.total \in Totals /\ e.customer \in Nat
  BY <1>3, <1>4, <1>5 DEF Fields
<1>7. e \in OrderRow
  <2>1. e = [door |-> e.door, address |-> e.address, link |-> e.link, total |-> e.total,
             customer |-> e.customer, year |-> e.year]
    BY <1>2 DEF Fields
  <2> QED BY <1>4, <1>6, <2>1 DEF OrderRow
<1>8. /\ "total" \notin DOMAIN data => e.total = order.total
      /\ e.customer = IF "customer" \in DOMAIN data THEN data.customer ELSE order.customer
      /\ \A f \in {"door", "address", "link"} :
           e[f] = IF f \in DOMAIN data THEN data[f] ELSE order[f]
  BY <1>5 DEF Fields
<1> QED BY <1>6, <1>7, <1>8 DEF e

LEMMA BothKeep ==
  ASSUME NEW d, Sound(d), NEW a \in Ids(d), NEW b \in Ids(d), NEW y
  PROVE  /\ Sound(RecomputeBoth(d, a, b, y)) /\ RecomputeBoth(d, a, b, y).orders = d.orders
         /\ RecomputeBoth(d, a, b, y).library = d.library
         /\ RecomputeBoth(d, a, b, y).customers = d.customers
         /\ \A but : CurrentBut(d, but)
              => CurrentBut(RecomputeBoth(d, a, b, y), (but \ {<<a, y>>}) \ {<<b, y>>})
<1> DEFINE e == Recompute(d, a, y)
           f == Recompute(e, b, y)
<1>1. /\ Sound(e) /\ e.orders = d.orders /\ e.library = d.library /\ e.customers = d.customers
      /\ \A but : CurrentBut(d, but) => CurrentBut(e, but \ {<<a, y>>})
  BY RecomputeKeeps
<1> HIDE DEF e
<1>2. b \in Ids(e) BY <1>1 DEF Ids
<1>3. /\ Sound(f) /\ f.orders = e.orders /\ f.library = e.library /\ f.customers = e.customers
      /\ \A but : CurrentBut(e, but) => CurrentBut(f, but \ {<<b, y>>})
  BY <1>1, <1>2, RecomputeKeeps
<1>4. RecomputeBoth(d, a, b, y) = f BY DEF RecomputeBoth, e
<1> HIDE DEF f
<1> QED BY <1>1, <1>3, <1>4

\* A pair that the order as read had, and that it has with the data or its new customer, is
\* one it has as the request writes it.
LEMMA PairStays ==
  ASSUME NEW row \in OrderRow, NEW order \in OrderRow, NEW p, NEW c \in Nat,
         p.op = "edit" => p.data \in OrderData, p.op = "move" => p.data = NoData,
         p.op \in {"edit", "move"},
         NEW x \in PairOf(row), x \in PairOf(Edited(order, Moved(p, c)))
  PROVE  x \in PairOf(Edited(row, p.data))
<1>1. row.door /\ row.link # None /\ x = <<row.address, row.link>> BY DEF PairOf
<1>2. CASE p.op = "move"
  <2> DEFINE e == Edited(row, p.data)
  <2>1. p.data = NoData BY <1>2
  <2>2. \A f \in {"door", "address", "link"} :
          e[f] = IF f \in DOMAIN p.data THEN p.data[f] ELSE row[f]
    BY <2>1, EditedIs
  <2>3. DOMAIN p.data = {} BY <2>1 DEF NoData
  <2> HIDE DEF e
  <2>4. e.door = row.door /\ e.link = row.link /\ e.address = row.address BY <2>2, <2>3
  <2> QED BY <1>1, <2>4 DEF PairOf, e
<1>3. CASE p.op = "edit"
  <2> DEFINE data == p.data
             e == Edited(row, data)
             g == Edited(order, data)
  <2>1. data \in OrderData /\ Moved(p, c) = data BY <1>3 DEF Moved
  <2> HIDE DEF data
  <2>2. /\ \A f \in {"door", "address", "link"} :
             e[f] = IF f \in DOMAIN data THEN data[f] ELSE row[f]
        /\ \A f \in {"door", "address", "link"} :
             g[f] = IF f \in DOMAIN data THEN data[f] ELSE order[f]
    BY <2>1, EditedIs
  <2>3. x \in PairOf(g) BY <2>1
  <2> HIDE DEF e, g
  <2>4. g.door /\ g.link # None /\ x = <<g.address, g.link>> BY <2>3 DEF PairOf
  <2>5. g.address = row.address /\ g.link = row.link BY <1>1, <2>4
  <2>6. (e.door = row.door \/ e.door = g.door) BY <2>2
  <2>7. e.address = row.address /\ e.link = row.link BY <2>2, <2>5
  <2>8. e.door BY <1>1, <2>4, <2>6
  <2> QED BY <1>1, <2>7, <2>8 DEF PairOf, e, data
<1> QED BY <1>2, <1>3

LEMMA ChangedOrder ==
  ASSUME NEW os \in Seq(OrderRow), NEW i \in DOMAIN os, NEW new \in OrderRow
  PROVE  /\ [os EXCEPT ![i] = new] \in Seq(OrderRow)
         /\ DOMAIN [os EXCEPT ![i] = new] = DOMAIN os
         /\ \A j \in DOMAIN os : [os EXCEPT ![i] = new][j] = IF j = i THEN new ELSE os[j]
OBVIOUS

\* What WriteEditOrder writes of the order alone, and what it computes anew.
EditedIn(d, p, c) == [d EXCEPT !.orders[p.i] = Edited(@, Moved(p, c))]

Resummed(d, p, c) ==
  IF Touches(p) THEN RecomputeBoth(d, p.row.customer, c, p.row.year) ELSE d

LEMMA EditWrites ==
  ASSUME NEW w, WriteEditOrder(w)
  PROVE  LET p == pending[w]
             found == WithCustomer(db, p.who)
             c == CustomerOf(found, p.who)
         IN  /\ p.op \in {"edit", "move"} /\ ~Refused(db, p)
             /\ \/ db.orders[p.i].customer = p.row.customer
                \/ "two_edits" \in Practices
                \/ p.row.customer \notin Ids(db)
             /\ Commits(w, SyncOnEdit(Resummed(EditedIn(found, p, c), p, c), p.i, p.row,
                                      Edited(p.row, p.data), c))
BY DEF WriteEditOrder, Resummed, EditedIn

\* With found, the order changed and its volumes computed anew.
LEMMA EditSums ==
  ASSUME NEW d, Sound(d), NEW p, NEW c \in Ids(d),
         p.op \in {"edit", "move"}, RequestOK(d, p), Touches(p) => p.row.customer \in Ids(d)
  PROVE  /\ Sound(Resummed(EditedIn(d, p, c), p, c))
         /\ Resummed(EditedIn(d, p, c), p, c).library = d.library
         /\ Ids(Resummed(EditedIn(d, p, c), p, c)) = Ids(d)
         /\ DOMAIN Resummed(EditedIn(d, p, c), p, c).orders = DOMAIN d.orders
         /\ OrdersStay(d, Resummed(EditedIn(d, p, c), p, c))
         /\ Resummed(EditedIn(d, p, c), p, c).orders[p.i] = Edited(d.orders[p.i], Moved(p, c))
         /\ (/\ Touches(p) => d.orders[p.i].customer = p.row.customer
             /\ Touches(p) /\ p.op = "edit" => c = p.row.customer
             /\ CurrentBut(d, {}))
              => CurrentBut(Resummed(EditedIn(d, p, c), p, c), {})
<1> DEFINE i == p.i
           old == d.orders[i]
           data == Moved(p, c)
           new == Edited(old, data)
           os == [d.orders EXCEPT ![i] = new]
           e == EditedIn(d, p, c)
           r == Resummed(e, p, c)
           y == p.row.year
<1>1. /\ WhoOK(p.who) /\ i \in DOMAIN d.orders /\ p.row \in OrderRow /\ y = old.year
      /\ p.op = "edit" => p.data \in OrderData /\ p.who = Chosen(p.row.customer)
      /\ p.op = "move" => p.data = NoData
  BY DEF RequestOK
<1>2. d.orders \in Seq(OrderRow) /\ DOMAIN d = Columns /\ IsFcn(d) BY DEF Sound, Shaped
<1>3. old \in OrderRow /\ old.customer \in Ids(d) BY <1>1, <1>2 DEF Sound, Refers
<1>4. c \in Nat BY DEF Sound, Peopled, Shaped
<1>5. data = IF p.op = "move" THEN [customer |-> c] ELSE p.data BY DEF Moved
<1>6. data \in OrderData \/ \E x \in Nat : data = [customer |-> x] BY <1>1, <1>4, <1>5
<1>7. DOMAIN [customer |-> c] = {"customer"} /\ [customer |-> c].customer = c OBVIOUS
<1>8. data \in OrderData => "customer" \notin DOMAIN data BY DEF OrderData
<1>9. Touches(p) <=> (p.op = "move" \/ "total" \in DOMAIN data)
  BY <1>5, <1>7 DEF Touches
<1> HIDE DEF data, old, i, y
<1>10. /\ new \in OrderRow /\ new.year = old.year
       /\ "total" \notin DOMAIN data => new.total = old.total
       /\ new.customer = IF "customer" \in DOMAIN data THEN data.customer ELSE old.customer
  BY <1>3, <1>6, EditedIs
<1> HIDE DEF new
<1>11. new.customer = IF p.op = "move" THEN c ELSE old.customer
  BY <1>1, <1>5, <1>7, <1>8, <1>10
<1>12. /\ os \in Seq(OrderRow) /\ DOMAIN os = DOMAIN d.orders
       /\ \A j \in DOMAIN d.orders : os[j] = IF j = i THEN new ELSE d.orders[j]
  BY <1>1, <1>2, <1>10, ChangedOrder
<1>13. e = [d EXCEPT !.orders = os]
  BY <1>2 DEF EditedIn, new, data, i, old, Columns
<1> HIDE DEF os, e
<1>14. new.customer \in Ids(d) BY <1>3, <1>11
<1>15. Saved(d, os, i, e) BY <1>1, <1>12, <1>13, <1>14 DEF Saved
<1>16. /\ Sound(e) /\ e.orders = os /\ e.library = d.library /\ e.customers = d.customers
       /\ CurrentBut(d, {}) => CurrentBut(e, VolumesOf(d, i) \cup VolumesOf(e, i))
       /\ (/\ CurrentBut(d, {}) /\ i \in DOMAIN d.orders
           /\ os[i].total = d.orders[i].total /\ os[i].customer = d.orders[i].customer
           /\ os[i].year = d.orders[i].year)
            => CurrentBut(e, {})
  BY <1>15, OrderSaved
<1>17. Ids(e) = Ids(d) BY <1>16 DEF Ids
<1>18. Touches(p) => r = RecomputeBoth(e, p.row.customer, c, y) BY DEF Resummed, y
<1>19. ~Touches(p) => r = e BY DEF Resummed
<1> HIDE DEF r
<1>20. /\ Sound(r) /\ r.orders = os /\ r.library = d.library /\ r.customers = d.customers
       /\ Touches(p) => \A but : CurrentBut(e, but)
            => CurrentBut(r, (but \ {<<p.row.customer, y>>}) \ {<<c, y>>})
  <2>1. CASE Touches(p) BY <1>16, <1>17, <1>18, <2>1, BothKeep
  <2>2. CASE ~Touches(p) BY <1>16, <1>19, <2>2
  <2> QED BY <2>1, <2>2
<1>21. ASSUME /\ Touches(p) => old.customer = p.row.customer
              /\ Touches(p) /\ p.op = "edit" => c = p.row.customer
              /\ CurrentBut(d, {})
       PROVE  CurrentBut(r, {})
  <2>1. CASE Touches(p)
    <3>1. VolumesOf(d, i) = {<<p.row.customer, y>>} BY <1>1, <1>21, <2>1 DEF VolumesOf, old
    <3>2. e.orders[i] = new BY <1>1, <1>12, <1>16
    <3>3. VolumesOf(e, i) = {<<c, y>>}
      <4>1. new.customer = c BY <1>11, <1>21, <2>1
      <4>2. i \in DOMAIN e.orders BY <1>1, <1>12, <1>16
      <4> QED BY <1>1, <1>10, <3>2, <4>1, <4>2 DEF VolumesOf
    <3>4. CurrentBut(e, {<<p.row.customer, y>>} \cup {<<c, y>>}) BY <1>16, <1>21, <3>1, <3>3
    <3> DEFINE but == {<<p.row.customer, y>>} \cup {<<c, y>>}
    <3>5. (but \ {<<p.row.customer, y>>}) \ {<<c, y>>} = {} OBVIOUS
    <3> HIDE DEF but
    <3>6. CurrentBut(e, but) BY <3>4 DEF but
    <3>7. CurrentBut(r, (but \ {<<p.row.customer, y>>}) \ {<<c, y>>}) BY <1>20, <2>1, <3>6
    <3> QED BY <3>5, <3>7
  <2>2. CASE ~Touches(p)
    <3>1. "total" \notin DOMAIN data /\ p.op # "move" BY <1>9, <2>2
    <3>2. os[i] = new BY <1>1, <1>12
    <3>3. os[i].total = d.orders[i].total /\ os[i].customer = d.orders[i].customer
          /\ os[i].year = d.orders[i].year
      BY <1>10, <1>11, <3>1, <3>2 DEF old
    <3> QED BY <1>1, <1>16, <1>19, <1>21, <2>2, <3>3
  <2> QED BY <2>1, <2>2
<1>22. OrdersStay(d, r)
  BY <1>10, <1>12, <1>20 DEF OrdersStay, old
<1>23. r.orders[p.i] = Edited(d.orders[p.i], Moved(p, c))
  BY <1>1, <1>12, <1>20 DEF new, old, data, i
<1>24. Ids(r) = Ids(d) BY <1>20 DEF Ids
<1> QED BY <1>12, <1>20, <1>21, <1>22, <1>23, <1>24 DEF r, e, old, i

LEMMA EditKeeps ==
  ASSUME Sound(db), NEW w, RequestOK(db, pending[w]), WriteEditOrder(w)
  PROVE  /\ Kept(db, db') /\ Commits(w, db')
         /\ "two_edits" \notin Practices => KeptCurrent(db, db')
         /\ db.library \intersect UsedPairs(db') \subseteq db'.library
<1> DEFINE p == pending[w]
           found == WithCustomer(db, p.who)
           c == CustomerOf(found, p.who)
           r == Resummed(EditedIn(found, p, c), p, c)
           new == Edited(p.row, p.data)
           e == SyncOnEdit(r, p.i, p.row, new, c)
<1>1. /\ p.op \in {"edit", "move"} /\ ~Refused(db, p)
      /\ \/ db.orders[p.i].customer = p.row.customer
         \/ "two_edits" \in Practices
         \/ p.row.customer \notin Ids(db)
      /\ Commits(w, e)
  BY EditWrites
<1>2. RequestOK(db, p) OBVIOUS
<1> HIDE DEF p
<1>3. /\ WhoOK(p.who) /\ p.i \in DOMAIN db.orders /\ p.row \in OrderRow
      /\ p.op = "edit" => p.data \in OrderData /\ p.who = Chosen(p.row.customer)
      /\ p.op = "move" => p.data = NoData
  BY <1>1, <1>2 DEF RequestOK
<1>4. /\ p.who.customer \in Ids(db) \union {NoCustomer}
      /\ Touches(p) => p.row.customer \in Ids(db)
  BY <1>1 DEF Refused
<1>5. /\ Sound(found) /\ found.orders = db.orders /\ found.library = db.library
      /\ Ids(db) \subseteq Ids(found) /\ c \in Ids(found)
      /\ p.who.customer # NoCustomer => c = p.who.customer
      /\ CurrentBut(db, {}) => CurrentBut(found, {})
  BY <1>3, <1>4, WithCustomerKeeps
<1> HIDE DEF found, c
<1>6. RequestOK(found, p)
  <2>1. OrdersStay(db, found) BY <1>5 DEF OrdersStay
  <2> QED BY <1>2, <2>1, RequestStays
<1>7. Touches(p) => p.row.customer \in Ids(found) BY <1>4, <1>5
<1>8. /\ Sound(r) /\ r.library = found.library /\ Ids(r) = Ids(found)
      /\ DOMAIN r.orders = DOMAIN found.orders /\ OrdersStay(found, r)
      /\ r.orders[p.i] = Edited(found.orders[p.i], Moved(p, c))
      /\ (/\ Touches(p) => found.orders[p.i].customer = p.row.customer
          /\ Touches(p) /\ p.op = "edit" => c = p.row.customer
          /\ CurrentBut(found, {}))
           => CurrentBut(r, {})
  BY <1>1, <1>5, <1>6, <1>7, EditSums
<1> HIDE DEF r
<1>9. new \in OrderRow BY <1>1, <1>3, EditedIs
<1> HIDE DEF new
<1>10. /\ Sound(e) /\ Stays(r, e)
       /\ e.library = (r.library \ ((PairOf(p.row) \ PairOf(new)) \ UsedByOthers(r, p.i)))
                        \cup PairOf(new)
       /\ \A but : CurrentBut(r, but) => CurrentBut(e, but)
  BY <1>5, <1>8, <1>9, SyncOnEditKeeps
<1> HIDE DEF e
<1>11. db' = e /\ Commits(w, db') BY <1>1 DEF Commits
<1>12. Kept(db, e) BY <1>5, <1>8, <1>10 DEF Kept, OrdersStay, Stays
<1>13. ASSUME "two_edits" \notin Practices, CurrentBut(db, {}) PROVE CurrentBut(e, {})
  <2>1. Touches(p) => found.orders[p.i].customer = p.row.customer
    BY <1>1, <1>4, <1>5, <1>13
  <2>2. ASSUME Touches(p), p.op = "edit" PROVE c = p.row.customer
    <3>1. p.who.customer = p.row.customer BY <1>3, <2>2 DEF Chosen
    <3>2. p.row.customer # NoCustomer BY <1>4, <2>2 DEF Sound, Peopled, NoCustomer
    <3> QED BY <1>5, <3>1, <3>2
  <2>3. CurrentBut(r, {}) BY <1>5, <1>8, <1>13, <2>1, <2>2
  <2> QED BY <1>10, <2>3
<1>14. ASSUME NEW x \in db.library, x \in UsedPairs(e) PROVE x \in e.library
  <2>1. SUFFICES ASSUME x \in PairOf(p.row), x \notin PairOf(new), x \notin UsedByOthers(r, p.i)
                 PROVE  FALSE
    BY <1>5, <1>8, <1>10
  <2>2. e.orders = r.orders BY <1>10 DEF Stays
  <2>3. PICK j \in DOMAIN r.orders : x \in PairOf(r.orders[j])
    BY <1>14, <2>2 DEF UsedPairs
  <2>4. j = p.i BY <2>1, <2>3 DEF UsedByOthers
  <2>5. x \in PairOf(Edited(db.orders[p.i], Moved(p, c))) BY <1>5, <1>8, <2>3, <2>4
  <2>6. db.orders[p.i] \in OrderRow BY <1>3 DEF Sound, Shaped
  <2>7. c \in Nat BY <1>5 DEF Sound, Peopled, Shaped
  <2>8. x \in PairOf(new) BY <1>1, <1>3, <2>1, <2>5, <2>6, <2>7, PairStays DEF new
  <2> QED BY <2>1, <2>8
<1> QED BY <1>11, <1>12, <1>13, <1>14 DEF KeptCurrent

-----------------------------------------------------------------------------
(***************************************************************************)
(* The invariant: sound rows, and requests that have read such.            *)
(***************************************************************************)
RequestsOK(d) ==
  /\ pending = [w \in Workers |-> pending[w]]
  /\ \A w \in Workers : RequestOK(d, pending[w])

IInv == Sound(db) /\ year \in Nat /\ RequestsOK(db)

LEMMA RequestsStay ==
  ASSUME RequestsOK(db), OrdersStay(db, db'), NEW w \in Workers, NEW request,
         RequestOK(db', request), pending' = [pending EXCEPT ![w] = request]
  PROVE  RequestsOK(db)'
<1>1. pending' = [v \in Workers |-> pending'[v]] BY DEF RequestsOK
<1>2. ASSUME NEW v \in Workers PROVE RequestOK(db', pending'[v])
  <2>1. RequestOK(db, pending[v]) BY DEF RequestsOK
  <2>2. RequestOK(db', pending[v]) BY <2>1, RequestStays
  <2>3. pending'[v] = IF v = w THEN request ELSE pending[v] BY DEF RequestsOK
  <2> QED BY <2>2, <2>3
<1> QED BY <1>1, <1>2 DEF RequestsOK

LEMMA RequestsUnchanged ==
  ASSUME RequestsOK(db), OrdersStay(db, db'), pending' = pending
  PROVE  RequestsOK(db)'
<1>1. ASSUME NEW v \in Workers PROVE RequestOK(db', pending[v])
  <2>1. RequestOK(db, pending[v]) BY DEF RequestsOK
  <2> QED BY <2>1, RequestStays
<1> QED BY <1>1 DEF RequestsOK

LEMMA WhoIsOK == ASSUME Sound(db), NEW who \in Requested PROVE WhoOK(who)
BY DEF Requested, WhoOK, Chosen, Resolved

LEMMA SourcesOK ==
  ASSUME NEW t, NEW sources \in SourceLists, Range(sources) \subseteq Ids(db) \ {t}
  PROVE  \E n \in Nat \ {0} : DOMAIN sources = 1..n /\ \A k \in 1..n : sources[k] # t
<1>1. \E n \in {1, 2} : DOMAIN sources = 1..n BY DEF SourceLists
<1>2. \A k \in DOMAIN sources : sources[k] # t BY DEF Range
<1> QED BY <1>1, <1>2

LEMMA ReadCustomersKeeps ==
  ASSUME IInv, NEW w \in Workers, ReadCustomers(w)
  PROVE  IInv' /\ db' = db
<1>1. PICK c \in Ids(db) :
        \/ \E data \in CustomerData : ReadUpdateCustomer(w, c, data)
        \/ ReadDeleteCustomer(w, c)
        \/ \E sources \in SourceLists : ReadMerge(w, c, sources)
  BY DEF ReadCustomers
<1>2. ASSUME NEW request, Starts(w, request), RequestOK(db, request) PROVE IInv' /\ db' = db
  <2>1. /\ db' = db /\ year' = year /\ pending' = [pending EXCEPT ![w] = request]
    BY <1>2 DEF Starts
  <2>2. OrdersStay(db, db') BY <2>1 DEF OrdersStay
  <2>3. RequestsOK(db) BY DEF IInv
  <2>4. RequestOK(db', request) BY <1>2, <2>1
  <2>5. RequestsOK(db)' BY <2>1, <2>2, <2>3, <2>4, RequestsStay
  <2> QED BY <2>1, <2>5 DEF IInv
<1>3. ASSUME NEW data \in CustomerData, ReadUpdateCustomer(w, c, data) PROVE IInv' /\ db' = db
  <2> DEFINE x == db.customers[c]
             row == [x EXCEPT !.phones = PrimaryFirst(@)]
             request == [op |-> "update", c |-> c, data |-> data, row |-> row]
  <2>1. x \in Customer /\ HasMain(x.phones) BY DEF IInv, Sound, Peopled
  <2>2. Starts(w, request) BY <1>3 DEF ReadUpdateCustomer
  <2> HIDE DEF x
  <2>3. x.phones \in Seq(PhoneRow) BY <2>1 DEF Customer
  <2>4. PrimaryFirst(x.phones) \in Seq(PhoneRow) BY <2>3, PrimaryFirstKeeps
  <2>5. HasMain(PrimaryFirst(x.phones)) BY <2>1, <2>3, FirstStaysMain
  <2>6. row \in Customer /\ row.phones = PrimaryFirst(x.phones)
    BY <2>1, <2>4 DEF Customer
  <2> HIDE DEF row
  <2>7. RequestOK(db, request) BY <2>5, <2>6 DEF RequestOK
  <2> QED BY <1>2, <2>2, <2>7
<1>4. ASSUME ReadDeleteCustomer(w, c) PROVE IInv' /\ db' = db
  <2> DEFINE request == [op |-> "delete", c |-> c]
  <2>1. Starts(w, request) BY <1>4 DEF ReadDeleteCustomer
  <2>2. RequestOK(db, request) BY DEF RequestOK
  <2> HIDE DEF request
  <2> QED BY <1>2, <2>1, <2>2
<1>5. ASSUME NEW sources \in SourceLists, ReadMerge(w, c, sources) PROVE IInv' /\ db' = db
  <2> DEFINE request == [op |-> "merge", t |-> c, sources |-> sources]
  <2>1. Starts(w, request) /\ Range(sources) \subseteq Ids(db) \ {c} BY <1>5 DEF ReadMerge
  <2>2. \E n \in Nat \ {0} : DOMAIN sources = 1..n /\ \A k \in 1..n : sources[k] # c
    BY <2>1, SourcesOK
  <2>3. RequestOK(db, request) BY <2>2 DEF RequestOK
  <2> HIDE DEF request
  <2> QED BY <1>2, <2>1, <2>3
<1> QED BY <1>1, <1>3, <1>4, <1>5

LEMMA ReadOrdersKeeps ==
  ASSUME IInv, NEW w \in Workers, ReadOrders(w)
  PROVE  IInv' /\ db' = db
<1>1. ASSUME NEW request, Starts(w, request), RequestOK(db, request) PROVE IInv' /\ db' = db
  <2>1. /\ db' = db /\ year' = year /\ pending' = [pending EXCEPT ![w] = request]
    BY <1>1 DEF Starts
  <2>2. OrdersStay(db, db') BY <2>1 DEF OrdersStay
  <2>3. RequestsOK(db) BY DEF IInv
  <2>4. RequestOK(db', request) BY <1>1, <2>1
  <2>5. RequestsOK(db)' BY <2>1, <2>2, <2>3, <2>4, RequestsStay
  <2> QED BY <2>1, <2>5 DEF IInv
<1>2. \A i \in DOMAIN db.orders : db.orders[i] \in OrderRow BY DEF IInv, Sound, Shaped
<1>3. ASSUME NEW who \in Requested, NEW order \in NewOrders, ReadCreateOrder(w, who, order)
      PROVE  IInv' /\ db' = db
  <2> DEFINE request == [op |-> "order", who |-> who, order |-> order]
  <2>1. Starts(w, request) BY <1>3 DEF ReadCreateOrder
  <2>2. WhoOK(who) BY WhoIsOK DEF IInv
  <2>3. RequestOK(db, request) BY <2>2 DEF RequestOK
  <2> HIDE DEF request
  <2> QED BY <1>1, <2>1, <2>3
<1>4. ASSUME NEW who \in Requested, NEW i \in DOMAIN db.orders, ReadMoveOrder(w, i, who)
      PROVE  IInv' /\ db' = db
  <2> DEFINE request == [op |-> "move", i |-> i, data |-> NoData, row |-> db.orders[i],
                         who |-> who]
  <2>1. Starts(w, request) BY <1>4 DEF ReadMoveOrder
  <2>2. WhoOK(who) BY WhoIsOK DEF IInv
  <2>3. RequestOK(db, request) BY <1>2, <2>2 DEF RequestOK
  <2> HIDE DEF request
  <2> QED BY <1>1, <2>1, <2>3
<1>5. ASSUME NEW i \in DOMAIN db.orders, NEW data \in OrderData, ReadEditOrder(w, i, data)
      PROVE  IInv' /\ db' = db
  <2> DEFINE who == Chosen(db.orders[i].customer)
             request == [op |-> "edit", i |-> i, data |-> data, row |-> db.orders[i],
                         who |-> who]
  <2>1. Starts(w, request) BY <1>5 DEF ReadEditOrder
  <2>2. WhoOK(who) BY DEF WhoOK, Chosen
  <2>3. RequestOK(db, request) BY <1>2, <2>2 DEF RequestOK
  <2> HIDE DEF request
  <2> QED BY <1>1, <2>1, <2>3
<1> QED BY <1>3, <1>4, <1>5 DEF ReadOrders

\* A write or what undoes it keeps the rows sound, whatever the requests had read.
LEMMA WriteKeeps ==
  ASSUME IInv, NEW w \in Workers, Write(w) \/ Undo(w)
  PROVE  /\ IInv' /\ Commits(w, db')
         /\ "two_edits" \notin Practices => KeptCurrent(db, db')
<1>1. Sound(db) /\ RequestOK(db, pending[w]) /\ RequestsOK(db) /\ year \in Nat
  BY DEF IInv, RequestsOK
<1>2. /\ Kept(db, db') /\ Commits(w, db')
      /\ "two_edits" \notin Practices => KeptCurrent(db, db')
  <2>1. CASE WriteUpdateCustomer(w) BY <1>1, <2>1, UpdateKeeps
  <2>2. CASE WriteDeleteCustomer(w) BY <1>1, <2>2, DeleteKeeps
  <2>3. CASE WriteMerge(w) BY <1>1, <2>3, MergeWriteKeeps
  <2>4. CASE WriteCreateOrder(w) BY <1>1, <2>4, CreateOrderKeeps
  <2>5. CASE WriteEditOrder(w) BY <1>1, <2>5, EditKeeps
  <2>6. CASE Undo(w)
    <3>1. db' = db /\ Commits(w, db') BY <2>6 DEF Undo, Commits
    <3> QED BY <1>1, <3>1 DEF Kept, KeptCurrent, OrdersStay
  <2> QED BY <2>1, <2>2, <2>3, <2>4, <2>5, <2>6 DEF Write
<1>3. OrdersStay(db, db') /\ Sound(db') BY <1>2 DEF Kept
<1>4. pending' = [pending EXCEPT ![w] = Idle] /\ year' = year BY <1>2 DEF Commits
<1>5. RequestOK(db', Idle) BY DEF RequestOK, Idle
<1>6. RequestsOK(db)' BY <1>1, <1>3, <1>4, <1>5, RequestsStay
<1> QED BY <1>1, <1>2, <1>3, <1>4, <1>6 DEF IInv

LEMMA CreateCustomerKeeps ==
  ASSUME IInv, NEW name \in Names, NEW rows \in PhoneLists, NEW phone \in Phones,
         CreateCustomer(name, phone, rows)
  PROVE  Kept(db, db') /\ KeptCurrent(db, db') /\ db'.library = db.library
<1> DEFINE main == IF rows = <<>> THEN phone ELSE PrimaryPhone(rows)
<1>1. db' = SaveCustomer(db, name, main, rows) BY DEF CreateCustomer
<1>2. rows \in Seq(PhoneRow) /\ HasMain(rows) BY GivenPhones
<1>3. main \in Phones \union {None} BY <1>2, PrimaryPhoneIs
<1> HIDE DEF main
<1>4. name \in CustomerName /\ Sound(db) BY DEF CustomerName, IInv
<1>5. /\ Sound(db') /\ db'.orders = db.orders /\ db'.library = db.library
      /\ \A but : CurrentBut(db, but) => CurrentBut(db', but)
  BY <1>1, <1>2, <1>3, <1>4, SaveCustomerKeeps
<1> QED BY <1>5 DEF Kept, KeptCurrent, OrdersStay

LEMMA LibraryKeeps ==
  ASSUME IInv, NEW pair \in Pair, CreateEntry(pair) \/ DeleteEntry(pair)
  PROVE  Kept(db, db') /\ KeptCurrent(db, db')
<1>1. Sound(db) /\ DOMAIN db = Columns /\ IsFcn(db) BY DEF IInv, Sound, Shaped
<1>2. CASE CreateEntry(pair)
  <2>1. db' = [db EXCEPT !.library = @ \union {pair}] BY <1>2 DEF CreateEntry, Serves
  <2>2. Stays(db, db') /\ db'.library = db.library \cup {pair} /\ db'.links = db.links
    BY <1>1, <2>1 DEF Stays, Columns, IsFcn
  <2>3. db'.library \subseteq Pair /\ db'.links \subseteq Ids(db) \X db'.library
    BY <1>1, <2>2 DEF Sound, Refers
  <2>4. Sound(db') /\ \A but : CurrentBut(db, but) => CurrentBut(db', but)
    BY <1>1, <2>2, <2>3, StaysSound
  <2> QED BY <2>2, <2>4 DEF Kept, KeptCurrent, OrdersStay, Stays
<1>3. CASE DeleteEntry(pair)
  <2>1. db' = DeletePairs(db, {pair}) BY <1>3 DEF DeleteEntry, Serves
  <2>2. /\ Sound(db') /\ Stays(db, db')
        /\ \A but : CurrentBut(db, but) => CurrentBut(db', but)
    BY <1>1, <2>1, DeletePairsKeep
  <2> QED BY <2>2 DEF Kept, KeptCurrent, OrdersStay, Stays
<1> QED BY <1>2, <1>3

\* The volume is marked as stale, and counts the orders as before.
LEMMA ItemsKeep ==
  ASSUME IInv, NEW i \in DOMAIN db.orders, NEW total \in Totals, EditItems(i, total)
  PROVE  Kept(db, db') /\ KeptCurrent(db, db')
<1> DEFINE d == db
           e == db'
           order == d.orders[i]
           new == [order EXCEPT !.total = total]
           os == [d.orders EXCEPT ![i] = new]
           k == <<order.customer, order.year>>
<1>1. /\ Sound(d) /\ Shaped(d) /\ DOMAIN d = Columns /\ IsFcn(d)
      /\ d.orders \in Seq(OrderRow) /\ order \in OrderRow
  BY DEF IInv, Sound, Shaped
<1>2. e = [d EXCEPT !.orders[i].total = total, !.stale = @ \union {k}]
  BY DEF EditItems, Serves
<1>3. new \in OrderRow /\ new.customer = order.customer /\ new.year = order.year
  BY <1>1 DEF OrderRow
<1> HIDE DEF new
<1>4. /\ os \in Seq(OrderRow) /\ DOMAIN os = DOMAIN d.orders
      /\ \A j \in DOMAIN d.orders : os[j] = IF j = i THEN new ELSE d.orders[j]
  BY <1>1, <1>3, ChangedOrder
<1>5. e = [d EXCEPT !.orders = os, !.stale = @ \union {k}] BY <1>2 DEF new
<1> HIDE DEF os, e
<1>6. /\ e.orders = os /\ e.customers = d.customers /\ e.lastCustomer = d.lastCustomer
      /\ e.summary = d.summary /\ e.library = d.library /\ e.links = d.links
      /\ e.stale = d.stale \cup {k} /\ DOMAIN e = Columns /\ IsFcn(e)
  BY <1>1, <1>5 DEF Columns, IsFcn
<1>7. \A j \in DOMAIN os : /\ os[j].customer = d.orders[j].customer
                           /\ os[j].year = d.orders[j].year
                           /\ j # i => os[j] = d.orders[j]
  BY <1>3, <1>4
<1>8. Sound(e)
  <2>1. \A j \in DOMAIN os : os[j].customer \in Ids(d)
    BY <1>1, <1>4, <1>7 DEF Sound, Refers
  <2> QED BY <1>1, <1>4, <1>6, <2>1 DEF Sound, Shaped, Peopled, Refers, Ids
<1>9. \A c, y : OrdersIn(e, c, y) = OrdersIn(d, c, y)
  BY <1>4, <1>6, <1>7 DEF OrdersIn, OrdersOf
<1>10. ASSUME CurrentBut(d, {}) PROVE CurrentBut(e, {})
  <2>1. SUFFICES ASSUME NEW c \in Ids(e), NEW y \in Nat PROVE Agrees(e, c, y)
    BY DEF CurrentBut
  <2>2. Agrees(d, c, y) BY <1>6, <1>10 DEF CurrentBut, Ids
  <2>3. SummaryOf(e, c, y) = SummaryOf(d, c, y) BY <1>6 DEF SummaryOf
  <2>4. CASE <<c, y>> = k
    <3>1. Volume(e, c, y).count = Volume(d, c, y).count BY <1>9 DEF Volume
    <3> QED BY <1>6, <2>2, <2>3, <2>4, <3>1 DEF Agrees
  <2>5. CASE <<c, y>> # k
    <3>1. i \notin OrdersIn(d, c, y) BY <2>5 DEF OrdersIn, OrdersOf
    <3>2. SameVolume(d, e, c, y)
      BY <1>4, <1>6, <1>7, <1>9, <3>1 DEF SameVolume, OrdersIn, OrdersOf
    <3>3. SameSummary(d, e, c, y) BY <1>6, <2>3 DEF SameSummary
    <3> QED BY <1>1, <2>2, <3>2, <3>3, AgreesStill
  <2> QED BY <2>4, <2>5
<1>11. OrdersStay(d, e) BY <1>4, <1>6, <1>7 DEF OrdersStay
<1> QED BY <1>8, <1>10, <1>11 DEF Kept, KeptCurrent, e

\* What the steps of no request's write leave.
LEMMA OtherKeeps ==
  ASSUME IInv, Kept(db, db'), KeptCurrent(db, db'), pending' = pending, year' = year
  PROVE  IInv' /\ KeptCurrent(db, db')
<1>1. RequestsOK(db)' BY RequestsUnchanged DEF IInv, Kept
<1> QED BY <1>1 DEF IInv, Kept

LEMMA StepKeeps ==
  ASSUME IInv, [Next]_vars
  PROVE  IInv' /\ ("two_edits" \notin Practices => KeptCurrent(db, db'))
<1>1. ASSUME NEW w \in Workers, ReadCustomers(w) \/ ReadOrders(w)
      PROVE  IInv' /\ KeptCurrent(db, db')
  BY <1>1, ReadCustomersKeeps, ReadOrdersKeeps DEF KeptCurrent
<1>2. ASSUME NEW w \in Workers, Write(w) \/ Undo(w)
      PROVE  IInv' /\ ("two_edits" \notin Practices => KeptCurrent(db, db'))
  BY <1>2, WriteKeeps
<1>3. ASSUME NEW name \in Names, NEW rows \in PhoneLists, NEW phone \in Phones,
             CreateCustomer(name, phone, rows)
      PROVE  IInv' /\ KeptCurrent(db, db')
  <2>1. pending' = pending /\ year' = year BY <1>3 DEF CreateCustomer
  <2> QED BY <1>3, <2>1, CreateCustomerKeeps, OtherKeeps
<1>4. ASSUME NEW pair \in Pair, CreateEntry(pair) \/ DeleteEntry(pair)
      PROVE  IInv' /\ KeptCurrent(db, db')
  <2>1. pending' = pending /\ year' = year BY <1>4 DEF CreateEntry, DeleteEntry, Serves
  <2>2. Kept(db, db') /\ KeptCurrent(db, db') BY <1>4, LibraryKeeps
  <2> QED BY <2>1, <2>2, OtherKeeps
<1>7. ASSUME NEW i \in DOMAIN db.orders, NEW total \in Totals, EditItems(i, total)
      PROVE  IInv' /\ KeptCurrent(db, db')
  <2>1. pending' = pending /\ year' = year BY <1>7 DEF EditItems, Serves
  <2>2. Kept(db, db') /\ KeptCurrent(db, db') BY <1>7, ItemsKeep
  <2> QED BY <2>1, <2>2, OtherKeeps
<1>5. CASE NewYear
  <2>1. db' = db /\ pending' = pending /\ year' = year + 1 BY <1>5 DEF NewYear
  <2>2. OrdersStay(db, db') BY <2>1 DEF OrdersStay
  <2>3. RequestsOK(db)' BY <2>1, <2>2, RequestsUnchanged DEF IInv
  <2> QED BY <2>1, <2>3 DEF IInv, KeptCurrent
<1>6. CASE UNCHANGED vars
  <2>1. db' = db /\ pending' = pending /\ year' = year BY <1>6 DEF vars
  <2>2. OrdersStay(db, db') BY <2>1 DEF OrdersStay
  <2>3. RequestsOK(db)' BY <2>1, <2>2, RequestsUnchanged DEF IInv
  <2> QED BY <2>1, <2>3 DEF IInv, KeptCurrent
<1> QED BY <1>1, <1>2, <1>3, <1>4, <1>5, <1>6, <1>7 DEF Next

LEMMA StartsWell == ASSUME Init PROVE IInv /\ CurrentBut(db, {})
<1>1. /\ DOMAIN db = Columns /\ IsFcn(db) /\ db.customers = <<>> /\ db.lastCustomer = 0
      /\ db.orders = <<>> /\ db.summary = <<>> /\ db.library = {} /\ db.links = {}
      /\ db.stale = {}
      /\ year = 1 /\ pending = [w \in Workers |-> Idle]
  BY DEF Init, Columns, IsFcn
<1>2. DOMAIN db.customers = {} /\ DOMAIN db.summary = {} /\ DOMAIN db.orders = {} BY <1>1
<1>3. Sound(db)
  <2>1. IsFcn(db.customers) /\ IsFcn(db.summary) BY <1>1 DEF IsFcn
  <2>2. Shaped(db) BY <1>1, <2>1 DEF Shaped
  <2>3. Peopled(db) BY <1>1, <1>2 DEF Peopled, Ids
  <2>4. Refers(db) BY <1>1, <1>2 DEF Refers
  <2> QED BY <2>2, <2>3, <2>4 DEF Sound
<1>4. RequestsOK(db) BY <1>1 DEF RequestsOK, RequestOK, Idle
<1>5. CurrentBut(db, {}) BY <1>2 DEF CurrentBut, Ids
<1> QED BY <1>1, <1>3, <1>4, <1>5 DEF IInv

(***************************************************************************)
(* Rows are well formed, and no order, volume or address refers to a       *)
(* customer that is gone: one deleted or merged while an order was taken,  *)
(* edited or moved (the foreign keys of customers.py and orders.py).       *)
(***************************************************************************)
THEOREM CustomersTyped == Spec => []TypeOK
<1>1. Init => IInv BY StartsWell
<1>2. IInv /\ [Next]_vars => IInv' BY StepKeeps
<1>3. IInv => TypeOK BY SoundIsTyped DEF IInv
<1> QED BY <1>1, <1>2, <1>3, PTL DEF Spec

(***************************************************************************)
(* If no order is edited as another request gives it to another customer,  *)
(* a customer's page counts the orders of a year, and gives what they come *)
(* to, whatever is taken, edited, moved and merged: unless items of one of *)
(* them were changed since, in whichever request, when the count stays     *)
(* right (_recompute_customer_year_summary of customers.py,                *)
(* _sync_order_items_json of work_items.py).                               *)
(***************************************************************************)
THEOREM SummaryStaysCurrent == "two_edits" \notin Practices => (Spec => []SummaryIsCurrent)
<1> SUFFICES ASSUME "two_edits" \notin Practices PROVE Spec => []SummaryIsCurrent
  OBVIOUS
<1> DEFINE CInv == IInv /\ CurrentBut(db, {})
<1>1. Init => CInv BY StartsWell
<1>2. CInv /\ [Next]_vars => CInv'
  <2>1. SUFFICES ASSUME CInv, [Next]_vars PROVE CInv' OBVIOUS
  <2>2. IInv' /\ KeptCurrent(db, db') BY <2>1, StepKeeps
  <2> QED BY <2>1, <2>2 DEF KeptCurrent
<1>3. CInv => SummaryIsCurrent BY CurrentIs
<1> QED BY <1>1, <1>2, <1>3, PTL DEF Spec

\* Only its own write, or what undoes it, ends a request.
LEMMA Ends ==
  ASSUME IInv, Next, NEW w \in Workers, pending[w].op # "idle", pending'[w] = Idle
  PROVE  Write(w) \/ Undo(w)
<1>1. pending'[w] # pending[w] BY DEF Idle
<1>2. ASSUME NEW v \in Workers, MayStart(v), ReadCustomers(v) \/ ReadOrders(v) PROVE FALSE
  <2>1. PICK request : Starts(v, request)
    BY <1>2 DEF ReadCustomers, ReadOrders, ReadUpdateCustomer, ReadDeleteCustomer, ReadMerge,
                ReadCreateOrder, ReadMoveOrder, ReadEditOrder
  <2>2. pending' = [pending EXCEPT ![v] = request] /\ pending[v] = Idle
    BY <1>2, <2>1 DEF Starts, MayStart
  <2>3. v # w BY <2>2 DEF Idle
  <2> QED BY <1>1, <2>2, <2>3
<1>3. ASSUME NEW v \in Workers, Write(v) \/ Undo(v) PROVE v = w
  <2>1. pending' = [pending EXCEPT ![v] = Idle] BY <1>3, WriteKeeps DEF Commits
  <2> QED BY <1>1, <2>1
<1>4. pending' # pending BY <1>1
<1>5. ASSUME NEW name \in Names, NEW rows \in PhoneLists, NEW phone \in Phones,
             CreateCustomer(name, phone, rows)
      PROVE  FALSE
  BY <1>4, <1>5 DEF CreateCustomer
<1>6. ASSUME NEW pair \in Pair, CreateEntry(pair) \/ DeleteEntry(pair) PROVE FALSE
  BY <1>4, <1>6 DEF CreateEntry, DeleteEntry, Serves
<1>7. ~ NewYear BY <1>4 DEF NewYear
<1>8. ASSUME NEW i \in DOMAIN db.orders, NEW total \in Totals, EditItems(i, total) PROVE FALSE
  BY <1>4, <1>8 DEF EditItems, Serves
<1> QED BY <1>2, <1>3, <1>5, <1>6, <1>7, <1>8 DEF Next

(***************************************************************************)
(* A merge loses no phone number of those it merges, in rows or in the     *)
(* column alone, and leaves a main number if there is any, however the     *)
(* customers have changed since they were chosen                           *)
(* (_merge_customer_into_target of customers.py).                          *)
(***************************************************************************)
THEOREM MergesKeepPhones == Spec => MergeKeepsPhones
<1> DEFINE MergeKeeps(w) ==
             Merges(w, pending[w]) =>
               LET p == pending[w]
                   merged == db'.customers[p.t].phones
               IN  /\ \A c \in {p.t} \union Range(p.sources) :
                        PhonesOf(PhonesOfId(db, c)) \subseteq PhonesOf(merged)
                   /\ merged # <<>> => \E i \in DOMAIN merged : merged[i].primary
           Step == \A w \in Workers : MergeKeeps(w)
<1>1. Init => IInv BY StartsWell
<1>2. IInv /\ [Next]_vars => IInv' BY StepKeeps
<1>3. IInv /\ [Next]_vars => [Step]_vars
  <2>1. SUFFICES ASSUME IInv, Next, NEW w \in Workers, Merges(w, pending[w]) PROVE MergeKeeps(w)
    OBVIOUS
  <2>2. /\ pending[w].op = "merge" /\ pending'[w] = Idle /\ db' # db BY <2>1 DEF Merges
  <2>3. Write(w) \/ Undo(w) BY <2>1, <2>2, Ends
  <2>4. ~ Undo(w) BY <2>2 DEF Undo, Commits
  <2>5. WriteMerge(w)
    BY <2>2, <2>3, <2>4 DEF Write, WriteUpdateCustomer, WriteDeleteCustomer, WriteCreateOrder,
                            WriteEditOrder
  <2>6. Sound(db) /\ RequestOK(db, pending[w]) BY <2>1 DEF IInv, RequestsOK
  <2>7. /\ HasMain(db'.customers[pending[w].t].phones)
        /\ \A c \in {pending[w].t} \cup Range(pending[w].sources) :
             Reached(db, c) \subseteq PhonesOf(db'.customers[pending[w].t].phones)
    BY <2>5, <2>6, MergeWriteKeeps
  <2> QED BY <2>7 DEF HasMain, Reached
<1>4. Spec => [][Step]_vars BY <1>1, <1>2, <1>3, PTL DEF Spec
<1> QED BY <1>4 DEF MergeKeepsPhones

(***************************************************************************)
(* Saving an order deletes no address that an order to the door refers to, *)
(* even if the order was edited or moved, or others were taken, since it   *)
(* was read (_maybe_delete_library_pair of address_library.py).            *)
(***************************************************************************)
THEOREM AddressesStay == Spec => UsedPairsStay
<1> DEFINE Step ==
             \A w \in Workers : pending[w].op \in {"order", "edit", "move"} /\ pending'[w] = Idle =>
               db.library \intersect UsedPairs(db') \subseteq db'.library
<1>1. Init => IInv BY StartsWell
<1>2. IInv /\ [Next]_vars => IInv' BY StepKeeps
<1>3. IInv /\ [Next]_vars => [Step]_vars
  <2>1. SUFFICES ASSUME IInv, Next, NEW w \in Workers,
                        pending[w].op \in {"order", "edit", "move"}, pending'[w] = Idle
                 PROVE  db.library \intersect UsedPairs(db') \subseteq db'.library
    OBVIOUS
  <2>2. Write(w) \/ Undo(w) BY <2>1, Ends
  <2>3. Sound(db) /\ RequestOK(db, pending[w]) /\ year \in Nat BY <2>1 DEF IInv, RequestsOK
  <2>4. CASE Undo(w) BY <2>4 DEF Undo, Commits
  <2>5. CASE WriteCreateOrder(w) BY <2>3, <2>5, CreateOrderKeeps
  <2>6. CASE WriteEditOrder(w) BY <2>3, <2>6, EditKeeps
  <2>7. ~ WriteUpdateCustomer(w) /\ ~ WriteDeleteCustomer(w) /\ ~ WriteMerge(w)
    BY <2>1 DEF WriteUpdateCustomer, WriteDeleteCustomer, WriteMerge
  <2> QED BY <2>2, <2>4, <2>5, <2>6, <2>7 DEF Write
<1>4. Spec => [][Step]_vars BY <1>1, <1>2, <1>3, PTL DEF Spec
<1> QED BY <1>4 DEF UsedPairsStay

=============================================================================
