------------------------- MODULE SchemaStart_proofs -------------------------
(***************************************************************************)
(* That a version recorded is a version done, and done once, and that the  *)
(* state is well-typed, for any number of processes, however they start,   *)
(* fail and are killed.                                                    *)
(***************************************************************************)
EXTENDS SchemaStart, FiniteSetTheorems, SequenceTheorems, WellFoundedInduction, TLAPS

(***************************************************************************)
(* The programs of the versions                                            *)
(***************************************************************************)

\* The registry is a sequence of scripts and callables.
LEMMA RegistryIs ==
  /\ Latest \in Nat /\ DOMAIN Registry = 1..Latest
  /\ \A v \in 1..Latest : /\ Registry[v].script \in Seq(Statements)
                          /\ Registry[v].callable \in Seq(Statements)
                          /\ ScriptIsRepeatable(Registry[v].script)
                          /\ CallableIsAtomic(Registry[v].callable)
<1> DEFINE Version == [script : Seq(Statements), callable : Seq(Statements)]
<1>1. Registry \in Seq(Version)
  BY RegistryAssumption
<1> HIDE DEF Version
<1>2. Latest \in Nat /\ DOMAIN Registry = 1..Latest
  BY <1>1 DEF Latest
<1>3. \A v \in 1..Latest : Registry[v] \in Version
  BY <1>1, <1>2, ElementOfSeq DEF Latest
<1>4. \A v \in 1..Latest : Registry[v].script \in Seq(Statements)
                             /\ Registry[v].callable \in Seq(Statements)
  BY <1>3 DEF Version
<1> QED
  BY <1>2, <1>4, RegistryAssumption DEF Latest

\* A sequence with one element before and one after it.
LEMMA Framed ==
  ASSUME NEW S, NEW s \in Seq(S), NEW c \in Seq(S), NEW x \in S, NEW z \in S
  PROVE  LET f == << x >> \o s \o c \o << z >>
             n == Len(s) + Len(c) + 2
         IN  /\ f \in Seq(S) /\ Len(f) = n /\ f[1] = x /\ f[n] = z
             /\ \A i \in 1..Len(s) : f[i + 1] = s[i]
             /\ \A i \in 1..Len(c) : f[Len(s) + i + 1] = c[i]
<1> DEFINE a == << x >> \o s
           b == a \o c
           f == b \o << z >>
<1>1. << x >> \in Seq(S) /\ Len(<< x >>) = 1 /\ << x >>[1] = x
  OBVIOUS
<1>2. << z >> \in Seq(S) /\ Len(<< z >>) = 1 /\ << z >>[1] = z
  OBVIOUS
<1>3. Len(s) \in Nat /\ Len(c) \in Nat
  OBVIOUS
<1>4. /\ a \in Seq(S) /\ Len(a) = Len(s) + 1
      /\ a[1] = x /\ \A i \in 1..Len(s) : a[i + 1] = s[i]
  BY <1>1, <1>3, ConcatProperties
<1> HIDE DEF a
<1>5. /\ b \in Seq(S) /\ Len(b) = Len(s) + Len(c) + 1
      /\ b[1] = x /\ \A i \in 1..Len(s) : b[i + 1] = s[i]
      /\ \A i \in 1..Len(c) : b[Len(s) + i + 1] = c[i]
  <2>1. /\ b \in Seq(S) /\ Len(b) = Len(a) + Len(c)
        /\ \A i \in 1..Len(a) + Len(c) : b[i] = IF i <= Len(a) THEN a[i] ELSE c[i - Len(a)]
    BY <1>4, ConcatProperties
  <2> HIDE DEF b
  <2>2. ASSUME NEW i \in 1..Len(s) PROVE b[i + 1] = s[i]
    <3>1. i + 1 \in 1..Len(a) + Len(c) /\ i + 1 <= Len(a)
      BY <1>3, <1>4
    <3> QED
      BY <1>4, <2>1, <3>1
  <2>3. ASSUME NEW i \in 1..Len(c) PROVE b[Len(s) + i + 1] = c[i]
    <3> DEFINE k == Len(s) + i + 1
    <3>1. k \in 1..Len(a) + Len(c) /\ ~ (k <= Len(a)) /\ k - Len(a) = i
      BY <1>3, <1>4
    <3> QED
      BY <2>1, <3>1
  <2>4. b[1] = x
    <3>1. 1 \in 1..Len(a) + Len(c) /\ 1 <= Len(a)
      BY <1>3, <1>4
    <3> QED
      BY <1>4, <2>1, <3>1
  <2> QED
    BY <1>3, <1>4, <2>1, <2>2, <2>3, <2>4
<1> HIDE DEF b
<1>6. /\ f \in Seq(S) /\ Len(f) = Len(s) + Len(c) + 2
      /\ f[1] = x /\ f[Len(s) + Len(c) + 2] = z
      /\ \A i \in 1..Len(s) : f[i + 1] = s[i]
      /\ \A i \in 1..Len(c) : f[Len(s) + i + 1] = c[i]
  <2> DEFINE m == Len(s) + Len(c) + 1
  <2>1. /\ f \in Seq(S) /\ Len(f) = m + 1
        /\ \A i \in 1..(m + 1) : f[i] = IF i <= m THEN b[i] ELSE << z >>[i - m]
    BY <1>2, <1>3, <1>5, ConcatProperties
  <2> HIDE DEF f
  <2>2. \A i \in 1..m : f[i] = b[i]
    BY <1>3, <2>1
  <2>3. f[m + 1] = z
    <3>1. m \in Nat /\ m + 1 \in 1..(m + 1) /\ ~ (m + 1 <= m) /\ (m + 1) - m = 1
      BY <1>3
    <3> HIDE DEF m
    <3> QED
      BY <1>2, <2>1, <3>1
  <2>4. ASSUME NEW i \in 1..Len(s) PROVE f[i + 1] = s[i]
    BY <1>3, <1>5, <2>2
  <2>5. ASSUME NEW i \in 1..Len(c) PROVE f[Len(s) + i + 1] = c[i]
    BY <1>3, <1>5, <2>2
  <2> QED
    BY <1>3, <1>5, <2>1, <2>2, <2>3, <2>4, <2>5
<1> QED
  BY <1>6 DEF a, b

\* The script and the callable of a version, between its commit and its record.
LEMMA ProgramIs ==
  ASSUME NEW v \in 1..Latest
  PROVE  LET s == Registry[v].script
             c == Registry[v].callable
             n == Len(Programs[v])
         IN  /\ n = Len(s) + Len(c) + 2 /\ DOMAIN Programs[v] = 1..n
             /\ Programs[v][1] = Commit /\ Programs[v][n] = Record
             /\ \A i \in 1..Len(s) : Programs[v][i + 1] = s[i]
             /\ \A i \in 1..Len(c) : Programs[v][Len(s) + i + 1] = c[i]
<1> DEFINE s == Registry[v].script
           c == Registry[v].callable
           Whole(u) == << Commit >> \o Registry[u].script \o Registry[u].callable
                         \o << Record >>
           All == [u \in DOMAIN Registry |-> Whole(u)]
           Any == Statements \cup {Commit, Record}
<1>1. s \in Seq(Any) /\ c \in Seq(Any) /\ << Commit >> \in Seq(Any) /\ << Record >> \in Seq(Any)
  BY RegistryIs, SeqMonotonic
<1>2. \A u \in 1..Latest : Whole(u) \in Seq(Any)
  BY RegistryIs
<1>3. All \in Seq(Seq(Any))
  BY <1>2, RegistryIs, IsASeq
<1>4. All \o << >> = All
  BY <1>3, ConcatEmptySeq
<1>5. Programs[v] = << Commit >> \o s \o c \o << Record >>
  BY <1>4, RegistryIs DEF Programs
<1>6. Commit \in Any /\ Record \in Any
  OBVIOUS
<1> HIDE DEF s, c, Any
<1>7. /\ Programs[v] \in Seq(Any) /\ Len(Programs[v]) = Len(s) + Len(c) + 2
      /\ Programs[v][1] = Commit /\ Programs[v][Len(s) + Len(c) + 2] = Record
      /\ \A i \in 1..Len(s) : Programs[v][i + 1] = s[i]
      /\ \A i \in 1..Len(c) : Programs[v][Len(s) + i + 1] = c[i]
  BY <1>1, <1>5, <1>6, Framed
<1>8. DOMAIN Programs[v] = 1..Len(Programs[v])
  BY <1>7
<1> QED
  BY <1>7, <1>8 DEF s, c

\* A version is recorded by the last statement of its program, writes no row
\* that counts before a commit, and none after a look that may end it.
LEMMA ProgramShape ==
  ASSUME NEW v \in 1..Latest
  PROVE  LET n == Len(Programs[v])
         IN  /\ n \in Nat /\ n > 1 /\ DOMAIN Programs[v] = 1..n
             /\ \A i \in 1..n : Programs[v][i].op = "record" <=> i = n
             /\ \A i \in 1..n : Programs[v][i].op = "commit" =>
                  \A j \in 1..(i - 1) : Programs[v][j].op \notin RowOps
             /\ \A i \in 1..n : Programs[v][i].op = "skip_if" =>
                  \A j \in i..n : Programs[v][j].op \notin RowOps
<1> DEFINE s == Registry[v].script
           c == Registry[v].callable
           g == Programs[v]
           n == Len(s) + Len(c) + 2
<1>1. /\ Len(g) = n /\ DOMAIN g = 1..n /\ g[1] = Commit /\ g[n] = Record
      /\ \A i \in 1..Len(s) : g[i + 1] = s[i]
      /\ \A i \in 1..Len(c) : g[Len(s) + i + 1] = c[i]
  BY ProgramIs
<1>2. /\ Len(s) \in Nat /\ Len(c) \in Nat
      /\ DOMAIN s = 1..Len(s) /\ DOMAIN c = 1..Len(c)
      /\ ScriptIsRepeatable(s) /\ CallableIsAtomic(c)
  <2>1. s \in Seq(Statements) /\ c \in Seq(Statements)
    BY RegistryIs
  <2> HIDE DEF s, c
  <2> QED
    BY <2>1, RegistryIs DEF s, c
<1> HIDE DEF s, c, g
<1>3. g[1].op = "commit" /\ g[n].op = "record"
  <2>1. Commit.op = "commit" /\ Record.op = "record"
    BY DEF Commit, Record, Statement
  <2> HIDE DEF n
  <2> QED
    BY <1>1, <2>1
<1>4. ASSUME NEW i \in 2..(Len(s) + 1)
      PROVE  g[i].op \notin RowOps \cup {"record", "commit", "skip_if"}
  <2>1. i - 1 \in 1..Len(s) /\ (i - 1) + 1 = i
    BY <1>2
  <2>2. g[i] = s[i - 1]
    BY <1>1, <2>1
  <2> QED
    BY <1>2, <2>1, <2>2 DEF ScriptIsRepeatable
<1>5. ASSUME NEW i \in (Len(s) + 2)..(n - 1)
      PROVE  i - Len(s) - 1 \in 1..Len(c) /\ g[i] = c[i - Len(s) - 1]
  <2>1. i - Len(s) - 1 \in 1..Len(c) /\ Len(s) + (i - Len(s) - 1) + 1 = i
    BY <1>2
  <2> QED
    BY <1>1, <2>1
<1>6. ASSUME NEW i \in 1..n
      PROVE  i = 1 \/ i = n \/ i \in 2..(Len(s) + 1) \/ i \in (Len(s) + 2)..(n - 1)
  BY <1>2
<1>7. ASSUME NEW i \in 1..n, i # n PROVE g[i].op # "record"
  <2>1. CASE i = 1
    BY <1>3, <2>1
  <2>2. CASE i \in 2..(Len(s) + 1)
    BY <1>4, <2>2
  <2>3. CASE i \in (Len(s) + 2)..(n - 1)
    BY <1>2, <1>5, <2>3 DEF CallableIsAtomic
  <2> QED
    BY <1>6, <1>7, <2>1, <2>2, <2>3
<1>8. ASSUME NEW i \in 1..n, g[i].op = "commit", NEW j \in 1..(i - 1)
      PROVE  g[j].op \notin RowOps
  <2>1. i \in (Len(s) + 2)..(n - 1)
    BY <1>2, <1>3, <1>4, <1>6, <1>8
  <2> DEFINE k == i - Len(s) - 1
             l == j - Len(s) - 1
  <2>2. k \in DOMAIN c /\ c[k].op = "commit"
    BY <1>2, <1>5, <1>8, <2>1
  <2>3. \A m \in 1..(k - 1) : c[m].op \notin RowOps
    BY <1>2, <2>2 DEF CallableIsAtomic
  <2>4. CASE j = 1
    BY <1>3, <2>4 DEF RowOps
  <2>5. CASE j \in 2..(Len(s) + 1)
    BY <1>4, <2>5
  <2>6. CASE j \in (Len(s) + 2)..(n - 1)
    <3>1. l \in 1..(k - 1)
      BY <1>2, <2>1, <2>6
    <3>2. g[j] = c[l]
      BY <1>5, <2>6
    <3> QED
      BY <2>3, <3>1, <3>2
  <2>7. j \in 1..n /\ j # n
    BY <1>2
  <2> QED
    BY <1>6, <2>4, <2>5, <2>6, <2>7
<1>9. ASSUME NEW i \in 1..n, g[i].op = "skip_if", NEW j \in i..n
      PROVE  g[j].op \notin RowOps
  <2>1. i \in (Len(s) + 2)..(n - 1)
    BY <1>2, <1>3, <1>4, <1>6, <1>9
  <2> DEFINE k == i - Len(s) - 1
             l == j - Len(s) - 1
  <2>2. k \in DOMAIN c /\ c[k].op = "skip_if"
    BY <1>2, <1>5, <1>9, <2>1
  <2>3. \A m \in k..Len(c) : c[m].op \notin RowOps
    BY <1>2, <2>2 DEF CallableIsAtomic
  <2>4. CASE j = n
    BY <1>3, <2>4 DEF RowOps
  <2>5. CASE j # n
    <3>1. j \in (Len(s) + 2)..(n - 1) /\ l \in k..Len(c)
      BY <1>2, <2>1, <2>5
    <3>2. g[j] = c[l]
      BY <1>5, <3>1
    <3> QED
      BY <2>3, <3>1, <3>2
  <2> QED
    BY <2>4, <2>5
<1>10. n \in Nat /\ n > 1
  BY <1>2
<1>11. /\ Len(g) = n
       /\ \A i \in 1..n : g[i].op = "record" <=> i = n
  BY <1>1, <1>3, <1>7
<1> HIDE DEF n
<1> QED
  BY <1>1, <1>8, <1>9, <1>10, <1>11 DEF g

\* A finite set of numbers has a greatest.
LEMMA GreatestIs ==
  ASSUME NEW S \in SUBSET Nat, IsFiniteSet(S), S # {}
  PROVE  \E v \in S : \A w \in S : w <= v
<1> DEFINE Above(v) == {w \in S : w > v}
           T == {Above(v) : v \in S}
           R == StrictSubsetOrdering(S)
<1>1. IsWellFoundedOn(R, SUBSET S)
  BY FS_StrictSubsetOrderingWellFounded, FS_FiniteSubsetsOfFinite
<1>2. T \subseteq SUBSET S /\ T # {}
  OBVIOUS
<1>3. PICK x \in T : \A y \in T : << y, x >> \notin R
  <2> HIDE DEF R, T
  <2> QED
    BY <1>1, <1>2, WFMin
<1>4. PICK v \in S : x = Above(v)
  OBVIOUS
<1>5. ASSUME NEW w \in S, w > v PROVE FALSE
  <2>1. Above(w) \subseteq Above(v) /\ w \in Above(v) /\ w \notin Above(w)
    <3>1. v \in Nat /\ w \in Nat
      OBVIOUS
    <3>2. \A x1 \in S : x1 \in Nat /\ (x1 > w => x1 > v)
      BY <1>5, <3>1
    <3>3. w \in Above(v)
      BY <1>5
    <3>4. w \notin Above(w)
      BY <3>1
    <3>5. Above(w) \subseteq Above(v)
      BY <3>2
    <3> QED
      BY <3>3, <3>4, <3>5
  <2>2. << Above(w), x >> \in R
    BY <1>4, <2>1 DEF StrictSubsetOrdering
  <2> QED
    BY <1>3, <2>2
<1> QED
  BY <1>5

\* The newest version recorded is one of the registry, or none.
LEMMA NewestIs ==
  ASSUME NEW c, c.versions \subseteq 1..Latest
  PROVE  Newest(c) \in 0..Latest
<1> DEFINE S == c.versions \cup {0}
<1>1. Latest \in Nat
  BY RegistryIs
<1>2. S \in SUBSET Nat /\ IsFiniteSet(S)
  <2>1. IsFiniteSet(0..Latest)
    <3>1. 0 \in Int /\ Latest \in Int
      BY <1>1
    <3> QED
      BY <3>1, FS_Interval, Zenon
  <2>2. S \subseteq 0..Latest
    BY <1>1
  <2> QED
    BY <1>1, <2>1, <2>2, FS_Subset
<1>3. PICK v \in S : \A w \in S : w <= v
  BY <1>2, GreatestIs
<1>4. \A w \in (v + 1)..Latest : w \notin c.versions
  BY <1>1, <1>2, <1>3
<1>5. Newest(c) \in S
  BY <1>3, <1>4 DEF Newest
<1> QED
  BY <1>1, <1>5

-----------------------------------------------------------------------------
(***************************************************************************)
(* What a process has done to the content c it sees when it is at place a  *)
(* of the registry; pop says whether there are rows to treat.  A content   *)
(* is committed when nothing in it is half done.                           *)
(***************************************************************************)
Parts == {"objects", "rows", "twice", "versions"}
NeededOps(pop) == IF pop THEN {"write", "backfill"} ELSE {"write"}

Whole(c, pop) ==
    /\ c = [k \in Parts |-> c[k]]
    /\ c.versions \subseteq 1..Latest
    /\ \A v \in c.versions : \A i \in 1..Len(Programs[v]) :
          Programs[v][i].op \in NeededOps(pop) => << v, i >> \in c.rows

Committed(c, pop) ==
    /\ Whole(c, pop)
    /\ \A r \in c.rows : r[1] \in c.versions
    /\ c.twice = {}

IsPlace(a) ==
    /\ a \in [version : 1..(Latest + 1), index : Nat \ {0}, checked : BOOLEAN]
    /\ IF a.version <= Latest THEN a.index <= Len(Programs[a.version]) ELSE a.index = 1

Before(a) == 1..(a.index - 1)
OpAt(a, i) == Programs[a.version][i].op

Passed(c, a, pop) ==
    \A i \in Before(a) : OpAt(a, i) \in NeededOps(pop) => << a.version, i >> \in c.rows
Traced(c, a) ==
    \A r \in c.rows :
        \/ r[1] \in c.versions
        \/ r[1] = a.version /\ r[2] \in Before(a) /\ OpAt(a, r[2]) \in RowOps
Repeated(c, a) ==
    c.twice # {} =>
        a.version \in c.versions /\ \E i \in Before(a) : OpAt(a, i) \in RowOps

Agrees(c, a, pop) ==
    Whole(c, pop) /\ IsPlace(a) /\ Passed(c, a, pop) /\ Traced(c, a) /\ Repeated(c, a)

Moved(a) ==
    IF a.index = Len(Programs[a.version]) THEN Beginning(a.version + 1)
    ELSE [a EXCEPT !.index = @ + 1, !.checked = FALSE]

\* A process begins a version on a database that is committed.
LEMMA BeginningAgrees ==
  ASSUME NEW c, NEW pop, Committed(c, pop), NEW v \in 1..(Latest + 1)
  PROVE  Agrees(c, Beginning(v), pop)
<1> DEFINE a == Beginning(v)
<1>1. a.version = v /\ a.index = 1
      /\ a \in [version : 1..(Latest + 1), index : Nat \ {0}, checked : BOOLEAN]
  BY DEF Beginning
<1> HIDE DEF a
<1>2. Before(a) = {}
  BY <1>1 DEF Before
<1>3. IsPlace(a)
  BY <1>1, ProgramShape, RegistryIs DEF IsPlace
<1>4. Traced(c, a) /\ Repeated(c, a)
  BY DEF Traced, Repeated, Committed
<1>5. Passed(c, a, pop)
  BY <1>2 DEF Passed
<1>6. Agrees(c, a, pop)
  BY <1>3, <1>4, <1>5 DEF Agrees, Committed
<1> QED
  BY <1>6 DEF a

\* A process that has written nothing agrees with what others commit.
LEMMA GrownAgrees ==
  ASSUME NEW c, NEW c2, NEW a, NEW pop, Agrees(c, a, pop), Committed(c2, pop),
         c.rows \subseteq c2.rows
  PROVE  Agrees(c2, a, pop)
<1>1. Traced(c2, a) /\ Repeated(c2, a)
  BY DEF Traced, Repeated, Committed
<1>2. Passed(c2, a, pop)
  BY DEF Passed, Agrees
<1> QED
  BY <1>1, <1>2 DEF Agrees, Committed

\* The place after a statement that is not the last.
LEMMA MovedIs ==
  ASSUME NEW a, IsPlace(a), a.version <= Latest
  PROVE  /\ IsPlace(Moved(a))
         /\ OpAt(a, a.index) = "record" <=> a.index = Len(Programs[a.version])
         /\ OpAt(a, a.index) # "record" =>
              /\ Moved(a).version = a.version /\ Moved(a).index = a.index + 1
              /\ Before(Moved(a)) = Before(a) \cup {a.index}
         /\ OpAt(a, a.index) = "record" => Moved(a) = Beginning(a.version + 1)
<1> DEFINE v == a.version
           n == Len(Programs[v])
<1>1. /\ Latest \in Nat /\ v \in 1..Latest /\ a.index \in 1..n
      /\ a \in [version : 1..(Latest + 1), index : Nat \ {0}, checked : BOOLEAN]
  BY RegistryIs DEF IsPlace
<1>2. n \in Nat /\ n > 1 /\ (OpAt(a, a.index) = "record" <=> a.index = n)
  BY <1>1, ProgramShape DEF OpAt
<1>3. CASE a.index = n
  <2>1. Moved(a) = Beginning(v + 1)
    BY <1>3 DEF Moved
  <2>2. /\ Beginning(v + 1) \in
             [version : 1..(Latest + 1), index : Nat \ {0}, checked : BOOLEAN]
        /\ Beginning(v + 1).version = v + 1 /\ Beginning(v + 1).index = 1
    BY <1>1 DEF Beginning
  <2>3. v + 1 <= Latest => Len(Programs[v + 1]) > 1
    BY <1>1, ProgramShape
  <2>4. v + 1 <= Latest => Len(Programs[v + 1]) \in Nat
    BY <1>1, ProgramShape
  <2>5. IsPlace(Beginning(v + 1))
    BY <2>2, <2>3, <2>4 DEF IsPlace
  <2> QED
    BY <1>2, <1>3, <2>1, <2>5
<1>4. CASE a.index # n
  <2> DEFINE a2 == [a EXCEPT !.index = @ + 1, !.checked = FALSE]
  <2>1. Moved(a) = a2
    BY <1>4 DEF Moved
  <2>2. /\ a2 \in [version : 1..(Latest + 1), index : Nat \ {0}, checked : BOOLEAN]
        /\ a2.version = v /\ a2.index = a.index + 1
    <3> DEFINE a1 == [a EXCEPT !.index = @ + 1]
    <3>1. /\ a1 \in [version : 1..(Latest + 1), index : Nat \ {0}, checked : BOOLEAN]
          /\ a1.version = v /\ a1.index = a.index + 1
      BY <1>1
    <3>2. a2 = [a1 EXCEPT !.checked = FALSE]
      OBVIOUS
    <3> HIDE DEF a1, a2
    <3> QED
      BY <3>1, <3>2
  <2> HIDE DEF a2
  <2>3. IsPlace(a2)
    BY <1>1, <1>2, <1>4, <2>2 DEF IsPlace
  <2>4. Before(a2) = Before(a) \cup {a.index}
    BY <1>1, <2>2 DEF Before
  <2> QED
    BY <1>2, <1>4, <2>1, <2>2, <2>3, <2>4
<1> QED
  BY <1>3, <1>4

\* A statement that writes no needed row, or finds nothing to do, is passed.
LEMMA PassAgrees ==
  ASSUME NEW c, NEW a, NEW pop, Agrees(c, a, pop), a.version <= Latest,
         OpAt(a, a.index) \notin NeededOps(pop), OpAt(a, a.index) # "record"
  PROVE  Agrees(c, Moved(a), pop)
<1>1. /\ IsPlace(Moved(a)) /\ Moved(a).version = a.version
      /\ Before(Moved(a)) = Before(a) \cup {a.index}
  BY MovedIs DEF Agrees
<1>2. \A i : OpAt(Moved(a), i) = OpAt(a, i)
  BY <1>1 DEF OpAt
<1> QED
  BY <1>1, <1>2 DEF Agrees, Passed, Traced, Repeated

\* A look that ends the callable leaves no row write out.
LEMMA ReturnAgrees ==
  ASSUME NEW c, NEW a, NEW pop, Agrees(c, a, pop), a.version <= Latest,
         OpAt(a, a.index) = "skip_if"
  PROVE  Agrees(c, [a EXCEPT !.index = Len(Programs[a.version])], pop)
<1> DEFINE v == a.version
           n == Len(Programs[v])
           a2 == [a EXCEPT !.index = n]
<1>1. /\ Latest \in Nat /\ v \in 1..Latest /\ a.index \in 1..n
      /\ a \in [version : 1..(Latest + 1), index : Nat \ {0}, checked : BOOLEAN]
  BY RegistryIs DEF Agrees, IsPlace
<1>2. /\ n \in Nat /\ n > 1
      /\ \A j \in a.index..n : OpAt(a, j) \notin RowOps
  BY <1>1, ProgramShape DEF OpAt
<1>3. /\ a2 \in [version : 1..(Latest + 1), index : Nat \ {0}, checked : BOOLEAN]
      /\ a2.version = v /\ a2.index = n
  BY <1>1, <1>2
<1> HIDE DEF a2
<1>4. IsPlace(a2)
  BY <1>1, <1>2, <1>3 DEF IsPlace
<1>5. /\ Before(a) \subseteq Before(a2)
      /\ \A i \in Before(a2) : i \in Before(a) \/ i \in a.index..n
  BY <1>1, <1>2, <1>3 DEF Before
<1>6. \A i : OpAt(a2, i) = OpAt(a, i)
  BY <1>3 DEF OpAt
<1>7. NeededOps(pop) \subseteq RowOps
  BY DEF NeededOps, RowOps
<1> HIDE DEF v, n
<1>8. Agrees(c, a2, pop)
  BY <1>2, <1>3, <1>4, <1>5, <1>6, <1>7 DEF Agrees, Passed, Traced, Repeated, v
<1> QED
  BY <1>8 DEF a2, n, v

\* What executescript, or the end, commits is not half done.
LEMMA CommitAgrees ==
  ASSUME NEW c, NEW a, NEW pop, Agrees(c, a, pop),
         a.version <= Latest => OpAt(a, a.index) = "commit"
  PROVE  Committed(c, pop)
<1>1. \A i \in Before(a) : OpAt(a, i) \notin RowOps
  <2>1. CASE a.version <= Latest
    <3>1. a.version \in 1..Latest /\ a.index \in 1..Len(Programs[a.version])
      BY <2>1, RegistryIs DEF Agrees, IsPlace
    <3> QED
      BY <2>1, <3>1, ProgramShape DEF OpAt, Before
  <2>2. CASE ~ (a.version <= Latest)
    BY <2>2 DEF Agrees, IsPlace, Before
  <2> QED
    BY <2>1, <2>2
<1> QED
  BY <1>1 DEF Agrees, Traced, Repeated, Committed

\* A row write is accounted for by the version's row, or by the place.
LEMMA WrittenAgrees ==
  ASSUME NEW c, NEW a, NEW pop, Agrees(c, a, pop), a.version <= Latest,
         OpAt(a, a.index) \in RowOps
  PROVE  LET c2 == Written(c, << a.version, a.index >>)
         IN  Agrees(c2, Moved(a), pop) /\ c.rows \subseteq c2.rows
<1> DEFINE row == << a.version, a.index >>
           c2 == Written(c, row)
           a2 == Moved(a)
<1>1. OpAt(a, a.index) # "record"
  BY DEF RowOps
<1>2. /\ IsPlace(a2) /\ a2.version = a.version
      /\ Before(a2) = Before(a) \cup {a.index}
  BY <1>1, MovedIs DEF Agrees
<1>3. \A i : OpAt(a2, i) = OpAt(a, i)
  BY <1>2 DEF OpAt
<1>4. row[1] = a.version /\ row[2] = a.index
  OBVIOUS
<1>5. a.index \notin Before(a)
  BY DEF Agrees, IsPlace, Before
<1> HIDE DEF row, a2
<1>6. /\ c2 = [k \in Parts |-> c2[k]] /\ c2.versions = c.versions
      /\ c2.rows = c.rows \cup {row} /\ c2.twice = c.twice \cup ({row} \cap c.rows)
  BY DEF Written, Agrees, Whole, Parts
<1> HIDE DEF c2
<1>7. Whole(c2, pop)
  BY <1>6 DEF Agrees, Whole
<1>8. Passed(c2, a2, pop)
  BY <1>2, <1>3, <1>6 DEF Agrees, Passed, row
<1>9. Traced(c2, a2)
  BY <1>2, <1>3, <1>4, <1>6 DEF Agrees, Traced
<1>10. Repeated(c2, a2)
  BY <1>2, <1>3, <1>4, <1>5, <1>6 DEF Agrees, Traced, Repeated
<1>11. Agrees(c2, a2, pop)
  BY <1>2, <1>7, <1>8, <1>9, <1>10 DEF Agrees
<1> QED
  BY <1>6, <1>11 DEF c2, a2, row

\* The version's row is written when all the others are, and once.
LEMMA RecordAgrees ==
  ASSUME NEW c, NEW a, NEW pop, Agrees(c, a, pop), a.version <= Latest,
         OpAt(a, a.index) = "record", a.version \notin c.versions
  PROVE  LET c2 == [c EXCEPT !.versions = @ \cup {a.version}]
         IN  Agrees(c2, Moved(a), pop) /\ c2.rows = c.rows
<1> DEFINE v == a.version
           c2 == [c EXCEPT !.versions = @ \cup {v}]
<1>1. /\ Moved(a) = Beginning(v + 1) /\ a.index = Len(Programs[v])
      /\ v \in 1..Latest /\ v + 1 \in 1..(Latest + 1)
  BY MovedIs, RegistryIs DEF Agrees, IsPlace
<1>2. /\ c2 = [k \in Parts |-> c2[k]] /\ c2.versions = c.versions \cup {v}
      /\ c2.rows = c.rows /\ c2.twice = c.twice
  BY DEF Agrees, Whole, Parts
<1>3. c.twice = {}
  BY DEF Agrees, Repeated
<1>4. ASSUME NEW i \in 1..Len(Programs[v]), Programs[v][i].op \in NeededOps(pop)
      PROVE  << v, i >> \in c.rows
  <2>1. OpAt(a, i) \in NeededOps(pop) /\ Programs[v][i].op # "record"
    BY <1>4 DEF OpAt, NeededOps
  <2>2. i # a.index
    BY <2>1 DEF OpAt
  <2>3. i \in Before(a)
    BY <1>1, <2>2, ProgramShape DEF Before
  <2> QED
    BY <2>1, <2>3 DEF Agrees, Passed
<1> HIDE DEF c2
<1>5. Whole(c2, pop)
  <2>1. c2.versions \subseteq 1..Latest
    BY <1>1, <1>2 DEF Agrees, Whole
  <2>2. \A u \in c.versions : \A i \in 1..Len(Programs[u]) :
          Programs[u][i].op \in NeededOps(pop) => << u, i >> \in c.rows
    BY DEF Agrees, Whole
  <2> QED
    BY <1>2, <1>4, <2>1, <2>2 DEF Whole
<1>6. Committed(c2, pop)
  BY <1>2, <1>3, <1>5 DEF Agrees, Traced, Committed
<1>7. Agrees(c2, Moved(a), pop)
  BY <1>1, <1>6, BeginningAgrees
<1> QED
  BY <1>2, <1>7 DEF c2

\* Statements on tables and columns write no row.
LEMMA ObjectsAgree ==
  ASSUME NEW c, NEW a, NEW pop, Agrees(c, a, pop), a.version <= Latest,
         OpAt(a, a.index) \notin RowOps \cup {"record"},
         NEW c2, c2.rows = c.rows, c2.twice = c.twice, c2.versions = c.versions,
         c2 = [k \in Parts |-> c2[k]]
  PROVE  Agrees(c2, Moved(a), pop)
<1>1. Whole(c2, pop)
  BY DEF Agrees, Whole
<1>2. Agrees(c2, a, pop)
  BY <1>1 DEF Agrees, Passed, Traced, Repeated
<1>3. OpAt(a, a.index) \notin NeededOps(pop)
  BY DEF NeededOps, RowOps
<1> QED
  BY <1>2, <1>3, PassAgrees

\* What a statement does to the content it sees.
LEMMA ExecuteAgrees ==
  ASSUME NEW c, NEW a, NEW pop, Agrees(c, a, pop), a.version <= Latest,
         ~ Broken(Programs[a.version][a.index], c, a.version)
  PROVE  LET s == Programs[a.version][a.index]
             c2 == Changed(s, c, << a.version, a.index >>)
         IN  /\ Agrees(c2, Moved(a), pop) /\ c.rows \subseteq c2.rows
             /\ s.op \notin RowOps \cup {"record"} =>
                  c2.rows = c.rows /\ (Committed(c, pop) => Committed(c2, pop))
<1> DEFINE s == Programs[a.version][a.index]
           row == << a.version, a.index >>
           c2 == Changed(s, c, row)
<1>1. OpAt(a, a.index) = s.op
  BY DEF OpAt
<1>2. row[1] = a.version
  OBVIOUS
<1> HIDE DEF s
<1>3. CASE s.op \in RowOps
  <2>1. c2 = Written(c, row)
    BY <1>3 DEF Changed, RowOps
  <2> QED
    BY <1>1, <1>3, <2>1, WrittenAgrees DEF s
<1>4. CASE s.op = "record"
  <2>1. c2 = [c EXCEPT !.versions = @ \cup {a.version}]
    BY <1>2, <1>4 DEF Changed, RowOps
  <2>2. a.version \notin c.versions
    BY <1>4 DEF Broken, s
  <2>3. OpAt(a, a.index) = "record"
    BY <1>1, <1>4
  <2> HIDE DEF c2
  <2>4. Agrees(c2, Moved(a), pop) /\ c2.rows = c.rows
    BY <2>1, <2>2, <2>3, RecordAgrees
  <2> QED
    BY <1>4, <2>4 DEF c2, s
<1>5. CASE s.op \notin RowOps \cup {"record"}
  <2>1. ASSUME NEW O
        PROVE  LET d == [c EXCEPT !.objects = O]
               IN  /\ d.rows = c.rows /\ d.twice = c.twice /\ d.versions = c.versions
                   /\ d = [k \in Parts |-> d[k]]
    BY DEF Agrees, Whole, Parts
  <2>2. c2 = c \/ \E O : c2 = [c EXCEPT !.objects = O]
    BY <1>5 DEF Changed, RowOps
  <2>3. /\ c2.rows = c.rows /\ c2.twice = c.twice /\ c2.versions = c.versions
        /\ c2 = [k \in Parts |-> c2[k]]
    <3>1. CASE c2 = c
      BY <3>1 DEF Agrees, Whole
    <3>2. CASE \E O : c2 = [c EXCEPT !.objects = O]
      BY <2>1, <3>2
    <3> QED
      BY <2>2, <3>1, <3>2
  <2> HIDE DEF c2
  <2>4. Agrees(c2, Moved(a), pop)
    BY <1>1, <1>5, <2>3, ObjectsAgree
  <2>5. Committed(c, pop) => Committed(c2, pop)
    BY <2>3 DEF Committed, Whole
  <2> QED
    BY <2>3, <2>4, <2>5 DEF c2, s
<1> QED
  BY <1>3, <1>4, <1>5

-----------------------------------------------------------------------------
(***************************************************************************)
(* The invariant: what is committed is not half done, whoever migrates has *)
(* done what comes before its place in what it sees, and only one who      *)
(* migrates has a transaction open.                                        *)
(***************************************************************************)
StartInv ==
    /\ Committed(db, populated)
    /\ writer \in Processes \cup {Free}
    /\ writer = Free => draft = db
    /\ pc = [p \in Processes |-> pc[p]]
    /\ at = [p \in Processes |-> at[p]]
    /\ \A p \in Processes :
          /\ pc[p] = "migrating" => Agrees(View(p), at[p], populated)
          /\ writer = p => pc[p] = "migrating" /\ db.rows \subseteq draft.rows

\* A step of p leaves the places and counters of the others.
OnlyMoves(p) ==
    /\ populated' = populated
    /\ pc' = [q \in Processes |-> pc'[q]]
    /\ at' = [q \in Processes |-> at'[q]]
    /\ \A q \in Processes \ {p} : pc'[q] = pc[q] /\ at'[q] = at[q]

\* What a step of one process has to be shown to keep.
LEMMA StepKeeps ==
  ASSUME StartInv, NEW p \in Processes, OnlyMoves(p),
         Committed(db', populated), db.rows \subseteq db'.rows,
         \/ writer' = writer /\ draft' = draft /\ db' = db
         \/ writer \in {p, Free} /\ writer' \in {p, Free},
         writer' = Free => draft' = db',
         writer' = p => pc'[p] = "migrating" /\ db'.rows \subseteq draft'.rows,
         pc'[p] = "migrating" =>
            Agrees(IF writer' = p THEN draft' ELSE db', at'[p], populated)
  PROVE  StartInv'
<1>1. Free \notin Processes
  BY StartAssumption
<1>2. ASSUME NEW q \in Processes
      PROVE  /\ pc'[q] = "migrating" =>
                  Agrees(IF writer' = q THEN draft' ELSE db', at'[q], populated)
             /\ writer' = q => pc'[q] = "migrating" /\ db'.rows \subseteq draft'.rows
  <2>1. CASE q = p
    BY <2>1
  <2>2. CASE q # p /\ writer = q
    <3>1. writer' = writer /\ draft' = draft /\ db' = db
      BY <1>1, <2>2
    <3>2. pc'[q] = pc[q] /\ at'[q] = at[q]
      BY <2>2 DEF OnlyMoves
    <3> QED
      BY <2>2, <3>1, <3>2 DEF StartInv, View
  <2>3. CASE q # p /\ writer # q
    <3>1. writer' # q
      BY <1>1, <2>3
    <3>2. pc'[q] = pc[q] /\ at'[q] = at[q]
      BY <2>3 DEF OnlyMoves
    <3>3. pc[q] = "migrating" => Agrees(db, at[q], populated)
      BY <2>3 DEF StartInv, View
    <3>4. pc[q] = "migrating" => Agrees(db', at[q], populated)
      BY <3>3, GrownAgrees
    <3> QED
      BY <3>1, <3>2, <3>4
  <2> QED
    BY <2>1, <2>2, <2>3
<1>3. writer' \in Processes \cup {Free}
  BY DEF StartInv
<1>4. /\ populated' = populated
      /\ pc' = [q \in Processes |-> pc'[q]] /\ at' = [q \in Processes |-> at'[q]]
  BY DEF OnlyMoves
<1> QED
  BY <1>2, <1>3, <1>4 DEF StartInv, View

\* A step that only moves p.
LEMMA MoveKeeps ==
  ASSUME StartInv, NEW p \in Processes, OnlyMoves(p), UNCHANGED << db, writer, draft >>,
         writer = p => pc'[p] = "migrating",
         pc'[p] = "migrating" => Agrees(View(p), at'[p], populated)
  PROVE  StartInv'
<1>1. db' = db /\ writer' = writer /\ draft' = draft
  OBVIOUS
<1>2. Committed(db', populated) /\ db.rows \subseteq db'.rows
  BY <1>1 DEF StartInv
<1>3. /\ writer' = Free => draft' = db'
      /\ writer' = p => pc'[p] = "migrating" /\ db'.rows \subseteq draft'.rows
  BY <1>1 DEF StartInv
<1>4. pc'[p] = "migrating" =>
        Agrees(IF writer' = p THEN draft' ELSE db', at'[p], populated)
  BY <1>1 DEF View
<1> QED
  BY <1>1, <1>2, <1>3, <1>4, StepKeeps

\* A process goes to another place, or is in another state as well.
LEMMA GoToMoves ==
  ASSUME StartInv, NEW p \in Processes, NEW a, GoTo(p, a), populated' = populated,
         pc' = pc \/ \E s : pc' = [pc EXCEPT ![p] = s]
  PROVE  OnlyMoves(p) /\ at'[p] = a
BY DEF StartInv, OnlyMoves, GoTo

\* A commit leaves what the process sees.
LEMMA CommitKeeps ==
  ASSUME StartInv, NEW p \in Processes, OnlyMoves(p), CommitOf(p),
         Committed(View(p), populated),
         pc'[p] = "migrating" => Agrees(View(p), at'[p], populated)
  PROVE  StartInv'
<1>1. writer' # p
  BY StartAssumption DEF CommitOf
<1>2. db' = View(p)
  BY DEF CommitOf, View
<1>3. Committed(db', populated) /\ db.rows \subseteq db'.rows
  BY <1>2 DEF StartInv, View
<1>4. \/ writer' = writer /\ draft' = draft /\ db' = db
      \/ writer \in {p, Free} /\ writer' \in {p, Free}
  BY DEF CommitOf
<1>5. writer' = Free => draft' = db'
  BY DEF CommitOf, StartInv
<1> QED
  BY <1>1, <1>2, <1>3, <1>4, <1>5, StepKeeps

\* A rollback leaves nothing of what the process wrote.
LEMMA RollbackKeeps ==
  ASSUME StartInv, NEW p \in Processes, OnlyMoves(p), RollbackOf(p),
         pc'[p] # "migrating"
  PROVE  StartInv'
<1>1. writer' # p /\ db' = db
  BY StartAssumption DEF RollbackOf
<1>2. Committed(db', populated) /\ db.rows \subseteq db'.rows
  BY <1>1 DEF StartInv
<1>3. \/ writer' = writer /\ draft' = draft /\ db' = db
      \/ writer \in {p, Free} /\ writer' \in {p, Free}
  BY DEF RollbackOf
<1>4. writer' = Free => draft' = db'
  BY DEF RollbackOf, StartInv
<1> QED
  BY <1>1, <1>2, <1>3, <1>4, StepKeeps

-----------------------------------------------------------------------------
(***************************************************************************)
(* One step per action.                                                    *)
(***************************************************************************)

\* A process that runs is at a version, and agrees with what it sees.
LEMMA RunningIs ==
  ASSUME StartInv, NEW p \in Processes, Running(p)
  PROVE  /\ Agrees(View(p), at[p], populated) /\ at[p].version <= Latest
         /\ Current(p) = Programs[at[p].version][at[p].index]
         /\ OpAt(at[p], at[p].index) = Current(p).op
BY DEF StartInv, Running, Current, OpAt

\* A process starts on what is committed.
LEMMA BeginStep ==
  ASSUME StartInv, NEW p \in Processes, Begin(p), pc[p] # "migrating",
         UNCHANGED << db, populated, writer, draft >>
  PROVE  StartInv'
<1>1. OnlyMoves(p) /\ at'[p] = Beginning(Newest(db) + 1)
  BY GoToMoves DEF Begin
<1>2. writer # p
  BY DEF StartInv
<1>3. Newest(db) + 1 \in 1..(Latest + 1)
  <2>1. Newest(db) \in 0..Latest
    BY NewestIs DEF StartInv, Committed, Whole
  <2> QED
    BY <2>1, RegistryIs
<1>4. Agrees(View(p), at'[p], populated)
  BY <1>1, <1>2, <1>3, BeginningAgrees DEF StartInv, View
<1> QED
  BY <1>1, <1>2, <1>4, MoveKeeps

\* executescript commits what comes before it.
LEMMA CommitFirstStep ==
  ASSUME StartInv, NEW p \in Processes, CommitFirst(p)
  PROVE  StartInv'
<1>1. /\ Agrees(View(p), at[p], populated) /\ at[p].version <= Latest
      /\ OpAt(at[p], at[p].index) = "commit"
  BY RunningIs DEF CommitFirst
<1>2. OnlyMoves(p) /\ at'[p] = Moved(at[p])
  BY GoToMoves DEF CommitFirst, Advance, StatementDone, Moved
<1>3. Committed(View(p), populated)
  BY <1>1, CommitAgrees
<1>4. Agrees(View(p), Moved(at[p]), populated)
  BY <1>1, PassAgrees DEF NeededOps
<1> QED
  BY <1>2, <1>3, <1>4, CommitKeeps DEF CommitFirst

\* A look, a check and a statement with nothing to do write nothing.
LEMMA LookStep ==
  ASSUME StartInv, NEW p \in Processes, Look(p) \/ PassOver(p) \/ Check(p)
  PROVE  StartInv'
<1>1. /\ Agrees(View(p), at[p], populated) /\ at[p].version <= Latest
      /\ OpAt(at[p], at[p].index) = Current(p).op
  BY RunningIs DEF Look, PassOver, Check
<1>2. /\ UNCHANGED << db, writer, draft >> /\ pc' = pc /\ populated' = populated
      /\ pc[p] = "migrating"
  BY DEF Look, PassOver, Check, StatementDone, Running
<1>3. ASSUME NEW a, GoTo(p, a), Agrees(View(p), a, populated) PROVE StartInv'
  BY <1>2, <1>3, GoToMoves, MoveKeeps
<1>4. CASE Look(p)
  <2>1. CASE Advance(p)
    <3>1. Agrees(View(p), Moved(at[p]), populated)
      BY <1>1, <1>4, PassAgrees DEF Look, NeededOps
    <3> QED
      BY <1>3, <2>1, <3>1 DEF Advance, Moved
  <2>2. CASE Return(p)
    BY <1>1, <1>3, <1>4, <2>2, ReturnAgrees DEF Look, Return
  <2> QED
    BY <1>4, <2>1, <2>2 DEF Look
<1>5. CASE PassOver(p)
  <2>1. Current(p).op \notin NeededOps(populated) /\ Current(p).op # "record"
    BY <1>5 DEF PassOver, NothingToDo, NeededOps
  <2>2. Agrees(View(p), Moved(at[p]), populated)
    BY <1>1, <2>1, PassAgrees
  <2> QED
    BY <1>3, <1>5, <2>2 DEF PassOver, Advance, Moved
<1>6. CASE Check(p)
  <2> DEFINE a == [at[p] EXCEPT !.checked = TRUE]
  <2>1. /\ at[p] \in [version : 1..(Latest + 1), index : Nat \ {0}, checked : BOOLEAN]
    BY <1>1 DEF Agrees, IsPlace
  <2>2. /\ a \in [version : 1..(Latest + 1), index : Nat \ {0}, checked : BOOLEAN]
        /\ a.version = at[p].version /\ a.index = at[p].index
    BY <2>1
  <2>3. GoTo(p, a)
    BY <1>6 DEF Check
  <2> HIDE DEF a
  <2>4. Before(a) = Before(at[p]) /\ \A i : OpAt(a, i) = OpAt(at[p], i)
    BY <2>2 DEF Before, OpAt
  <2>5. Agrees(View(p), a, populated)
    BY <1>1, <2>2, <2>4 DEF Agrees, IsPlace, Passed, Traced, Repeated
  <2> QED
    BY <1>3, <2>3, <2>5
<1> QED
  BY <1>4, <1>5, <1>6

\* A statement opens a transaction, or is committed by itself and writes no row.
LEMMA ExecuteStep ==
  ASSUME StartInv, NEW p \in Processes, Execute(p)
  PROVE  StartInv'
<1> DEFINE c == View(p)
           row == << at[p].version, at[p].index >>
           c2 == Changed(Current(p), c, row)
<1>1. /\ Agrees(c, at[p], populated) /\ at[p].version <= Latest
      /\ Current(p) = Programs[at[p].version][at[p].index]
  BY RunningIs DEF Execute, MayWrite, Writing
<1>2. ~ Broken(Current(p), c, at[p].version)
  BY DEF Execute
<1>3. /\ Agrees(c2, Moved(at[p]), populated) /\ c.rows \subseteq c2.rows
      /\ Current(p).op \notin RowOps \cup {"record"} =>
           c2.rows = c.rows /\ (Committed(c, populated) => Committed(c2, populated))
  BY <1>1, <1>2, ExecuteAgrees
<1>4. OnlyMoves(p) /\ at'[p] = Moved(at[p]) /\ pc'[p] = "migrating"
  BY GoToMoves DEF Execute, Advance, StatementDone, Moved, MayWrite, Writing, Running
<1>5. writer \in {Free, p} /\ p # Free
  BY StartAssumption DEF Execute, MayWrite
<1>6. db.rows \subseteq c.rows
  BY DEF StartInv, View
<1>7. \/ InTransaction(p, c2)
      \/ /\ AutoCommit(c2) /\ writer # p
         /\ Current(p).op \notin RowOps \cup {"record"}
  BY DEF Execute, OpensTransaction
<1>8. Committed(db, populated)
  BY DEF StartInv
<1> HIDE DEF c2
<1>9. CASE InTransaction(p, c2)
  <2>1. writer' = p /\ draft' = c2 /\ db' = db
    BY <1>9 DEF InTransaction
  <2> QED
    BY <1>3, <1>4, <1>5, <1>6, <1>8, <2>1, StepKeeps
<1>10. CASE /\ AutoCommit(c2) /\ writer # p
            /\ Current(p).op \notin RowOps \cup {"record"}
  <2>1. writer' = writer /\ draft' = c2 /\ db' = c2 /\ c = db
    BY <1>10 DEF AutoCommit, View
  <2>2. Committed(c2, populated)
    BY <1>3, <1>8, <1>10, <2>1
  <2> QED
    BY <1>3, <1>4, <1>5, <1>10, <2>1, <2>2, StepKeeps
<1> QED
  BY <1>7, <1>9, <1>10

\* Whoever stops, by an error or by being killed, is rolled back.
LEMMA StopStep ==
  ASSUME StartInv, NEW p \in Processes, Stop(p)
  PROVE  StartInv'
<1>1. OnlyMoves(p) /\ pc'[p] = "failed"
  BY GoToMoves DEF Stop, StartInv
<1> QED
  BY <1>1, RollbackKeeps DEF Stop

\* Past the last version there is nothing half done to commit.
LEMMA FinishStep ==
  ASSUME StartInv, NEW p \in Processes, Finish(p)
  PROVE  StartInv'
<1>1. Agrees(View(p), at[p], populated) /\ at[p].version > Latest
  BY DEF Finish, StartInv
<1>2. ~ (at[p].version <= Latest)
  BY <1>1, RegistryIs DEF Agrees, IsPlace
<1>3. Committed(View(p), populated)
  BY <1>1, <1>2, CommitAgrees
<1>4. OnlyMoves(p) /\ pc'[p] # "migrating"
  BY DEF Finish, OnlyMoves, StartInv
<1> QED
  BY <1>3, <1>4, CommitKeeps DEF Finish

\* db migrate begins anew on what is committed.
LEMMA MigrateStep ==
  ASSUME StartInv, NEW p \in Processes, DbMigrate(p)
  PROVE  StartInv'
<1>1. pc[p] = "second" /\ writer # p /\ UNCHANGED << db, writer, draft >>
  BY DEF DbMigrate, StartInv
<1>2. CASE pc' = [pc EXCEPT ![p] = "done"] /\ UNCHANGED at
  <2>1. OnlyMoves(p) /\ pc'[p] # "migrating"
    BY <1>2 DEF OnlyMoves, StartInv, DbMigrate
  <2> QED
    BY <1>1, <2>1, MoveKeeps
<1>3. CASE /\ pc' = [pc EXCEPT ![p] = "migrating"]
           /\ GoTo(p, Beginning(Newest(db) + 1))
  <2>1. OnlyMoves(p) /\ at'[p] = Beginning(Newest(db) + 1)
    BY <1>3, GoToMoves DEF DbMigrate
  <2>2. Newest(db) + 1 \in 1..(Latest + 1)
    <3>1. Newest(db) \in 0..Latest
      BY NewestIs DEF StartInv, Committed, Whole
    <3> QED
      BY <3>1, RegistryIs
  <2>3. Agrees(View(p), at'[p], populated)
    BY <1>1, <2>1, <2>2, BeginningAgrees DEF StartInv, View
  <2> QED
    BY <1>1, <2>1, <2>3, MoveKeeps
<1> QED
  BY <1>2, <1>3 DEF DbMigrate

-----------------------------------------------------------------------------
\* Functions of the versions are sequences.
LEMMA Tabulated ==
  ASSUME NEW f, f = [v \in 1..Latest |-> f[v]]
  PROVE  f \o << >> = f
<1> DEFINE S == {f[v] : v \in 1..Latest}
<1>1. \A v \in 1..Latest : f[v] \in S
  OBVIOUS
<1> HIDE DEF S
<1>2. [v \in 1..Latest |-> f[v]] \in Seq(S)
  BY <1>1, RegistryIs, IsASeq
<1> QED
  BY <1>2, ConcatEmptySeq

\* What a version needs of the rows, as RecordedIsDone says it.
LEMMA NeededIs ==
  ASSUME NEW v \in 1..Latest, NEW pop
  PROVE  (IF pop THEN WrittenIfRows[v] ELSE AlwaysWritten[v])
           = {<< v, i >> : i \in {j \in DOMAIN Programs[v] :
                                    Programs[v][j].op \in NeededOps(pop)}}
<1> DEFINE Rows(ops, u) ==
             {<< u, i >> : i \in {j \in DOMAIN Programs[u] : Programs[u][j].op \in ops}}
<1>1. DOMAIN Programs = 1..Latest
  <2> DEFINE f == [u \in DOMAIN Registry |->
                     << Commit >> \o Registry[u].script \o Registry[u].callable
                       \o << Record >>]
  <2>1. DOMAIN f = 1..Latest /\ f = [u \in 1..Latest |-> f[u]]
    BY RegistryIs
  <2>2. Programs = f \o << >>
    BY DEF Programs
  <2> HIDE DEF f
  <2> QED
    BY <2>1, <2>2, Tabulated
<1>2. ASSUME NEW ops PROVE RowsOf(ops)[v] = Rows(ops, v)
  <2> DEFINE f == [u \in DOMAIN Programs |-> Rows(ops, u)]
  <2>1. f[v] = Rows(ops, v) /\ f = [u \in 1..Latest |-> f[u]]
    BY <1>1
  <2>2. RowsOf(ops) = f \o << >>
    BY DEF RowsOf
  <2> HIDE DEF f
  <2> QED
    BY <2>1, <2>2, Tabulated
<1> QED
  BY <1>2 DEF AlwaysWritten, WrittenIfRows, NeededOps

\* The databases found are whole, and no process has begun.
LEMMA InitStart == Init => StartInv
<1> SUFFICES ASSUME Init PROVE StartInv
  OBVIOUS
<1>1. PICK f \in Databases : db = f.content /\ draft = db /\ populated = f.populated
  BY DEF Init
<1>2. /\ f.content \in [objects : SUBSET (STRING \X STRING), rows : SUBSET (Nat \X Nat),
                        twice : {{}}, versions : SUBSET (1..Latest)]
      /\ \A r \in f.content.rows : r[1] \in f.content.versions
      /\ \A v \in f.content.versions :
           (IF f.populated THEN WrittenIfRows[v] ELSE AlwaysWritten[v])
             \subseteq f.content.rows
  BY DatabasesAssumption DEF Latest
<1>3. /\ db = [k \in Parts |-> db[k]] /\ db.versions \subseteq 1..Latest /\ db.twice = {}
      /\ \A r \in db.rows : r[1] \in db.versions
  BY <1>1, <1>2 DEF Parts
<1>4. ASSUME NEW v \in db.versions, NEW i \in 1..Len(Programs[v]),
             Programs[v][i].op \in NeededOps(populated)
      PROVE  << v, i >> \in db.rows
  <2>1. v \in 1..Latest
    BY <1>3
  <2>2. DOMAIN Programs[v] = 1..Len(Programs[v])
    BY <2>1, ProgramShape
  <2>3. (IF populated THEN WrittenIfRows[v] ELSE AlwaysWritten[v]) \subseteq db.rows
    BY <1>1, <1>2
  <2> QED
    BY <1>4, <2>1, <2>2, <2>3, NeededIs
<1>5. Committed(db, populated)
  BY <1>3, <1>4 DEF Committed, Whole
<1>6. /\ writer = Free /\ draft = db
      /\ pc = [p \in Processes |-> "down"] /\ at = [p \in Processes |-> Beginning(1)]
  BY <1>1 DEF Init
<1> QED
  BY <1>5, <1>6, StartAssumption DEF StartInv

\* Every step keeps the invariant.
LEMMA NextStart ==
  ASSUME StartInv, [Next]_vars
  PROVE  StartInv'
<1>1. CASE UNCHANGED vars
  BY <1>1 DEF vars, StartInv, View
<1>2. CASE Next
  <2>1. CASE StartServer
    BY <2>1, BeginStep DEF StartServer, Processes
  <2>2. CASE \E p \in Tools, c \in Commands : RunCommand(p, c)
    BY <2>2, BeginStep DEF RunCommand, Processes
  <2>3. ASSUME NEW p \in Processes, Step(p) \/ Crash(p) PROVE StartInv'
    <3>1. CASE CommitFirst(p)
      BY <3>1, CommitFirstStep
    <3>2. CASE Look(p) \/ PassOver(p) \/ Check(p)
      BY <3>2, LookStep
    <3>3. CASE Execute(p)
      BY <3>3, ExecuteStep
    <3>4. CASE Fail(p) \/ Crash(p)
      BY <3>4, StopStep DEF Fail, Crash
    <3>5. CASE Finish(p)
      BY <3>5, FinishStep
    <3>6. CASE DbMigrate(p)
      BY <3>6, MigrateStep
    <3> QED
      BY <2>3, <3>1, <3>2, <3>3, <3>4, <3>5, <3>6 DEF Step
  <2> QED
    BY <1>2, <2>1, <2>2, <2>3 DEF Next
<1> QED
  BY <1>1, <1>2

\* What is recorded is done: the invariant says so of what is committed.
LEMMA StartIsDone == StartInv => RecordedIsDone
<1> SUFFICES ASSUME StartInv, NEW v \in db.versions
             PROVE  (IF populated THEN WrittenIfRows[v] ELSE AlwaysWritten[v])
                      \subseteq db.rows
  BY DEF RecordedIsDone
<1>1. /\ v \in 1..Latest
      /\ \A i \in 1..Len(Programs[v]) :
           Programs[v][i].op \in NeededOps(populated) => << v, i >> \in db.rows
  BY DEF StartInv, Committed, Whole
<1>2. DOMAIN Programs[v] = 1..Len(Programs[v])
  BY <1>1, ProgramShape
<1> QED
  BY <1>1, <1>2, NeededIs

(***************************************************************************)
(* With any number of processes that start at any time, alone or together, *)
(* on any whole database, and fail or are killed anywhere: a version whose *)
(* row is committed has all of its row writes committed.                   *)
(***************************************************************************)
THEOREM RecordedStaysDone == Spec => []RecordedIsDone
<1>1. StartInv /\ [Next]_vars => StartInv'
  BY NextStart
<1> QED
  BY <1>1, InitStart, StartIsDone, PTL DEF Spec

(***************************************************************************)
(* And no row write of a migration is committed twice, though processes    *)
(* that read the same version run the same statements: the one that comes  *)
(* second cannot record the version, and is rolled back.                   *)
(***************************************************************************)
THEOREM NothingTwice == Spec => []BackfilledOnce
<1>1. StartInv /\ [Next]_vars => StartInv'
  BY NextStart
<1>2. StartInv => BackfilledOnce
  BY DEF StartInv, Committed, BackfilledOnce
<1> QED
  BY <1>1, <1>2, InitStart, PTL DEF Spec

-----------------------------------------------------------------------------
(***************************************************************************)
(* The types.  Places and versions follow from the invariant above, which  *)
(* knows what the programs are; the rest is kept beside it.                *)
(***************************************************************************)
Fits(c) ==
    /\ c.twice \subseteq c.rows
    /\ \A o \in c.objects : Table(o[1]) \in c.objects

States == {"down", "migrating", "second", "up", "done", "failed"}

RunsOK ==
    /\ pc \in [Processes -> States]
    /\ command \in [Processes -> Commands \cup {"query"}]
    /\ outdated \in [Processes -> BOOLEAN]
    /\ \A p \in Processes : at[p].version \in 1..(Latest + 1)
    /\ backup \in BOOLEAN
    /\ commands \in 0..MaxCommands /\ crashes \in 0..MaxCrashes

TypeInv == StartInv /\ Fits(db) /\ Fits(draft) /\ RunsOK

\* A statement leaves no column without its table.
LEMMA ChangedFits ==
  ASSUME NEW c, c = [k \in Parts |-> c[k]], Fits(c), NEW s, NEW v, NEW row,
         ~ Broken(s, c, v)
  PROVE  Fits(Changed(s, c, row))
<1> DEFINE c2 == Changed(s, c, row)
<1>1. ASSUME NEW O, \A o \in O : Table(o[1]) \in O
      PROVE  Fits([c EXCEPT !.objects = O])
  BY <1>1 DEF Fits, Parts
<1>2. \A o \in Objects(s) : Table(o[1]) = Table(s.table)
  BY DEF Objects, Table
<1>3. \A t : Table(t)[1] = t /\ Table(t)[2] = ""
  BY DEF Table
<1>4. CASE s.op \in {"create", "create_new"}
  <2> DEFINE O == c.objects \cup {Table(s.table)} \cup Objects(s)
  <2>1. \A o \in O : Table(o[1]) \in O
    BY <1>2, <1>3 DEF Fits
  <2>2. c2 = [c EXCEPT !.objects = O]
    BY <1>4 DEF Changed, RowOps
  <2> HIDE DEF O, c2
  <2>3. Fits(c2)
    BY <1>1, <2>1, <2>2
  <2> QED
    BY <2>3 DEF c2
<1>5. CASE s.op \in {"add", "guard_add"}
  <2> DEFINE O == c.objects \cup Objects(s)
  <2>1. Table(s.table) \in c.objects
    BY <1>5 DEF Broken, TableExists
  <2>2. \A o \in O : Table(o[1]) \in O
    BY <1>2, <2>1 DEF Fits
  <2>3. c2 = [c EXCEPT !.objects = O]
    BY <1>5 DEF Changed, RowOps
  <2> HIDE DEF O, c2
  <2>4. Fits(c2)
    BY <1>1, <2>2, <2>3
  <2> QED
    BY <2>4 DEF c2
<1>6. CASE s.op = "guard_drop"
  <2> DEFINE O == c.objects \ Lost(s, c)
  <2>1. ASSUME NEW o \in O PROVE Table(o[1]) \in O
    <3>1. Table(o[1]) \in c.objects
      BY DEF Fits
    <3>2. Table(o[1]) \notin Lost(s, c)
      BY <1>3 DEF Lost, OfTable
    <3> QED
      BY <3>1, <3>2
  <2>2. c2 = [c EXCEPT !.objects = O]
    BY <1>6 DEF Changed, RowOps
  <2> HIDE DEF O, c2
  <2>3. Fits(c2)
    BY <1>1, <2>1, <2>2
  <2> QED
    BY <2>3 DEF c2
<1>7. CASE s.op = "drop"
  <2> DEFINE O == c.objects \ OfTable(c, s.table)
  <2>1. \A o \in O : Table(o[1]) \in O
    BY <1>3 DEF Fits, OfTable
  <2>2. c2 = [c EXCEPT !.objects = O]
    BY <1>7 DEF Changed, RowOps
  <2> HIDE DEF O, c2
  <2>3. Fits(c2)
    BY <1>1, <2>1, <2>2
  <2> QED
    BY <2>3 DEF c2
<1>8. CASE s.op = "rename"
  <2> DEFINE O == (c.objects \ OfTable(c, s.table))
                    \cup {Table(s.to)} \cup {<< s.to, d >> : d \in s.columns}
  <2>1. ASSUME NEW o \in O PROVE Table(o[1]) \in O
    <3>1. CASE o \in c.objects \ OfTable(c, s.table)
      BY <1>3, <3>1 DEF Fits, OfTable
    <3>2. CASE o = Table(s.to)
      BY <1>3, <3>2
    <3>3. CASE o \in {<< s.to, d >> : d \in s.columns}
      <4>1. o[1] = s.to
        BY <3>3
      <4> QED
        BY <4>1
    <3> QED
      BY <3>1, <3>2, <3>3
  <2>2. c2 = [c EXCEPT !.objects = O]
    BY <1>8 DEF Changed, RowOps
  <2> HIDE DEF O, c2
  <2>3. Fits(c2)
    BY <1>1, <2>1, <2>2
  <2> QED
    BY <2>3 DEF c2
<1>9. CASE s.op \in RowOps
  <2>1. c2 = Written(c, row)
    BY <1>9 DEF Changed, RowOps
  <2>2. Fits(Written(c, row))
    BY DEF Written, Fits, Parts
  <2> QED
    BY <2>1, <2>2
<1>10. CASE s.op = "record"
  <2>1. c2 = [c EXCEPT !.versions = @ \cup {row[1]}]
    BY <1>10 DEF Changed, RowOps
  <2>2. ASSUME NEW V PROVE Fits([c EXCEPT !.versions = V])
    BY DEF Fits, Parts
  <2> QED
    BY <2>1, <2>2
<1>11. CASE s.op \notin {"create", "create_new", "add", "guard_add", "guard_drop", "drop",
                         "rename", "record"} \cup RowOps
  BY <1>11 DEF Changed, RowOps
<1> QED
  BY <1>4, <1>5, <1>6, <1>7, <1>8, <1>9, <1>10, <1>11

\* Whoever commits or rolls back leaves what was seen or what was there.
LEMMA EndFits ==
  ASSUME TypeInv, NEW p, CommitOf(p) \/ RollbackOf(p)
  PROVE  Fits(db') /\ Fits(draft')
BY DEF TypeInv, CommitOf, RollbackOf

LEMMA ExecuteFits ==
  ASSUME TypeInv, NEW p \in Processes, Execute(p)
  PROVE  Fits(db') /\ Fits(draft')
<1> DEFINE c == View(p)
           c2 == Changed(Current(p), c, << at[p].version, at[p].index >>)
<1>1. Agrees(c, at[p], populated)
  BY RunningIs DEF Execute, MayWrite, Writing, TypeInv
<1>2. c = [k \in Parts |-> c[k]] /\ Fits(c)
  BY <1>1 DEF Agrees, Whole, TypeInv, View
<1>3. ~ Broken(Current(p), c, at[p].version)
  BY DEF Execute
<1> HIDE DEF c
<1>4. Fits(c2)
  BY <1>2, <1>3, ChangedFits
<1>5. InTransaction(p, c2) \/ AutoCommit(c2)
  BY DEF Execute, c
<1> HIDE DEF c2
<1> QED
  BY <1>4, <1>5 DEF InTransaction, AutoCommit, TypeInv

\* The place a process goes to is of a version, or past the last.
LEMMA GoesTo ==
  ASSUME TypeInv, NEW p \in Processes, NEW a, GoTo(p, a), a.version \in 1..(Latest + 1)
  PROVE  \A q \in Processes : at'[q].version \in 1..(Latest + 1)
BY DEF GoTo, TypeInv, StartInv, RunsOK

LEMMA BeginningIn ==
  ASSUME TypeInv
  PROVE  /\ Beginning(1).version \in 1..(Latest + 1)
         /\ Beginning(Newest(db) + 1).version \in 1..(Latest + 1)
<1>1. Newest(db) \in 0..Latest
  BY NewestIs DEF TypeInv, StartInv, Committed, Whole
<1> QED
  BY <1>1, RegistryIs DEF Beginning

LEMMA StatementRuns ==
  ASSUME TypeInv, NEW p \in Processes,
         CommitFirst(p) \/ Look(p) \/ PassOver(p) \/ Check(p) \/ Execute(p)
  PROVE  RunsOK'
<1>1. /\ Agrees(View(p), at[p], populated) /\ at[p].version <= Latest
  BY RunningIs DEF TypeInv, CommitFirst, Look, PassOver, Check, Execute, MayWrite, Writing
<1>2. /\ IsPlace(at[p]) /\ IsPlace(Moved(at[p]))
  BY <1>1, MovedIs DEF Agrees
<1>3. Advance(p) => GoTo(p, Moved(at[p]))
  BY DEF Advance, Moved
<1>4. /\ at[p].version \in 1..(Latest + 1) /\ Moved(at[p]).version \in 1..(Latest + 1)
      /\ at[p] \in [version : 1..(Latest + 1), index : Nat \ {0}, checked : BOOLEAN]
  BY <1>2 DEF IsPlace
<1>5. \A n : [at[p] EXCEPT !.index = n].version = at[p].version
  BY <1>4
<1>6. [at[p] EXCEPT !.checked = TRUE].version = at[p].version
  BY <1>4
<1>7. \E a : GoTo(p, a) /\ a.version \in 1..(Latest + 1)
  BY <1>3, <1>4, <1>5, <1>6 DEF CommitFirst, Look, PassOver, Check, Execute, Return
<1>8. \A q \in Processes : at'[q].version \in 1..(Latest + 1)
  BY <1>7, GoesTo
<1>9. StatementDone
  BY DEF CommitFirst, Look, PassOver, Check, Execute
<1> QED
  BY <1>8, <1>9 DEF StatementDone, RunsOK, TypeInv

LEMMA OutdatedIs ==
  ASSUME RunsOK, NEW p \in Processes, Begin(p)
  PROVE  outdated' \in [Processes -> BOOLEAN]
<1>1. ASSUME NEW b \in BOOLEAN PROVE [outdated EXCEPT ![p] = b] \in [Processes -> BOOLEAN]
  BY Zenon DEF RunsOK
<1>2. (Newest(db) < Latest) \in BOOLEAN
  OBVIOUS
<1> QED
  BY <1>1, <1>2, Zenon DEF Begin

LEMMA NextTyped ==
  ASSUME TypeInv, [Next]_vars
  PROVE  TypeInv'
<1>1. StartInv'
  BY NextStart DEF TypeInv
<1>2. CASE UNCHANGED vars
  BY <1>1, <1>2 DEF vars, TypeInv, Fits, RunsOK
<1>3. CASE StartServer
  <2>1. Server \in Processes /\ Begin(Server) /\ UNCHANGED << db, draft >>
    BY <1>3 DEF StartServer, Processes
  <2>2. \A q \in Processes : at'[q].version \in 1..(Latest + 1)
    BY <2>1, BeginningIn, GoesTo DEF Begin
  <2>3. outdated' \in [Processes -> BOOLEAN]
    BY <2>1, OutdatedIs DEF TypeInv
  <2>4. RunsOK'
    BY <1>3, <2>2, <2>3 DEF StartServer, Begin, RunsOK, TypeInv, States
  <2> QED
    BY <1>1, <2>1, <2>4 DEF TypeInv, Fits
<1>4. ASSUME NEW p \in Tools, NEW c \in Commands, RunCommand(p, c) PROVE TypeInv'
  <2>1. p \in Processes /\ Begin(p) /\ UNCHANGED << db, draft >>
    BY <1>4 DEF RunCommand, Processes
  <2>2. \A q \in Processes : at'[q].version \in 1..(Latest + 1)
    BY <2>1, BeginningIn, GoesTo DEF Begin
  <2>3. commands' \in 0..MaxCommands
    BY <1>4, StartAssumption DEF RunCommand, TypeInv, RunsOK
  <2>4. outdated' \in [Processes -> BOOLEAN]
    BY <2>1, OutdatedIs DEF TypeInv
  <2>5. RunsOK'
    BY <1>4, <2>2, <2>3, <2>4 DEF RunCommand, Begin, RunsOK, TypeInv, States
  <2> QED
    BY <1>1, <2>1, <2>5 DEF TypeInv, Fits
<1>5. ASSUME NEW p \in Processes, Step(p) \/ Crash(p) PROVE TypeInv'
  <2>1. CASE CommitFirst(p) \/ Look(p) \/ PassOver(p) \/ Check(p) \/ Execute(p)
    <3>1. RunsOK'
      BY <2>1, StatementRuns
    <3>2. Fits(db') /\ Fits(draft')
      <4>1. CASE CommitFirst(p)
        BY <4>1, EndFits DEF CommitFirst
      <4>2. CASE Look(p) \/ PassOver(p) \/ Check(p)
        BY <4>2 DEF Look, PassOver, Check, TypeInv
      <4>3. CASE Execute(p)
        BY <4>3, ExecuteFits
      <4> QED
        BY <2>1, <4>1, <4>2, <4>3
    <3> QED
      BY <1>1, <3>1, <3>2 DEF TypeInv, Fits
  <2>2. CASE Fail(p) \/ Crash(p)
    <3>1. Stop(p)
      BY <2>2 DEF Fail, Crash
    <3>2. \A q \in Processes : at'[q].version \in 1..(Latest + 1)
      BY <3>1, BeginningIn, GoesTo DEF Stop
    <3>3. crashes' \in 0..MaxCrashes
      BY <2>2, StartAssumption DEF Fail, Crash, TypeInv, RunsOK
    <3>4. RunsOK'
      BY <3>1, <3>2, <3>3 DEF Stop, RunsOK, TypeInv, States
    <3>5. Fits(db') /\ Fits(draft')
      BY <3>1, EndFits DEF Stop
    <3> QED
      BY <1>1, <3>4, <3>5 DEF TypeInv, Fits
  <2>3. CASE Finish(p)
    <3>1. RunsOK'
      BY <2>3 DEF Finish, RunsOK, TypeInv, States
    <3>2. Fits(db') /\ Fits(draft')
      BY <2>3, EndFits DEF Finish
    <3> QED
      BY <1>1, <3>1, <3>2 DEF TypeInv, Fits
  <2>4. CASE DbMigrate(p)
    <3>1. \A q \in Processes : at'[q].version \in 1..(Latest + 1)
      <4>1. CASE at' = at
        BY <4>1 DEF TypeInv, RunsOK
      <4>2. CASE GoTo(p, Beginning(Newest(db) + 1))
        BY <4>2, BeginningIn, GoesTo
      <4> QED
        BY <2>4, <4>1, <4>2 DEF DbMigrate
    <3>2. backup' \in BOOLEAN
      BY <2>4 DEF DbMigrate
    <3>3. pc' \in [Processes -> States]
      BY <2>4 DEF DbMigrate, TypeInv, RunsOK, States
    <3>4. RunsOK'
      BY <2>4, <3>1, <3>2, <3>3 DEF DbMigrate, RunsOK, TypeInv
    <3> QED
      BY <1>1, <2>4, <3>4 DEF TypeInv, Fits, DbMigrate
  <2> QED
    BY <1>5, <2>1, <2>2, <2>3, <2>4 DEF Step
<1> QED
  BY <1>2, <1>3, <1>4, <1>5 DEF Next

LEMMA InitTyped == Init => TypeInv
<1> SUFFICES ASSUME Init PROVE TypeInv
  OBVIOUS
<1>1. StartInv
  BY InitStart
<1>2. Latest \in Nat /\ Beginning(1).version = 1
  BY RegistryIs DEF Beginning
<1>3. PICK f \in Databases : db = f.content /\ draft = db
  BY DEF Init
<1>4. Fits(db) /\ Fits(draft)
  BY <1>3, DatabasesAssumption DEF Fits
<1>5. outdated \in [Processes -> BOOLEAN] /\ backup \in BOOLEAN
  BY Zenon DEF Init
<1>6. RunsOK
  BY <1>2, <1>5, StartAssumption DEF Init, RunsOK, States
<1> QED
  BY <1>1, <1>4, <1>6 DEF TypeInv

LEMMA TypeInvTypes == TypeInv => TypeOK
<1> SUFFICES ASSUME TypeInv PROVE TypeOK
  OBVIOUS
<1>1. Contents(db)
  BY DEF TypeInv, StartInv, Committed, Whole, Fits, Contents
<1>2. IF writer = Free THEN draft = db
      ELSE writer \in Processes /\ pc[writer] = "migrating" /\ Contents(draft)
  <2>1. CASE writer = Free
    BY <2>1 DEF TypeInv, StartInv
  <2>2. CASE writer # Free
    <3>1. writer \in Processes /\ pc[writer] = "migrating"
      BY <2>2 DEF TypeInv, StartInv
    <3>2. Agrees(draft, at[writer], populated)
      BY <3>1 DEF TypeInv, StartInv, View
    <3>3. Contents(draft)
      BY <3>2 DEF TypeInv, Agrees, Whole, Fits, Contents
    <3> QED
      BY <2>2, <3>1, <3>3
  <2> QED
    BY <2>1, <2>2
<1> QED
  BY <1>1, <1>2 DEF TypeInv, RunsOK, States, TypeOK

(***************************************************************************)
(* Whatever processes start, fail and are killed: what is committed and    *)
(* what a transaction sees is a schema, every column in its table, with    *)
(* versions of the registry, and only a process that migrates holds the    *)
(* write lock.                                                             *)
(***************************************************************************)
THEOREM StartTyped == Spec => []TypeOK
<1>1. TypeInv /\ [Next]_vars => TypeInv'
  BY NextTyped
<1> QED
  BY <1>1, InitTyped, TypeInvTypes, PTL DEF Spec

=============================================================================
