---------------------------- MODULE SumTheorems ----------------------------
(***************************************************************************)
(* Sums over finite sets: what SumFunctionOnSet of the community modules   *)
(* computes.  Balances, subtotals and quantities are all such sums.        *)
(*                                                                         *)
(* The sum is a recursive function on the subsets of the set, which picks  *)
(* any element and goes on with the rest.  A minimal counterexample by     *)
(* inclusion stands in for induction throughout; for a loop over numbers,  *)
(* whose values are found one from the other, Turns and Iterates do.       *)
(***************************************************************************)
EXTENDS Integers, FiniteSetsExt, FiniteSetTheorems, WellFoundedInduction, TLAPS

Pick(s) == CHOOSE x \in s : TRUE

SumStep(f, S, g) ==
  g = [s \in SUBSET S |-> IF s = {} THEN 0 ELSE f[Pick(s)] + g[s \ {Pick(s)}]]

\* A set of finite sets has a smallest one by inclusion.
LEMMA SmallestSubset ==
  ASSUME NEW S, IsFiniteSet(S), NEW P \in SUBSET (SUBSET S), P # {}
  PROVE  \E m \in P : \A t \in P : t \subseteq m => t = m
<1> DEFINE R == StrictSubsetOrdering(S)
<1>1. IsWellFoundedOn(R, SUBSET S)
  BY FS_StrictSubsetOrderingWellFounded, FS_FiniteSubsetsOfFinite
<1>2. PICK m \in P : \A t \in P : << t, m >> \notin R
  <2> HIDE DEF R
  <2> QED
    BY <1>1, WFMin
<1>3. ASSUME NEW t \in P, t \subseteq m, t # m PROVE FALSE
  BY <1>2, <1>3 DEF StrictSubsetOrdering
<1> QED
  BY <1>3

\* A set of numbers has a least, and a finite one a greatest.
LEMMA LeastIs ==
  ASSUME NEW S, S \subseteq Nat, S # {}
  PROVE  \E v \in S : \A w \in S : v <= w
<1>1. \E v \in S : \A w \in S : ~ (<<w, v>> \in OpToRel(<, Nat))
  BY NatLessThanWellFounded, WFMin
<1>2. PICK v \in S : \A w \in S : ~ (<<w, v>> \in OpToRel(<, Nat)) BY <1>1
<1>3. ASSUME NEW w \in S PROVE v <= w
  <2>1. v \in Nat /\ w \in Nat OBVIOUS
  <2>2. ~(w < v) BY <1>2, <2>1 DEF OpToRel
  <2> QED BY <2>1, <2>2
<1> QED BY <1>3

LEMMA GreatestOf ==
  ASSUME NEW S, S \subseteq Nat, IsFiniteSet(S), S # {}
  PROVE  \E v \in S : \A w \in S : w <= v
<1> DEFINE Above(v) == {w \in S : v <= w}
           P == {Above(v) : v \in S}
<1>1. PICK m \in P : \A t \in P : t \subseteq m => t = m
  <2>1. P \in SUBSET (SUBSET S)
    OBVIOUS
  <2>2. P # {}
    OBVIOUS
  <2>3. IsFiniteSet(S)
    OBVIOUS
  <2> HIDE DEF P
  <2> QED
    BY ONLY <2>1, <2>2, <2>3, SmallestSubset
<1>2. PICK v \in S : m = Above(v)
  OBVIOUS
<1>3. ASSUME NEW w \in S, v < w PROVE FALSE
  <2>1. \A x \in S : x \in Nat
    OBVIOUS
  <2>2. Above(w) \subseteq Above(v)
    <3>1. \A x \in S : w <= x => v <= x
      BY <1>3, <2>1
    <3> QED
      BY <3>1
  <2>3. v \in Above(v) /\ v \notin Above(w)
    BY <1>3, <2>1
  <2> QED
    BY <1>1, <1>2, <2>2, <2>3
<1> QED
  BY <1>3

\* What holds at first and from turn to turn holds at the end.
LEMMA Turns ==
  ASSUME NEW n \in Nat, NEW good, good \subseteq 0..n, 0 \in good,
         \A k \in 1..n : k - 1 \in good => k \in good
  PROVE  n \in good
<1> DEFINE bad == (0..n) \ good
<1>1. SUFFICES ASSUME n \notin good PROVE FALSE OBVIOUS
<1>2. IsFiniteSet(bad) /\ bad \subseteq Nat /\ bad # {} /\ bad \subseteq 0..n
  <2>1. IsFiniteSet(0..n) BY FS_Interval
  <2>2. bad \in SUBSET (0..n) OBVIOUS
  <2> QED BY <1>1, <2>1, <2>2, FS_Subset
<1>3. PICK v \in bad : \A w \in bad : v <= w
  <2> HIDE DEF bad
  <2> QED BY <1>2, LeastIs
<1>4. v \in 1..n /\ v - 1 \in 0..n /\ v - 1 \notin bad
  <2>1. v \in 0..n /\ v # 0 BY <1>2
  <2>2. v - 1 < v BY <2>1
  <2> QED BY <1>3, <2>1, <2>2
<1> QED BY <1>4

\* f goes from base through n turns, the k-th of which is step[k].
Iterated(f, n, L, base, step) ==
  /\ f \in [0..n -> L] /\ f[0] = base
  /\ \A k \in 1..n : f[k] = step[k][f[k - 1]]

\* A function is found value by value, each made from the one before it.
LEMMA Iterates ==
  ASSUME NEW n, n \in Nat, NEW L, NEW base, base \in L,
         NEW step, step \in [1..n -> [L -> L]]
  PROVE  \E f : Iterated(f, n, L, base, step)
<1> DEFINE Is(m, f) == f[0] = base /\ \A k \in 1..m : f[k] = step[k][f[k - 1]]
           good == {m \in 0..n : \E f \in [0..m -> L] : Is(m, f)}
<1>1. 0 \in good
  <2> DEFINE f == [k \in 0..0 |-> base]
  <2>1. f \in [0..0 -> L] /\ f[0] = base /\ 1..0 = {} OBVIOUS
  <2> HIDE DEF f
  <2>2. Is(0, f) BY <2>1
  <2> QED BY <2>1, <2>2
<1>2. ASSUME NEW k \in 1..n, k - 1 \in good PROVE k \in good
  <2>1. PICK f \in [0..(k - 1) -> L] : Is(k - 1, f) BY <1>2
  <2> DEFINE g == [j \in 0..k |-> IF j = k THEN step[k][f[k - 1]] ELSE f[j]]
  <2>2. /\ k \in 0..n /\ 0 \in 0..k /\ 0 # k /\ k - 1 \in 0..(k - 1) /\ k \in 0..k
        /\ \A j \in 0..k : j # k => j \in 0..(k - 1)
        /\ \A j \in 1..k : /\ j \in 0..k /\ j - 1 \in 0..k /\ j - 1 # k
                          /\ j # k => j \in 1..(k - 1)
    OBVIOUS
  <2>3. step[k][f[k - 1]] \in L BY <2>2
  <2>4. g \in [0..k -> L] BY <2>2, <2>3
  <2>5. \A j \in 0..k : g[j] = IF j = k THEN step[k][f[k - 1]] ELSE f[j] OBVIOUS
  <2> HIDE DEF g
  <2>6. g[0] = base BY <2>1, <2>2, <2>5
  <2>7. ASSUME NEW j \in 1..k PROVE g[j] = step[j][g[j - 1]]
    <3>1. g[j - 1] = f[j - 1] BY <2>2, <2>5
    <3>2. CASE j = k BY <2>2, <2>5, <3>1, <3>2
    <3>3. CASE j # k BY <2>1, <2>2, <2>5, <3>1, <3>3
    <3> QED BY <3>2, <3>3
  <2>8. Is(k, g) BY <2>6, <2>7
  <2> HIDE DEF Is
  <2> QED BY <2>2, <2>4, <2>8
<1>3. good \subseteq 0..n OBVIOUS
<1> HIDE DEF good
<1>4. n \in good BY <1>1, <1>2, <1>3, Turns
<1>5. PICK f \in [0..n -> L] : Is(n, f) BY <1>4 DEF good
<1> QED BY <1>5 DEF Iterated

LEMMA PickIs == ASSUME NEW s, s # {} PROVE Pick(s) \in s
BY DEF Pick

\* The recursion determines the function on the subsets it is given for.
LEMMA SumStepAgrees ==
  ASSUME NEW f, NEW S, IsFiniteSet(S), NEW T, NEW g, NEW h,
         SumStep(f, S, g), SumStep(f, T, h), NEW u \in SUBSET S, u \subseteq T
  PROVE  g[u] = h[u]
<1> DEFINE P == {v \in SUBSET u : g[v] # h[v]}
<1>1. SUFFICES ASSUME P # {} PROVE FALSE
  OBVIOUS
<1>2. IsFiniteSet(u)
  BY FS_Subset
<1>3. PICK m \in P : \A t \in P : t \subseteq m => t = m
  <2>1. P \in SUBSET (SUBSET u)
    OBVIOUS
  <2> HIDE DEF P
  <2> QED
    BY <1>1, <1>2, <2>1, SmallestSubset
<1> DEFINE r == m \ {Pick(m)}
<1>4. m # {} => Pick(m) \in m
  BY PickIs
<1>5. m \in SUBSET S /\ m \in SUBSET T
  OBVIOUS
<1>6. /\ g[m] = IF m = {} THEN 0 ELSE f[Pick(m)] + g[r]
      /\ h[m] = IF m = {} THEN 0 ELSE f[Pick(m)] + h[r]
  BY <1>5 DEF SumStep
<1>7. m # {} => r \notin P
  BY <1>3, <1>4
<1>8. m # {} => g[r] = h[r]
  BY <1>7
<1> QED
  BY <1>6, <1>8

\* The recursion has a solution.
LEMMA SumStepExists ==
  ASSUME NEW f, NEW S, IsFiniteSet(S)
  PROVE  \E g : SumStep(f, S, g)
<1> DEFINE P == {s \in SUBSET S : ~ \E g : SumStep(f, s, g)}
<1>1. SUFFICES ASSUME P # {} PROVE FALSE
  OBVIOUS
<1>2. PICK m \in P : \A t \in P : t \subseteq m => t = m
  <2>1. P \in SUBSET (SUBSET S)
    OBVIOUS
  <2> HIDE DEF P
  <2> QED
    BY <1>1, <2>1, SmallestSubset
<1> DEFINE G(u) == CHOOSE g : SumStep(f, u, g)
           H == [u \in SUBSET m |-> IF u = {} THEN 0
                                    ELSE f[Pick(u)] + G(u \ {Pick(u)})[u \ {Pick(u)}]]
<1>3. ASSUME NEW u \in SUBSET m, u # m PROVE SumStep(f, u, G(u))
  <2>1. \E g : SumStep(f, u, g)
    BY <1>2, <1>3
  <2> QED
    BY <2>1
<1>4. ASSUME NEW u \in SUBSET m, u # {}
      PROVE  H[u \ {Pick(u)}] = G(u \ {Pick(u)})[u \ {Pick(u)}]
  <2> DEFINE v == u \ {Pick(u)}
             w == v \ {Pick(v)}
  <2>1. Pick(u) \in u
    BY <1>4, PickIs
  <2>2. v \in SUBSET m /\ v # m
    BY <2>1
  <2>3. SumStep(f, v, G(v))
    BY <1>3, <2>2
  <2>4. G(v)[v] = IF v = {} THEN 0 ELSE f[Pick(v)] + G(v)[w]
    <3> HIDE DEF G
    <3> QED
      BY <2>3 DEF SumStep
  <2>5. H[v] = IF v = {} THEN 0 ELSE f[Pick(v)] + G(w)[w]
    BY <2>2
  <2>6. CASE v = {}
    BY <2>4, <2>5, <2>6
  <2>7. CASE v # {}
    <3>1. Pick(v) \in v
      BY <2>7, PickIs
    <3>2. w \in SUBSET m /\ w # m /\ w \subseteq v
      BY <2>2, <3>1
    <3>3. SumStep(f, w, G(w))
      BY <1>3, <3>2
    <3>4. IsFiniteSet(w)
      BY <3>2, FS_Subset
    <3>5. G(w)[w] = G(v)[w]
      <4> HIDE DEF G, w, v
      <4> QED
        BY <2>3, <3>2, <3>3, <3>4, SumStepAgrees
    <3> QED
      BY <2>4, <2>5, <2>7, <3>5
  <2> QED
    BY <2>6, <2>7
<1>5. SumStep(f, m, H)
  <2>1. ASSUME NEW u \in SUBSET m
        PROVE  H[u] = IF u = {} THEN 0 ELSE f[Pick(u)] + H[u \ {Pick(u)}]
    <3>1. CASE u = {}
      BY <3>1
    <3>2. CASE u # {}
      <4>1. H[u] = f[Pick(u)] + G(u \ {Pick(u)})[u \ {Pick(u)}]
        <5> HIDE DEF G
        <5> QED
          BY <3>2
      <4> HIDE DEF G, H
      <4> QED
        BY <1>4, <3>2, <4>1
    <3> QED
      BY <3>1, <3>2
  <2>2. H = [u \in SUBSET m |-> IF u = {} THEN 0 ELSE f[Pick(u)] + H[u \ {Pick(u)}]]
    <3>1. H = [u \in SUBSET m |-> H[u]]
      OBVIOUS
    <3> HIDE DEF H
    <3> QED
      BY <2>1, <3>1
  <2> HIDE DEF H
  <2> QED
    BY <2>2 DEF SumStep
<1> QED
  BY <1>5

\* What picks an element and goes on with the rest is the sum.
LEMMA SumIsStep ==
  ASSUME NEW f, NEW S, IsFiniteSet(S)
  PROVE  \E g : SumStep(f, S, g) /\ SumFunctionOnSet(f, S) = g[S]
<1> DEFINE g == CHOOSE h : SumStep(f, S, h)
<1>1. SumFunctionOnSet(f, S) = g[S]
  BY DEF SumFunctionOnSet, FoldFunctionOnSet, MapThenFoldSet, SumStep, Pick
<1>2. SumStep(f, S, g)
  BY SumStepExists
<1> QED
  BY <1>1, <1>2

\* The sum over no element.
THEOREM SumOfNone == ASSUME NEW f PROVE SumFunctionOnSet(f, {}) = 0
<1>1. PICK g : SumStep(f, {}, g) /\ SumFunctionOnSet(f, {}) = g[{}]
  BY SumIsStep, FS_EmptySet
<1> QED
  BY <1>1 DEF SumStep

LEMMA SumPicks ==
  ASSUME NEW f, NEW S, IsFiniteSet(S), S # {}
  PROVE  SumFunctionOnSet(f, S)
           = f[Pick(S)] + SumFunctionOnSet(f, S \ {Pick(S)})
<1> DEFINE r == S \ {Pick(S)}
<1>1. PICK g : SumStep(f, S, g) /\ SumFunctionOnSet(f, S) = g[S]
  BY SumIsStep
<1>2. IsFiniteSet(r)
  BY FS_Subset
<1>3. PICK h : SumStep(f, r, h) /\ SumFunctionOnSet(f, r) = h[r]
  BY <1>2, SumIsStep
<1>4. g[r] = h[r]
  <2> HIDE DEF r
  <2>1. r \in SUBSET S
    BY DEF r
  <2> QED
    BY <1>1, <1>3, <2>1, SumStepAgrees
<1>5. g[S] = f[Pick(S)] + g[r]
  BY <1>1 DEF SumStep
<1> QED
  BY <1>1, <1>3, <1>4, <1>5

\* A sum of integers is one.
THEOREM SumInt ==
  ASSUME NEW f, NEW S, IsFiniteSet(S), \A x \in S : f[x] \in Int
  PROVE  SumFunctionOnSet(f, S) \in Int
<1> DEFINE P == {s \in SUBSET S : SumFunctionOnSet(f, s) \notin Int}
<1>1. SUFFICES ASSUME P # {} PROVE FALSE
  OBVIOUS
<1>2. PICK m \in P : \A t \in P : t \subseteq m => t = m
  <2>1. P \in SUBSET (SUBSET S)
    OBVIOUS
  <2> HIDE DEF P
  <2> QED
    BY <1>1, <2>1, SmallestSubset
<1>3. m # {}
  BY SumOfNone
<1>4. Pick(m) \in m
  BY <1>3, PickIs
<1>5. SumFunctionOnSet(f, m \ {Pick(m)}) \in Int
  BY <1>2, <1>4
<1>6. IsFiniteSet(m)
  BY FS_Subset
<1>7. SumFunctionOnSet(f, m) = f[Pick(m)] + SumFunctionOnSet(f, m \ {Pick(m)})
  BY <1>3, <1>6, SumPicks
<1>8. f[Pick(m)] \in Int
  BY <1>4
<1> QED
  BY <1>5, <1>7, <1>8

\* A sum of naturals is one.
THEOREM SumNat ==
  ASSUME NEW f, NEW S, IsFiniteSet(S), \A x \in S : f[x] \in Nat
  PROVE  SumFunctionOnSet(f, S) \in Nat
<1> DEFINE P == {s \in SUBSET S : SumFunctionOnSet(f, s) \notin Nat}
<1>1. SUFFICES ASSUME P # {} PROVE FALSE
  OBVIOUS
<1>2. PICK m \in P : \A t \in P : t \subseteq m => t = m
  <2>1. P \in SUBSET (SUBSET S)
    OBVIOUS
  <2> HIDE DEF P
  <2> QED
    BY <1>1, <2>1, SmallestSubset
<1>3. m # {}
  BY SumOfNone
<1>4. Pick(m) \in m
  BY <1>3, PickIs
<1>5. SumFunctionOnSet(f, m \ {Pick(m)}) \in Nat
  BY <1>2, <1>4
<1>6. IsFiniteSet(m)
  BY FS_Subset
<1>7. SumFunctionOnSet(f, m) = f[Pick(m)] + SumFunctionOnSet(f, m \ {Pick(m)})
  BY <1>3, <1>6, SumPicks
<1>8. f[Pick(m)] \in Nat
  BY <1>4
<1> QED
  BY <1>5, <1>7, <1>8

\* Which element is taken out first makes no difference.
THEOREM SumRemove ==
  ASSUME NEW f, NEW S, IsFiniteSet(S), \A x \in S : f[x] \in Int, NEW e \in S
  PROVE  SumFunctionOnSet(f, S) = f[e] + SumFunctionOnSet(f, S \ {e})
<1> DEFINE Bad(s) == \E x \in s : SumFunctionOnSet(f, s)
                                   # f[x] + SumFunctionOnSet(f, s \ {x})
           P == {s \in SUBSET S : Bad(s)}
<1>1. SUFFICES ASSUME P # {} PROVE FALSE
  OBVIOUS
<1>2. PICK m \in P : \A t \in P : t \subseteq m => t = m
  <2>1. P \in SUBSET (SUBSET S)
    OBVIOUS
  <2> HIDE DEF P
  <2> QED
    BY <1>1, <2>1, SmallestSubset
<1>3. PICK x \in m : SumFunctionOnSet(f, m) # f[x] + SumFunctionOnSet(f, m \ {x})
  OBVIOUS
<1> DEFINE p == Pick(m)
           both == (m \ {x}) \ {p}
<1>4. p \in m
  BY <1>3, PickIs
<1>5. IsFiniteSet(m)
  BY FS_Subset
<1>6. SumFunctionOnSet(f, m) = f[p] + SumFunctionOnSet(f, m \ {p})
  BY <1>3, <1>5, SumPicks
<1>7. p # x
  BY <1>3, <1>6
<1>8. SumFunctionOnSet(f, m \ {x}) = f[p] + SumFunctionOnSet(f, both)
  <2>1. m \ {x} \notin P
    BY <1>2, <1>3
  <2>2. p \in m \ {x} /\ m \ {x} \in SUBSET S
    BY <1>4, <1>7
  <2> HIDE DEF p
  <2> QED
    BY <2>1, <2>2
<1>9. SumFunctionOnSet(f, m \ {p}) = f[x] + SumFunctionOnSet(f, both)
  <2>1. m \ {p} \notin P
    BY <1>2, <1>4
  <2>2. x \in m \ {p} /\ m \ {p} \in SUBSET S
    BY <1>3, <1>7
  <2>3. (m \ {p}) \ {x} = both
    OBVIOUS
  <2> HIDE DEF p, both
  <2> QED
    BY <2>1, <2>2, <2>3
<1>10. f[p] \in Int /\ f[x] \in Int
  BY <1>3, <1>4
<1>11. SumFunctionOnSet(f, both) \in Int
  <2>1. both \in SUBSET S
    OBVIOUS
  <2> HIDE DEF both
  <2> QED
    BY <2>1, FS_Subset, SumInt
<1> HIDE DEF p, both, P
<1> QED
  BY <1>3, <1>6, <1>8, <1>9, <1>10, <1>11

\* A new element adds its value.
THEOREM SumAdd ==
  ASSUME NEW f, NEW S, IsFiniteSet(S), NEW e, e \notin S,
         \A x \in S \cup {e} : f[x] \in Int
  PROVE  SumFunctionOnSet(f, S \cup {e}) = f[e] + SumFunctionOnSet(f, S)
<1>1. IsFiniteSet(S \cup {e}) /\ e \in S \cup {e} /\ (S \cup {e}) \ {e} = S
  BY FS_AddElement
<1> QED
  BY <1>1, SumRemove

\* Only the values at the elements of the set count.
THEOREM SumEqual ==
  ASSUME NEW f, NEW g, NEW S, IsFiniteSet(S), \A x \in S : f[x] = g[x]
  PROVE  SumFunctionOnSet(f, S) = SumFunctionOnSet(g, S)
<1> DEFINE P == {s \in SUBSET S : SumFunctionOnSet(f, s) # SumFunctionOnSet(g, s)}
<1>1. SUFFICES ASSUME P # {} PROVE FALSE
  OBVIOUS
<1>2. PICK m \in P : \A t \in P : t \subseteq m => t = m
  <2>1. P \in SUBSET (SUBSET S)
    OBVIOUS
  <2> HIDE DEF P
  <2> QED
    BY <1>1, <2>1, SmallestSubset
<1>3. m # {}
  BY SumOfNone
<1>4. Pick(m) \in m
  BY <1>3, PickIs
<1>5. SumFunctionOnSet(f, m \ {Pick(m)}) = SumFunctionOnSet(g, m \ {Pick(m)})
  BY <1>2, <1>4
<1>6. IsFiniteSet(m)
  BY FS_Subset
<1>7. /\ SumFunctionOnSet(f, m) = f[Pick(m)] + SumFunctionOnSet(f, m \ {Pick(m)})
      /\ SumFunctionOnSet(g, m) = g[Pick(m)] + SumFunctionOnSet(g, m \ {Pick(m)})
  BY <1>3, <1>6, SumPicks
<1> QED
  BY <1>4, <1>5, <1>7

\* The sum over two parts is the sum of theirs.
THEOREM SumUnion ==
  ASSUME NEW f, NEW S, IsFiniteSet(S), NEW T, IsFiniteSet(T), S \cap T = {},
         \A x \in S \cup T : f[x] \in Int
  PROVE  SumFunctionOnSet(f, S \cup T) = SumFunctionOnSet(f, S) + SumFunctionOnSet(f, T)
<1> DEFINE P == {s \in SUBSET S : SumFunctionOnSet(f, s \cup T)
                                   # SumFunctionOnSet(f, s) + SumFunctionOnSet(f, T)}
<1>1. SUFFICES ASSUME P # {} PROVE FALSE
  OBVIOUS
<1>2. PICK m \in P : \A t \in P : t \subseteq m => t = m
  <2>1. P \in SUBSET (SUBSET S)
    OBVIOUS
  <2> HIDE DEF P
  <2> QED
    BY <1>1, <2>1, SmallestSubset
<1>3. SumFunctionOnSet(f, T) \in Int
  BY SumInt
<1>4. m # {}
  <2>1. {} \cup T = T
    OBVIOUS
  <2>2. SumFunctionOnSet(f, {} \cup T) = SumFunctionOnSet(f, {}) + SumFunctionOnSet(f, T)
    BY <1>3, <2>1, SumOfNone
  <2> QED
    BY <2>2
<1>5. PICK x : x \in m
  BY <1>4
<1> DEFINE r == m \ {x}
<1>6. r \in SUBSET S /\ x \notin r /\ m = r \cup {x} /\ x \notin r \cup T
  BY <1>5
<1>7. SumFunctionOnSet(f, r \cup T) = SumFunctionOnSet(f, r) + SumFunctionOnSet(f, T)
  BY <1>2, <1>5
<1>8. IsFiniteSet(r) /\ IsFiniteSet(r \cup T)
  BY <1>6, FS_Subset, FS_Union
<1>9. \A y \in S \cup T : f[y] \in Int
  OBVIOUS
<1> HIDE DEF r
<1>10. f[x] \in Int /\ SumFunctionOnSet(f, r) \in Int
  BY <1>6, <1>8, <1>9, SumInt
<1>11. SumFunctionOnSet(f, m) = f[x] + SumFunctionOnSet(f, r)
  BY <1>6, <1>8, <1>9, SumAdd
<1>12. SumFunctionOnSet(f, m \cup T) = f[x] + SumFunctionOnSet(f, r \cup T)
  <2>1. m \cup T = (r \cup T) \cup {x}
    BY <1>6
  <2>2. \A y \in (r \cup T) \cup {x} : f[y] \in Int
    BY <1>6, <1>9
  <2> QED
    BY <1>6, <1>8, <2>1, <2>2, SumAdd
<1>13. SumFunctionOnSet(f, m \cup T) = SumFunctionOnSet(f, m) + SumFunctionOnSet(f, T)
  BY <1>3, <1>7, <1>10, <1>11, <1>12
<1> QED
  BY <1>13

\* The sum of sums is termwise.
THEOREM SumPlus ==
  ASSUME NEW f, NEW g, NEW h, NEW S, IsFiniteSet(S),
         \A x \in S : f[x] \in Int /\ g[x] \in Int /\ h[x] = f[x] + g[x]
  PROVE  SumFunctionOnSet(h, S) = SumFunctionOnSet(f, S) + SumFunctionOnSet(g, S)
<1> DEFINE P == {s \in SUBSET S : SumFunctionOnSet(h, s)
                                   # SumFunctionOnSet(f, s) + SumFunctionOnSet(g, s)}
<1>1. SUFFICES ASSUME P # {} PROVE FALSE
  OBVIOUS
<1>2. PICK m \in P : \A t \in P : t \subseteq m => t = m
  <2>1. P \in SUBSET (SUBSET S)
    OBVIOUS
  <2> HIDE DEF P
  <2> QED
    BY <1>1, <2>1, SmallestSubset
<1>3. m # {}
  <2>1. SumFunctionOnSet(h, {}) = SumFunctionOnSet(f, {}) + SumFunctionOnSet(g, {})
    BY SumOfNone
  <2> QED
    BY <2>1
<1>4. Pick(m) \in m
  BY <1>3, PickIs
<1>5. SumFunctionOnSet(h, m \ {Pick(m)})
        = SumFunctionOnSet(f, m \ {Pick(m)}) + SumFunctionOnSet(g, m \ {Pick(m)})
  BY <1>2, <1>4
<1>6. IsFiniteSet(m) /\ IsFiniteSet(m \ {Pick(m)}) /\ m \subseteq S
  BY FS_Subset
<1>7. /\ SumFunctionOnSet(f, m) = f[Pick(m)] + SumFunctionOnSet(f, m \ {Pick(m)})
      /\ SumFunctionOnSet(g, m) = g[Pick(m)] + SumFunctionOnSet(g, m \ {Pick(m)})
      /\ SumFunctionOnSet(h, m) = h[Pick(m)] + SumFunctionOnSet(h, m \ {Pick(m)})
  BY <1>3, <1>6, SumPicks
<1>8. /\ SumFunctionOnSet(f, m \ {Pick(m)}) \in Int
      /\ SumFunctionOnSet(g, m \ {Pick(m)}) \in Int
  BY <1>6, SumInt
<1>9. f[Pick(m)] \in Int /\ g[Pick(m)] \in Int /\ h[Pick(m)] = f[Pick(m)] + g[Pick(m)]
  BY <1>4, <1>6
<1>10. SumFunctionOnSet(h, m) # SumFunctionOnSet(f, m) + SumFunctionOnSet(g, m)
  OBVIOUS
<1> HIDE DEF P
<1> QED
  BY <1>5, <1>7, <1>8, <1>9, <1>10

\* Renaming the elements leaves the sum.
THEOREM SumImage ==
  ASSUME NEW S, IsFiniteSet(S), NEW T, NEW h \in [S -> T], NEW f, NEW g,
         \A x, y \in S : h[x] = h[y] => x = y,
         \A t \in T : \E x \in S : t = h[x],
         \A x \in S : f[x] \in Int /\ g[h[x]] = f[x]
  PROVE  SumFunctionOnSet(g, T) = SumFunctionOnSet(f, S)
<1> DEFINE Im(s) == {h[x] : x \in s}
           P == {s \in SUBSET S : SumFunctionOnSet(g, Im(s)) # SumFunctionOnSet(f, s)}
<1>1. Im(S) = T
  OBVIOUS
<1>2. SUFFICES ASSUME P # {} PROVE FALSE
  BY <1>1
<1>3. PICK m \in P : \A t \in P : t \subseteq m => t = m
  <2>1. P \in SUBSET (SUBSET S)
    OBVIOUS
  <2> HIDE DEF P
  <2> QED
    BY <1>2, <2>1, SmallestSubset
<1>4. m \in SUBSET S /\ SumFunctionOnSet(g, Im(m)) # SumFunctionOnSet(f, m)
  OBVIOUS
<1>5. m # {}
  <2>1. Im({}) = {}
    OBVIOUS
  <2> QED
    BY <1>4, <2>1, SumOfNone
<1>6. PICK x : x \in m
  BY <1>5
<1> DEFINE r == m \ {x}
<1>7. SumFunctionOnSet(g, Im(r)) = SumFunctionOnSet(f, r)
  <2>1. r \notin P
    BY <1>3, <1>6
  <2> QED
    BY <2>1
<1>8. IsFiniteSet(m) /\ IsFiniteSet(Im(m))
  <2>1. IsFiniteSet(m)
    BY FS_Subset
  <2> DEFINE k == [y \in m |-> h[y]]
  <2>2. k \in Surjection(m, Im(m))
    BY DEF Surjection
  <2> HIDE DEF Im, k
  <2> QED
    BY <2>1, <2>2, FS_Surjection
<1>9. Im(r) = Im(m) \ {h[x]} /\ h[x] \in Im(m)
  BY <1>4, <1>6
<1>10. \A t \in Im(m) : g[t] \in Int
  BY <1>4
<1>11. \A y \in m : f[y] \in Int
  BY <1>4
<1>12. f[x] = g[h[x]]
  BY <1>4, <1>6
<1> HIDE DEF Im
<1>13. SumFunctionOnSet(g, Im(m)) = g[h[x]] + SumFunctionOnSet(g, Im(m) \ {h[x]})
  BY <1>8, <1>9, <1>10, SumRemove
<1>14. SumFunctionOnSet(f, m) = f[x] + SumFunctionOnSet(f, r)
  BY <1>6, <1>8, <1>11, SumRemove
<1> QED
  BY <1>4, <1>7, <1>9, <1>12, <1>13, <1>14

\* Equal values add up to a multiple of them.
THEOREM SumConstant ==
  ASSUME NEW f, NEW S, IsFiniteSet(S), NEW c \in Int, \A x \in S : f[x] = c
  PROVE  SumFunctionOnSet(f, S) = Cardinality(S) * c
<1> DEFINE P == {s \in SUBSET S : SumFunctionOnSet(f, s) # Cardinality(s) * c}
<1>1. P \in SUBSET (SUBSET S)
  OBVIOUS
<1> SUFFICES ASSUME P # {} PROVE FALSE
  OBVIOUS
<1>2. PICK m \in P : \A t \in P : t \subseteq m => t = m
  <2> HIDE DEF P
  <2> QED
    BY <1>1, SmallestSubset
<1>3. m \in SUBSET S /\ SumFunctionOnSet(f, m) # Cardinality(m) * c
  OBVIOUS
<1>4. m # {}
  BY <1>3, SumOfNone, FS_EmptySet
<1>5. PICK x : x \in m
  BY <1>4
<1> DEFINE r == m \ {x}
<1>6. r \in SUBSET S /\ r \subseteq m /\ r # m
  BY <1>3, <1>5
<1>7. SumFunctionOnSet(f, r) = Cardinality(r) * c
  BY <1>2, <1>6
<1>8. IsFiniteSet(m) /\ IsFiniteSet(r)
  BY <1>3, <1>6, FS_Subset
<1>9. Cardinality(r) = Cardinality(m) - 1 /\ Cardinality(m) \in Nat
  BY <1>5, <1>8, FS_RemoveElement, FS_CardinalityType
<1>10. SumFunctionOnSet(f, m) = c + SumFunctionOnSet(f, r)
  <2>1. \A y \in m : f[y] \in Int
    BY <1>3
  <2>2. f[x] = c
    BY <1>3, <1>5
  <2> QED
    BY <1>5, <1>8, <2>1, <2>2, SumRemove
<1>11. \A n, v \in Int : v + (n - 1) * v = n * v
  OBVIOUS
<1> HIDE DEF r, P
<1> QED
  BY <1>3, <1>7, <1>9, <1>10, <1>11

OfKind(S, kind, k) == {x \in S : kind[x] = k}

\* Summed up kind by kind, the sum is the same.
THEOREM SumByKind ==
  ASSUME NEW f, NEW S, IsFiniteSet(S), \A x \in S : f[x] \in Int,
         NEW K, IsFiniteSet(K), NEW kind, \A x \in S : kind[x] \in K,
         NEW g, \A k \in K : g[k] = SumFunctionOnSet(f, OfKind(S, kind, k))
  PROVE  SumFunctionOnSet(g, K) = SumFunctionOnSet(f, S)
<1> DEFINE Of(k) == {x \in S : kind[x] \in k}
           P == {k \in SUBSET K : SumFunctionOnSet(g, k) # SumFunctionOnSet(f, Of(k))}
<1>1. Of(K) = S
  OBVIOUS
<1>2. SUFFICES ASSUME P # {} PROVE FALSE
  BY <1>1
<1>3. PICK m \in P : \A t \in P : t \subseteq m => t = m
  <2>1. P \in SUBSET (SUBSET K)
    OBVIOUS
  <2> HIDE DEF P
  <2> QED
    BY <1>2, <2>1, SmallestSubset
<1>4. m \in SUBSET K /\ SumFunctionOnSet(g, m) # SumFunctionOnSet(f, Of(m))
  OBVIOUS
<1>5. m # {}
  <2>1. Of({}) = {}
    OBVIOUS
  <2> QED
    BY <1>4, <2>1, SumOfNone
<1>6. PICK c : c \in m
  BY <1>5
<1> DEFINE r == m \ {c}
           one == OfKind(S, kind, c)
<1>7. SumFunctionOnSet(g, r) = SumFunctionOnSet(f, Of(r))
  <2>1. r \notin P
    BY <1>3, <1>6
  <2> QED
    BY <1>4, <2>1
<1>8. Of(m) = one \cup Of(r) /\ one \cap Of(r) = {}
  BY <1>6 DEF OfKind
<1>9. /\ one \subseteq S /\ Of(r) \subseteq S
      /\ IsFiniteSet(one) /\ IsFiniteSet(Of(r)) /\ IsFiniteSet(m)
  <2>1. one \in SUBSET S /\ Of(r) \in SUBSET S
    BY DEF OfKind
  <2> HIDE DEF one, Of
  <2> QED
    BY <1>4, <2>1, FS_Subset
<1>10. SumFunctionOnSet(f, Of(m)) = SumFunctionOnSet(f, one) + SumFunctionOnSet(f, Of(r))
  <2> DEFINE rest == Of(r)
  <2>1. \A x \in one \cup rest : f[x] \in Int
    BY <1>9
  <2> HIDE DEF one, rest
  <2>2. SumFunctionOnSet(f, one \cup rest)
          = SumFunctionOnSet(f, one) + SumFunctionOnSet(f, rest)
    <3>1. IsFiniteSet(one) /\ IsFiniteSet(rest) /\ one \cap rest = {}
      BY <1>8, <1>9 DEF rest
    <3> QED
      BY <2>1, <3>1, SumUnion
  <2> QED
    BY <1>8, <2>2 DEF rest
<1>11. ASSUME NEW k \in K PROVE g[k] \in Int
  <2> DEFINE those == OfKind(S, kind, k)
  <2>1. those \in SUBSET S
    BY DEF OfKind
  <2>2. g[k] = SumFunctionOnSet(f, those)
    OBVIOUS
  <2> HIDE DEF those
  <2>3. IsFiniteSet(those) /\ \A x \in those : f[x] \in Int
    BY <2>1, FS_Subset
  <2> QED
    BY <2>2, <2>3, SumInt
<1>12. SumFunctionOnSet(g, m) = g[c] + SumFunctionOnSet(g, r)
  <2>1. \A k \in m : g[k] \in Int
    BY <1>4, <1>11
  <2> QED
    BY <1>6, <1>9, <2>1, SumRemove
<1>13. g[c] = SumFunctionOnSet(f, one)
  BY <1>4, <1>6
<1> HIDE DEF one, Of, r
<1> QED
  BY <1>4, <1>7, <1>10, <1>12, <1>13

LEMMA SumOne ==
  ASSUME NEW f, NEW e, f[e] \in Int PROVE SumFunctionOnSet(f, {e}) = f[e]
<1>1. IsFiniteSet({}) /\ {} \cup {e} = {e} /\ e \notin {}
  BY FS_EmptySet
<1>2. SumFunctionOnSet(f, {} \cup {e}) = f[e] + SumFunctionOnSet(f, {})
  BY <1>1, SumAdd
<1> QED
  BY <1>1, <1>2, SumOfNone

LEMMA SumNegated ==
  ASSUME NEW f, NEW g, NEW S, IsFiniteSet(S), \A x \in S : f[x] \in Int /\ g[x] = -f[x]
  PROVE  SumFunctionOnSet(g, S) = -SumFunctionOnSet(f, S)
<1> DEFINE h == [x \in S |-> 0]
<1>1. \A x \in S : h[x] = 0 /\ f[x] \in Int /\ g[x] \in Int /\ h[x] = f[x] + g[x]
  OBVIOUS
<1> HIDE DEF h
<1>2. SumFunctionOnSet(h, S) = SumFunctionOnSet(f, S) + SumFunctionOnSet(g, S)
  BY <1>1, SumPlus
<1>3. SumFunctionOnSet(h, S) = Cardinality(S) * 0
  BY <1>1, SumConstant
<1>4. Cardinality(S) \in Nat
  BY FS_CardinalityType
<1>5. SumFunctionOnSet(f, S) \in Int /\ SumFunctionOnSet(g, S) \in Int
  BY <1>1, SumInt
<1> QED
  BY <1>2, <1>3, <1>4, <1>5

-----------------------------------------------------------------------------
(***************************************************************************)
(* Counting: parts of a set, and intervals.                                *)
(***************************************************************************)
LEMMA DisjointUnion ==
  ASSUME NEW A, NEW B, IsFiniteSet(A), IsFiniteSet(B), A \cap B = {}
  PROVE  Cardinality(A \cup B) = Cardinality(A) + Cardinality(B)
<1>1. Cardinality(A \cap B) = 0 BY FS_EmptySet
<1>2. Cardinality(A) \in Nat /\ Cardinality(B) \in Nat BY FS_CardinalityType
<1>3. Cardinality(A \cup B) = Cardinality(A) + Cardinality(B) - Cardinality(A \cap B)
  BY FS_Union
<1> QED BY <1>1, <1>2, <1>3

LEMMA NextItems ==
  ASSUME NEW n \in Nat, NEW q \in Nat
  PROVE  Cardinality((n + 1)..(n + q)) = q
<1>1. Cardinality((n + 1)..(n + q)) = IF n + 1 > n + q THEN 0 ELSE (n + q) - (n + 1) + 1
  BY FS_Interval, n + 1 \in Int, n + q \in Int
<1> QED BY <1>1

-----------------------------------------------------------------------------
(***************************************************************************)
(* Folds over a finite set, element by element, whatever they build.       *)
(***************************************************************************)
\* What picks an element and goes on with the rest, from base; step is a
\* function of the element and of what the rest came to.
PickStep(step, base, S, g) ==
  g = [s \in SUBSET S |-> IF s = {} THEN base ELSE step[Pick(s)][g[s \ {Pick(s)}]]]

\* What holds of no element, and of more as of one fewer, holds of all parts.
LEMMA PartByPart ==
  ASSUME NEW S, IsFiniteSet(S), NEW good, {} \in good,
         \A s \in SUBSET S : s # {} /\ s \ {Pick(s)} \in good => s \in good
  PROVE  SUBSET S \subseteq good
<1> DEFINE P == {s \in SUBSET S : s \notin good}
<1>1. SUFFICES ASSUME P # {} PROVE FALSE OBVIOUS
<1>2. PICK m \in P : \A t \in P : t \subseteq m => t = m
  <2>1. P \in SUBSET (SUBSET S) OBVIOUS
  <2> HIDE DEF P
  <2> QED BY <1>1, <2>1, SmallestSubset
<1>3. m # {} /\ m \in SUBSET S /\ m \notin good OBVIOUS
<1>4. Pick(m) \in m BY <1>3, PickIs
<1>5. m \ {Pick(m)} \in SUBSET S /\ m \ {Pick(m)} \notin P BY <1>2, <1>3, <1>4
<1> QED BY <1>3, <1>5

LEMMA PickStepAgrees ==
  ASSUME NEW step, NEW base, NEW S, IsFiniteSet(S), NEW T, NEW g, NEW h,
         PickStep(step, base, S, g), PickStep(step, base, T, h), S \subseteq T
  PROVE  \A u \in SUBSET S : g[u] = h[u]
<1> DEFINE good == {s \in SUBSET S : g[s] = h[s]}
<1>1. \A s \in SUBSET S :
        /\ g[s] = IF s = {} THEN base ELSE step[Pick(s)][g[s \ {Pick(s)}]]
        /\ h[s] = IF s = {} THEN base ELSE step[Pick(s)][h[s \ {Pick(s)}]]
  <2> SUFFICES ASSUME NEW s \in SUBSET S
               PROVE
        /\ g[s] = IF s = {} THEN base ELSE step[Pick(s)][g[s \ {Pick(s)}]]
        /\ h[s] = IF s = {} THEN base ELSE step[Pick(s)][h[s \ {Pick(s)}]]
    OBVIOUS
  <2>1. s \in SUBSET T OBVIOUS
  <2> QED BY <2>1 DEF PickStep
<1>2. {} \in good BY <1>1
<1>3. \A s \in SUBSET S : s # {} /\ s \ {Pick(s)} \in good => s \in good BY <1>1
<1> HIDE DEF good
<1>4. SUBSET S \subseteq good BY <1>2, <1>3, PartByPart
<1> QED BY <1>4 DEF good

LEMMA PickStepExists ==
  ASSUME NEW step, NEW base, NEW S, IsFiniteSet(S)
  PROVE  \E g : PickStep(step, base, S, g)
<1> DEFINE P == {s \in SUBSET S : ~ \E g : PickStep(step, base, s, g)}
<1>1. SUFFICES ASSUME P # {} PROVE FALSE OBVIOUS
<1>2. PICK m \in P : \A t \in P : t \subseteq m => t = m
  <2>1. P \in SUBSET (SUBSET S) OBVIOUS
  <2> HIDE DEF P
  <2> QED BY <1>1, <2>1, SmallestSubset
<1> DEFINE G(u) == CHOOSE g : PickStep(step, base, u, g)
           Rest(u) == u \ {Pick(u)}
           H == [u \in SUBSET m |-> IF u = {} THEN base
                                    ELSE step[Pick(u)][G(Rest(u))[Rest(u)]]]
<1>3. ASSUME NEW u \in SUBSET m, u # m PROVE PickStep(step, base, u, G(u))
  <2>1. \E g : PickStep(step, base, u, g) BY <1>2, <1>3
  <2> QED BY <2>1
<1>4. ASSUME NEW u \in SUBSET m, u # {}
      PROVE  H[Rest(u)] = G(Rest(u))[Rest(u)]
  <2> DEFINE v == Rest(u)
             w == Rest(v)
  <2>1. Pick(u) \in u BY <1>4, PickIs
  <2>2. v \in SUBSET m /\ v # m BY <2>1
  <2>3. PickStep(step, base, v, G(v)) BY <1>3, <2>2
  <2>4. G(v)[v] = IF v = {} THEN base ELSE step[Pick(v)][G(v)[w]]
    <3> HIDE DEF G
    <3>1. v \in SUBSET v /\ w = v \ {Pick(v)} OBVIOUS
    <3> HIDE DEF v, w
    <3> QED BY <2>3, <3>1 DEF PickStep
  <2>5. H[v] = IF v = {} THEN base ELSE step[Pick(v)][G(w)[w]] BY <2>2
  <2>6. CASE v = {} BY <2>4, <2>5, <2>6
  <2>7. CASE v # {}
    <3>1. Pick(v) \in v BY <2>7, PickIs
    <3>2. w \in SUBSET m /\ w # m /\ w \subseteq v BY <2>2, <3>1
    <3>3. PickStep(step, base, w, G(w)) BY <1>3, <3>2
    <3>4. IsFiniteSet(w) /\ w \in SUBSET w BY <3>2, FS_Subset
    <3>5. G(w)[w] = G(v)[w]
      <4> HIDE DEF G, w, v
      <4> QED BY <2>3, <3>2, <3>3, <3>4, PickStepAgrees
    <3> QED BY <2>4, <2>5, <2>7, <3>5
  <2> QED BY <2>6, <2>7
<1>5. PickStep(step, base, m, H)
  <2>1. ASSUME NEW u \in SUBSET m
        PROVE  H[u] = IF u = {} THEN base ELSE step[Pick(u)][H[Rest(u)]]
    <3>1. CASE u = {} BY <3>1
    <3>2. CASE u # {}
      <4>1. H[u] = step[Pick(u)][G(Rest(u))[Rest(u)]]
        <5> HIDE DEF G, Rest
        <5> QED BY <3>2
      <4> HIDE DEF G, H
      <4> QED BY <1>4, <3>2, <4>1
    <3> QED BY <3>1, <3>2
  <2>2. H = [u \in SUBSET m |-> H[u]] OBVIOUS
  <2>3. H = [u \in SUBSET m |-> IF u = {} THEN base ELSE step[Pick(u)][H[u \ {Pick(u)}]]]
    <3> HIDE DEF H
    <3> QED BY <2>1, <2>2
  <2> HIDE DEF H
  <2> QED BY <2>3 DEF PickStep
<1> QED BY <1>5

\* Solutions stay within inv: there is one, and any other does as well.
FoldsWithin(step, base, S, inv) ==
  /\ \E g : PickStep(step, base, S, g) /\ \A s \in SUBSET S : g[s] \in inv[s]
  /\ \A h :
       /\ h[{}] = base
       /\ \A s \in SUBSET S :
            s # {} /\ h[s \ {Pick(s)}] \in inv[s \ {Pick(s)}] =>
              h[s] = step[Pick(s)][h[s \ {Pick(s)}]]
       => h[S] \in inv[S]

\* So what each step keeps, the fold ends with.
LEMMA FoldKeeps ==
  ASSUME NEW step, NEW base, NEW S, IsFiniteSet(S), NEW inv, base \in inv[{}],
         \A s \in SUBSET S : s # {} =>
           \A x \in inv[s \ {Pick(s)}] : step[Pick(s)][x] \in inv[s]
  PROVE  FoldsWithin(step, base, S, inv)
<1>1. ASSUME NEW h, h[{}] = base,
             \A s \in SUBSET S :
               s # {} /\ h[s \ {Pick(s)}] \in inv[s \ {Pick(s)}] =>
                 h[s] = step[Pick(s)][h[s \ {Pick(s)}]]
      PROVE  \A s \in SUBSET S : h[s] \in inv[s]
  <2> DEFINE good == {s \in SUBSET S : h[s] \in inv[s]}
  <2>1. {} \in good BY <1>1
  <2>2. \A s \in SUBSET S : s # {} /\ s \ {Pick(s)} \in good => s \in good BY <1>1
  <2> HIDE DEF good
  <2>3. SUBSET S \subseteq good BY <2>1, <2>2, PartByPart
  <2> QED BY <2>3 DEF good
<1>2. PICK g : PickStep(step, base, S, g) BY PickStepExists
<1>3. \A s \in SUBSET S :
        g[s] = IF s = {} THEN base ELSE step[Pick(s)][g[s \ {Pick(s)}]]
  BY <1>2 DEF PickStep
<1>4. \A s \in SUBSET S : g[s] \in inv[s] BY <1>1, <1>3
<1> QED BY <1>1, <1>2, <1>4 DEF FoldsWithin

=============================================================================
