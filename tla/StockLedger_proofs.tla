------------------------- MODULE StockLedger_proofs -------------------------
(***************************************************************************)
(* Theorems about BakeryStock, StockLedger and StockCount.                 *)
(*                                                                         *)
(* First, of BakeryStock: whatever the requests, their number and their    *)
(* interleaving, the tables hold what their columns say and the lots'      *)
(* counters agree with the items they count.  A database is sound when it  *)
(* has the type of the schema and its lots count their items.  Every       *)
(* helper the handlers are built from keeps a database sound, so every     *)
(* handler step does; the invariant is that db and tx are both sound and   *)
(* that the requests in flight hold values of the types their steps need.  *)
(*                                                                         *)
(* Then, of StockLedger: in a shop that serves one request at a time and   *)
(* keeps to its practices, orders hold what they list, the negative        *)
(* balance is what they oversold, no item appears or vanishes, and every   *)
(* commit is a step of StockPosition.  The accounts of a database are two  *)
(* things.  Books(d): its rows are those the handlers write, and the shelf *)
(* and the balance of each option are sums of them.  Stands(d, o, status,  *)
(* ...): the rows of order o are those of an order of that status, some    *)
(* lines still to be deducted and some sales still to be restored.  A      *)
(* write phase works on the rows of one order and keeps the books at each  *)
(* of its statements; when nothing is left to do the order stands as its   *)
(* status says.                                                            *)
(*                                                                         *)
(* Last, of StockCount: what was bought is in stock or its cost is booked. *)
(* A request is a few statements, and each moves the account of the cost,  *)
(* Gap(d), by a number known (Drifts); those of a request come to nothing. *)
(* The loops over the lines of a submission are folds that keep what their *)
(* steps keep (FoldKeeps).                                                 *)
(***************************************************************************)
EXTENDS StockLedger, StockCount, SumTheorems

Sound(d) == d \in Database /\ LotsCountTheirItems(d)

-----------------------------------------------------------------------------
\* Items are finitely many.
LEMMA ItemSets ==
  ASSUME NEW d \in Database, NEW S \in SUBSET DOMAIN d.items
  PROVE  /\ IsFiniteSet(S)
         /\ Cardinality(S) \in Nat
<1>1. d.items \in Seq(InventoryItem) BY DEF Database
<1>2. DOMAIN d.items = 1..Len(d.items) /\ Len(d.items) \in Nat BY <1>1
<1>3. IsFiniteSet(DOMAIN d.items) BY <1>2, FS_Interval
<1> QED BY <1>3, FS_Subset, FS_CardinalityType

LEMMA SeqOfFunction ==
  ASSUME NEW T, NEW n \in Nat, NEW f \in [1..n -> T]
  PROVE  f \in Seq(T) /\ Len(f) = n
OBVIOUS

\* A non-empty set of table rows has a first one.
LEMMA FirstRow ==
  ASSUME NEW S, S # {}, \A r \in S : r.id \in Nat
  PROVE  \E r \in S : ById(r, S)
<1> DEFINE T == {r.id : r \in S}
<1>1. T \subseteq Nat /\ T # {} OBVIOUS
<1> HIDE DEF T
<1>2. PICK x \in T : \A y \in T : x <= y BY <1>1, LeastIs
<1>3. PICK r \in S : r.id = x BY DEF T
<1>4. \A t \in S : r.id <= t.id BY <1>2, <1>3 DEF T
<1> QED BY <1>4 DEF ById

-----------------------------------------------------------------------------
\* The helpers of InventoryFifo keep a database sound.

\* Items consumed are one fewer available each, and their lots count them off.
LEMMA ConsumeItemsSound ==
  ASSUME NEW d, Sound(d),
         NEW S \in SUBSET DOMAIN d.items,
         \A i \in S : d.items[i].by = NoMovement,
         NEW m \in Nat, m # NoMovement
  PROVE  Sound(ConsumeItems(d, S, m))
<1> DEFINE e == ConsumeItems(d, S, m)
<1>1. d \in Database BY DEF Sound
<1>2. /\ d.items \in Seq(InventoryItem) /\ d.lots \in Seq(Lot)
      /\ DOMAIN d.items = 1..Len(d.items) /\ Len(d.items) \in Nat
      /\ DOMAIN d.lots = 1..Len(d.lots) /\ Len(d.lots) \in Nat
  BY <1>1 DEF Database
<1>3. /\ \A i \in DOMAIN d.items : d.items[i] \in InventoryItem
      /\ \A l \in DOMAIN d.lots : d.lots[l] \in Lot
  BY <1>2
<1>4. \A l \in DOMAIN d.lots :
        Cardinality({i \in S : d.items[i].lot = l}) \in Nat
  BY <1>1, ItemSets
<1>5. /\ e.items = [i \in DOMAIN d.items |->
                      IF i \in S THEN [d.items[i] EXCEPT !.by = m] ELSE d.items[i]]
      /\ e.lots = [l \in DOMAIN d.lots |->
                     [d.lots[l] EXCEPT !.remaining =
                        @ - Cardinality({i \in S : d.items[i].lot = l})]]
      /\ e \in Database <=> e.items \in Seq(InventoryItem) /\ e.lots \in Seq(Lot)
  BY <1>1 DEF ConsumeItems, Database
<1>6. e \in Database
  <2>1. e.items \in Seq(InventoryItem)
    <3>1. \A i \in 1..Len(d.items) :
            (IF i \in S THEN [d.items[i] EXCEPT !.by = m] ELSE d.items[i])
              \in InventoryItem
      BY <1>2, <1>3 DEF InventoryItem
    <3> QED BY <1>2, <1>5, <3>1
  <2>2. e.lots \in Seq(Lot)
    <3>1. ASSUME NEW l \in DOMAIN d.lots PROVE e.lots[l] \in Lot
      <4> DEFINE k == Cardinality({i \in S : d.items[i].lot = l})
      <4>1. k \in Int BY <1>4
      <4>2. e.lots[l] = [d.lots[l] EXCEPT !.remaining = @ - k] BY <1>5
      <4> HIDE DEF k, e
      <4> QED BY <1>3, <4>1, <4>2 DEF Lot
    <3>2. DOMAIN e.lots = 1..Len(d.lots) /\ e.lots = [l \in DOMAIN e.lots |-> e.lots[l]]
      BY <1>2, <1>5
    <3> HIDE DEF e
    <3>3. e.lots \in [1..Len(d.lots) -> Lot] BY <1>2, <3>1, <3>2
    <3> QED BY <1>2, <3>3, SeqOfFunction
  <2> QED BY <1>5, <2>1, <2>2
<1>7. \A i \in DOMAIN e.items : e.items[i].lot \in DOMAIN e.lots
  BY <1>3, <1>5 DEF Sound, LotsCountTheirItems, InventoryItem
<1>8. \A l \in DOMAIN e.lots : e.lots[l].remaining = Cardinality(AvailableOfLot(e, l))
  <2> SUFFICES ASSUME NEW l \in DOMAIN d.lots
               PROVE  e.lots[l].remaining = Cardinality(AvailableOfLot(e, l))
    BY <1>5
  <2> DEFINE taken == {i \in S : d.items[i].lot = l}
  <2>1. AvailableOfLot(e, l) = AvailableOfLot(d, l) \ taken
    BY <1>3, <1>5 DEF AvailableOfLot, InventoryItem
  <2>2. AvailableOfLot(d, l) \cap taken = taken BY DEF AvailableOfLot
  <2>3. IsFiniteSet(AvailableOfLot(d, l)) BY <1>1, ItemSets DEF AvailableOfLot
  <2>4. Cardinality(AvailableOfLot(e, l))
          = Cardinality(AvailableOfLot(d, l)) - Cardinality(taken)
    BY <2>1, <2>2, <2>3, FS_Difference
  <2>5. d.lots[l].remaining = Cardinality(AvailableOfLot(d, l)) BY DEF Sound, LotsCountTheirItems
  <2>6. e.lots[l].remaining = d.lots[l].remaining - Cardinality(taken) BY <1>3, <1>5 DEF Lot
  <2> QED BY <2>4, <2>5, <2>6
<1> QED BY <1>6, <1>7, <1>8 DEF Sound, LotsCountTheirItems

\* Items released are one more available each, and their lots count them on.
LEMMA ReleaseItemsSound ==
  ASSUME NEW d, Sound(d),
         NEW S \in SUBSET DOMAIN d.items,
         \A i \in S : d.items[i].by # NoMovement
  PROVE  Sound(ReleaseItems(d, S))
<1> DEFINE e == ReleaseItems(d, S)
<1>1. d \in Database BY DEF Sound
<1>2. /\ d.items \in Seq(InventoryItem) /\ d.lots \in Seq(Lot)
      /\ DOMAIN d.items = 1..Len(d.items) /\ Len(d.items) \in Nat
      /\ DOMAIN d.lots = 1..Len(d.lots) /\ Len(d.lots) \in Nat
  BY <1>1 DEF Database
<1>3. /\ \A i \in DOMAIN d.items : d.items[i] \in InventoryItem
      /\ \A l \in DOMAIN d.lots : d.lots[l] \in Lot
  BY <1>2
<1>4. \A l \in DOMAIN d.lots :
        Cardinality({i \in S : d.items[i].lot = l}) \in Nat
  BY <1>1, ItemSets
<1>5. /\ e.items = [i \in DOMAIN d.items |->
                      IF i \in S THEN [d.items[i] EXCEPT !.by = NoMovement]
                      ELSE d.items[i]]
      /\ e.lots = [l \in DOMAIN d.lots |->
                     [d.lots[l] EXCEPT !.remaining =
                        @ + Cardinality({i \in S : d.items[i].lot = l})]]
      /\ e \in Database <=> e.items \in Seq(InventoryItem) /\ e.lots \in Seq(Lot)
  BY <1>1 DEF ReleaseItems, Database
<1>6. e \in Database
  <2>1. e.items \in Seq(InventoryItem)
    <3>1. \A i \in 1..Len(d.items) :
            (IF i \in S THEN [d.items[i] EXCEPT !.by = NoMovement] ELSE d.items[i])
              \in InventoryItem
      BY <1>2, <1>3 DEF InventoryItem, NoMovement
    <3> QED BY <1>2, <1>5, <3>1
  <2>2. e.lots \in Seq(Lot)
    <3>1. ASSUME NEW l \in DOMAIN d.lots PROVE e.lots[l] \in Lot
      <4> DEFINE k == Cardinality({i \in S : d.items[i].lot = l})
      <4>1. k \in Int BY <1>4
      <4>2. e.lots[l] = [d.lots[l] EXCEPT !.remaining = @ + k] BY <1>5
      <4> HIDE DEF k, e
      <4> QED BY <1>3, <4>1, <4>2 DEF Lot
    <3>2. DOMAIN e.lots = 1..Len(d.lots) /\ e.lots = [l \in DOMAIN e.lots |-> e.lots[l]]
      BY <1>2, <1>5
    <3> HIDE DEF e
    <3>3. e.lots \in [1..Len(d.lots) -> Lot] BY <1>2, <3>1, <3>2
    <3> QED BY <1>2, <3>3, SeqOfFunction
  <2> QED BY <1>5, <2>1, <2>2
<1>7. \A i \in DOMAIN e.items : e.items[i].lot \in DOMAIN e.lots
  BY <1>3, <1>5 DEF Sound, LotsCountTheirItems, InventoryItem
<1>8. \A l \in DOMAIN e.lots : e.lots[l].remaining = Cardinality(AvailableOfLot(e, l))
  <2> SUFFICES ASSUME NEW l \in DOMAIN d.lots
               PROVE  e.lots[l].remaining = Cardinality(AvailableOfLot(e, l))
    BY <1>5
  <2> DEFINE released == {i \in S : d.items[i].lot = l}
  <2>1. AvailableOfLot(e, l) = AvailableOfLot(d, l) \cup released
    BY <1>3, <1>5 DEF AvailableOfLot, InventoryItem
  <2>2. AvailableOfLot(d, l) \cap released = {} BY DEF AvailableOfLot
  <2>3. IsFiniteSet(AvailableOfLot(d, l)) /\ IsFiniteSet(released)
    BY <1>1, ItemSets DEF AvailableOfLot
  <2>5. Cardinality(AvailableOfLot(e, l))
          = Cardinality(AvailableOfLot(d, l)) + Cardinality(released)
    BY <2>1, <2>2, <2>3, DisjointUnion
  <2>6. d.lots[l].remaining = Cardinality(AvailableOfLot(d, l)) BY DEF Sound, LotsCountTheirItems
  <2>7. e.lots[l].remaining = d.lots[l].remaining + Cardinality(released) BY <1>3, <1>5 DEF Lot
  <2> QED BY <2>5, <2>6, <2>7
<1> QED BY <1>6, <1>7, <1>8 DEF Sound, LotsCountTheirItems

\* A new lot counts the items made with it, and no other lot gains one.
LEMMA CreateLotSound ==
  ASSUME NEW d, Sound(d), NEW b \in Options, NEW q \in Nat
  PROVE  Sound(CreateLotWithItems(d, b, q))
<1> DEFINE e == CreateLotWithItems(d, b, q)
           old == Len(d.items)
           new == Len(d.lots) + 1
<1>1. d \in Database BY DEF Sound
<1>2. /\ d.items \in Seq(InventoryItem) /\ d.lots \in Seq(Lot)
      /\ DOMAIN d.items = 1..old /\ old \in Nat
      /\ DOMAIN d.lots = 1..Len(d.lots) /\ Len(d.lots) \in Nat
  BY <1>1 DEF Database
<1>3. /\ e.items = [i \in 1..(old + q) |->
                      IF i <= old THEN d.items[i]
                      ELSE [lot |-> new, by |-> NoMovement]]
      /\ e.lots = Append(d.lots, [option |-> b, remaining |-> q])
      /\ e \in Database <=> e.items \in Seq(InventoryItem) /\ e.lots \in Seq(Lot)
  BY <1>1 DEF CreateLotWithItems, Database
<1>4. \A i \in DOMAIN d.items :
        d.items[i] \in InventoryItem /\ d.items[i].lot \in 1..Len(d.lots)
  BY <1>2 DEF Sound, LotsCountTheirItems
<1>5. /\ e.lots \in Seq(Lot) /\ DOMAIN e.lots = 1..new
      /\ \A l \in 1..Len(d.lots) : e.lots[l] = d.lots[l]
      /\ e.lots[new] = [option |-> b, remaining |-> q]
  BY <1>2, <1>3 DEF Lot
<1>6. e.items \in Seq(InventoryItem)
  <2>1. \A i \in 1..(old + q) :
          (IF i <= old THEN d.items[i] ELSE [lot |-> new, by |-> NoMovement])
            \in InventoryItem
    BY <1>2, <1>4 DEF InventoryItem, NoMovement
  <2> QED BY <1>2, <1>3, <2>1
<1>7. DOMAIN e.items = 1..(old + q) BY <1>3
<1>8. \A i \in DOMAIN e.items : e.items[i].lot \in DOMAIN e.lots BY <1>2, <1>3, <1>4, <1>5, <1>7
<1>9. ASSUME NEW l \in 1..Len(d.lots)
      PROVE  e.lots[l].remaining = Cardinality(AvailableOfLot(e, l))
  <2>1. AvailableOfLot(e, l) = AvailableOfLot(d, l) BY <1>2, <1>3, <1>7 DEF AvailableOfLot
  <2> QED BY <1>2, <1>5, <2>1 DEF Sound, LotsCountTheirItems
<1>10. e.lots[new].remaining = Cardinality(AvailableOfLot(e, new))
  <2>1. AvailableOfLot(e, new) = (old + 1)..(old + q)
    BY <1>2, <1>3, <1>4, <1>7 DEF AvailableOfLot, NoMovement
  <2>2. Cardinality((old + 1)..(old + q)) = q BY <1>2, NextItems
  <2> QED BY <1>5, <2>1, <2>2
<1>11. \A l \in DOMAIN e.lots : e.lots[l].remaining = Cardinality(AvailableOfLot(e, l))
  <2> SUFFICES ASSUME NEW l \in 1..new
               PROVE  e.lots[l].remaining = Cardinality(AvailableOfLot(e, l))
    BY <1>5
  <2>1. l \in 1..Len(d.lots) \/ l = new BY <1>2
  <2> HIDE DEF e, new
  <2> QED BY <1>9, <1>10, <2>1
<1> QED BY <1>3, <1>5, <1>6, <1>8, <1>11 DEF Sound, LotsCountTheirItems

\* What touches neither lots nor items cannot make them disagree.
LEMMA SameItemsSound ==
  ASSUME NEW d, Sound(d), NEW e \in Database, e.lots = d.lots, e.items = d.items
  PROVE  Sound(e)
BY DEF Sound, LotsCountTheirItems, AvailableOfLot

LEMMA AddToBalanceSound ==
  ASSUME NEW d, Sound(d), NEW b \in Options, NEW k \in Int
  PROVE  Sound(AddToBalance(d, b, k))
<1> DEFINE e == AddToBalance(d, b, k)
           rows == {IF r.option = b THEN [r EXCEPT !.qty = @ + k] ELSE r : r \in d.negative}
<1>1. d \in Database BY DEF Sound
<1>2. rows \subseteq BalanceRow
  <2> SUFFICES ASSUME NEW r \in d.negative
               PROVE  (IF r.option = b THEN [r EXCEPT !.qty = @ + k] ELSE r) \in BalanceRow
    OBVIOUS
  <2>1. r \in BalanceRow BY <1>1 DEF Database
  <2> QED BY <2>1 DEF BalanceRow
<1>3. e = [d EXCEPT !.negative = rows] BY DEF AddToBalance
<1> HIDE DEF e, rows
<1>4. e \in Database /\ e.lots = d.lots /\ e.items = d.items BY <1>1, <1>2, <1>3 DEF Database
<1> QED BY <1>4, SameItemsSound DEF e

LEMMA UpsertNegativeBalanceSound ==
  ASSUME NEW d, Sound(d), NEW b \in Options, NEW k \in Int
  PROVE  Sound(UpsertNegativeBalance(d, b, k))
<1> DEFINE row == [id |-> d.lastMovement, option |-> b, qty |-> k]
           e == [d EXCEPT !.negative = @ \union {row}]
<1>1. d \in Database BY DEF Sound
<1>2. row \in BalanceRow BY <1>1 DEF BalanceRow, Database
<1>3. e \in Database /\ e.lots = d.lots /\ e.items = d.items
  <2> HIDE DEF row
  <2> QED BY <1>1, <1>2 DEF Database
<1>4. Sound(e) BY <1>3, SameItemsSound
<1> QED BY <1>4, AddToBalanceSound DEF UpsertNegativeBalance

-----------------------------------------------------------------------------
\* FIFO takes only available items, whatever it is asked for.
LEMMA FifoTakeAvailable ==
  ASSUME NEW d, Sound(d), NEW b \in Options, NEW q \in Int
  PROVE  /\ FifoTake(d, b, q) \in SUBSET DOMAIN d.items
         /\ \A i \in FifoTake(d, b, q) : d.items[i].by = NoMovement
         /\ Deficit(d, b, q) \in Int
<1>1. /\ FifoTake(d, b, q) \in SUBSET DOMAIN d.items
      /\ \A i \in FifoTake(d, b, q) : d.items[i].by = NoMovement
  BY DEF FifoTake, Consumable, AvailableItems
<1>2. Cardinality(FifoTake(d, b, q)) \in Nat BY <1>1, ItemSets DEF Sound
<1> QED BY <1>1, <1>2 DEF Deficit

LEMMA ConsumeFifoItemsSound ==
  ASSUME NEW d, Sound(d), NEW b \in Options, NEW q \in Int,
         NEW m \in Nat, m # NoMovement
  PROVE  Sound(ConsumeFifoItems(d, b, q, m))
BY FifoTakeAvailable, ConsumeItemsSound DEF ConsumeFifoItems

LEMMA AvailableQuantityType ==
  ASSUME NEW d, Sound(d), NEW b \in Options
  PROVE  AvailableQuantity(d, b) \in Nat
<1>1. AvailableItems(d, b) \in SUBSET DOMAIN d.items BY DEF AvailableItems
<1> QED BY <1>1, ItemSets DEF Sound, AvailableQuantity

-----------------------------------------------------------------------------
\* The helpers of OrderStock keep a database sound.

\* The id of a movement just logged can never be taken for no movement.
LEMMA LogMovementSound ==
  ASSUME NEW d, Sound(d), NEW type \in MovementType, NEW b \in Options,
         NEW q \in Int, NEW ref \in Orders \cup {NoRef}
  PROVE  LET e == LogMovement(d, type, b, q, ref)
         IN  /\ Sound(e)
             /\ e.lastMovement \in Nat /\ e.lastMovement # NoMovement
<1> DEFINE row == [id |-> d.lastMovement + 1, type |-> type, option |-> b,
                   qty |-> q, ref |-> ref]
           moved == d.movements \union {row}
           last == d.lastMovement + 1
           e == LogMovement(d, type, b, q, ref)
<1>1. d \in Database BY DEF Sound
<1>2. d.lastMovement \in Nat /\ d.movements \in SUBSET Movement BY <1>1 DEF Database
<1>3. row \in Movement BY <1>2 DEF Movement
<1>4. moved \in SUBSET Movement /\ last \in Nat BY <1>2, <1>3
<1>5. e = [d EXCEPT !.lastMovement = last, !.movements = moved] BY DEF LogMovement
<1>6. /\ e \in Database /\ e.lots = d.lots /\ e.items = d.items
      /\ e.lastMovement = last
  <2> HIDE DEF e, moved, last
  <2> QED BY <1>1, <1>4, <1>5 DEF Database
<1>7. Sound(e) BY <1>6, SameItemsSound
<1> QED BY <1>2, <1>6, <1>7 DEF NoMovement

LEMMA TakeOutSound ==
  ASSUME NEW d, Sound(d), NEW type \in MovementType, NEW b \in Options, NEW q \in Int
  PROVE  Sound(TakeOut(d, type, b, q))
<1>1. -q \in Int OBVIOUS
<1> QED BY <1>1, LogMovementSound, ConsumeFifoItemsSound DEF TakeOut

LEMMA DeductLineSound ==
  ASSUME NEW d, Sound(d), NEW o \in Orders, NEW line \in Line
  PROVE  Sound(DeductLine(d, o, line))
<1> DEFINE deficit == LineDeficit(d, o, line)
           sold == SellLine(d, o, line)
<1>1. line.option \in Options /\ line.qty \in Int /\ -line.qty \in Int BY DEF Line
<1>2. deficit \in Int /\ -deficit \in Int BY <1>1, FifoTakeAvailable DEF LineDeficit
<1>3. Sound(sold) BY <1>1, LogMovementSound, ConsumeFifoItemsSound DEF SellLine, MovementType
<1>4. Sound(OversellLine(sold, o, line, deficit))
  <2> HIDE DEF deficit, sold
  <2> QED BY <1>1, <1>2, <1>3, LogMovementSound, UpsertNegativeBalanceSound
    DEF OversellLine, MovementType
<1> QED BY <1>3, <1>4 DEF DeductLine

LEMMA ReleaseSalesSound ==
  ASSUME NEW d, Sound(d), NEW o \in Orders
  PROVE  Sound(ReleaseSales(d, o))
<1>1. /\ ConsumedBySales(d, o) \in SUBSET DOMAIN d.items
      /\ \A i \in ConsumedBySales(d, o) : d.items[i].by # NoMovement
  BY DEF ConsumedBySales
<1> QED BY <1>1, ReleaseItemsSound DEF ReleaseSales

LEMMA ReverseNegativeSaleSound ==
  ASSUME NEW d, Sound(d), NEW m \in Movement
  PROVE  Sound(ReverseNegativeSale(d, m))
<1>1. m.option \in Options /\ -m.qty \in Int BY DEF Movement
<1> QED BY <1>1, AddToBalanceSound DEF ReverseNegativeSale

LEMMA DeleteSalesSound ==
  ASSUME NEW d, Sound(d), NEW o \in Orders
  PROVE  Sound(DeleteSales(d, o))
<1> DEFINE e == DeleteSales(d, o)
<1>1. d \in Database BY DEF Sound
<1>2. e \in Database /\ e.lots = d.lots /\ e.items = d.items BY <1>1 DEF DeleteSales, Database
<1> QED BY <1>2, SameItemsSound

LEMMA ReduceNegativeBalanceSound ==
  ASSUME NEW d, Sound(d), NEW b \in Options, NEW k \in Int
  PROVE  Sound(ReduceNegativeBalance(d, b, k))
<1> DEFINE reduced == AddToBalance(d, b, -k)
           e == [reduced EXCEPT !.negative = {r \in @ : r.option # b \/ r.qty > 0}]
<1>1. Sound(reduced) BY AddToBalanceSound, -k \in Int
<1> HIDE DEF reduced
<1>2. e \in Database /\ e.lots = reduced.lots /\ e.items = reduced.items
  BY <1>1 DEF Sound, Database
<1> QED BY <1>1, <1>2, SameItemsSound DEF ReduceNegativeBalance, reduced

LEMMA OversoldType ==
  ASSUME NEW d, Sound(d), NEW o \in Orders, NEW m
  PROVE  OversoldOf(d, o, m) \in Int
<1> DEFINE rows == {n \in MovementsOf(d, o, "negative_sale") : n.option = m.option}
<1>1. rows \in SUBSET Movement BY DEF Sound, Database, MovementsOf
<1>2. CASE rows = {} BY <1>2 DEF OversoldOf
<1>3. CASE rows # {}
  <2>1. \E n \in rows : ById(n, rows) BY <1>1, <1>3, FirstRow DEF Movement
  <2>2. (CHOOSE n \in rows : ById(n, rows)) \in Movement BY <1>1, <2>1
  <2>3. \A n \in Movement : -n.qty \in Int BY DEF Movement
  <2> QED BY <1>3, <2>2, <2>3 DEF OversoldOf
<1> QED BY <1>2, <1>3

LEMMA RestoreSaleSound ==
  ASSUME NEW d, Sound(d), NEW o \in Orders, NEW m \in Movement, NEW deficit \in Int
  PROVE  Sound(RestoreSale(d, o, m, deficit))
<1> DEFINE logged == LogMovement(d, "restore_sale", m.option, -m.qty, o)
           returned == -m.qty - deficit
           stocked == IF returned > 0
                      THEN CreateLotWithItems(logged, m.option, returned) ELSE logged
<1>1. m.option \in Options /\ -m.qty \in Int /\ returned \in Int BY DEF Movement
<1>2. Sound(logged) BY <1>1, LogMovementSound DEF MovementType
<1>3. Sound(stocked)
  <2> HIDE DEF logged, returned
  <2>1. returned > 0 => returned \in Nat BY <1>1
  <2> QED BY <1>1, <1>2, <2>1, CreateLotSound
<1>4. Sound(ReduceNegativeBalance(stocked, m.option, deficit))
  <2> HIDE DEF stocked
  <2> QED BY <1>1, <1>3, ReduceNegativeBalanceSound
<1> QED BY <1>3, <1>4 DEF RestoreSale

-----------------------------------------------------------------------------
\* What the handlers write to an order leaves the stock as it was.
LEMMA WriteOrderSound ==
  ASSUME NEW d, Sound(d), NEW o \in Orders, NEW row \in Order
  PROVE  Sound([d EXCEPT !.orders[o] = row])
<1> DEFINE e == [d EXCEPT !.orders[o] = row]
<1>1. d \in Database BY DEF Sound
<1>2. e \in Database /\ e.lots = d.lots /\ e.items = d.items BY <1>1 DEF Database
<1> QED BY <1>2, SameItemsSound

LEMMA SetStatusSound ==
  ASSUME NEW d, Sound(d), NEW o \in Orders, NEW s \in Statuses
  PROVE  Sound(SetStatus(d, o, s))
<1>1. d.orders \in [Orders -> Order] BY DEF Sound, Database
<1>2. [d.orders[o] EXCEPT !.status = s] \in Order BY <1>1 DEF Order
<1>3. SetStatus(d, o, s) = [d EXCEPT !.orders[o] = [d.orders[o] EXCEPT !.status = s]]
  BY DEF SetStatus
<1> QED BY <1>2, <1>3, WriteOrderSound

LEMMA SetLinesSound ==
  ASSUME NEW d, Sound(d), NEW o \in Orders, NEW lines \in Seq(Line)
  PROVE  Sound([d EXCEPT !.orders[o].lines = lines])
<1>1. d.orders \in [Orders -> Order] BY DEF Sound, Database
<1>2. [d.orders[o] EXCEPT !.lines = lines] \in Order BY <1>1 DEF Order
<1>3. [d EXCEPT !.orders[o].lines = lines]
        = [d EXCEPT !.orders[o] = [d.orders[o] EXCEPT !.lines = lines]]
  OBVIOUS
<1> QED BY <1>2, <1>3, WriteOrderSound

-----------------------------------------------------------------------------
\* The inductive invariant: TypeOK with both databases sound.
IInv ==
  /\ Sound(db)
  /\ Sound(tx)
  /\ pending \in [Workers -> Request]
  /\ wr \in {NoWrite} \union WriteRest

LEMMA StatusValues ==
  Statuses = {"new", "confirmed", "in_progress", "ready", "delivered",
              "completed", "cancelled"}
BY DEF Statuses, Rank

LEMMA InitSound ==
  Init => IInv
<1> SUFFICES ASSUME Init PROVE IInv OBVIOUS
<1>1. db.orders \in [Orders -> Order] BY DEF Init, Order, Absent, Sources, CounterSources
<1>2. db \in Database BY <1>1 DEF Init, Database
<1>3. LotsCountTheirItems(db) BY DEF Init, LotsCountTheirItems
<1>4. pending \in [Workers -> Request] BY DEF Init, Request
<1> QED BY <1>2, <1>3, <1>4 DEF Init, IInv, Sound

\* What a request is, by its operation.
LEMMA RequestKinds ==
  ASSUME NEW r \in Request
  PROVE  /\ r.op = "adjust" => r \in AdjustRequest
         /\ r.op = "status" => r \in StatusRequest
         /\ r.op = "edit" => r \in EditRequest
BY DEF Request, Idle, AdjustRequest, StatusRequest, EditRequest

LEMMA NothingType ==
  ASSUME NEW op \in {"create", "status", "edit", "sync"}, NEW o \in Orders
  PROVE  Nothing(op, o) \in WriteRest
BY StatusValues DEF Nothing, WriteRest

LEMMA AnsweredType ==
  ASSUME IInv, NEW w \in Workers, Answered(w)
  PROVE  pending' \in [Workers -> Request]
BY DEF IInv, Answered, Request

\* A step that asks keeps the databases and the write phase.
LEMMA ReadStep ==
  ASSUME IInv, NEW w \in Workers, NEW r \in Request,
         pending' = [pending EXCEPT ![w] = r], UNCHANGED <<db, tx, wr>>
  PROVE  IInv'
BY DEF IInv

LEMMA CommitStep ==
  ASSUME IInv, NEW d, Sound(d), CommitNow(d), pending' \in [Workers -> Request]
  PROVE  IInv'
BY DEF IInv, CommitNow

LEMMA BeginStep ==
  ASSUME IInv, NEW d, Sound(d), NEW rest \in WriteRest, BeginWith(d, rest),
         pending' \in [Workers -> Request]
  PROVE  IInv'
BY DEF IInv, BeginWith

-----------------------------------------------------------------------------
\* One lemma per action, or per group of actions alike.
LEMMA RestockStep ==
  ASSUME IInv, NEW b \in Options, NEW q \in 1..MaxQty, RestockProduct(b, q)
  PROVE  IInv'
<1> DEFINE d == LogMovement(CreateLotWithItems(db, b, q), "restock", b, q, NoRef)
<1>1. q \in Nat /\ q \in Int /\ NoRef \in Orders \cup {NoRef} /\ "restock" \in MovementType
  BY StockAssumption DEF MovementType
<1>2. Sound(d) BY <1>1, CreateLotSound, LogMovementSound DEF IInv
<1>3. CommitNow(d) /\ pending' \in [Workers -> Request] BY DEF RestockProduct, IInv
<1> QED BY <1>2, <1>3, CommitStep

LEMMA WasteStep ==
  ASSUME IInv, NEW b \in Options, NEW q \in 1..MaxQty, WasteStock(b, q)
  PROVE  IInv'
<1>1. q \in Int /\ "waste" \in MovementType BY StockAssumption DEF MovementType
<1>2. Sound(TakeOut(db, "waste", b, q)) BY <1>1, TakeOutSound DEF IInv
<1>3. CommitNow(TakeOut(db, "waste", b, q)) /\ pending' \in [Workers -> Request]
  BY DEF WasteStock, IInv
<1> QED BY <1>2, <1>3, CommitStep

LEMMA ReadAdjustStep ==
  ASSUME IInv, NEW w \in Workers, NEW b \in Options, NEW target \in 0..MaxQty,
         ReadAdjust(w, b, target)
  PROVE  IInv'
<1> DEFINE r == [op |-> "adjust", option |-> b,
                 delta |-> target - AvailableQuantity(db, b)]
<1>1. AvailableQuantity(db, b) \in Nat BY AvailableQuantityType DEF IInv
<1>2. r \in Request BY <1>1, StockAssumption DEF Request, AdjustRequest
<1>3. pending' = [pending EXCEPT ![w] = r] /\ UNCHANGED <<db, tx, wr>> BY DEF ReadAdjust
<1> HIDE DEF r
<1> QED BY <1>2, <1>3, ReadStep

LEMMA WriteAdjustStep ==
  ASSUME IInv, NEW w \in Workers, WriteAdjust(w)
  PROVE  IInv'
<1> DEFINE b == pending[w].option
           delta == pending[w].delta
           raised == IF delta > 0 THEN CreateLotWithItems(db, b, delta) ELSE db
<1>1. pending[w] \in AdjustRequest BY RequestKinds DEF WriteAdjust, IInv
<1>2. b \in Options /\ delta \in Int /\ -delta \in Int BY <1>1 DEF AdjustRequest
<1>3. NoRef \in Orders \cup {NoRef} /\ "adjustment" \in MovementType BY DEF MovementType
<1>4. Sound(raised)
  <2> HIDE DEF b, delta
  <2>1. delta > 0 => delta \in Nat BY <1>2
  <2> QED BY <1>2, <2>1, CreateLotSound DEF IInv
<1>5. pending' \in [Workers -> Request] BY AnsweredType DEF WriteAdjust
<1>6. CASE CommitNow(LogMovement(raised, "adjustment", b, delta, NoRef))
  <2> HIDE DEF raised, b, delta
  <2>1. Sound(LogMovement(raised, "adjustment", b, delta, NoRef))
    BY <1>2, <1>3, <1>4, LogMovementSound
  <2> QED BY <1>5, <1>6, <2>1, CommitStep
<1>7. CASE CommitNow(TakeOut(db, "adjustment", b, -delta))
  <2> HIDE DEF b, delta
  <2>1. Sound(TakeOut(db, "adjustment", b, -delta)) BY <1>2, <1>3, TakeOutSound DEF IInv
  <2> QED BY <1>5, <1>7, <2>1, CommitStep
<1> QED BY <1>6, <1>7 DEF WriteAdjust

LEMMA CreateOrderStep ==
  ASSUME IInv, NEW o \in Orders, NEW form \in Forms, NEW status \in {"new", "delivered"},
         CreateOrder(o, form, status)
  PROVE  IInv'
<1> DEFINE row == [status |-> status, source |-> form.source, lines |-> form.lines]
           d == [db EXCEPT !.orders[o] = row]
           due == IF status = "delivered" THEN form.lines ELSE <<>>
           rest == [Nothing("create", o) EXCEPT !.lines = due]
<1>1. form.source \in Sources /\ form.lines \in Seq(Line) BY StockAssumption
<1>2. row \in Order BY <1>1, StatusValues DEF Order
<1>3. Sound(d)
  <2> HIDE DEF row
  <2> QED BY <1>2, WriteOrderSound DEF IInv
<1>4. due \in Seq(Line) BY <1>1
<1>5. rest \in WriteRest
  <2> HIDE DEF due
  <2> QED BY <1>4, NothingType DEF WriteRest
<1>6. BeginWith(d, rest) /\ pending' \in [Workers -> Request] BY DEF CreateOrder, IInv
<1> HIDE DEF d, rest
<1> QED BY <1>3, <1>5, <1>6, BeginStep

LEMMA SalesType ==
  ASSUME NEW d, Sound(d), NEW o \in Orders, NEW type
  PROVE  MovementsOf(d, o, type) \in SUBSET Movement
BY DEF Sound, Database, MovementsOf

LEMMA ReadStatusStep ==
  ASSUME IInv, NEW w \in Workers, NEW o \in Orders, NEW target \in Targets,
         NEW reason \in BOOLEAN, ReadStatus(w, o, target, reason)
  PROVE  IInv'
<1> DEFINE sales == IF target = "cancelled" THEN SalesToRestore(db, o) ELSE {}
           lines == IF target = "confirmed" /\ ~OrderSaleWasDeducted(db, o)
                    THEN db.orders[o].lines ELSE <<>>
           oversold == {OversoldOf(db, o, m) : m \in {n \in sales : ById(n, sales)}}
           r == [op |-> "status", order |-> o, target |-> target, reason |-> reason,
                 lines |-> lines, sales |-> sales, oversold |-> oversold]
<1>1. sales \in SUBSET Movement BY SalesType DEF IInv, SalesToRestore
<1>2. lines \in Seq(Line) BY DEF IInv, Sound, Database, Order
<1>3. oversold \in SUBSET Int BY OversoldType DEF IInv
<1>4. target \in Statuses BY StockAssumption
<1>5. pending' = [pending EXCEPT ![w] = r] /\ UNCHANGED <<db, tx, wr>> BY DEF ReadStatus
<1> HIDE DEF sales, lines, oversold
<1>6. r \in Request BY <1>1, <1>2, <1>3, <1>4 DEF Request, StatusRequest
<1> HIDE DEF r
<1> QED BY <1>5, <1>6, ReadStep

LEMMA BeginStatusStep ==
  ASSUME IInv, NEW w \in Workers,
         BeginPlainStatus(w) \/ BeginDeduct(w) \/ BeginRestore(w)
  PROVE  IInv'
<1> DEFINE r == pending[w]
           none == Nothing("status", r.order)
<1>1. r \in StatusRequest BY RequestKinds DEF BeginPlainStatus, BeginDeduct, BeginRestore, IInv
<1>2. pending' \in [Workers -> Request]
  BY AnsweredType DEF BeginPlainStatus, BeginDeduct, BeginRestore
<1>3. /\ r.order \in Orders /\ r.target \in Statuses /\ r.reason \in BOOLEAN
      /\ r.lines \in Seq(Line) /\ r.sales \in SUBSET Movement
      /\ r.oversold \in SUBSET Int
  BY <1>1 DEF StatusRequest
<1>4. none \in WriteRest BY <1>3, NothingType
<1>5. Sound(db) BY DEF IInv
<1>6. CASE BeginPlainStatus(w)
  <2> DEFINE rest == [none EXCEPT !.target = r.target]
  <2>1. BeginWith(db, rest) BY <1>6 DEF BeginPlainStatus
  <2>2. rest \in WriteRest
    <3> HIDE DEF none, r
    <3> QED BY <1>3, <1>4 DEF WriteRest
  <2> HIDE DEF rest
  <2> QED BY <1>2, <1>5, <2>1, <2>2, BeginStep
<1>7. CASE BeginDeduct(w)
  <2> DEFINE rest == [none EXCEPT !.target = r.target, !.reason = r.reason,
                        !.recheck = TRUE, !.swallow = TRUE, !.lines = r.lines]
  <2>1. BeginWith(db, rest) BY <1>7 DEF BeginDeduct
  <2>2. rest \in WriteRest
    <3> HIDE DEF none, r
    <3> QED BY <1>3, <1>4 DEF WriteRest
  <2> HIDE DEF rest
  <2> QED BY <1>2, <1>5, <2>1, <2>2, BeginStep
<1>8. CASE BeginRestore(w)
  <2> PICK first \in r.sales, oversold \in r.oversold :
        BeginWith(RestoreSale(db, r.order, first, oversold),
                  [none EXCEPT !.target = r.target, !.reason = r.reason,
                     !.recheck = TRUE, !.sales = r.sales \ {first}])
    BY <1>8 DEF BeginRestore
  <2> DEFINE rest == [none EXCEPT !.target = r.target, !.reason = r.reason,
                        !.recheck = TRUE, !.sales = r.sales \ {first}]
             d == RestoreSale(db, r.order, first, oversold)
  <2>1. first \in Movement /\ oversold \in Int BY <1>3
  <2>2. Sound(d) BY <1>3, <1>5, <2>1, RestoreSaleSound
  <2>3. rest \in WriteRest
    <3> HIDE DEF none, r
    <3> QED BY <1>3, <1>4 DEF WriteRest
  <2>4. BeginWith(d, rest) OBVIOUS
  <2> HIDE DEF rest, d
  <2> QED BY <1>2, <2>2, <2>3, <2>4, BeginStep
<1> QED BY <1>6, <1>7, <1>8

LEMMA ReadEditStep ==
  ASSUME IInv, NEW w \in Workers, NEW o \in Orders, NEW lines \in LineLists,
         ReadEdit(w, o, lines)
  PROVE  IInv'
<1> DEFINE r == [op |-> "edit", order |-> o, from |-> db.orders[o].status,
                 lines |-> lines]
<1>1. db.orders[o].status \in Statuses BY DEF ReadEdit, Exists, IInv, Sound, Database, Order
<1>2. lines \in Seq(Line) BY StockAssumption
<1>3. r \in Request BY <1>1, <1>2 DEF Request, EditRequest
<1>4. pending' = [pending EXCEPT ![w] = r] /\ UNCHANGED <<db, tx, wr>> BY DEF ReadEdit
<1> HIDE DEF r
<1> QED BY <1>3, <1>4, ReadStep

LEMMA BeginEditStep ==
  ASSUME IInv, NEW w \in Workers, BeginEdit(w)
  PROVE  IInv'
<1> DEFINE r == pending[w]
           o == r.order
           edited == [db EXCEPT !.orders[o].lines = r.lines]
           redo == HasTakenStock(r.from)
           reverse == redo /\ OrderSaleWasDeducted(db, o)
           d == IF reverse THEN ReleaseSales(edited, o) ELSE edited
           negatives == IF reverse THEN MovementsOf(db, o, "negative_sale") ELSE {}
           lines == IF redo THEN r.lines ELSE <<>>
           none == Nothing("edit", o)
           rest == [none EXCEPT !.swallow = TRUE, !.forget = reverse,
                      !.negatives = negatives, !.lines = lines]
<1>1. r \in EditRequest BY RequestKinds DEF BeginEdit, IInv
<1>2. pending' \in [Workers -> Request] BY AnsweredType DEF BeginEdit
<1>3. o \in Orders /\ r.lines \in Seq(Line) BY <1>1 DEF EditRequest
<1>4. BeginWith(d, rest) BY DEF BeginEdit
<1>5. Sound(edited) BY <1>3, SetLinesSound DEF IInv
<1>6. Sound(d)
  <2> HIDE DEF edited, reverse, o
  <2> QED BY <1>3, <1>5, ReleaseSalesSound
<1>7. negatives \in SUBSET Movement BY SalesType, <1>3 DEF IInv
<1>8. lines \in Seq(Line) /\ reverse \in BOOLEAN /\ none \in WriteRest BY <1>3, NothingType
<1>9. rest \in WriteRest
  <2> HIDE DEF none, lines, negatives, reverse
  <2> QED BY <1>7, <1>8 DEF WriteRest
<1> HIDE DEF d, rest
<1> QED BY <1>2, <1>4, <1>6, <1>9, BeginStep

LEMMA SyncStep ==
  ASSUME IInv, NEW o \in Orders, NEW derived \in Targets, SyncFromItems(o, derived)
  PROVE  IInv'
<1> DEFINE confirming == derived \in {"confirmed", "delivered"}
                         /\ ~OrderSaleWasDeducted(db, o)
           lines == IF confirming THEN db.orders[o].lines ELSE <<>>
           sales == IF derived = "cancelled" THEN MovementsOf(db, o, "sale") ELSE {}
           none == Nothing("sync", o)
           rest == [none EXCEPT !.lines = lines, !.sales = sales]
           d == SetStatus(db, o, derived)
<1>1. derived \in Statuses BY StockAssumption
<1>2. Sound(d) BY <1>1, SetStatusSound DEF IInv
<1>3. lines \in Seq(Line) BY DEF IInv, Sound, Database, Order
<1>4. sales \in SUBSET Movement BY SalesType DEF IInv
<1>5. none \in WriteRest BY NothingType
<1>6. BeginWith(d, rest) /\ pending' \in [Workers -> Request] BY DEF SyncFromItems, IInv
<1>7. rest \in WriteRest
  <2> HIDE DEF none, lines, sales
  <2> QED BY <1>3, <1>4, <1>5 DEF WriteRest
<1> HIDE DEF d, rest
<1> QED BY <1>2, <1>6, <1>7, BeginStep

\* A step of the write phase, which works on tx.
LEMMA WriteStep ==
  ASSUME IInv, Sound(tx'), wr' \in WriteRest, UNCHANGED <<db, pending>>
  PROVE  IInv'
BY DEF IInv

LEMMA WritingType ==
  ASSUME IInv, Writing
  PROVE  /\ wr \in WriteRest
         /\ wr.order \in Orders /\ wr.target \in Statuses
         /\ wr.negatives \in SUBSET Movement /\ wr.sales \in SUBSET Movement
         /\ wr.lines \in Seq(Line)
         /\ Sound(tx) /\ Sound(db)
BY DEF IInv, Writing, LockFree, WriteRest

LEMMA ReverseStep ==
  ASSUME IInv, ReverseNegative
  PROVE  IInv'
<1>1. wr \in WriteRest /\ wr.negatives \in SUBSET Movement /\ Sound(tx)
  BY WritingType DEF ReverseNegative
<1>2. PICK m \in wr.negatives : /\ tx' = ReverseNegativeSale(tx, m)
                                /\ wr' = [wr EXCEPT !.negatives = @ \ {m}]
  BY DEF ReverseNegative
<1>3. Sound(tx') BY <1>1, <1>2, ReverseNegativeSaleSound
<1>4. wr' \in WriteRest BY <1>1, <1>2 DEF WriteRest
<1> QED BY <1>3, <1>4, WriteStep DEF ReverseNegative

LEMMA ForgetStep ==
  ASSUME IInv, ForgetSales
  PROVE  IInv'
<1>1. wr \in WriteRest /\ wr.order \in Orders /\ Sound(tx) BY WritingType DEF ForgetSales
<1>2. Sound(tx') BY <1>1, DeleteSalesSound DEF ForgetSales
<1>3. wr' \in WriteRest BY <1>1 DEF ForgetSales, WriteRest
<1> QED BY <1>2, <1>3, WriteStep DEF ForgetSales

LEMMA DeductStep ==
  ASSUME IInv, DeductOne
  PROVE  IInv'
<1> DEFINE line == Head(wr.lines)
           left == IF LineRaises(tx, wr.order, line) THEN <<>> ELSE Tail(wr.lines)
<1>1. /\ wr \in WriteRest /\ wr.order \in Orders /\ Sound(tx)
      /\ wr.lines \in Seq(Line) /\ wr.lines # <<>>
  BY WritingType DEF DeductOne, NextLine
<1>2. line \in Line /\ Tail(wr.lines) \in Seq(Line) BY <1>1
<1>3. /\ tx' = DeductLine(tx, wr.order, line)
      /\ wr' = [wr EXCEPT !.lines = left]
      /\ UNCHANGED <<db, pending>>
  BY DEF DeductOne
<1>4. left \in Seq(Line) BY <1>2
<1> HIDE DEF line, left
<1>5. Sound(tx') BY <1>1, <1>2, <1>3, DeductLineSound
<1>6. wr' \in WriteRest BY <1>1, <1>3, <1>4 DEF WriteRest
<1> QED BY <1>3, <1>5, <1>6, WriteStep

LEMMA RestoreStep ==
  ASSUME IInv, RestoreOne
  PROVE  IInv'
<1>1. /\ wr \in WriteRest /\ wr.order \in Orders /\ Sound(tx)
      /\ wr.sales \in SUBSET Movement
  BY WritingType DEF RestoreOne
<1>2. PICK m \in wr.sales :
        /\ tx' = IF AlreadyRestored(tx, wr.order, m) THEN tx
                 ELSE RestoreSale(tx, wr.order, m, OversoldOf(tx, wr.order, m))
        /\ wr' = [wr EXCEPT !.sales = @ \ {m}]
  BY DEF RestoreOne
<1>3. OversoldOf(tx, wr.order, m) \in Int BY <1>1, OversoldType
<1>4. Sound(tx') BY <1>1, <1>2, <1>3, RestoreSaleSound
<1>5. wr' \in WriteRest BY <1>1, <1>2 DEF WriteRest
<1> QED BY <1>4, <1>5, WriteStep DEF RestoreOne

LEMMA EndStep ==
  ASSUME IInv, Commit \/ RaiseOut \/ Refuse
  PROVE  IInv'
<1>1. wr \in WriteRest /\ wr.order \in Orders /\ wr.target \in Statuses
      /\ Sound(tx) /\ Sound(db)
  BY WritingType DEF Commit, RaiseOut, Refuse, NextLine, StockDone
<1>2. CASE Commit
  <2>1. Sound(SetStatus(tx, wr.order, wr.target)) BY <1>1, SetStatusSound
  <2> QED BY <1>1, <1>2, <2>1 DEF Commit, IInv
<1>3. CASE Undo BY <1>1, <1>3 DEF Undo, IInv
<1> QED BY <1>2, <1>3 DEF RaiseOut, Refuse

LEMMA DropStep ==
  ASSUME IInv, NEW w \in Workers, Drop(w)
  PROVE  IInv'
BY ReadStep DEF Drop, Answered, Request

-----------------------------------------------------------------------------
LEMMA NextKeepsInvariant ==
  IInv /\ [Next]_vars => IInv'
<1> SUFFICES ASSUME IInv, [Next]_vars PROVE IInv' OBVIOUS
<1>1. CASE \E b \in Options, q \in 1..MaxQty : RestockProduct(b, q) \/ WasteStock(b, q)
  BY <1>1, RestockStep, WasteStep
<1>2. CASE \E w \in Workers, b \in Options, target \in 0..MaxQty :
             ReadAdjust(w, b, target)
  BY <1>2, ReadAdjustStep
<1>3. CASE \E w \in Workers : WriteAdjust(w) BY <1>3, WriteAdjustStep
<1>4. CASE \E o \in Orders, form \in Forms, status \in {"new", "delivered"} :
             CreateOrder(o, form, status)
  BY <1>4, CreateOrderStep
<1>5. CASE \E w \in Workers, o \in Orders, target \in Targets, reason \in BOOLEAN :
             ReadStatus(w, o, target, reason)
  BY <1>5, ReadStatusStep
<1>6. CASE \E w \in Workers : BeginPlainStatus(w) \/ BeginDeduct(w) \/ BeginRestore(w)
  BY <1>6, BeginStatusStep
<1>7. CASE \E w \in Workers, o \in Orders, lines \in LineLists : ReadEdit(w, o, lines)
  BY <1>7, ReadEditStep
<1>8. CASE \E w \in Workers : BeginEdit(w) \/ Drop(w) BY <1>8, BeginEditStep, DropStep
<1>9. CASE \E o \in Orders, derived \in Targets : SyncFromItems(o, derived) BY <1>9, SyncStep
<1>10. CASE ReverseNegative \/ ForgetSales \/ DeductOne \/ RestoreOne
  BY <1>10, ReverseStep, ForgetStep, DeductStep, RestoreStep
<1>11. CASE RaiseOut \/ Commit \/ Refuse BY <1>11, EndStep
<1>12. CASE UNCHANGED vars BY <1>12 DEF vars, IInv
<1> QED BY <1>1, <1>2, <1>3, <1>4, <1>5, <1>6, <1>7, <1>8, <1>9, <1>10, <1>11, <1>12
  DEF Next

LEMMA InvariantHolds ==
  Spec => []IInv
BY InitSound, NextKeepsInvariant, PTL DEF Spec

(***************************************************************************)
(* In every reachable state, for any sets of options, orders, requests and *)
(* lines, every table row and request holds values of its columns' types.  *)
(***************************************************************************)
THEOREM TypeCorrect ==
  Spec => []TypeOK
<1>1. IInv => TypeOK BY DEF IInv, Sound, TypeOK
<1> QED BY <1>1, InvariantHolds, PTL

(***************************************************************************)
(* However many requests race, and wherever one raises, is refused or is   *)
(* undone: stock_lots.remaining_qty is the number of the lot's available   *)
(* inventory_items, in the database and inside every write transaction.    *)
(***************************************************************************)
THEOREM LotsNeverDrift ==
  Spec => []LotCountsMatch
<1>1. IInv => LotCountsMatch BY DEF IInv, Sound, LotCountsMatch
<1> QED BY <1>1, InvariantHolds, PTL

-----------------------------------------------------------------------------
(***************************************************************************)
(* What was consumed.  ConsumptionIsRecorded is not inductive: it speaks   *)
(* of db, but what a request commits is what it made of tx, and a new      *)
(* movement takes over the items of an old one unless ids are new.  Nor    *)
(* does it let the sales of an edited order be deleted, which is right     *)
(* because their items were all released before.                           *)
(***************************************************************************)
NumberedOnce(d) ==
  /\ \A m \in d.movements : m.id \in 1..d.lastMovement
  /\ \A m, n \in d.movements : m.id = n.id => m = n

ItemsAreRecorded(d) ==
  \A i \in DOMAIN d.items : d.items[i].by # NoMovement =>
    \E m \in d.movements : /\ m.id = d.items[i].by
                           /\ m.option = d.lots[d.items[i].lot].option
                           /\ m.type \in {"sale", "waste", "adjustment"}

Accounted(d, m) ==
  LET taken == Cardinality(ConsumedBy(d, m)) IN
  /\ m.type = "sale" => taken <= -m.qty
  /\ m.type = "waste" => taken = -m.qty
  /\ m.type = "adjustment" => taken = IF m.qty < 0 THEN -m.qty ELSE 0

Recorded(d) ==
  /\ NumberedOnce(d)
  /\ ItemsAreRecorded(d)
  /\ \A m \in d.movements : Accounted(d, m)

RecordsInv ==
  /\ Recorded(db)
  /\ Recorded(tx)
  /\ wr # NoWrite /\ wr.forget => /\ ConsumedBySales(tx, wr.order) = {}
                                  /\ wr.sales = {}

\* Items and movements as they were, in lots of the options they were of.
LEMMA SameRecords ==
  ASSUME NEW d, NEW e, Recorded(d),
         e.items = d.items, e.movements = d.movements, e.lastMovement = d.lastMovement,
         \A i \in DOMAIN d.items :
           e.lots[d.items[i].lot].option = d.lots[d.items[i].lot].option
  PROVE  Recorded(e)
<1>1. NumberedOnce(e) BY DEF Recorded, NumberedOnce
<1>2. ItemsAreRecorded(e) BY DEF Recorded, ItemsAreRecorded
<1>3. \A m : ConsumedBy(e, m) = ConsumedBy(d, m) BY DEF ConsumedBy
<1>4. \A m \in e.movements : Accounted(e, m) BY <1>3 DEF Recorded, Accounted
<1> QED BY <1>1, <1>2, <1>4 DEF Recorded

\* An item is consumed by a movement whose id was given out.
LEMMA ConsumersAreOld ==
  ASSUME NEW d, Sound(d), Recorded(d), NEW i \in DOMAIN d.items
  PROVE  d.items[i].by \in 0..d.lastMovement
<1>1. d.lastMovement \in Nat BY DEF Sound, Database
<1>2. CASE d.items[i].by = NoMovement BY <1>1, <1>2 DEF NoMovement
<1>3. CASE d.items[i].by # NoMovement
  <2>1. PICK m \in d.movements : m.id = d.items[i].by BY <1>3 DEF Recorded, ItemsAreRecorded
  <2>2. m.id \in 1..d.lastMovement BY DEF Recorded, NumberedOnce
  <2> QED BY <1>1, <2>1, <2>2
<1> QED BY <1>2, <1>3

\* A movement that consumes nothing.
LEMMA LogMovementRecorded ==
  ASSUME NEW d, Sound(d), Recorded(d), NEW type \in MovementType, NEW b \in Options,
         NEW q \in Int, NEW ref \in Orders \cup {NoRef},
         type # "waste", type = "sale" => q <= 0, type = "adjustment" => q >= 0
  PROVE  Recorded(LogMovement(d, type, b, q, ref))
<1> DEFINE last == d.lastMovement + 1
           row == [id |-> last, type |-> type, option |-> b, qty |-> q, ref |-> ref]
           e == LogMovement(d, type, b, q, ref)
<1>1. d \in Database BY DEF Sound
<1>2. d.lastMovement \in Nat /\ last \in Nat BY <1>1 DEF Database
<1>3. /\ e.items = d.items /\ e.lots = d.lots
      /\ e.movements = d.movements \cup {row} /\ e.lastMovement = last
  BY <1>1 DEF LogMovement, Database
<1>4. \A m \in d.movements : m.id \in 1..d.lastMovement /\ m.id # last
  BY <1>2 DEF Recorded, NumberedOnce
<1>5. NumberedOnce(e)
  <2>1. \A m \in e.movements : m.id \in 1..last BY <1>2, <1>3, <1>4
  <2>2. \A m, n \in e.movements : m.id = n.id => m = n BY <1>3, <1>4 DEF Recorded, NumberedOnce
  <2> QED BY <1>3, <2>1, <2>2 DEF NumberedOnce
<1>6. ItemsAreRecorded(e) BY <1>3 DEF Recorded, ItemsAreRecorded
<1>7. \A m : ConsumedBy(e, m) = ConsumedBy(d, m) BY <1>3 DEF ConsumedBy
<1>8. ConsumedBy(d, row) = {}
  <2>1. \A i \in DOMAIN d.items : d.items[i].by # last BY <1>2, ConsumersAreOld
  <2> QED BY <2>1 DEF ConsumedBy
<1>9. Accounted(e, row)
  <2>1. Cardinality(ConsumedBy(e, row)) = 0 BY <1>7, <1>8, FS_EmptySet
  <2> QED BY <2>1 DEF Accounted
<1>10. \A m \in d.movements : Accounted(e, m) BY <1>7 DEF Recorded, Accounted
<1> QED BY <1>3, <1>5, <1>6, <1>9, <1>10 DEF Recorded

\* A movement that consumes the items of S.
LEMMA OutflowRecorded ==
  ASSUME NEW d, Sound(d), Recorded(d), NEW type \in {"sale", "waste", "adjustment"},
         NEW b \in Options, NEW q \in Nat, NEW ref \in Orders \cup {NoRef},
         NEW S, S \subseteq AvailableItems(d, b),
         Cardinality(S) <= q, type # "sale" => Cardinality(S) = q
  PROVE  Recorded(ConsumeItems(LogMovement(d, type, b, -q, ref), S, d.lastMovement + 1))
<1> DEFINE last == d.lastMovement + 1
           row == [id |-> last, type |-> type, option |-> b, qty |-> -q, ref |-> ref]
           logged == LogMovement(d, type, b, -q, ref)
           e == ConsumeItems(logged, S, last)
<1>1. d \in Database BY DEF Sound
<1>2. /\ d.lastMovement \in Nat /\ last \in Nat
      /\ d.items \in Seq(InventoryItem) /\ d.lots \in Seq(Lot)
  BY <1>1 DEF Database
<1>3. /\ logged \in Database /\ logged.items = d.items /\ logged.lots = d.lots
      /\ logged.movements = d.movements \cup {row} /\ logged.lastMovement = last
  <2>1. type \in MovementType /\ -q \in Int BY DEF MovementType
  <2>2. logged \in Database BY <2>1, LogMovementSound DEF Sound
  <2> QED BY <1>1, <2>2 DEF LogMovement, Database
<1> HIDE DEF logged
<1>4. /\ e.items = [i \in DOMAIN d.items |->
                      IF i \in S THEN [d.items[i] EXCEPT !.by = last] ELSE d.items[i]]
      /\ e.movements = d.movements \cup {row} /\ e.lastMovement = last
      /\ e.lots = [l \in DOMAIN d.lots |->
                     [d.lots[l] EXCEPT !.remaining =
                        @ - Cardinality({i \in S : d.items[i].lot = l})]]
  BY <1>3 DEF ConsumeItems, Database
<1>5. \A i \in S : /\ i \in DOMAIN d.items /\ d.items[i].by = NoMovement
                   /\ d.lots[d.items[i].lot].option = b
  BY DEF AvailableItems
<1>6. /\ DOMAIN e.items = DOMAIN d.items
      /\ \A i \in DOMAIN d.items :
           /\ e.items[i].lot = d.items[i].lot
           /\ e.items[i].by = IF i \in S THEN last ELSE d.items[i].by
  <2>1. \A i \in DOMAIN d.items : d.items[i] \in InventoryItem BY <1>2
  <2> HIDE DEF e, last
  <2> QED BY <1>4, <2>1 DEF InventoryItem
<1>7. \A i \in DOMAIN d.items :
        e.lots[d.items[i].lot].option = d.lots[d.items[i].lot].option
  <2> TAKE i \in DOMAIN d.items
  <2>1. d.items[i].lot \in DOMAIN d.lots BY DEF Sound, LotsCountTheirItems
  <2>2. d.lots[d.items[i].lot] \in Lot BY <1>2, <2>1
  <2> QED BY <1>4, <2>1, <2>2 DEF Lot
<1> HIDE DEF e, row
<1>8. row.id = last /\ row.type = type /\ row.option = b /\ row.qty = -q BY DEF row
<1>9. \A m \in d.movements : m.id \in 1..d.lastMovement /\ m.id # last
  BY <1>2 DEF Recorded, NumberedOnce
<1>10. NumberedOnce(e)
  <2>1. \A m \in e.movements : m.id \in 1..last BY <1>2, <1>4, <1>8, <1>9
  <2>2. \A m, n \in e.movements : m.id = n.id => m = n
    BY <1>4, <1>8, <1>9 DEF Recorded, NumberedOnce
  <2> QED BY <1>4, <2>1, <2>2 DEF NumberedOnce
<1>11. ItemsAreRecorded(e)
  <2> SUFFICES ASSUME NEW i \in DOMAIN d.items, e.items[i].by # NoMovement
               PROVE  \E m \in e.movements :
                        /\ m.id = e.items[i].by
                        /\ m.option = e.lots[e.items[i].lot].option
                        /\ m.type \in {"sale", "waste", "adjustment"}
    BY <1>6 DEF ItemsAreRecorded
  <2>1. CASE i \in S BY <1>4, <1>5, <1>6, <1>7, <1>8, <2>1
  <2>2. CASE i \notin S BY <1>4, <1>6, <1>7, <2>2 DEF Recorded, ItemsAreRecorded
  <2> QED BY <2>1, <2>2
<1>12. \A i \in DOMAIN d.items : d.items[i].by # last BY <1>2, ConsumersAreOld
<1>13. ConsumedBy(e, row) = S BY <1>5, <1>6, <1>8, <1>12 DEF ConsumedBy
<1>14. \A m \in d.movements : ConsumedBy(e, m) = ConsumedBy(d, m)
  <2> TAKE m \in d.movements
  <2>1. m.id # NoMovement BY <1>2, <1>9 DEF NoMovement
  <2> QED BY <1>5, <1>6, <1>9, <2>1 DEF ConsumedBy
<1>15. Accounted(e, row)
  <2>1. S \in SUBSET DOMAIN d.items BY <1>5
  <2>2. Cardinality(S) \in Nat BY <1>1, <2>1, ItemSets
  <2>3. -(-q) = q /\ (-q < 0 <=> q > 0) OBVIOUS
  <2> QED BY <1>8, <1>13, <2>2, <2>3 DEF Accounted
<1>16. \A m \in d.movements : Accounted(e, m) BY <1>14 DEF Recorded, Accounted
<1> QED BY <1>4, <1>10, <1>11, <1>15, <1>16 DEF Recorded, e, logged

(***************************************************************************)
(* FIFO never takes more than it is asked for: the last item taken has at  *)
(* most q consumable items up to it, and every item taken is one of them.  *)
(***************************************************************************)
LEMMA FifoTakeAtMost ==
  ASSUME NEW d, Sound(d), NEW b \in Options, NEW q \in Nat
  PROVE  /\ FifoTake(d, b, q) \subseteq AvailableItems(d, b)
         /\ Cardinality(FifoTake(d, b, q)) \in Nat
         /\ Cardinality(FifoTake(d, b, q)) <= q
<1> DEFINE open == Consumable(d, b)
           T == FifoTake(d, b, q)
           Upto(i) == {j \in open : j <= i}
<1>1. open \in SUBSET DOMAIN d.items /\ T \subseteq AvailableItems(d, b)
  BY DEF FifoTake, Consumable, AvailableItems
<1>2. T = {i \in open : Cardinality(Upto(i)) <= q} BY DEF FifoTake
<1> HIDE DEF open, T
<1>3. T \in SUBSET DOMAIN d.items BY <1>1, <1>2
<1>4. IsFiniteSet(T) /\ Cardinality(T) \in Nat BY <1>3, ItemSets DEF Sound
<1>5. DOMAIN d.items \subseteq Nat BY DEF Sound, Database
<1>6. CASE T = {}
  <2>1. Cardinality(T) = 0 BY <1>6, FS_EmptySet
  <2> QED BY <1>1, <2>1 DEF T
<1>7. CASE T # {}
  <2>1. T \subseteq Nat BY <1>3, <1>5
  <2>2. PICK last \in T : \A i \in T : i <= last BY ONLY <1>4, <1>7, <2>1, GreatestOf
  <2>3. T \subseteq Upto(last) BY <1>2, <2>2
  <2>4. Upto(last) \in SUBSET DOMAIN d.items BY <1>1
  <2>5. Cardinality(Upto(last)) <= q BY <1>2, <2>2
  <2> HIDE DEF Upto
  <2>6. IsFiniteSet(Upto(last)) /\ Cardinality(Upto(last)) \in Nat BY <2>4, ItemSets DEF Sound
  <2>7. T \in SUBSET Upto(last) BY <2>3
  <2>8. Cardinality(T) <= Cardinality(Upto(last)) BY ONLY <2>6, <2>7, FS_Subset
  <2>9. Cardinality(T) <= q BY <1>4, <2>5, <2>6, <2>8
  <2> QED BY <1>1, <1>4, <2>9 DEF T
<1> QED BY <1>6, <1>7

-----------------------------------------------------------------------------
\* The helpers of the handlers keep what was consumed recorded.
LEMMA CreateLotRecorded ==
  ASSUME NEW d, Sound(d), Recorded(d), NEW b \in Options, NEW q \in Nat
  PROVE  Recorded(CreateLotWithItems(d, b, q))
<1> DEFINE old == Len(d.items)
           e == CreateLotWithItems(d, b, q)
<1>1. d \in Database BY DEF Sound
<1>2. /\ d.items \in Seq(InventoryItem) /\ d.lots \in Seq(Lot)
      /\ DOMAIN d.items = 1..old /\ old \in Nat
  BY <1>1 DEF Database
<1>3. /\ e.items = [i \in 1..(old + q) |->
                      IF i <= old THEN d.items[i]
                      ELSE [lot |-> Len(d.lots) + 1, by |-> NoMovement]]
      /\ e.lots = Append(d.lots, [option |-> b, remaining |-> q])
      /\ e.movements = d.movements /\ e.lastMovement = d.lastMovement
  BY <1>1 DEF CreateLotWithItems, Database
<1> HIDE DEF e, old
<1>4. /\ DOMAIN e.items = 1..(old + q)
      /\ \A i \in 1..(old + q) : IF i \in DOMAIN d.items THEN e.items[i] = d.items[i]
                                 ELSE e.items[i].by = NoMovement
  BY <1>2, <1>3
<1>5. DOMAIN d.items \subseteq 1..(old + q) BY <1>2
<1>6. \A i \in DOMAIN d.items :
        e.lots[d.items[i].lot].option = d.lots[d.items[i].lot].option
  <2> TAKE i \in DOMAIN d.items
  <2>1. d.items[i].lot \in DOMAIN d.lots BY DEF Sound, LotsCountTheirItems
  <2> QED BY <1>2, <1>3, <2>1
<1>7. NumberedOnce(e) BY <1>3 DEF Recorded, NumberedOnce
<1>8. ItemsAreRecorded(e)
  <2> SUFFICES ASSUME NEW i \in DOMAIN e.items, e.items[i].by # NoMovement
               PROVE  \E m \in e.movements :
                        /\ m.id = e.items[i].by
                        /\ m.option = e.lots[e.items[i].lot].option
                        /\ m.type \in {"sale", "waste", "adjustment"}
    BY DEF ItemsAreRecorded
  <2>1. i \in DOMAIN d.items /\ e.items[i] = d.items[i] BY <1>4
  <2> QED BY <1>3, <1>6, <2>1 DEF Recorded, ItemsAreRecorded
<1>9. \A m \in d.movements : ConsumedBy(e, m) = ConsumedBy(d, m)
  <2> TAKE m \in d.movements
  <2>1. m.id # NoMovement BY <1>1 DEF Recorded, NumberedOnce, NoMovement, Database
  <2> QED BY <1>4, <1>5, <2>1 DEF ConsumedBy
<1>10. \A m \in e.movements : Accounted(e, m) BY <1>3, <1>9 DEF Recorded, Accounted
<1> QED BY <1>7, <1>8, <1>10 DEF Recorded, e

\* Where FIFO finds all that is asked for, what left is what the movement says.
LEMMA TakeOutRecorded ==
  ASSUME NEW d, Sound(d), Recorded(d), NEW type \in {"waste", "adjustment"},
         NEW b \in Options, NEW q \in Nat, Deficit(d, b, q) = 0
  PROVE  Recorded(TakeOut(d, type, b, q))
<1> DEFINE T == FifoTake(d, b, q)
           logged == LogMovement(d, type, b, -q, NoRef)
<1>1. T \subseteq AvailableItems(d, b) /\ Cardinality(T) \in Nat BY FifoTakeAtMost
<1>2. Cardinality(T) = q BY <1>1 DEF Deficit
<1>3. logged.lastMovement = d.lastMovement + 1 /\ FifoTake(logged, b, q) = T
  BY DEF LogMovement, FifoTake, Consumable, AvailableItems, Sound, Database
<1>4. TakeOut(d, type, b, q) = ConsumeItems(logged, T, d.lastMovement + 1)
  BY <1>3 DEF TakeOut, ConsumeFifoItems
<1> HIDE DEF T
<1>5. NoRef \in Orders \cup {NoRef} /\ type \in {"sale", "waste", "adjustment"} OBVIOUS
<1>6. Cardinality(T) <= q BY <1>2
<1>7. Recorded(ConsumeItems(logged, T, d.lastMovement + 1))
  BY <1>1, <1>2, <1>5, <1>6, OutflowRecorded
<1> QED BY <1>4, <1>7

\* The balance of oversold stock is no part of the record.
LEMMA BalanceRecorded ==
  ASSUME NEW d, Sound(d), Recorded(d), NEW b \in Options, NEW k \in Int
  PROVE  /\ Recorded(AddToBalance(d, b, k))
         /\ Recorded(UpsertNegativeBalance(d, b, k))
         /\ Recorded(ReduceNegativeBalance(d, b, k))
<1>1. d \in Database BY DEF Sound
<1>2. ASSUME NEW j
      PROVE  LET e == AddToBalance(d, b, j)
             IN  /\ e.items = d.items /\ e.lots = d.lots
                 /\ e.movements = d.movements /\ e.lastMovement = d.lastMovement
  BY <1>1 DEF AddToBalance, Database
<1>3. LET e == UpsertNegativeBalance(d, b, k)
      IN  /\ e.items = d.items /\ e.lots = d.lots
          /\ e.movements = d.movements /\ e.lastMovement = d.lastMovement
  BY <1>1, <1>2 DEF UpsertNegativeBalance, Database
<1>4. LET e == ReduceNegativeBalance(d, b, k)
      IN  /\ e.items = d.items /\ e.lots = d.lots
          /\ e.movements = d.movements /\ e.lastMovement = d.lastMovement
  BY <1>1, -k \in Int DEF ReduceNegativeBalance, AddToBalance, Database
<1>5. Recorded(AddToBalance(d, b, k))
  <2> DEFINE e == AddToBalance(d, b, k)
  <2>1. /\ e.items = d.items /\ e.lots = d.lots
        /\ e.movements = d.movements /\ e.lastMovement = d.lastMovement
    BY <1>2
  <2> HIDE DEF e
  <2>2. Recorded(e) BY <2>1, SameRecords
  <2> QED BY <2>2 DEF e
<1>6. Recorded(UpsertNegativeBalance(d, b, k)) BY <1>3, SameRecords
<1>7. Recorded(ReduceNegativeBalance(d, b, k)) BY <1>4, SameRecords
<1> QED BY <1>5, <1>6, <1>7

\* A line sold consumes at most its quantity, also when it raises.
LEMMA DeductLineRecorded ==
  ASSUME NEW d, Sound(d), Recorded(d), NEW o \in Orders, NEW line \in Line
  PROVE  Recorded(DeductLine(d, o, line))
<1> DEFINE b == line.option
           q == line.qty
           T == FifoTake(d, b, q)
           logged == LogMovement(d, "sale", b, -q, o)
           deficit == LineDeficit(d, o, line)
           sold == SellLine(d, o, line)
<1>1. b \in Options /\ q \in Nat /\ q \in Int /\ -q \in Int /\ -q <= 0 BY DEF Line
<1>2. deficit \in Int /\ -deficit \in Int BY <1>1, FifoTakeAvailable DEF LineDeficit
<1>3. Sound(sold) BY <1>1, LogMovementSound, ConsumeFifoItemsSound DEF SellLine, MovementType
<1>4. Recorded(sold)
  <2>1. CASE ~ShouldConsumeFifo(d, o, line)
    <3> HIDE DEF b, q
    <3>1. Recorded(logged) BY <1>1, LogMovementRecorded DEF MovementType
    <3> QED BY <2>1, <3>1 DEF SellLine, b, q
  <2>2. CASE ShouldConsumeFifo(d, o, line)
    <3>1. logged.lastMovement = d.lastMovement + 1 /\ FifoTake(logged, b, q) = T
      BY DEF LogMovement, FifoTake, Consumable, AvailableItems, Sound, Database
    <3>2. sold = ConsumeItems(logged, T, d.lastMovement + 1)
      BY <2>2, <3>1 DEF SellLine, ConsumeFifoItems
    <3> HIDE DEF T, b, q, sold
    <3>3. T \subseteq AvailableItems(d, b) /\ Cardinality(T) <= q BY <1>1, FifoTakeAtMost DEF T
    <3>4. Recorded(ConsumeItems(logged, T, d.lastMovement + 1)) BY <1>1, <3>3, OutflowRecorded
    <3> QED BY <3>2, <3>4
  <2> QED BY <2>1, <2>2
<1>5. Recorded(OversellLine(sold, o, line, deficit))
  <2> HIDE DEF deficit, sold
  <2> DEFINE oversold == LogMovement(sold, "negative_sale", line.option, -deficit, o)
  <2>1. "negative_sale" \in MovementType BY DEF MovementType
  <2>2. Sound(oversold) BY <1>1, <1>2, <1>3, <2>1, LogMovementSound
  <2>3. Recorded(oversold) BY <1>1, <1>2, <1>3, <1>4, <2>1, LogMovementRecorded
  <2> HIDE DEF oversold
  <2>4. Recorded(UpsertNegativeBalance(oversold, line.option, deficit))
    BY <1>1, <1>2, <2>2, <2>3, BalanceRecorded
  <2> QED BY <2>4 DEF OversellLine, oversold
<1> QED BY <1>4, <1>5 DEF DeductLine

LEMMA RestoreSaleRecorded ==
  ASSUME NEW d, Sound(d), Recorded(d), NEW o \in Orders, NEW m \in Movement,
         NEW deficit \in Int
  PROVE  Recorded(RestoreSale(d, o, m, deficit))
<1> DEFINE logged == LogMovement(d, "restore_sale", m.option, -m.qty, o)
           returned == -m.qty - deficit
           stocked == IF returned > 0
                      THEN CreateLotWithItems(logged, m.option, returned) ELSE logged
<1>1. m.option \in Options /\ -m.qty \in Int /\ returned \in Int BY DEF Movement
<1>2. "restore_sale" \in MovementType BY DEF MovementType
<1>3. Sound(logged) BY <1>1, <1>2, LogMovementSound
<1>4. Recorded(logged) BY <1>1, <1>2, LogMovementRecorded
<1>5. Sound(stocked) /\ Recorded(stocked)
  <2> HIDE DEF logged, returned
  <2>1. returned > 0 => returned \in Nat BY <1>1
  <2> QED BY <1>1, <1>3, <1>4, <2>1, CreateLotSound, CreateLotRecorded
<1>6. Recorded(ReduceNegativeBalance(stocked, m.option, deficit))
  <2> HIDE DEF stocked
  <2> QED BY <1>1, <1>5, BalanceRecorded
<1> QED BY <1>5, <1>6 DEF RestoreSale

(***************************************************************************)
(* Releasing an order's sales leaves no item to them and every other       *)
(* movement its own.                                                       *)
(***************************************************************************)
LEMMA ReleaseSalesRecorded ==
  ASSUME NEW d, Sound(d), Recorded(d), NEW o \in Orders
  PROVE  /\ Recorded(ReleaseSales(d, o))
         /\ ConsumedBySales(ReleaseSales(d, o), o) = {}
<1> DEFINE S == ConsumedBySales(d, o)
           ids == {m.id : m \in MovementsOf(d, o, "sale")}
           e == ReleaseSales(d, o)
<1>1. d \in Database BY DEF Sound
<1>2. d.items \in Seq(InventoryItem) /\ d.lots \in Seq(Lot) BY <1>1 DEF Database
<1>3. /\ e.items = [i \in DOMAIN d.items |->
                      IF i \in S THEN [d.items[i] EXCEPT !.by = NoMovement]
                      ELSE d.items[i]]
      /\ e.lots = [l \in DOMAIN d.lots |->
                     [d.lots[l] EXCEPT !.remaining =
                        @ + Cardinality({i \in S : d.items[i].lot = l})]]
      /\ e.movements = d.movements /\ e.lastMovement = d.lastMovement
  BY <1>1 DEF ReleaseSales, ReleaseItems, Database
<1>4. S = {i \in DOMAIN d.items : d.items[i].by \in ids \ {NoMovement}} BY DEF ConsumedBySales
<1> HIDE DEF e, S
<1>5. /\ DOMAIN e.items = DOMAIN d.items
      /\ \A i \in DOMAIN d.items :
           /\ e.items[i].lot = d.items[i].lot
           /\ e.items[i].by = IF i \in S THEN NoMovement ELSE d.items[i].by
  <2>1. \A i \in DOMAIN d.items : d.items[i] \in InventoryItem BY <1>2
  <2> QED BY <1>3, <2>1 DEF InventoryItem
<1>6. \A i \in DOMAIN d.items :
        e.lots[d.items[i].lot].option = d.lots[d.items[i].lot].option
  <2> TAKE i \in DOMAIN d.items
  <2>1. d.items[i].lot \in DOMAIN d.lots BY DEF Sound, LotsCountTheirItems
  <2>2. d.lots[d.items[i].lot] \in Lot BY <1>2, <2>1
  <2> QED BY <1>3, <2>1, <2>2 DEF Lot
<1>7. NumberedOnce(e) BY <1>3 DEF Recorded, NumberedOnce
<1>8. ItemsAreRecorded(e)
  <2> SUFFICES ASSUME NEW i \in DOMAIN d.items, e.items[i].by # NoMovement
               PROVE  \E m \in e.movements :
                        /\ m.id = e.items[i].by
                        /\ m.option = e.lots[e.items[i].lot].option
                        /\ m.type \in {"sale", "waste", "adjustment"}
    BY <1>5 DEF ItemsAreRecorded
  <2>1. e.items[i].by = d.items[i].by BY <1>5
  <2> QED BY <1>3, <1>5, <1>6, <2>1 DEF Recorded, ItemsAreRecorded
<1>9. \A m \in d.movements : m.id # NoMovement
  BY <1>1 DEF Recorded, NumberedOnce, NoMovement, Database
<1>10. \A m \in d.movements : Accounted(e, m)
  <2> TAKE m \in d.movements
  <2>1. Accounted(d, m) BY DEF Recorded
  <2>2. CASE m \in MovementsOf(d, o, "sale")
    <3>1. ConsumedBy(d, m) \in SUBSET DOMAIN d.items BY DEF ConsumedBy
    <3>2. IsFiniteSet(ConsumedBy(d, m)) /\ Cardinality(ConsumedBy(d, m)) \in Nat
      BY <1>1, <3>1, ItemSets
    <3>3. ConsumedBy(e, m) = {}
      <4>1. m.id \in ids \ {NoMovement} BY <1>9, <2>2
      <4> QED BY <1>4, <1>5, <4>1 DEF ConsumedBy
    <3>4. Cardinality(ConsumedBy(e, m)) = 0 BY <3>3, FS_EmptySet
    <3>5. m.type = "sale" /\ m.qty \in Int BY <1>1, <2>2 DEF MovementsOf, Database, Movement
    <3> QED BY <2>1, <3>2, <3>4, <3>5 DEF Accounted
  <2>3. CASE m \notin MovementsOf(d, o, "sale")
    <3>1. m.id \notin ids BY <2>3 DEF MovementsOf, Recorded, NumberedOnce
    <3>2. ConsumedBy(e, m) = ConsumedBy(d, m) BY <1>4, <1>5, <1>9, <3>1 DEF ConsumedBy
    <3> QED BY <2>1, <3>2 DEF Accounted
  <2> QED BY <2>2, <2>3
<1>11. Recorded(e) BY <1>3, <1>7, <1>8, <1>10 DEF Recorded
<1>12. ConsumedBySales(e, o) = {}
  <2>1. MovementsOf(e, o, "sale") = MovementsOf(d, o, "sale") BY <1>3 DEF MovementsOf
  <2>2. ConsumedBySales(e, o)
          = {i \in DOMAIN e.items : e.items[i].by \in ids \ {NoMovement}}
    BY <2>1 DEF ConsumedBySales
  <2> QED BY <1>4, <1>5, <2>2
<1> QED BY <1>11, <1>12 DEF e

\* The sales of an order may be deleted once they have no item.
LEMMA DeleteSalesRecorded ==
  ASSUME NEW d, Sound(d), Recorded(d), NEW o \in Orders, ConsumedBySales(d, o) = {}
  PROVE  Recorded(DeleteSales(d, o))
<1> DEFINE gone == {m \in d.movements : m.ref = o /\ m.type \in {"sale", "negative_sale"}}
           e == DeleteSales(d, o)
<1>1. d \in Database BY DEF Sound
<1>2. /\ e.items = d.items /\ e.lots = d.lots
      /\ e.movements = d.movements \ gone /\ e.lastMovement = d.lastMovement
  BY <1>1 DEF DeleteSales, Database
<1> HIDE DEF e
<1>3. NumberedOnce(e) BY <1>2 DEF Recorded, NumberedOnce
<1>4. ItemsAreRecorded(e)
  <2> SUFFICES ASSUME NEW i \in DOMAIN d.items, d.items[i].by # NoMovement
               PROVE  \E m \in e.movements :
                        /\ m.id = d.items[i].by
                        /\ m.option = d.lots[d.items[i].lot].option
                        /\ m.type \in {"sale", "waste", "adjustment"}
    BY <1>2 DEF ItemsAreRecorded
  <2>1. PICK m \in d.movements : /\ m.id = d.items[i].by
                                /\ m.option = d.lots[d.items[i].lot].option
                                /\ m.type \in {"sale", "waste", "adjustment"}
    BY DEF Recorded, ItemsAreRecorded
  <2>2. ~(m.ref = o /\ m.type = "sale")
    <3> SUFFICES ASSUME m.ref = o, m.type = "sale" PROVE FALSE OBVIOUS
    <3>1. m \in MovementsOf(d, o, "sale") BY DEF MovementsOf
    <3>2. i \in ConsumedBySales(d, o) BY <2>1, <3>1 DEF ConsumedBySales
    <3> QED BY <3>2
  <2> QED BY <1>2, <2>1, <2>2
<1>5. \A m \in e.movements : Accounted(e, m) BY <1>2 DEF Recorded, Accounted, ConsumedBy
<1> QED BY <1>3, <1>4, <1>5 DEF Recorded, e

\* What is written to an order is no part of the record.
LEMMA OrdersRecorded ==
  ASSUME NEW d, Sound(d), Recorded(d), NEW orders
  PROVE  Recorded([d EXCEPT !.orders = orders])
<1> DEFINE e == [d EXCEPT !.orders = orders]
<1>1. /\ e.items = d.items /\ e.lots = d.lots
      /\ e.movements = d.movements /\ e.lastMovement = d.lastMovement
  BY DEF Sound, Database
<1> HIDE DEF e
<1>2. Recorded(e) BY <1>1, SameRecords
<1> QED BY <1>2 DEF e

LEMMA SetStatusRecorded ==
  ASSUME NEW d, Sound(d), Recorded(d), NEW o \in Orders, NEW s \in Statuses
  PROVE  Recorded(SetStatus(d, o, s))
BY OrdersRecorded DEF SetStatus

-----------------------------------------------------------------------------
\* Every action keeps the record.
LEMMA CommitRecorded ==
  ASSUME RecordsInv, NEW d, Recorded(d), CommitNow(d), LockFree
  PROVE  RecordsInv'
BY DEF RecordsInv, CommitNow, LockFree

LEMMA BeginRecorded ==
  ASSUME RecordsInv, NEW d, Recorded(d), NEW rest, BeginWith(d, rest),
         rest.forget => ConsumedBySales(d, rest.order) = {} /\ rest.sales = {}
  PROVE  RecordsInv'
BY DEF RecordsInv, BeginWith

\* A write phase that has no sales to delete, now or later.
LEMMA TxRecorded ==
  ASSUME RecordsInv, Recorded(tx'), ~wr'.forget, UNCHANGED db
  PROVE  RecordsInv'
BY DEF RecordsInv

LEMMA OneStatementRecorded ==
  ASSUME IInv, RecordsInv, NEW b \in Options, NEW q \in 1..MaxQty,
         RestockProduct(b, q) \/ WasteStock(b, q)
  PROVE  RecordsInv'
<1>1. /\ q \in Nat /\ q \in Int /\ NoRef \in Orders \cup {NoRef}
      /\ "restock" \in MovementType
  BY StockAssumption DEF MovementType
<1>2. Sound(db) /\ Recorded(db) BY DEF IInv, RecordsInv
<1>3. CASE RestockProduct(b, q)
  <2> DEFINE d == CreateLotWithItems(db, b, q)
             e == LogMovement(d, "restock", b, q, NoRef)
  <2>1. Sound(d) /\ Recorded(d) BY <1>1, <1>2, CreateLotSound, CreateLotRecorded
  <2>2. CommitNow(e) /\ LockFree BY <1>3 DEF RestockProduct, Served
  <2> HIDE DEF d
  <2>3. Recorded(e) BY <1>1, <2>1, LogMovementRecorded
  <2> HIDE DEF e
  <2> QED BY <2>2, <2>3, CommitRecorded
<1>4. CASE WasteStock(b, q)
  <2>1. Recorded(TakeOut(db, "waste", b, q)) BY <1>1, <1>2, <1>4, TakeOutRecorded DEF WasteStock
  <2>2. CommitNow(TakeOut(db, "waste", b, q)) /\ LockFree BY <1>4 DEF WasteStock, Served
  <2> QED BY <2>1, <2>2, CommitRecorded
<1> QED BY <1>3, <1>4

LEMMA WriteAdjustRecorded ==
  ASSUME IInv, RecordsInv, NEW w \in Workers, WriteAdjust(w)
  PROVE  RecordsInv'
<1> DEFINE b == pending[w].option
           delta == pending[w].delta
           raised == IF delta > 0 THEN CreateLotWithItems(db, b, delta) ELSE db
<1>1. pending[w] \in AdjustRequest BY RequestKinds DEF WriteAdjust, IInv
<1>2. b \in Options /\ delta \in Int /\ -delta \in Int BY <1>1 DEF AdjustRequest
<1>3. NoRef \in Orders \cup {NoRef} /\ "adjustment" \in MovementType BY DEF MovementType
<1>4. Sound(db) /\ Recorded(db) /\ LockFree BY DEF IInv, RecordsInv, WriteAdjust
<1>5. CASE delta >= 0 /\ CommitNow(LogMovement(raised, "adjustment", b, delta, NoRef))
  <2>1. Sound(raised) /\ Recorded(raised)
    <3> HIDE DEF b, delta
    <3>1. delta > 0 => delta \in Nat BY <1>2
    <3> QED BY <1>2, <1>4, <3>1, CreateLotSound, CreateLotRecorded
  <2> HIDE DEF raised, b, delta
  <2>2. Recorded(LogMovement(raised, "adjustment", b, delta, NoRef))
    BY <1>2, <1>3, <1>5, <2>1, LogMovementRecorded
  <2> QED BY <1>4, <1>5, <2>2, CommitRecorded
<1>6. CASE /\ delta < 0 /\ Deficit(db, b, -delta) = 0
           /\ CommitNow(TakeOut(db, "adjustment", b, -delta))
  <2> HIDE DEF b, delta
  <2>1. -delta \in Nat BY <1>2, <1>6
  <2>2. Recorded(TakeOut(db, "adjustment", b, -delta)) BY <1>2, <1>4, <1>6, <2>1, TakeOutRecorded
  <2> QED BY <1>4, <1>6, <2>2, CommitRecorded
<1> QED BY <1>5, <1>6 DEF WriteAdjust

LEMMA CreateOrderRecorded ==
  ASSUME IInv, RecordsInv, NEW o \in Orders, NEW form \in Forms,
         NEW status \in {"new", "delivered"}, CreateOrder(o, form, status)
  PROVE  RecordsInv'
<1> DEFINE row == [status |-> status, source |-> form.source, lines |-> form.lines]
           d == [db EXCEPT !.orders[o] = row]
           due == IF status = "delivered" THEN form.lines ELSE <<>>
           rest == [Nothing("create", o) EXCEPT !.lines = due]
<1>1. Recorded(d) BY OrdersRecorded DEF IInv, RecordsInv
<1>2. BeginWith(d, rest) BY DEF CreateOrder
<1>3. ~rest.forget BY DEF Nothing
<1> HIDE DEF d, rest
<1> QED BY <1>1, <1>2, <1>3, BeginRecorded

LEMMA BeginStatusRecorded ==
  ASSUME IInv, RecordsInv, NEW w \in Workers,
         BeginPlainStatus(w) \/ BeginDeduct(w) \/ BeginRestore(w)
  PROVE  RecordsInv'
<1> DEFINE r == pending[w]
           none == Nothing("status", r.order)
<1>1. r \in StatusRequest BY RequestKinds DEF BeginPlainStatus, BeginDeduct, BeginRestore, IInv
<1>2. /\ r.order \in Orders /\ r.sales \in SUBSET Movement /\ r.oversold \in SUBSET Int
  BY <1>1 DEF StatusRequest
<1>3. Sound(db) /\ Recorded(db) BY DEF IInv, RecordsInv
<1>4. CASE BeginPlainStatus(w)
  <2> DEFINE rest == [none EXCEPT !.target = r.target]
  <2>1. BeginWith(db, rest) BY <1>4 DEF BeginPlainStatus
  <2>2. ~rest.forget BY DEF Nothing
  <2> HIDE DEF rest
  <2> QED BY <1>3, <2>1, <2>2, BeginRecorded
<1>5. CASE BeginDeduct(w)
  <2> DEFINE rest == [none EXCEPT !.target = r.target, !.reason = r.reason,
                        !.recheck = TRUE, !.swallow = TRUE, !.lines = r.lines]
  <2>1. BeginWith(db, rest) BY <1>5 DEF BeginDeduct
  <2>2. ~rest.forget BY DEF Nothing
  <2> HIDE DEF rest
  <2> QED BY <1>3, <2>1, <2>2, BeginRecorded
<1>6. CASE BeginRestore(w)
  <2> PICK first \in r.sales, oversold \in r.oversold :
        BeginWith(RestoreSale(db, r.order, first, oversold),
                  [none EXCEPT !.target = r.target, !.reason = r.reason,
                     !.recheck = TRUE, !.sales = r.sales \ {first}])
    BY <1>6 DEF BeginRestore
  <2> DEFINE rest == [none EXCEPT !.target = r.target, !.reason = r.reason,
                        !.recheck = TRUE, !.sales = r.sales \ {first}]
             d == RestoreSale(db, r.order, first, oversold)
  <2>1. first \in Movement /\ oversold \in Int BY <1>2
  <2>2. Recorded(d) BY <1>2, <1>3, <2>1, RestoreSaleRecorded
  <2>3. BeginWith(d, rest) OBVIOUS
  <2>4. ~rest.forget BY DEF Nothing
  <2> HIDE DEF rest, d
  <2> QED BY <2>2, <2>3, <2>4, BeginRecorded
<1> QED BY <1>4, <1>5, <1>6

LEMMA BeginEditRecorded ==
  ASSUME IInv, RecordsInv, NEW w \in Workers, BeginEdit(w)
  PROVE  RecordsInv'
<1> DEFINE r == pending[w]
           o == r.order
           edited == [db EXCEPT !.orders[o].lines = r.lines]
           redo == HasTakenStock(r.from)
           reverse == redo /\ OrderSaleWasDeducted(db, o)
           d == IF reverse THEN ReleaseSales(edited, o) ELSE edited
           negatives == IF reverse THEN MovementsOf(db, o, "negative_sale") ELSE {}
           lines == IF redo THEN r.lines ELSE <<>>
           rest == [Nothing("edit", o) EXCEPT !.swallow = TRUE, !.forget = reverse,
                      !.negatives = negatives, !.lines = lines]
<1>1. r \in EditRequest BY RequestKinds DEF BeginEdit, IInv
<1>2. o \in Orders /\ r.lines \in Seq(Line) BY <1>1 DEF EditRequest
<1>3. BeginWith(d, rest) BY DEF BeginEdit
<1>4. Sound(edited) BY <1>2, SetLinesSound DEF IInv
<1>5. Recorded(edited) BY OrdersRecorded DEF IInv, RecordsInv
<1>6. rest.forget = reverse /\ rest.order = o /\ rest.sales = {} BY DEF Nothing
<1>7. Recorded(d) /\ (reverse => ConsumedBySales(d, o) = {})
  <2> HIDE DEF edited, reverse, o
  <2> QED BY <1>2, <1>4, <1>5, ReleaseSalesRecorded
<1> HIDE DEF d, rest
<1> QED BY <1>3, <1>6, <1>7, BeginRecorded

LEMMA SyncRecorded ==
  ASSUME IInv, RecordsInv, NEW o \in Orders, NEW derived \in Targets,
         SyncFromItems(o, derived)
  PROVE  RecordsInv'
<1> DEFINE confirming == derived \in {"confirmed", "delivered"}
                         /\ ~OrderSaleWasDeducted(db, o)
           lines == IF confirming THEN db.orders[o].lines ELSE <<>>
           sales == IF derived = "cancelled" THEN MovementsOf(db, o, "sale") ELSE {}
           rest == [Nothing("sync", o) EXCEPT !.lines = lines, !.sales = sales]
           d == SetStatus(db, o, derived)
<1>1. derived \in Statuses BY StockAssumption
<1>2. Recorded(d) BY <1>1, SetStatusRecorded DEF IInv, RecordsInv
<1>3. BeginWith(d, rest) BY DEF SyncFromItems
<1>4. ~rest.forget BY DEF Nothing
<1> HIDE DEF d, rest
<1> QED BY <1>2, <1>3, <1>4, BeginRecorded

LEMMA WriteStepRecorded ==
  ASSUME IInv, RecordsInv, ReverseNegative \/ ForgetSales \/ DeductOne \/ RestoreOne
  PROVE  RecordsInv'
<1>1. Writing BY DEF ReverseNegative, ForgetSales, DeductOne, NextLine, RestoreOne
<1>2. /\ wr \in WriteRest /\ wr.order \in Orders /\ wr.negatives \in SUBSET Movement
      /\ wr.sales \in SUBSET Movement /\ wr.lines \in Seq(Line) /\ Sound(tx)
  BY <1>1, WritingType
<1>3. Recorded(tx) /\ wr # NoWrite BY <1>1 DEF RecordsInv, Writing, LockFree
<1>4. CASE ReverseNegative
  <2>1. PICK m \in wr.negatives : /\ tx' = ReverseNegativeSale(tx, m)
                                  /\ wr' = [wr EXCEPT !.negatives = @ \ {m}]
    BY <1>4 DEF ReverseNegative
  <2>2. m.option \in Options /\ -m.qty \in Int BY <1>2 DEF Movement
  <2>3. Recorded(tx') BY <1>2, <1>3, <2>1, <2>2, BalanceRecorded DEF ReverseNegativeSale
  <2>4. wr'.forget = wr.forget /\ wr'.order = wr.order /\ wr'.sales = wr.sales
    BY <1>2, <2>1 DEF WriteRest
  <2>5. ConsumedBySales(tx', wr.order) = ConsumedBySales(tx, wr.order)
    <3>1. tx'.items = tx.items /\ tx'.movements = tx.movements
      BY <1>2, <2>1 DEF ReverseNegativeSale, AddToBalance, Sound, Database
    <3> QED BY <3>1 DEF ConsumedBySales, MovementsOf
  <2> QED BY <1>3, <1>4, <2>3, <2>4, <2>5 DEF RecordsInv, ReverseNegative
<1>5. CASE ForgetSales
  <2>1. ConsumedBySales(tx, wr.order) = {} BY <1>3, <1>5 DEF RecordsInv, ForgetSales
  <2>2. Recorded(tx') BY <1>2, <1>3, <1>5, <2>1, DeleteSalesRecorded DEF ForgetSales
  <2>3. ~wr'.forget BY <1>2, <1>5 DEF ForgetSales, WriteRest
  <2> QED BY <1>5, <2>2, <2>3, TxRecorded DEF ForgetSales
<1>6. CASE DeductOne
  <2> DEFINE line == Head(wr.lines)
  <2>1. line \in Line BY <1>2, <1>6 DEF DeductOne, NextLine
  <2>2. tx' = DeductLine(tx, wr.order, line) BY <1>6 DEF DeductOne
  <2>3. ~wr'.forget BY <1>2, <1>6 DEF DeductOne, NextLine, WriteRest
  <2> HIDE DEF line
  <2>4. Recorded(tx') BY <1>2, <1>3, <2>1, <2>2, DeductLineRecorded
  <2> QED BY <1>6, <2>3, <2>4, TxRecorded DEF DeductOne
<1>7. CASE RestoreOne
  <2>1. PICK m \in wr.sales :
          /\ tx' = IF AlreadyRestored(tx, wr.order, m) THEN tx
                   ELSE RestoreSale(tx, wr.order, m, OversoldOf(tx, wr.order, m))
          /\ wr' = [wr EXCEPT !.sales = @ \ {m}]
    BY <1>7 DEF RestoreOne
  <2>2. OversoldOf(tx, wr.order, m) \in Int BY <1>2, OversoldType
  <2>3. Recorded(tx') BY <1>2, <1>3, <2>1, <2>2, RestoreSaleRecorded
  <2>4. ~wr.forget BY <1>3, <2>1 DEF RecordsInv
  <2>5. ~wr'.forget BY <1>2, <2>1, <2>4 DEF WriteRest
  <2> QED BY <1>7, <2>3, <2>5, TxRecorded DEF RestoreOne
<1> QED BY <1>4, <1>5, <1>6, <1>7

LEMMA EndRecorded ==
  ASSUME IInv, RecordsInv, Commit \/ RaiseOut \/ Refuse
  PROVE  RecordsInv'
<1>1. wr.order \in Orders /\ wr.target \in Statuses /\ Sound(tx)
  BY WritingType DEF Commit, RaiseOut, Refuse, NextLine, StockDone
<1>2. CASE Commit
  <2>1. Recorded(SetStatus(tx, wr.order, wr.target)) BY <1>1, SetStatusRecorded DEF RecordsInv
  <2> QED BY <1>2, <2>1 DEF Commit, RecordsInv
<1>3. CASE Undo BY <1>3 DEF Undo, RecordsInv
<1> QED BY <1>2, <1>3 DEF RaiseOut, Refuse

LEMMA NextKeepsRecords ==
  IInv /\ RecordsInv /\ [Next]_vars => RecordsInv'
<1> SUFFICES ASSUME IInv, RecordsInv, [Next]_vars PROVE RecordsInv' OBVIOUS
<1>1. CASE \E b \in Options, q \in 1..MaxQty : RestockProduct(b, q) \/ WasteStock(b, q)
  BY <1>1, OneStatementRecorded
<1>2. CASE UNCHANGED <<db, tx, wr>> BY <1>2 DEF RecordsInv
<1>3. CASE \E w \in Workers : WriteAdjust(w) BY <1>3, WriteAdjustRecorded
<1>4. CASE \E o \in Orders, form \in Forms, status \in {"new", "delivered"} :
             CreateOrder(o, form, status)
  BY <1>4, CreateOrderRecorded
<1>5. CASE \E w \in Workers : BeginPlainStatus(w) \/ BeginDeduct(w) \/ BeginRestore(w)
  BY <1>5, BeginStatusRecorded
<1>6. CASE \E w \in Workers : BeginEdit(w) BY <1>6, BeginEditRecorded
<1>7. CASE \E o \in Orders, derived \in Targets : SyncFromItems(o, derived) BY <1>7, SyncRecorded
<1>8. CASE ReverseNegative \/ ForgetSales \/ DeductOne \/ RestoreOne BY <1>8, WriteStepRecorded
<1>9. CASE RaiseOut \/ Commit \/ Refuse BY <1>9, EndRecorded
<1>10. \/ \E w \in Workers, b \in Options, target \in 0..MaxQty : ReadAdjust(w, b, target)
       \/ \E w \in Workers, o \in Orders, target \in Targets, reason \in BOOLEAN :
            ReadStatus(w, o, target, reason)
       \/ \E w \in Workers, o \in Orders, lines \in LineLists : ReadEdit(w, o, lines)
       \/ \E w \in Workers : Drop(w)
       \/ UNCHANGED vars
       => UNCHANGED <<db, tx, wr>>
  BY DEF ReadAdjust, ReadStatus, ReadEdit, Drop, vars
<1> QED BY <1>1, <1>2, <1>3, <1>4, <1>5, <1>6, <1>7, <1>8, <1>9, <1>10 DEF Next

(***************************************************************************)
(* An item that is not available was taken by a sale, a waste or an        *)
(* adjustment of its own option that the movements still hold, and no two  *)
(* requests, edits or cancellations together make a movement consume more  *)
(* than its quantity: stock can always be explained by the movements.      *)
(***************************************************************************)
THEOREM ConsumptionStaysRecorded ==
  Spec => []ConsumptionIsRecorded
<1>1. Init => RecordsInv BY DEF Init, RecordsInv, Recorded, NumberedOnce, ItemsAreRecorded
<1>2. RecordsInv => ConsumptionIsRecorded
  BY DEF RecordsInv, Recorded, ItemsAreRecorded, Accounted, ConsumptionIsRecorded
<1> QED BY <1>1, <1>2, NextKeepsRecords, InvariantHolds, PTL DEF Spec


-----------------------------------------------------------------------------
\* The books.
OrderTypes == {"sale", "negative_sale", "restore_sale"}

SameKey(m, n) == m.ref = n.ref /\ m.option = n.option

\* Rows that move stock and rows of orders; an order has one of each type.
Kinds(M) ==
  /\ \A m \in M : m.type \in OrderTypes <=> m.ref # NoRef
  /\ \A m, n \in M : m.type \in OrderTypes /\ m.type = n.type /\ SameKey(m, n) => m = n

\* What is oversold or restored was sold; what is restored is all that was sold.
Matched(M) ==
  /\ \A m \in M : m.type \in {"sale", "negative_sale"} => m.qty < 0
  /\ \A n \in M : n.type \in {"negative_sale", "restore_sale"} =>
       \E m \in M : /\ m.type = "sale" /\ SameKey(m, n)
                    /\ n.type = "restore_sale" => n.qty = -m.qty

\* A sale consumed what it did not oversell.
Filled(d) ==
  \A m \in d.movements : m.type = "sale" =>
    Cardinality(ConsumedBy(d, m)) = -m.qty - OversoldOf(d, m.ref, m)

Counted(M, b) == {m \in M : m.option = b /\ m.type # "negative_sale"}

Back(M, n) == \E r \in M : r.type = "restore_sale" /\ SameKey(r, n)

Owed(M, b) == {n \in M : n.option = b /\ n.type = "negative_sale" /\ ~Back(M, n)}

\* The balance row of an option, if it owes k, or no row, if it owes nothing.
OwesInRow(d, b, k) ==
  \/ BalanceRows(d, b) = {} /\ k = 0
  \/ \E r \in d.negative : BalanceRows(d, b) = {r} /\ r.qty = k

Balanced(d, b) == OwesInRow(d, b, -Total(Owed(d.movements, b)))

Shelved(d, b) ==
  AvailableQuantity(d, b)
    = Total(Counted(d.movements, b)) - Total(Owed(d.movements, b))

Books(d) ==
  /\ IsFiniteSet(d.movements)
  /\ Kinds(d.movements)
  /\ Matched(d.movements)
  /\ Filled(d)
  /\ \A b \in Options : Balanced(d, b) /\ Shelved(d, b)

-----------------------------------------------------------------------------
\* The orders.
RowsOf(M, o) == {m \in M : m.ref = o}

Lists(lines, b) == \E k \in DOMAIN lines : lines[k].option = b

SoldAs(M, o, line) ==
  \E m \in M : /\ m.type = "sale" /\ m.ref = o
               /\ m.option = line.option /\ m.qty = -line.qty

\* An order whose lines are all sold, but those of rest.
Taking(M, o, lines, rest) ==
  /\ \A k \in DOMAIN rest : \E j \in DOMAIN lines : lines[j] = rest[k]
  /\ OneLineEach(rest)
  /\ \A m \in RowsOf(M, o) : /\ m.type # "restore_sale"
                             /\ Lists(lines, m.option) /\ ~Lists(rest, m.option)
  /\ \A k \in DOMAIN lines : Lists(rest, lines[k].option) \/ SoldAs(M, o, lines[k])

\* The sales of an order that were not restored.
Unrestored(M, o) == {m \in M : m.ref = o /\ m.type = "sale" /\ ~Back(M, m)}

Stands(M, o, status, lines, rest, due) ==
  /\ status \in Live => Taking(M, o, lines, rest) /\ due = {}
  /\ status = "cancelled" => rest = <<>> /\ due = Unrestored(M, o)
  /\ status \in {"new", "absent"} => rest = <<>> /\ due = {} /\ RowsOf(M, o) = {}

Settled(d) ==
  \A o \in Orders :
    Stands(d.movements, o, d.orders[o].status, d.orders[o].lines, <<>>, {})

Orderly(d) == \A o \in Orders : OrderlyForm(d.orders[o])

Reckoned(d) == Books(d) /\ Settled(d) /\ Orderly(d)

-----------------------------------------------------------------------------
(***************************************************************************)
(* The inductive invariant.  A request in its read phase has read what     *)
(* still is so; a write phase has left the other orders alone, and the     *)
(* order it works on stands as it will say.  The sales that an edit has    *)
(* emptied and will delete next are left out of account.                   *)
(***************************************************************************)
Fresh(r) ==
  /\ r.op = "status" =>
       /\ Exists(r.order) /\ Practised(r.order, r.target)
       /\ r.lines = IF r.target = "confirmed" /\ ~OrderSaleWasDeducted(db, r.order)
                    THEN db.orders[r.order].lines ELSE <<>>
       /\ r.sales = IF r.target = "cancelled" THEN SalesToRestore(db, r.order) ELSE {}
       /\ r.oversold = {OversoldOf(db, r.order, m) :
                          m \in {n \in r.sales : ById(n, r.sales)}}
  /\ r.op = "edit" =>
       /\ Exists(r.order) /\ db.orders[r.order].status # "cancelled"
       /\ r.from = db.orders[r.order].status
       /\ r.lines \in LineLists /\ ~Short(r.order, r.lines)
       /\ MovementsOf(db, r.order, "negative_sale") = {}

\* Databases that differ in the rows of order o alone.
Apart(d, e, o) ==
  /\ d.movements \ RowsOf(d.movements, o) = e.movements \ RowsOf(e.movements, o)
  /\ \A p \in Orders \ {o} : d.orders[p] = e.orders[p]

\* The database that a write phase that left d has made, but for its edit.
Working(d, r) == IF r.forget THEN DeleteSales(d, r.order) ELSE d

Becomes(d, r) == IF r.op = "status" THEN r.target ELSE d.orders[r.order].status

\* A write phase that began with database b, has left d and has r to do.
Phase(b, d, r) ==
  /\ r.negatives = {}
  /\ Books(Working(d, r)) /\ Orderly(d)
  /\ Apart(b, Working(d, r), r.order)
  /\ Stands(Working(d, r).movements, r.order, Becomes(d, r), d.orders[r.order].lines,
            r.lines, r.sales)
  /\ r.swallow => \A k \in DOMAIN r.lines : ~LineRaises(Working(d, r), r.order, r.lines[k])

NoneWaits == \A w \in Workers : pending[w] = Idle

ReadInv == tx = db /\ \A w \in Workers : Fresh(pending[w])

ShopInv ==
  /\ Reckoned(db)
  /\ LockFree => ReadInv
  /\ Writing => NoneWaits /\ Phase(db, tx, wr)

-----------------------------------------------------------------------------
\* Totals of rows.
Quantified(S) == IsFiniteSet(S) /\ \A m \in S : m.qty \in Int

LEMMA TotalNone == Total({}) = 0
BY SumOfNone DEF Total

LEMMA TotalInt == ASSUME NEW S, Quantified(S) PROVE Total(S) \in Int
BY SumInt DEF Total, Quantified

\* A part of rows that have quantities, and its total by their quantities.
LEMMA TotalPart ==
  ASSUME NEW S, Quantified(S), NEW T, T \subseteq S
  PROVE  Total(T) = SumFunctionOnSet([m \in S |-> m.qty], T) /\ Quantified(T)
<1>1. IsFiniteSet(T) BY FS_Subset DEF Quantified
<1>2. \A m \in T : [n \in T |-> n.qty][m] = [n \in S |-> n.qty][m] OBVIOUS
<1> QED BY ONLY <1>1, <1>2, SumEqual, Quantified(S), T \subseteq S DEF Total, Quantified

LEMMA TotalUnion ==
  ASSUME NEW S, NEW T, Quantified(S), Quantified(T), S \cap T = {}
  PROVE  Total(S \cup T) = Total(S) + Total(T) /\ Quantified(S \cup T)
<1> DEFINE U == S \cup T
           f == [m \in U |-> m.qty]
<1>1. Quantified(U) BY FS_Union DEF Quantified
<1>2. Total(S) = SumFunctionOnSet(f, S) /\ Total(T) = SumFunctionOnSet(f, T) BY <1>1, TotalPart
<1>3. \A m \in S \cup T : f[m] \in Int BY <1>1 DEF Quantified
<1>4. IsFiniteSet(S) /\ IsFiniteSet(T) BY DEF Quantified
<1>5. SumFunctionOnSet(f, S \cup T) = SumFunctionOnSet(f, S) + SumFunctionOnSet(f, T)
  <2> HIDE DEF f
  <2> QED BY <1>3, <1>4, SumUnion
<1> QED BY <1>1, <1>2, <1>5 DEF Total

LEMMA TotalOne ==
  ASSUME NEW e, e.qty \in Int
  PROVE  Total({e}) = e.qty /\ Quantified({e})
<1>1. [m \in {e} |-> m.qty][e] = e.qty OBVIOUS
<1> QED BY <1>1, SumOne, FS_Singleton DEF Total, Quantified

LEMMA TotalAdd ==
  ASSUME NEW S, Quantified(S), NEW e, e.qty \in Int, e \notin S
  PROVE  Total(S \cup {e}) = Total(S) + e.qty /\ Quantified(S \cup {e})
<1>1. S \cap {e} = {} OBVIOUS
<1> QED BY <1>1, TotalUnion, TotalOne

LEMMA TotalRemove ==
  ASSUME NEW S, Quantified(S), NEW e \in S
  PROVE  Total(S \ {e}) = Total(S) - e.qty /\ Quantified(S \ {e})
<1>1. e.qty \in Int /\ (S \ {e}) \cup {e} = S /\ e \notin S \ {e} BY DEF Quantified
<1>2. Quantified(S \ {e}) BY TotalPart
<1>3. Total(S \ {e}) \in Int BY <1>2, TotalInt
<1>4. Total((S \ {e}) \cup {e}) = Total(S \ {e}) + e.qty BY <1>1, <1>2, TotalAdd
<1>5. Total(S) = Total(S \ {e}) + e.qty BY <1>1, <1>4
<1> QED BY <1>1, <1>2, <1>3, <1>5

\* Rows that take out total to what is taken out.
LEMMA TotalNegative ==
  ASSUME NEW S, Quantified(S), \A m \in S : m.qty <= 0
  PROVE  Total(S) <= 0
<1> DEFINE f == [m \in S |-> m.qty]
           g == [m \in S |-> -m.qty]
<1>1. IsFiniteSet(S) /\ \A m \in S : f[m] \in Int /\ g[m] = -f[m] /\ g[m] \in Nat
  BY DEF Quantified
<1>2. Total(S) = SumFunctionOnSet(f, S) /\ Total(S) \in Int BY TotalInt DEF Total
<1> HIDE DEF f, g
<1>3. SumFunctionOnSet(g, S) = -SumFunctionOnSet(f, S) BY <1>1, SumNegated
<1>4. SumFunctionOnSet(g, S) \in Nat BY <1>1, SumNat
<1> QED BY <1>2, <1>3, <1>4

-----------------------------------------------------------------------------
\* What the helpers make of the items.
OptionOf(d, i) == d.lots[d.items[i].lot].option

\* Items of d are items of e in lots of the same options.
SameOptions(d, e) ==
  /\ DOMAIN d.items \subseteq DOMAIN e.items
  /\ \A i \in DOMAIN d.items : OptionOf(e, i) = OptionOf(d, i)

LEMMA AvailableFinite ==
  ASSUME NEW d, Sound(d), NEW b
  PROVE  /\ AvailableItems(d, b) \in SUBSET DOMAIN d.items
         /\ IsFiniteSet(AvailableItems(d, b))
         /\ AvailableQuantity(d, b) \in Nat
<1>1. AvailableItems(d, b) \in SUBSET DOMAIN d.items BY DEF AvailableItems
<1> QED BY <1>1, ItemSets DEF Sound, AvailableQuantity

LEMMA ConsumeItemsIs ==
  ASSUME NEW d, Sound(d), NEW b \in Options, NEW S, S \subseteq AvailableItems(d, b),
         NEW m \in Nat, m # NoMovement
  PROVE  LET e == ConsumeItems(d, S, m)
         IN  /\ DOMAIN e.items = DOMAIN d.items
             /\ \A i \in DOMAIN d.items :
                  /\ e.items[i].by = IF i \in S THEN m ELSE d.items[i].by
                  /\ OptionOf(e, i) = OptionOf(d, i)
             /\ e.movements = d.movements /\ e.lastMovement = d.lastMovement
             /\ e.negative = d.negative /\ e.orders = d.orders
<1> DEFINE e == ConsumeItems(d, S, m)
<1>1. d \in Database BY DEF Sound
<1>2. /\ d.items \in Seq(InventoryItem) /\ d.lots \in Seq(Lot)
      /\ \A i \in DOMAIN d.items : d.items[i] \in InventoryItem
      /\ \A l \in DOMAIN d.lots : d.lots[l] \in Lot
  BY <1>1 DEF Database
<1>3. /\ e.items = [i \in DOMAIN d.items |->
                      IF i \in S THEN [d.items[i] EXCEPT !.by = m] ELSE d.items[i]]
      /\ e.lots = [l \in DOMAIN d.lots |->
                     [d.lots[l] EXCEPT !.remaining =
                        @ - Cardinality({i \in S : d.items[i].lot = l})]]
      /\ e.movements = d.movements /\ e.lastMovement = d.lastMovement
      /\ e.negative = d.negative /\ e.orders = d.orders
  BY <1>1 DEF ConsumeItems, Database
<1> HIDE DEF e
<1>4. ASSUME NEW i \in DOMAIN d.items
      PROVE  /\ e.items[i].by = IF i \in S THEN m ELSE d.items[i].by
             /\ e.items[i].lot = d.items[i].lot
  BY <1>2, <1>3 DEF InventoryItem
<1>5. \A l \in DOMAIN d.lots : e.lots[l].option = d.lots[l].option BY <1>2, <1>3 DEF Lot
<1>6. \A i \in DOMAIN d.items : d.items[i].lot \in DOMAIN d.lots BY DEF Sound, LotsCountTheirItems
<1> QED BY <1>3, <1>4, <1>5, <1>6 DEF OptionOf, e

\* Of option b there are k more items available, or -k fewer.
Shifts(d, e, b, k) ==
  \A c \in Options :
    AvailableQuantity(e, c) = AvailableQuantity(d, c) + IF c = b THEN k ELSE 0

\* Items consumed are no more available.
LEMMA ConsumeItemsLeaves ==
  ASSUME NEW d, Sound(d), NEW b \in Options, NEW S, S \subseteq AvailableItems(d, b),
         NEW m \in Nat, m # NoMovement, NEW e, e = ConsumeItems(d, S, m)
  PROVE  /\ Shifts(d, e, b, -Cardinality(S))
         /\ \A n : n.id = m => ConsumedBy(e, n) = ConsumedBy(d, n) \cup S
         /\ \A n : n.id # m => ConsumedBy(e, n) = ConsumedBy(d, n) \ S
         /\ e.movements = d.movements /\ e.lastMovement = d.lastMovement
         /\ e.negative = d.negative /\ e.orders = d.orders
<1>1. /\ DOMAIN e.items = DOMAIN d.items
      /\ \A i \in DOMAIN d.items :
           /\ e.items[i].by = IF i \in S THEN m ELSE d.items[i].by
           /\ OptionOf(e, i) = OptionOf(d, i)
      /\ e.movements = d.movements /\ e.lastMovement = d.lastMovement
      /\ e.negative = d.negative /\ e.orders = d.orders
  BY ConsumeItemsIs
<1>2. \A i \in S : /\ i \in DOMAIN d.items /\ d.items[i].by = NoMovement
                   /\ OptionOf(d, i) = b
  BY DEF AvailableItems, OptionOf
<1>3. ASSUME NEW c \in Options
      PROVE  AvailableItems(e, c) = AvailableItems(d, c) \ (IF c = b THEN S ELSE {})
  BY <1>1, <1>2 DEF AvailableItems, OptionOf
<1>4. ASSUME NEW c \in Options
      PROVE  AvailableQuantity(e, c) =
               AvailableQuantity(d, c) + IF c = b THEN -Cardinality(S) ELSE 0
  <2>1. CASE c # b
    <3>1. AvailableItems(e, c) = AvailableItems(d, c) BY <1>3, <2>1
    <3>2. AvailableQuantity(d, c) \in Nat BY AvailableFinite
    <3> QED BY <2>1, <3>1, <3>2 DEF AvailableQuantity
  <2>2. CASE c = b
    <3> DEFINE A == AvailableItems(e, c)
    <3>1. A \cup S = AvailableItems(d, c) /\ A \cap S = {} BY <1>3, <2>2
    <3>2. IsFiniteSet(AvailableItems(d, c)) /\ AvailableQuantity(d, c) \in Nat BY AvailableFinite
    <3>6. AvailableQuantity(e, c) = Cardinality(A) BY DEF AvailableQuantity
    <3> HIDE DEF A
    <3>7. AvailableQuantity(d, c) = Cardinality(A \cup S) BY <3>1 DEF AvailableQuantity
    <3>3. IsFiniteSet(A) /\ IsFiniteSet(S) BY <3>1, <3>2, FS_Subset
    <3>4. Cardinality(A) \in Nat /\ Cardinality(S) \in Nat BY <3>3, FS_CardinalityType
    <3>5. Cardinality(A \cup S) = Cardinality(A) + Cardinality(S) BY <3>1, <3>3, DisjointUnion
    <3> QED BY <2>2, <3>4, <3>5, <3>6, <3>7
  <2> QED BY <2>1, <2>2
<1>5. /\ \A n : n.id = m => ConsumedBy(e, n) = ConsumedBy(d, n) \cup S
      /\ \A n : n.id # m => ConsumedBy(e, n) = ConsumedBy(d, n) \ S
  BY <1>1, <1>2 DEF ConsumedBy
<1> QED BY <1>1, <1>4, <1>5 DEF Shifts

\* A new lot's items are available.
LEMMA CreateLotBrings ==
  ASSUME NEW d, Sound(d), NEW b \in Options, NEW q \in Nat
  PROVE  LET e == CreateLotWithItems(d, b, q)
         IN  /\ \A c \in Options : AvailableQuantity(e, c) =
                  AvailableQuantity(d, c) + IF c = b THEN q ELSE 0
             /\ \A n : n.id # NoMovement => ConsumedBy(e, n) = ConsumedBy(d, n)
             /\ e.movements = d.movements /\ e.lastMovement = d.lastMovement
             /\ e.negative = d.negative /\ e.orders = d.orders
<1> DEFINE old == Len(d.items)
           e == CreateLotWithItems(d, b, q)
           New == (old + 1)..(old + q)
<1>1. d \in Database BY DEF Sound
<1>2. /\ d.items \in Seq(InventoryItem) /\ d.lots \in Seq(Lot)
      /\ DOMAIN d.items = 1..old /\ old \in Nat /\ DOMAIN d.lots = 1..Len(d.lots)
      /\ Len(d.lots) \in Nat
  BY <1>1 DEF Database
<1>3. /\ e.items = [i \in 1..(old + q) |->
                      IF i <= old THEN d.items[i]
                      ELSE [lot |-> Len(d.lots) + 1, by |-> NoMovement]]
      /\ e.lots = Append(d.lots, [option |-> b, remaining |-> q])
      /\ e.movements = d.movements /\ e.lastMovement = d.lastMovement
      /\ e.negative = d.negative /\ e.orders = d.orders
  BY <1>1 DEF CreateLotWithItems, Database
<1> HIDE DEF e, old
<1>4. /\ DOMAIN e.items = DOMAIN d.items \cup New
      /\ \A i \in DOMAIN d.items : e.items[i] = d.items[i] /\ i \notin New
      /\ \A i \in New : e.items[i].by = NoMovement /\ e.items[i].lot = Len(d.lots) + 1
  BY <1>2, <1>3
<1>5. /\ \A l \in DOMAIN d.lots : e.lots[l].option = d.lots[l].option
      /\ e.lots[Len(d.lots) + 1].option = b
  BY <1>2, <1>3
<1>6. \A i \in DOMAIN d.items : d.items[i].lot \in DOMAIN d.lots BY DEF Sound, LotsCountTheirItems
<1> HIDE DEF New
<1>7. ASSUME NEW c \in Options
      PROVE  AvailableItems(e, c) = AvailableItems(d, c) \cup IF c = b THEN New ELSE {}
  BY <1>4, <1>5, <1>6 DEF AvailableItems
<1>8. ASSUME NEW c \in Options
      PROVE  AvailableQuantity(e, c) = AvailableQuantity(d, c) + IF c = b THEN q ELSE 0
  <2>1. AvailableQuantity(d, c) \in Nat /\ IsFiniteSet(AvailableItems(d, c)) BY AvailableFinite
  <2>2. CASE c # b
    <3>1. AvailableItems(e, c) = AvailableItems(d, c) BY <1>7, <2>2
    <3> QED BY <2>1, <2>2, <3>1 DEF AvailableQuantity
  <2>3. CASE c = b
    <3>1. IsFiniteSet(New) /\ Cardinality(New) = q
      BY <1>2, FS_Interval, NextItems, old + 1 \in Int, old + q \in Int DEF New
    <3>2. AvailableItems(d, c) \cap New = {} BY <1>4 DEF AvailableItems
    <3>3. Cardinality(AvailableItems(d, c) \cup New) = Cardinality(AvailableItems(d, c)) + q
      BY <2>1, <3>1, <3>2, DisjointUnion
    <3> QED BY <1>7, <2>3, <3>3 DEF AvailableQuantity
  <2> QED BY <2>2, <2>3
<1>9. ASSUME NEW n, n.id # NoMovement PROVE ConsumedBy(e, n) = ConsumedBy(d, n)
  BY <1>4, <1>9 DEF ConsumedBy
<1> QED BY <1>3, <1>8, <1>9 DEF e

\* Items released are available again.
LEMMA ReleaseItemsBrings ==
  ASSUME NEW d, Sound(d), NEW S \in SUBSET DOMAIN d.items,
         \A i \in S : d.items[i].by # NoMovement
  PROVE  LET e == ReleaseItems(d, S)
         IN  /\ \A c \in Options : AvailableQuantity(e, c) =
                  AvailableQuantity(d, c) + Cardinality({i \in S : OptionOf(d, i) = c})
             /\ \A c \in Options : AvailableItems(d, c) \subseteq AvailableItems(e, c)
             /\ \A n : n.id # NoMovement => ConsumedBy(e, n) = ConsumedBy(d, n) \ S
             /\ e.movements = d.movements /\ e.lastMovement = d.lastMovement
             /\ e.negative = d.negative /\ e.orders = d.orders
<1> DEFINE e == ReleaseItems(d, S)
           Of(c) == {i \in S : OptionOf(d, i) = c}
<1>1. d \in Database BY DEF Sound
<1>2. /\ d.items \in Seq(InventoryItem) /\ d.lots \in Seq(Lot)
      /\ \A i \in DOMAIN d.items : d.items[i] \in InventoryItem
      /\ \A l \in DOMAIN d.lots : d.lots[l] \in Lot
  BY <1>1 DEF Database
<1>3. /\ e.items = [i \in DOMAIN d.items |->
                      IF i \in S THEN [d.items[i] EXCEPT !.by = NoMovement]
                      ELSE d.items[i]]
      /\ e.lots = [l \in DOMAIN d.lots |->
                     [d.lots[l] EXCEPT !.remaining =
                        @ + Cardinality({i \in S : d.items[i].lot = l})]]
      /\ e.movements = d.movements /\ e.lastMovement = d.lastMovement
      /\ e.negative = d.negative /\ e.orders = d.orders
  BY <1>1 DEF ReleaseItems, Database
<1> HIDE DEF e
<1>4. ASSUME NEW i \in DOMAIN d.items
      PROVE  /\ e.items[i].by = IF i \in S THEN NoMovement ELSE d.items[i].by
             /\ e.items[i].lot = d.items[i].lot
  BY <1>2, <1>3 DEF InventoryItem
<1>5. \A l \in DOMAIN d.lots : e.lots[l].option = d.lots[l].option BY <1>2, <1>3 DEF Lot
<1>6. \A i \in DOMAIN d.items : d.items[i].lot \in DOMAIN d.lots BY DEF Sound, LotsCountTheirItems
<1>7. /\ DOMAIN e.items = DOMAIN d.items
      /\ \A i \in DOMAIN d.items :
           /\ e.items[i].by = IF i \in S THEN NoMovement ELSE d.items[i].by
           /\ OptionOf(e, i) = OptionOf(d, i)
  BY <1>3, <1>4, <1>5, <1>6 DEF OptionOf
<1>8. ASSUME NEW c \in Options
      PROVE  /\ AvailableItems(e, c) = AvailableItems(d, c) \cup Of(c)
             /\ AvailableItems(d, c) \cap Of(c) = {}
  BY <1>7 DEF AvailableItems, OptionOf
<1>9. ASSUME NEW c \in Options
      PROVE  AvailableQuantity(e, c) = AvailableQuantity(d, c) + Cardinality(Of(c))
  <2>1. IsFiniteSet(AvailableItems(d, c)) BY AvailableFinite
  <2>2. IsFiniteSet(Of(c)) BY <1>1, ItemSets
  <2> HIDE DEF Of
  <2>3. Cardinality(AvailableItems(d, c) \cup Of(c))
          = Cardinality(AvailableItems(d, c)) + Cardinality(Of(c))
    BY <1>8, <2>1, <2>2, DisjointUnion
  <2> QED BY <1>8, <2>3 DEF AvailableQuantity
<1>10. ASSUME NEW n, n.id # NoMovement
       PROVE  ConsumedBy(e, n) = ConsumedBy(d, n) \ S
  BY <1>7, <1>10 DEF ConsumedBy
<1> QED BY <1>3, <1>8, <1>9, <1>10 DEF e

\* In a sound database FIFO may take every available item.
LEMMA ConsumableIs ==
  ASSUME NEW d, Sound(d), NEW b
  PROVE  Consumable(d, b) = AvailableItems(d, b)
<1> SUFFICES ASSUME NEW i \in AvailableItems(d, b)
             PROVE  d.lots[d.items[i].lot].remaining > 0
  BY DEF Consumable
<1> DEFINE l == d.items[i].lot
<1>1. i \in DOMAIN d.items /\ i \in AvailableOfLot(d, l) BY DEF AvailableItems, AvailableOfLot
<1>2. l \in DOMAIN d.lots /\ d.lots[l].remaining = Cardinality(AvailableOfLot(d, l))
  BY <1>1 DEF Sound, LotsCountTheirItems
<1>3. AvailableOfLot(d, l) \in SUBSET DOMAIN d.items BY DEF AvailableOfLot
<1>4. IsFiniteSet(AvailableOfLot(d, l)) /\ Cardinality(AvailableOfLot(d, l)) \in Nat
  BY <1>3, ItemSets DEF Sound
<1>5. Cardinality(AvailableOfLot(d, l)) # 0 BY <1>1, <1>4, FS_EmptySet
<1> QED BY <1>2, <1>4, <1>5

\* FIFO takes what is asked for, or all there is.
LEMMA FifoTakes ==
  ASSUME NEW d, Sound(d), NEW b \in Options, NEW q \in Nat
  PROVE  Cardinality(FifoTake(d, b, q))
           = IF AvailableQuantity(d, b) < q THEN AvailableQuantity(d, b) ELSE q
<1> DEFINE open == Consumable(d, b)
           T == FifoTake(d, b, q)
           Upto(i) == {j \in open : j <= i}
<1>1. open = AvailableItems(d, b) BY ConsumableIs
<1>2. open \in SUBSET DOMAIN d.items /\ IsFiniteSet(open)
      /\ Cardinality(open) = AvailableQuantity(d, b) /\ Cardinality(open) \in Nat
  BY <1>1, AvailableFinite DEF AvailableQuantity
<1>3. T = {i \in open : Cardinality(Upto(i)) <= q} BY DEF FifoTake
<1>4. Cardinality(T) \in Nat /\ Cardinality(T) <= q BY FifoTakeAtMost
<1>5. open \subseteq Nat BY <1>2 DEF Sound, Database
<1> HIDE DEF open, T
<1>6. \A i : Upto(i) \in SUBSET open OBVIOUS
<1>7. \A i : IsFiniteSet(Upto(i)) /\ Cardinality(Upto(i)) \in Nat
             /\ Cardinality(Upto(i)) <= Cardinality(open)
  <2> HIDE DEF Upto
  <2> QED BY <1>2, <1>6, FS_Subset, FS_CardinalityType
<1>8. CASE open \subseteq T
  <2>1. T = open BY <1>3, <1>8
  <2> QED BY <1>2, <1>4, <2>1 DEF T
<1>9. CASE ~(open \subseteq T)
  <2> DEFINE Left == open \ T
  <2>1. Left \subseteq Nat /\ Left # {} /\ Left \subseteq open BY <1>5, <1>9
  <2>2. IsFiniteSet(Left) BY <1>2, <2>1, FS_Subset
  <2>3. PICK i \in Left : \A j \in Left : i <= j
    <3> HIDE DEF Left
    <3> QED BY <2>1, <2>2, LeastIs
  <2>4. i \in open /\ i \notin T /\ i \in Nat BY <2>1
  <2>5. ~(Cardinality(Upto(i)) <= q) BY <1>3, <2>4
  <2>6. Upto(i) \subseteq T \cup {i}
    <3> SUFFICES ASSUME NEW j \in open, j <= i, j # i, j \notin T PROVE FALSE
      OBVIOUS
    <3>1. j \in Left /\ j \in Nat BY <1>5
    <3> QED BY <2>3, <2>4, <3>1
  <2>7. IsFiniteSet(T) BY <1>2, <1>3, FS_Subset
  <2>8. IsFiniteSet(T \cup {i}) /\ Cardinality(T \cup {i}) = Cardinality(T) + 1
    BY <2>4, <2>7, FS_AddElement
  <2>9. Cardinality(Upto(i)) <= Cardinality(T \cup {i})
    <3> HIDE DEF Upto
    <3> QED BY <2>6, <2>8, FS_Subset
  <2>10. Cardinality(Upto(i)) \in Nat /\ Cardinality(Upto(i)) <= Cardinality(open) BY <1>7
  <2> HIDE DEF Upto
  <2>11. Cardinality(T) = q /\ q <= Cardinality(open) BY <1>2, <1>4, <2>5, <2>8, <2>9, <2>10
  <2> QED BY <1>2, <2>11 DEF T
<1> QED BY <1>8, <1>9

\* So the deficit is positive where there is less than is asked for.
LEMMA DeficitIs ==
  ASSUME NEW d, Sound(d), NEW b \in Options, NEW q \in Nat
  PROVE  /\ Deficit(d, b, q) \in Nat
         /\ Deficit(d, b, q) > 0 <=> AvailableQuantity(d, b) < q
         /\ Deficit(d, b, q) <= q
<1>1. AvailableQuantity(d, b) \in Nat BY AvailableFinite
<1>2. Cardinality(FifoTake(d, b, q))
        = IF AvailableQuantity(d, b) < q THEN AvailableQuantity(d, b) ELSE q
  BY FifoTakes
<1> QED BY <1>1, <1>2 DEF Deficit

-----------------------------------------------------------------------------
\* What the helpers make of the balance.
LEMMA AddToBalanceIs ==
  ASSUME NEW d, d \in Database, NEW b \in Options, NEW k \in Int
  PROVE  LET e == AddToBalance(d, b, k)
         IN  /\ \A c \in Options \ {b} : BalanceRows(e, c) = BalanceRows(d, c)
             /\ BalanceRows(e, b) = {[r EXCEPT !.qty = @ + k] : r \in BalanceRows(d, b)}
             /\ e.items = d.items /\ e.lots = d.lots /\ e.orders = d.orders
             /\ e.movements = d.movements /\ e.lastMovement = d.lastMovement
<1> DEFINE e == AddToBalance(d, b, k)
           Changed(r) == IF r.option = b THEN [r EXCEPT !.qty = @ + k] ELSE r
<1>1. /\ e.negative = {Changed(r) : r \in d.negative}
      /\ e.items = d.items /\ e.lots = d.lots /\ e.orders = d.orders
      /\ e.movements = d.movements /\ e.lastMovement = d.lastMovement
      /\ d.negative \in SUBSET BalanceRow
  BY DEF AddToBalance, Database
<1>2. \A r \in d.negative : [r EXCEPT !.qty = @ + k].option = r.option BY <1>1 DEF BalanceRow
<1> HIDE DEF e
<1>3. ASSUME NEW c \in Options \ {b} PROVE BalanceRows(e, c) = BalanceRows(d, c)
  BY <1>1, <1>2 DEF BalanceRows
<1>4. BalanceRows(e, b) = {[r EXCEPT !.qty = @ + k] : r \in BalanceRows(d, b)}
  BY <1>1, <1>2 DEF BalanceRows
<1> QED BY <1>1, <1>3, <1>4 DEF e

LEMMA OwesInRowIs ==
  ASSUME NEW d, d \in Database, NEW c, NEW k, k \in Int, OwesInRow(d, c, k)
  PROVE  /\ NegativeBalanceQty(d, c) = k
         /\ Total(BalanceRows(d, c)) = k
<1>1. CASE BalanceRows(d, c) = {} /\ k = 0 BY <1>1, TotalNone DEF NegativeBalanceQty
<1>2. CASE \E r \in d.negative : BalanceRows(d, c) = {r} /\ r.qty = k
  <2>1. PICK r \in d.negative : BalanceRows(d, c) = {r} /\ r.qty = k BY <1>2
  <2>2. (CHOOSE x \in {r} : ById(x, {r})) = r BY <2>1 DEF ById, Database, BalanceRow
  <2>3. Total({r}) = k BY <2>1, TotalOne
  <2> QED BY <2>1, <2>2, <2>3 DEF NegativeBalanceQty
<1> QED BY <1>1, <1>2 DEF OwesInRow

LEMMA UpsertOwes ==
  ASSUME BaseOptions = {}, NEW d, d \in Database, NEW b \in Options,
         NEW k \in Int, k > 0, NEW j \in Int, OwesInRow(d, b, j)
  PROVE  LET e == UpsertNegativeBalance(d, b, k)
         IN  /\ \A c \in Options \ {b} : BalanceRows(e, c) = BalanceRows(d, c)
             /\ OwesInRow(e, b, j + k)
             /\ e.items = d.items /\ e.lots = d.lots /\ e.orders = d.orders
             /\ e.movements = d.movements /\ e.lastMovement = d.lastMovement
<1> DEFINE e == UpsertNegativeBalance(d, b, k)
<1>1. CASE BalanceRows(d, b) = {} /\ j = 0
  <2> DEFINE row == [id |-> d.lastMovement, option |-> b, qty |-> k]
  <2>1. /\ e.negative = d.negative \cup {row}
        /\ e.items = d.items /\ e.lots = d.lots /\ e.orders = d.orders
        /\ e.movements = d.movements /\ e.lastMovement = d.lastMovement
    BY <1>1 DEF UpsertNegativeBalance, Database
  <2>2. row.option = b /\ row.qty = k OBVIOUS
  <2> HIDE DEF e, row
  <2>3. \A c \in Options \ {b} : BalanceRows(e, c) = BalanceRows(d, c)
    BY <2>1, <2>2 DEF BalanceRows
  <2>4. BalanceRows(e, b) = {row} /\ row \in e.negative BY <1>1, <2>1, <2>2 DEF BalanceRows
  <2>5. OwesInRow(e, b, j + k) BY <1>1, <2>2, <2>4 DEF OwesInRow
  <2> QED BY <2>1, <2>3, <2>5 DEF e
<1>2. CASE \E r \in d.negative : BalanceRows(d, b) = {r} /\ r.qty = j
  <2>1. PICK r \in d.negative : BalanceRows(d, b) = {r} /\ r.qty = j BY <1>2
  <2>2. e = AddToBalance(d, b, k) BY <2>1 DEF UpsertNegativeBalance
  <2> DEFINE row == [r EXCEPT !.qty = @ + k]
  <2>3. /\ \A c \in Options \ {b} : BalanceRows(e, c) = BalanceRows(d, c)
        /\ BalanceRows(e, b) = {[x EXCEPT !.qty = @ + k] : x \in BalanceRows(d, b)}
        /\ e.items = d.items /\ e.lots = d.lots /\ e.orders = d.orders
        /\ e.movements = d.movements /\ e.lastMovement = d.lastMovement
    BY <2>2, AddToBalanceIs
  <2>4. row.qty = j + k BY <2>1 DEF Database, BalanceRow
  <2>5. BalanceRows(e, b) = {row} BY <2>1, <2>3
  <2> HIDE DEF e, row
  <2>6. row \in e.negative BY <2>5 DEF BalanceRows
  <2>7. OwesInRow(e, b, j + k) BY <2>4, <2>5, <2>6 DEF OwesInRow
  <2> QED BY <2>3, <2>7 DEF e
<1> QED BY <1>1, <1>2 DEF OwesInRow

\* A row reduced to nothing is deleted.
LEMMA ReduceOwes ==
  ASSUME NEW d, d \in Database, NEW b \in Options, NEW k \in Int,
         NEW j \in Int, j # 0, OwesInRow(d, b, j), k <= j
  PROVE  LET e == ReduceNegativeBalance(d, b, k)
         IN  /\ \A c \in Options \ {b} : BalanceRows(e, c) = BalanceRows(d, c)
             /\ OwesInRow(e, b, j - k)
             /\ e.items = d.items /\ e.lots = d.lots /\ e.orders = d.orders
             /\ e.movements = d.movements /\ e.lastMovement = d.lastMovement
<1> DEFINE a == AddToBalance(d, b, -k)
           e == ReduceNegativeBalance(d, b, k)
<1>1. -k \in Int OBVIOUS
<1>2. /\ \A c \in Options \ {b} : BalanceRows(a, c) = BalanceRows(d, c)
      /\ BalanceRows(a, b) = {[x EXCEPT !.qty = @ + (-k)] : x \in BalanceRows(d, b)}
      /\ a.items = d.items /\ a.lots = d.lots /\ a.orders = d.orders
      /\ a.movements = d.movements /\ a.lastMovement = d.lastMovement
  BY <1>1, AddToBalanceIs
<1>3. /\ e.negative = {r \in a.negative : r.option # b \/ r.qty > 0}
      /\ e.items = a.items /\ e.lots = a.lots /\ e.orders = a.orders
      /\ e.movements = a.movements /\ e.lastMovement = a.lastMovement
  BY DEF ReduceNegativeBalance, AddToBalance, Database
<1>4. PICK r \in d.negative : BalanceRows(d, b) = {r} /\ r.qty = j BY DEF OwesInRow
<1> DEFINE row == [r EXCEPT !.qty = @ + (-k)]
<1>5. row.qty = j - k /\ row.option = b BY <1>4 DEF Database, BalanceRow, BalanceRows
<1>6. BalanceRows(a, b) = {row} BY <1>2, <1>4
<1> HIDE DEF a, e, row
<1>7. \A c \in Options \ {b} : BalanceRows(e, c) = BalanceRows(a, c) BY <1>3 DEF BalanceRows
<1>8. BalanceRows(e, b) = IF j - k > 0 THEN {row} ELSE {} BY <1>3, <1>5, <1>6 DEF BalanceRows
<1>9. OwesInRow(e, b, j - k)
  <2>1. CASE j - k > 0
    <3>1. BalanceRows(e, b) = {row} BY <1>8, <2>1
    <3>2. row \in e.negative BY <3>1 DEF BalanceRows
    <3> QED BY <1>5, <3>1, <3>2 DEF OwesInRow
  <2>2. CASE ~(j - k > 0)
    <3>1. BalanceRows(e, b) = {} /\ j - k = 0 BY <1>8, <2>2
    <3> QED BY <3>1 DEF OwesInRow
  <2> QED BY <2>1, <2>2
<1> QED BY <1>2, <1>3, <1>7, <1>9 DEF e

-----------------------------------------------------------------------------
\* What a row more or less makes of the totals.
LEMMA RowsQuantified ==
  ASSUME NEW M \in SUBSET Movement, IsFiniteSet(M)
  PROVE  /\ Quantified(M)
         /\ \A c : /\ Quantified(Counted(M, c)) /\ Total(Counted(M, c)) \in Int
                   /\ Quantified(Owed(M, c)) /\ Total(Owed(M, c)) \in Int
<1>1. Quantified(M) BY DEF Quantified, Movement
<1>2. \A c : Counted(M, c) \subseteq M /\ Owed(M, c) \subseteq M BY DEF Counted, Owed
<1> QED BY <1>1, <1>2, TotalPart, TotalInt

LEMMA CountedAdd ==
  ASSUME NEW M \in SUBSET Movement, IsFiniteSet(M), NEW row \in Movement, row \notin M,
         NEW c
  PROVE  Total(Counted(M \cup {row}, c)) = Total(Counted(M, c))
           + IF row.option = c /\ row.type # "negative_sale" THEN row.qty ELSE 0
<1>1. Quantified(Counted(M, c)) /\ Total(Counted(M, c)) \in Int BY RowsQuantified
<1>2. CASE row.option = c /\ row.type # "negative_sale"
  <2>1. Counted(M \cup {row}, c) = Counted(M, c) \cup {row} /\ row \notin Counted(M, c)
    BY <1>2 DEF Counted
  <2>2. row.qty \in Int BY DEF Movement
  <2> QED BY <1>1, <1>2, <2>1, <2>2, TotalAdd
<1>3. CASE ~(row.option = c /\ row.type # "negative_sale")
  <2>1. Counted(M \cup {row}, c) = Counted(M, c) BY <1>3 DEF Counted
  <2> QED BY <1>1, <1>3, <2>1
<1> QED BY <1>2, <1>3

LEMMA OwedAdd ==
  ASSUME NEW M \in SUBSET Movement, IsFiniteSet(M), NEW row \in Movement, row \notin M,
         row.type # "restore_sale", NEW c
  PROVE  Total(Owed(M \cup {row}, c)) = Total(Owed(M, c))
           + IF row.option = c /\ row.type = "negative_sale" /\ ~Back(M, row)
             THEN row.qty ELSE 0
<1>1. Quantified(Owed(M, c)) /\ Total(Owed(M, c)) \in Int BY RowsQuantified
<1>2. \A n : Back(M \cup {row}, n) <=> Back(M, n) BY DEF Back
<1>3. CASE row.option = c /\ row.type = "negative_sale" /\ ~Back(M, row)
  <2>1. Owed(M \cup {row}, c) = Owed(M, c) \cup {row} /\ row \notin Owed(M, c)
    BY <1>2, <1>3 DEF Owed
  <2>2. row.qty \in Int BY DEF Movement
  <2> QED BY <1>1, <1>3, <2>1, <2>2, TotalAdd
<1>4. CASE ~(row.option = c /\ row.type = "negative_sale" /\ ~Back(M, row))
  <2>1. Owed(M \cup {row}, c) = Owed(M, c) BY <1>2, <1>4 DEF Owed
  <2> QED BY <1>1, <1>4, <2>1
<1> QED BY <1>3, <1>4

\* A restored sale owes no more.
LEMMA OwedRestore ==
  ASSUME NEW M \in SUBSET Movement, IsFiniteSet(M), NEW row \in Movement, row \notin M,
         row.type = "restore_sale", NEW c
  PROVE  Owed(M \cup {row}, c) = {n \in Owed(M, c) : ~SameKey(row, n)}
BY DEF Owed, Back

\* An order's oversold quantity of an option is that of its only row.
LEMMA OversoldIs ==
  ASSUME NEW d, Sound(d), Kinds(d.movements), NEW o \in Orders, NEW m
  PROVE  /\ \A n \in d.movements :
              n.type = "negative_sale" /\ n.ref = o /\ n.option = m.option =>
                OversoldOf(d, o, m) = -n.qty
         /\ (\A n \in d.movements :
               ~(n.type = "negative_sale" /\ n.ref = o /\ n.option = m.option)) =>
              OversoldOf(d, o, m) = 0
<1> DEFINE rows == {n \in MovementsOf(d, o, "negative_sale") : n.option = m.option}
<1>1. rows = {n \in d.movements :
                n.type = "negative_sale" /\ n.ref = o /\ n.option = m.option}
  BY DEF MovementsOf
<1>2. OversoldOf(d, o, m)
        = IF rows = {} THEN 0 ELSE -(CHOOSE n \in rows : ById(n, rows)).qty
  BY DEF OversoldOf
<1> HIDE DEF rows
<1>3. ASSUME NEW n \in rows PROVE OversoldOf(d, o, m) = -n.qty
  <2>1. rows = {n} BY <1>1 DEF Kinds, OrderTypes, SameKey
  <2>2. n \in Movement BY <1>1 DEF Sound, Database
  <2>3. ById(n, rows) BY <2>1, <2>2 DEF ById, Movement
  <2>4. (CHOOSE x \in rows : ById(x, rows)) = n BY <2>1, <2>3
  <2> QED BY <1>2, <2>4
<1>4. rows = {} => OversoldOf(d, o, m) = 0 BY <1>2
<1> QED BY <1>1, <1>3, <1>4

\* So it depends on the order's negative_sale rows alone.
LEMMA SameOversold ==
  ASSUME NEW d, NEW e, NEW o, NEW m,
         MovementsOf(e, o, "negative_sale") = MovementsOf(d, o, "negative_sale")
  PROVE  OversoldOf(e, o, m) = OversoldOf(d, o, m)
<1> DEFINE rows(x) == {n \in MovementsOf(x, o, "negative_sale") : n.option = m.option}
           first(R) == IF R = {} THEN 0 ELSE -(CHOOSE n \in R : ById(n, R)).qty
<1>1. OversoldOf(d, o, m) = first(rows(d)) /\ OversoldOf(e, o, m) = first(rows(e))
  BY DEF OversoldOf
<1>2. rows(d) = rows(e) OBVIOUS
<1> HIDE DEF rows, first
<1> QED BY <1>1, <1>2

\* What an order oversold and has not restored is part of what is owed.
LEMMA OwedAtLeast ==
  ASSUME NEW d, Sound(d), Books(d), NEW n \in d.movements, n.type = "negative_sale",
         ~Back(d.movements, n)
  PROVE  Total(Owed(d.movements, n.option)) <= n.qty /\ n.qty < 0
<1> DEFINE M == d.movements
           S == Owed(M, n.option)
<1>1. M \in SUBSET Movement /\ IsFiniteSet(M) BY DEF Books, Sound, Database
<1>2. n \in S /\ Quantified(S) /\ Total(S) \in Int BY <1>1, RowsQuantified DEF Owed
<1>3. \A m \in S : m.qty \in Int /\ m.qty < 0 BY <1>1 DEF Owed, Books, Matched, Movement
<1> HIDE DEF S
<1>4. Total(S \ {n}) = Total(S) - n.qty /\ Quantified(S \ {n}) BY <1>2, TotalRemove
<1>5. Total(S \ {n}) <= 0
  <2>1. \A m \in S \ {n} : m.qty <= 0 BY <1>3
  <2> QED BY <1>4, <2>1, TotalNegative
<1> QED BY <1>2, <1>3, <1>4, <1>5 DEF S

-----------------------------------------------------------------------------
(***************************************************************************)
(* What a handler does to the rows, the items and the balance together     *)
(* keeps the books.                                                        *)
(***************************************************************************)

\* Stock that came in or went out with its movement.
LEMMA StockMoved ==
  ASSUME NEW d, NEW e, Sound(d), Sound(e), Books(d),
         NEW row \in Movement, row \notin d.movements,
         row.ref = NoRef, row.type \notin OrderTypes,
         e.movements = d.movements \cup {row}, e.negative = d.negative,
         \A c \in Options : AvailableQuantity(e, c) =
           AvailableQuantity(d, c) + IF c = row.option THEN row.qty ELSE 0,
         \A m \in d.movements : m.type = "sale" => ConsumedBy(e, m) = ConsumedBy(d, m)
  PROVE  Books(e)
<1> DEFINE M == d.movements
           N == M \cup {row}
<1>1. M \in SUBSET Movement /\ IsFiniteSet(M) /\ row.qty \in Int
  BY DEF Books, Sound, Database, Movement
<1>2. IsFiniteSet(N) BY <1>1, FS_AddElement
<1>3. Kinds(N) BY DEF Books, Kinds
<1>4. Matched(N) BY DEF Books, Matched, OrderTypes
<1>5. row.type \notin {"sale", "negative_sale", "restore_sale"} BY DEF OrderTypes
<1>6. Filled(e)
  <2> SUFFICES ASSUME NEW m \in N, m.type = "sale"
               PROVE  Cardinality(ConsumedBy(e, m)) = -m.qty - OversoldOf(e, m.ref, m)
    BY DEF Filled
  <2>1. m \in M /\ ConsumedBy(e, m) = ConsumedBy(d, m) BY <1>5
  <2>2. MovementsOf(e, m.ref, "negative_sale") = MovementsOf(d, m.ref, "negative_sale")
    BY <1>5 DEF MovementsOf
  <2>3. OversoldOf(e, m.ref, m) = OversoldOf(d, m.ref, m) BY <2>2, SameOversold
  <2> QED BY <2>1, <2>3 DEF Books, Filled
<1>7. ASSUME NEW c \in Options PROVE Balanced(e, c) /\ Shelved(e, c)
  <2>1. Balanced(d, c) /\ Shelved(d, c) BY DEF Books
  <2>2. Total(Owed(N, c)) = Total(Owed(M, c))
    <3>1. Total(Owed(M, c)) \in Int BY <1>1, RowsQuantified
    <3>2. Total(Owed(N, c)) = Total(Owed(M, c))
            + IF row.option = c /\ row.type = "negative_sale" /\ ~Back(M, row)
              THEN row.qty ELSE 0
      BY <1>1, <1>5, OwedAdd
    <3> QED BY <1>5, <3>1, <3>2
  <2>3. Total(Counted(N, c)) = Total(Counted(M, c)) + IF c = row.option THEN row.qty ELSE 0
    <3>1. Total(Counted(N, c)) = Total(Counted(M, c))
            + IF row.option = c /\ row.type # "negative_sale" THEN row.qty ELSE 0
      BY <1>1, CountedAdd
    <3> QED BY <1>5, <3>1
  <2>4. Total(Counted(M, c)) \in Int /\ Total(Owed(M, c)) \in Int BY <1>1, RowsQuantified
  <2>5. Balanced(e, c) BY <2>1, <2>2 DEF Balanced, OwesInRow, BalanceRows
  <2>6. AvailableQuantity(d, c) = Total(Counted(M, c)) - Total(Owed(M, c)) BY <2>1 DEF Shelved
  <2>7. Shelved(e, c)
    <3> DEFINE k == IF c = row.option THEN row.qty ELSE 0
    <3>1. k \in Int BY <1>1
    <3>2. AvailableQuantity(e, c) = AvailableQuantity(d, c) + k OBVIOUS
    <3>3. Total(Counted(N, c)) = Total(Counted(M, c)) + k BY <2>3
    <3> HIDE DEF k
    <3>4. AvailableQuantity(e, c) = Total(Counted(N, c)) - Total(Owed(N, c))
      BY <2>2, <2>4, <2>6, <3>1, <3>2, <3>3
    <3> QED BY <3>4 DEF Shelved
  <2> QED BY <2>5, <2>7
<1> QED BY <1>2, <1>3, <1>4, <1>6, <1>7 DEF Books

\* A line sold: k of its q were not there.
LEMMA LineSold ==
  ASSUME NEW d, NEW e, Sound(d), Sound(e), Books(d), NEW o \in Orders,
         NEW b \in Options, NEW q \in Nat, q > 0, NEW k \in Nat,
         \A m \in d.movements : m.ref = o => m.option # b,
         NEW s \in Movement, s \notin d.movements,
         s.type = "sale" /\ s.ref = o /\ s.option = b /\ s.qty = -q,
         NEW n \in Movement, n \notin d.movements \cup {s},
         n.type = "negative_sale" /\ n.ref = o /\ n.option = b /\ n.qty = -k,
         e.movements = d.movements \cup {s} \cup IF k = 0 THEN {} ELSE {n},
         \A c \in Options \ {b} : BalanceRows(e, c) = BalanceRows(d, c),
         IF k = 0 THEN e.negative = d.negative
         ELSE OwesInRow(e, b, k - Total(Owed(d.movements, b))),
         \A c \in Options : AvailableQuantity(e, c) =
           AvailableQuantity(d, c) - IF c = b THEN q - k ELSE 0,
         \A m \in d.movements : m.type = "sale" => ConsumedBy(e, m) = ConsumedBy(d, m),
         Cardinality(ConsumedBy(e, s)) = q - k
  PROVE  Books(e)
<1> DEFINE M == d.movements
           M1 == M \cup {s}
           N == e.movements
<1>1. M \in SUBSET Movement /\ IsFiniteSet(M) BY DEF Books, Sound, Database
<1>2. M1 \in SUBSET Movement /\ IsFiniteSet(M1) BY <1>1, FS_AddElement
<1>3. IsFiniteSet(N) BY <1>2, FS_AddElement, n \notin M1
<1>4. o # NoRef BY OrdersAssumption
<1>5. \A m \in M : m.ref = o => m.option # b OBVIOUS
<1>6. Kinds(N) BY <1>4, <1>5 DEF Books, Kinds, OrderTypes, SameKey
<1>7. Matched(N)
  <2>1. \A m \in N : m.type \in {"sale", "negative_sale"} => m.qty < 0 BY DEF Books, Matched
  <2>2. ASSUME NEW x \in N, x.type \in {"negative_sale", "restore_sale"}
        PROVE  \E m \in N : /\ m.type = "sale" /\ SameKey(m, x)
                            /\ x.type = "restore_sale" => x.qty = -m.qty
    <3>1. CASE x \in M BY <2>2, <3>1 DEF Books, Matched
    <3>2. CASE x \notin M
      <4>1. x = n BY <2>2, <3>2
      <4> QED BY <4>1 DEF SameKey
    <3> QED BY <3>1, <3>2
  <2> QED BY <2>1, <2>2 DEF Matched
<1>8. ASSUME NEW r \in Orders, NEW m
       PROVE  /\ \A x \in N :
                   x.type = "negative_sale" /\ x.ref = r /\ x.option = m.option =>
                     OversoldOf(e, r, m) = -x.qty
              /\ (\A x \in N :
                    ~(x.type = "negative_sale" /\ x.ref = r /\ x.option = m.option)) =>
                   OversoldOf(e, r, m) = 0
  BY ONLY <1>6, Sound(e), r \in Orders, OversoldIs
<1>9. Filled(e)
  <2> SUFFICES ASSUME NEW m \in N, m.type = "sale"
               PROVE  Cardinality(ConsumedBy(e, m)) = -m.qty - OversoldOf(e, m.ref, m)
    BY DEF Filled
  <2>1. CASE m \in M
    <3>1. m.ref \in Orders /\ m.ref \in Orders \cup {NoRef}
      BY <1>1, <2>1 DEF Movement, Books, Kinds, OrderTypes
    <3>2. OversoldOf(e, m.ref, m) = OversoldOf(d, m.ref, m)
      <4>1. CASE \E x \in M : x.type = "negative_sale" /\ x.ref = m.ref /\ x.option = m.option
        <5>1. PICK x \in M :
                x.type = "negative_sale" /\ x.ref = m.ref /\ x.option = m.option
          BY <4>1
        <5>2. x \in N OBVIOUS
        <5>3. OversoldOf(d, m.ref, m) = -x.qty BY <3>1, <5>1, OversoldIs DEF Books
        <5>4. OversoldOf(e, m.ref, m) = -x.qty BY <1>8, <3>1, <5>1, <5>2
        <5> QED BY <5>3, <5>4
      <4>2. CASE \A x \in M :
                   ~(x.type = "negative_sale" /\ x.ref = m.ref /\ x.option = m.option)
        <5>1. \A x \in N :
                ~(x.type = "negative_sale" /\ x.ref = m.ref /\ x.option = m.option)
          BY <1>5, <2>1, <4>2
        <5>2. OversoldOf(d, m.ref, m) = 0 BY <3>1, <4>2, OversoldIs DEF Books
        <5>3. OversoldOf(e, m.ref, m) = 0 BY <1>8, <3>1, <5>1
        <5> QED BY <5>2, <5>3
      <4> QED BY <4>1, <4>2
    <3> QED BY <2>1, <3>2 DEF Books, Filled
  <2>2. CASE m \notin M
    <3>1. m = s BY <2>2
    <3>2. OversoldOf(e, o, s) = k
      <4>1. CASE k = 0
        <5>1. \A x \in N :
                ~(x.type = "negative_sale" /\ x.ref = o /\ x.option = s.option)
          BY <1>5, <4>1
        <5> QED BY <1>8, <4>1, <5>1
      <4>2. CASE k # 0
        <5>1. n \in N /\ n.option = s.option BY <4>2
        <5>2. OversoldOf(e, o, s) = -n.qty BY <1>8, <5>1
        <5> QED BY <5>2
      <4> QED BY <4>1, <4>2
    <3> QED BY <3>1, <3>2
  <2> QED BY <2>1, <2>2
<1>10. ASSUME NEW c \in Options PROVE Balanced(e, c) /\ Shelved(e, c)
  <2>1. Balanced(d, c) /\ Shelved(d, c) BY DEF Books
  <2>2. Total(Counted(M, c)) \in Int /\ Total(Owed(M, c)) \in Int BY <1>1, RowsQuantified
  <2> DEFINE sold == IF c = b THEN q ELSE 0
             missing == IF c = b THEN k ELSE 0
  <2>3. Total(Counted(M1, c)) = Total(Counted(M, c)) - sold
    <3>1. Total(Counted(M1, c)) = Total(Counted(M, c))
            + IF s.option = c /\ s.type # "negative_sale" THEN s.qty ELSE 0
      BY <1>1, CountedAdd
    <3> QED BY <2>2, <3>1
  <2>4. Total(Owed(M1, c)) = Total(Owed(M, c))
    <3>1. Total(Owed(M1, c)) = Total(Owed(M, c))
            + IF s.option = c /\ s.type = "negative_sale" /\ ~Back(M, s)
              THEN s.qty ELSE 0
      BY <1>1, OwedAdd
    <3> QED BY <2>2, <3>1
  <2>5. /\ Total(Counted(N, c)) = Total(Counted(M, c)) - sold
        /\ Total(Owed(N, c)) = Total(Owed(M, c)) - missing
    <3>1. CASE k = 0
      <4>1. N = M1 /\ missing = 0 BY <3>1
      <4> HIDE DEF N, M1, missing
      <4> QED BY <2>2, <2>3, <2>4, <4>1
    <3>2. CASE k # 0
      <4>1. N = M1 \cup {n} /\ n \notin M1 BY <3>2
      <4>2. ~Back(M1, n) BY <1>5 DEF Back, SameKey
      <4>3. Total(Counted(M1 \cup {n}, c)) = Total(Counted(M1, c))
              + IF n.option = c /\ n.type # "negative_sale" THEN n.qty ELSE 0
        BY <1>2, <4>1, CountedAdd
      <4>4. Total(Owed(M1 \cup {n}, c)) = Total(Owed(M1, c))
              + IF n.option = c /\ n.type = "negative_sale" /\ ~Back(M1, n)
                THEN n.qty ELSE 0
        BY <1>2, <4>1, OwedAdd
      <4>5. sold \in Int /\ missing \in Int OBVIOUS
      <4>6. Total(Counted(N, c)) = Total(Counted(M1, c))
        <5>1. Total(Counted(M1, c)) \in Int BY <1>2, RowsQuantified
        <5> HIDE DEF M1, N
        <5> QED BY <4>1, <4>3, <5>1
      <4>7. Total(Owed(N, c)) = Total(Owed(M1, c)) - missing
        <5>1. Total(Owed(M1, c)) \in Int BY <1>2, RowsQuantified
        <5> HIDE DEF M1, N
        <5> QED BY <4>1, <4>2, <4>4, <5>1
      <4> HIDE DEF M, M1, N, sold, missing
      <4> QED BY <2>2, <2>3, <2>4, <4>5, <4>6, <4>7
    <3> QED BY <3>1, <3>2
  <2>6. AvailableQuantity(d, c) = Total(Counted(M, c)) - Total(Owed(M, c)) BY <2>1 DEF Shelved
  <2>7. AvailableQuantity(e, c) = AvailableQuantity(d, c) - (sold - missing) BY AvailableFinite
  <2>8. sold \in Int /\ missing \in Int OBVIOUS
  <2>9. Balanced(e, c)
    <3>1. CASE c # b
      <4>1. BalanceRows(e, c) = BalanceRows(d, c) /\ missing = 0 BY <3>1
      <4>2. -Total(Owed(N, c)) = -Total(Owed(M, c)) BY <2>2, <2>5, <4>1
      <4> QED BY <2>1, <4>1, <4>2 DEF Balanced, OwesInRow, BalanceRows
    <3>2. CASE c = b /\ k = 0
      <4>1. BalanceRows(e, c) = BalanceRows(d, c) /\ missing = 0 /\ e.negative = d.negative
        BY <3>2 DEF BalanceRows
      <4>2. -Total(Owed(N, c)) = -Total(Owed(M, c)) BY <2>2, <2>5, <4>1
      <4> QED BY <2>1, <4>1, <4>2 DEF Balanced, OwesInRow
    <3>3. CASE c = b /\ k # 0
      <4>1. OwesInRow(e, c, k - Total(Owed(M, c))) /\ missing = k BY <3>3
      <4>2. -Total(Owed(N, c)) = k - Total(Owed(M, c)) BY <2>2, <2>5, <4>1
      <4> QED BY <4>1, <4>2 DEF Balanced
    <3> QED BY <3>1, <3>2, <3>3
  <2>10. Shelved(e, c)
    <3> HIDE DEF M, N, sold, missing
    <3>1. AvailableQuantity(e, c) = Total(Counted(N, c)) - Total(Owed(N, c))
      BY <2>2, <2>5, <2>6, <2>7, <2>8
    <3> QED BY <3>1 DEF Shelved, N
  <2> QED BY <2>9, <2>10
<1> QED BY <1>3, <1>6, <1>7, <1>9, <1>10 DEF Books

\* A sale restored: what was there comes back as stock, the rest off the balance.
LEMMA SaleRestored ==
  ASSUME NEW d, NEW e, Sound(d), Sound(e), Books(d), NEW o \in Orders,
         NEW m \in d.movements, m.type = "sale", m.ref = o, ~Back(d.movements, m),
         NEW k \in Nat, k = OversoldOf(d, o, m),
         NEW row \in Movement, row \notin d.movements,
         row.type = "restore_sale" /\ row.ref = o /\ row.option = m.option
           /\ row.qty = -m.qty,
         e.movements = d.movements \cup {row},
         \A c \in Options \ {m.option} : BalanceRows(e, c) = BalanceRows(d, c),
         IF k = 0 THEN e.negative = d.negative
         ELSE OwesInRow(e, m.option, -Total(Owed(d.movements, m.option)) - k),
         \A c \in Options : AvailableQuantity(e, c) =
           AvailableQuantity(d, c) + IF c = m.option THEN -m.qty - k ELSE 0,
         \A x \in d.movements : x.type = "sale" => ConsumedBy(e, x) = ConsumedBy(d, x)
  PROVE  Books(e)
<1> DEFINE M == d.movements
           N == M \cup {row}
           b == m.option
<1>1. M \in SUBSET Movement /\ IsFiniteSet(M) /\ m.qty \in Int /\ b \in Options
  BY DEF Books, Sound, Database, Movement
<1>2. IsFiniteSet(N) /\ o # NoRef BY <1>1, FS_AddElement, OrdersAssumption
<1>3. \A x \in M : ~(x.type = "restore_sale" /\ x.ref = o /\ x.option = b) BY DEF Back, SameKey
<1>4. Kinds(N) BY <1>2, <1>3 DEF Books, Kinds, OrderTypes, SameKey
<1>5. Matched(N)
  <2>1. \A x \in N : x.type \in {"sale", "negative_sale"} => x.qty < 0 BY DEF Books, Matched
  <2>2. ASSUME NEW x \in N, x.type \in {"negative_sale", "restore_sale"}
        PROVE  \E y \in N : /\ y.type = "sale" /\ SameKey(y, x)
                            /\ x.type = "restore_sale" => x.qty = -y.qty
    <3>1. CASE x \in M BY <2>2, <3>1 DEF Books, Matched
    <3>2. CASE x = row BY <3>2 DEF SameKey
    <3> QED BY <3>1, <3>2
  <2> QED BY <2>1, <2>2 DEF Matched
<1>6. Filled(e)
  <2> SUFFICES ASSUME NEW x \in N, x.type = "sale"
               PROVE  Cardinality(ConsumedBy(e, x)) = -x.qty - OversoldOf(e, x.ref, x)
    BY DEF Filled
  <2>1. x \in M /\ ConsumedBy(e, x) = ConsumedBy(d, x) OBVIOUS
  <2>2. MovementsOf(e, x.ref, "negative_sale") = MovementsOf(d, x.ref, "negative_sale")
    BY DEF MovementsOf
  <2>3. OversoldOf(e, x.ref, x) = OversoldOf(d, x.ref, x) BY <2>2, SameOversold
  <2> QED BY <2>1, <2>3 DEF Books, Filled
<1>7. ASSUME NEW r \in Orders, NEW z
      PROVE  /\ \A x \in M :
                  x.type = "negative_sale" /\ x.ref = r /\ x.option = z.option =>
                    OversoldOf(d, r, z) = -x.qty
             /\ (\A x \in M :
                   ~(x.type = "negative_sale" /\ x.ref = r /\ x.option = z.option)) =>
                  OversoldOf(d, r, z) = 0
  BY ONLY Books(d), Sound(d), r \in Orders, OversoldIs DEF Books
<1>8. \A x \in M : x.type = "negative_sale" => x.qty < 0 /\ x.qty \in Int
  BY <1>1 DEF Books, Matched, Movement
<1>9. ASSUME NEW c \in Options
      PROVE  Total(Owed(N, c)) = Total(Owed(M, c)) + IF c = b THEN k ELSE 0
  <2>1. Owed(N, c) = {x \in Owed(M, c) : ~SameKey(row, x)} BY <1>1, OwedRestore
  <2>2. Quantified(Owed(M, c)) /\ Total(Owed(M, c)) \in Int BY <1>1, RowsQuantified
  <2>3. CASE c # b \/ k = 0
    <3>1. Owed(N, c) = Owed(M, c)
      <4> SUFFICES ASSUME NEW x \in Owed(M, c), SameKey(row, x) PROVE FALSE
        BY <2>1
      <4>1. x \in M /\ x.type = "negative_sale" /\ x.ref = o /\ x.option = b /\ c = b
        BY DEF Owed, SameKey
      <4>2. k = -x.qty BY <1>7, <4>1
      <4> QED BY <1>8, <2>3, <4>1, <4>2
    <3> QED BY <2>2, <2>3, <3>1
  <2>4. CASE c = b /\ k # 0
    <3>1. PICK n \in M : n.type = "negative_sale" /\ n.ref = o /\ n.option = b BY <1>7, <2>4
    <3>2. k = -n.qty /\ n.qty \in Int BY <1>7, <1>8, <3>1
    <3>3. ~Back(M, n) BY <1>3, <3>1 DEF Back, SameKey
    <3>4. n \in Owed(M, c) BY <2>4, <3>1, <3>3 DEF Owed
    <3>5. Owed(N, c) = Owed(M, c) \ {n}
      <4>1. \A x \in Owed(M, c) : SameKey(row, x) <=> x = n
        BY <2>4, <3>1 DEF Owed, SameKey, Books, Kinds, OrderTypes
      <4> QED BY <2>1, <4>1
    <3>6. Total(Owed(M, c) \ {n}) = Total(Owed(M, c)) - n.qty BY <2>2, <3>4, TotalRemove
    <3> QED BY <2>2, <2>4, <3>2, <3>5, <3>6
  <2> QED BY <2>3, <2>4
<1>10. ASSUME NEW c \in Options PROVE Balanced(e, c) /\ Shelved(e, c)
  <2>1. Balanced(d, c) /\ Shelved(d, c) BY DEF Books
  <2>2. Total(Counted(M, c)) \in Int /\ Total(Owed(M, c)) \in Int BY <1>1, RowsQuantified
  <2> DEFINE sold == IF c = b THEN -m.qty ELSE 0
             missing == IF c = b THEN k ELSE 0
  <2>3. Total(Counted(N, c)) = Total(Counted(M, c)) + sold
    <3>1. Total(Counted(N, c)) = Total(Counted(M, c))
            + IF row.option = c /\ row.type # "negative_sale" THEN row.qty ELSE 0
      BY <1>1, CountedAdd
    <3> QED BY <2>2, <3>1
  <2>4. Total(Owed(N, c)) = Total(Owed(M, c)) + missing BY <1>9
  <2>5. AvailableQuantity(d, c) = Total(Counted(M, c)) - Total(Owed(M, c)) BY <2>1 DEF Shelved
  <2>6. AvailableQuantity(e, c) = AvailableQuantity(d, c) + (sold - missing)
    BY <1>1, AvailableFinite
  <2>7. sold \in Int /\ missing \in Int BY <1>1
  <2>8. Balanced(e, c)
    <3>1. CASE c # b
      <4>1. BalanceRows(e, c) = BalanceRows(d, c) /\ missing = 0 BY <3>1
      <4>2. -Total(Owed(N, c)) = -Total(Owed(M, c)) BY <2>2, <2>4, <4>1
      <4> QED BY <2>1, <4>1, <4>2 DEF Balanced, OwesInRow, BalanceRows
    <3>2. CASE c = b /\ k = 0
      <4>1. BalanceRows(e, c) = BalanceRows(d, c) /\ missing = 0 /\ e.negative = d.negative
        BY <3>2 DEF BalanceRows
      <4>2. -Total(Owed(N, c)) = -Total(Owed(M, c)) BY <2>2, <2>4, <4>1
      <4> QED BY <2>1, <4>1, <4>2 DEF Balanced, OwesInRow
    <3>3. CASE c = b /\ k # 0
      <4>1. OwesInRow(e, c, -Total(Owed(M, c)) - k) /\ missing = k BY <3>3
      <4>2. -Total(Owed(N, c)) = -Total(Owed(M, c)) - k BY <2>2, <2>4, <4>1
      <4> QED BY <4>1, <4>2 DEF Balanced
    <3> QED BY <3>1, <3>2, <3>3
  <2>9. Shelved(e, c)
    <3> HIDE DEF M, N, sold, missing
    <3>1. AvailableQuantity(e, c) = Total(Counted(N, c)) - Total(Owed(N, c))
      BY <2>2, <2>3, <2>4, <2>5, <2>6, <2>7
    <3> QED BY <3>1 DEF Shelved, N, M
  <2> QED BY <2>8, <2>9
<1> QED BY <1>2, <1>4, <1>5, <1>6, <1>10 DEF Books

\* The sales of an order that oversold nothing, taken back and deleted.
LEMMA SalesForgotten ==
  ASSUME NEW d, NEW e, Sound(d), Sound(e), Books(d), Recorded(d), NEW o \in Orders,
         \A m \in RowsOf(d.movements, o) : m.type = "sale",
         e.movements = d.movements \ RowsOf(d.movements, o),
         e.negative = d.negative,
         \A c \in Options : AvailableQuantity(e, c) = AvailableQuantity(d, c)
           + Cardinality({i \in ConsumedBySales(d, o) : OptionOf(d, i) = c}),
         \A m \in e.movements : m.type = "sale" => ConsumedBy(e, m) = ConsumedBy(d, m)
  PROVE  Books(e)
<1> DEFINE M == d.movements
           N == M \ RowsOf(M, o)
           Freed(c) == {i \in ConsumedBySales(d, o) : OptionOf(d, i) = c}
<1>1. M \in SUBSET Movement /\ IsFiniteSet(M) BY DEF Books, Sound, Database
<1>2. N \in SUBSET Movement /\ IsFiniteSet(N) /\ N \subseteq M BY <1>1, FS_Subset
<1>3. \A m \in N : m.ref # o BY DEF RowsOf
<1>4. Kinds(N) BY DEF Books, Kinds
<1>5. Matched(N)
  <2>1. \A x \in N : x.type \in {"sale", "negative_sale"} => x.qty < 0 BY DEF Books, Matched
  <2>2. ASSUME NEW x \in N, x.type \in {"negative_sale", "restore_sale"}
        PROVE  \E y \in N : /\ y.type = "sale" /\ SameKey(y, x)
                            /\ x.type = "restore_sale" => x.qty = -y.qty
    <3>1. PICK y \in M : /\ y.type = "sale" /\ SameKey(y, x)
                         /\ x.type = "restore_sale" => x.qty = -y.qty
      BY <2>2 DEF Books, Matched
    <3>2. y \in N BY <1>3, <3>1 DEF SameKey, RowsOf
    <3> QED BY <3>1, <3>2
  <2> QED BY <2>1, <2>2 DEF Matched
<1>6. Filled(e)
  <2> SUFFICES ASSUME NEW x \in N, x.type = "sale"
               PROVE  Cardinality(ConsumedBy(e, x)) = -x.qty - OversoldOf(e, x.ref, x)
    BY DEF Filled
  <2>1. x \in M /\ ConsumedBy(e, x) = ConsumedBy(d, x) /\ x.ref # o BY <1>3
  <2>2. MovementsOf(e, x.ref, "negative_sale") = MovementsOf(d, x.ref, "negative_sale")
    BY <2>1 DEF MovementsOf, RowsOf
  <2>3. OversoldOf(e, x.ref, x) = OversoldOf(d, x.ref, x) BY <2>2, SameOversold
  <2> QED BY <2>1, <2>3 DEF Books, Filled
<1>7. ASSUME NEW c \in Options PROVE Owed(N, c) = Owed(M, c)
  <2>1. \A n \in N : Back(N, n) <=> Back(M, n) BY <1>3 DEF Back, SameKey, RowsOf
  <2> QED BY <2>1 DEF Owed, RowsOf
<1>8. ASSUME NEW c \in Options
      PROVE  Total(Counted(N, c)) = Total(Counted(M, c)) + Cardinality(Freed(c))
  <2>1. Quantified(Counted(M, c)) /\ Total(Counted(M, c)) \in Int BY <1>1, RowsQuantified
  <2>2. ASSUME NEW i \in Freed(c)
        PROVE  \E m \in RowsOf(M, o) : m.option = c /\ d.items[i].by = m.id
    <3>1. /\ i \in DOMAIN d.items /\ d.items[i].by # NoMovement /\ OptionOf(d, i) = c
          /\ \E m \in M : m.ref = o /\ m.id = d.items[i].by
      BY DEF ConsumedBySales, MovementsOf
    <3>2. PICK m \in M : m.ref = o /\ m.id = d.items[i].by BY <3>1
    <3>3. PICK n \in M : n.id = d.items[i].by /\ n.option = OptionOf(d, i)
      BY <3>1 DEF Recorded, ItemsAreRecorded, OptionOf
    <3>4. m = n BY <3>2, <3>3 DEF Recorded, NumberedOnce
    <3> QED BY <3>1, <3>2, <3>3, <3>4 DEF RowsOf
  <2>3. CASE \E m \in RowsOf(M, o) : m.option = c
    <3>1. PICK m \in RowsOf(M, o) : m.option = c BY <2>3
    <3>2. m \in M /\ m.ref = o /\ m.type = "sale" /\ m.qty \in Int
      BY <1>1, <3>1 DEF RowsOf, Movement
    <3>3. \A n \in RowsOf(M, o) : n.option = c => n = m
      BY <3>1, <3>2 DEF RowsOf, Books, Kinds, OrderTypes, SameKey
    <3>4. Counted(N, c) = Counted(M, c) \ {m} /\ m \in Counted(M, c)
      BY <3>1, <3>2, <3>3 DEF Counted, RowsOf
    <3>5. Total(Counted(M, c) \ {m}) = Total(Counted(M, c)) - m.qty BY <2>1, <3>4, TotalRemove
    <3>6. Freed(c) = ConsumedBy(d, m)
      <4>1. Freed(c) \subseteq ConsumedBy(d, m) BY <2>2, <3>3 DEF ConsumedBy, ConsumedBySales
      <4>2. ASSUME NEW i \in ConsumedBy(d, m) PROVE i \in Freed(c)
        <5>1. i \in DOMAIN d.items /\ d.items[i].by = m.id BY DEF ConsumedBy
        <5>2. m.id # NoMovement BY <3>2 DEF Recorded, NumberedOnce, NoMovement, Sound, Database
        <5>3. i \in ConsumedBySales(d, o) BY <3>2, <5>1, <5>2 DEF ConsumedBySales, MovementsOf
        <5>4. PICK n \in M : n.id = d.items[i].by /\ n.option = OptionOf(d, i)
          BY <5>1, <5>2 DEF Recorded, ItemsAreRecorded, OptionOf
        <5>5. n = m BY <3>2, <5>1, <5>4 DEF Recorded, NumberedOnce
        <5> QED BY <3>1, <5>3, <5>4, <5>5
      <4> QED BY <4>1, <4>2
    <3>7. OversoldOf(d, o, m) = 0
      <4>1. \A n \in M :
              ~(n.type = "negative_sale" /\ n.ref = o /\ n.option = m.option)
        BY DEF RowsOf
      <4> QED BY ONLY <4>1, Books(d), Sound(d), o \in Orders, OversoldIs DEF Books
    <3>8. Cardinality(ConsumedBy(d, m)) = -m.qty BY <3>2, <3>7 DEF Books, Filled
    <3> HIDE DEF M, N, Freed
    <3> QED BY <2>1, <3>2, <3>4, <3>5, <3>6, <3>8
  <2>4. CASE ~\E m \in RowsOf(M, o) : m.option = c
    <3>1. Counted(N, c) = Counted(M, c) BY <2>4 DEF Counted, RowsOf
    <3>2. Freed(c) = {} BY <2>2, <2>4
    <3>3. Cardinality(Freed(c)) = 0 BY <3>2, FS_EmptySet
    <3> HIDE DEF M, N, Freed
    <3> QED BY <2>1, <3>1, <3>3
  <2> QED BY <2>3, <2>4
<1>9. ASSUME NEW c \in Options PROVE Balanced(e, c) /\ Shelved(e, c)
  <2>1. Balanced(d, c) /\ Shelved(d, c) BY DEF Books
  <2>2. Balanced(e, c) BY <1>7, <2>1 DEF Balanced, OwesInRow, BalanceRows
  <2>3. AvailableQuantity(e, c) = AvailableQuantity(d, c) + Cardinality(Freed(c)) OBVIOUS
  <2>4. AvailableQuantity(d, c) = Total(Counted(M, c)) - Total(Owed(M, c)) BY <2>1 DEF Shelved
  <2>5. Total(Counted(M, c)) \in Int /\ Total(Owed(M, c)) \in Int BY <1>1, RowsQuantified
  <2>6. Cardinality(Freed(c)) \in Nat
    <3>1. Freed(c) \in SUBSET DOMAIN d.items BY DEF ConsumedBySales
    <3> QED BY <3>1, ItemSets DEF Sound
  <2>7. Total(Owed(N, c)) = Total(Owed(M, c)) BY <1>7
  <2>8. Total(Counted(N, c)) = Total(Counted(M, c)) + Cardinality(Freed(c)) BY <1>8
  <2>9. Shelved(e, c)
    <3> HIDE DEF M, N, Freed
    <3>1. AvailableQuantity(e, c) = Total(Counted(N, c)) - Total(Owed(N, c))
      BY <2>3, <2>4, <2>5, <2>6, <2>7, <2>8
    <3> QED BY <3>1 DEF Shelved, N, M
  <2> QED BY <2>2, <2>9
<1> QED BY <1>2, <1>4, <1>5, <1>6, <1>9 DEF Books

-----------------------------------------------------------------------------
\* The helpers keep the books.
LEMMA SameItems ==
  ASSUME NEW d, NEW e, e.items = d.items, e.lots = d.lots
  PROVE  /\ \A c : AvailableItems(e, c) = AvailableItems(d, c)
         /\ \A c : AvailableQuantity(e, c) = AvailableQuantity(d, c)
         /\ \A c : Consumable(e, c) = Consumable(d, c)
         /\ \A c, q : FifoTake(e, c, q) = FifoTake(d, c, q)
         /\ \A n : ConsumedBy(e, n) = ConsumedBy(d, n)
<1>1. \A c : AvailableItems(e, c) = AvailableItems(d, c) BY DEF AvailableItems
<1>2. \A c : Consumable(e, c) = Consumable(d, c) BY <1>1 DEF Consumable
<1> QED BY <1>1, <1>2 DEF AvailableQuantity, FifoTake, ConsumedBy

\* The books are of the items, the lots, the balance and the movements.
LEMMA SameBooks ==
  ASSUME NEW d, NEW e, Books(d), e.items = d.items, e.lots = d.lots,
         e.negative = d.negative, e.movements = d.movements
  PROVE  Books(e)
<1>1. Filled(e)
  <2>1. \A o, m : OversoldOf(e, o, m) = OversoldOf(d, o, m)
    <3> TAKE o, m
    <3>1. MovementsOf(e, o, "negative_sale") = MovementsOf(d, o, "negative_sale")
      BY DEF MovementsOf
    <3> QED BY <3>1, SameOversold
  <2> QED BY <2>1, SameItems DEF Books, Filled
<1>2. \A c \in Options : Balanced(e, c) /\ Shelved(e, c)
  BY SameItems DEF Books, Balanced, OwesInRow, BalanceRows, Shelved
<1> QED BY <1>1, <1>2 DEF Books

NewRow(d, type, b, q, ref) ==
  [id |-> d.lastMovement + 1, type |-> type, option |-> b, qty |-> q, ref |-> ref]

LEMMA LogMovementIs ==
  ASSUME NEW d, Sound(d), Recorded(d), NEW type \in MovementType, NEW b \in Options,
         NEW q \in Int, NEW ref \in Orders \cup {NoRef}
  PROVE  LET e == LogMovement(d, type, b, q, ref)
             row == NewRow(d, type, b, q, ref)
         IN  /\ row \in Movement /\ row \notin d.movements
             /\ e.movements = d.movements \cup {row}
             /\ e.lastMovement = d.lastMovement + 1
             /\ e.items = d.items /\ e.lots = d.lots
             /\ e.negative = d.negative /\ e.orders = d.orders
<1> DEFINE e == LogMovement(d, type, b, q, ref)
           row == NewRow(d, type, b, q, ref)
<1>1. d \in Database /\ d.lastMovement \in Nat BY DEF Sound, Database
<1>2. row \in Movement /\ row.id = d.lastMovement + 1 BY <1>1 DEF NewRow, Movement
<1>3. row \notin d.movements BY <1>1, <1>2 DEF Recorded, NumberedOnce
<1>4. /\ e.movements = d.movements \cup {row}
      /\ e.lastMovement = d.lastMovement + 1
      /\ e.items = d.items /\ e.lots = d.lots
      /\ e.negative = d.negative /\ e.orders = d.orders
  BY <1>1 DEF LogMovement, NewRow, Database
<1> QED BY <1>2, <1>3, <1>4

\* A new movement has consumed nothing.
LEMMA NewRowIsClear ==
  ASSUME NEW d, Sound(d), Recorded(d), NEW m, m.id = d.lastMovement + 1
  PROVE  ConsumedBy(d, m) = {}
<1>1. d.lastMovement \in Nat BY DEF Sound, Database
<1>2. \A i \in DOMAIN d.items : d.items[i].by \in 0..d.lastMovement BY ConsumersAreOld
<1> QED BY <1>1, <1>2 DEF ConsumedBy

\* Stock that comes in, on a lot of its own if it is any.
Incoming(d, b, q) == IF q > 0 THEN CreateLotWithItems(d, b, q) ELSE d

LEMMA IncomingBrings ==
  ASSUME NEW d, Sound(d), Recorded(d), NEW b \in Options, NEW q \in Nat,
         NEW e, e = Incoming(d, b, q)
  PROVE  /\ Sound(e) /\ Recorded(e)
         /\ Shifts(d, e, b, q)
         /\ \A n : n.id # NoMovement => ConsumedBy(e, n) = ConsumedBy(d, n)
         /\ e.movements = d.movements /\ e.lastMovement = d.lastMovement
         /\ e.negative = d.negative /\ e.orders = d.orders
<1>1. CASE q > 0
  <2>1. e = CreateLotWithItems(d, b, q) BY <1>1 DEF Incoming
  <2>2. Sound(e) /\ Recorded(e) BY <2>1, CreateLotSound, CreateLotRecorded
  <2>3. /\ \A c \in Options : AvailableQuantity(e, c) =
             AvailableQuantity(d, c) + IF c = b THEN q ELSE 0
        /\ \A n : n.id # NoMovement => ConsumedBy(e, n) = ConsumedBy(d, n)
        /\ e.movements = d.movements /\ e.lastMovement = d.lastMovement
        /\ e.negative = d.negative /\ e.orders = d.orders
    BY <2>1, CreateLotBrings
  <2> QED BY <2>2, <2>3 DEF Shifts
<1>2. CASE ~(q > 0)
  <2>1. e = d /\ q = 0 BY <1>2 DEF Incoming
  <2>2. \A c \in Options : AvailableQuantity(d, c) \in Nat BY AvailableFinite
  <2> QED BY <2>1, <2>2 DEF Shifts
<1> QED BY <1>1, <1>2

LEMMA IncomingBooks ==
  ASSUME NEW d, Sound(d), Recorded(d), Books(d), NEW type \in {"restock", "adjustment"},
         NEW b \in Options, NEW q \in Nat
  PROVE  LET e == LogMovement(Incoming(d, b, q), type, b, q, NoRef)
         IN  /\ Books(e) /\ e.orders = d.orders
             /\ \A o \in Orders : RowsOf(e.movements, o) = RowsOf(d.movements, o)
<1> DEFINE f == Incoming(d, b, q)
           row == NewRow(f, type, b, q, NoRef)
           e == LogMovement(f, type, b, q, NoRef)
<1>1. /\ Sound(f) /\ Recorded(f)
      /\ Shifts(d, f, b, q)
      /\ \A n : n.id # NoMovement => ConsumedBy(f, n) = ConsumedBy(d, n)
      /\ f.movements = d.movements /\ f.lastMovement = d.lastMovement
      /\ f.negative = d.negative /\ f.orders = d.orders
  BY IncomingBrings
<1> HIDE DEF f
<1>2. type \in MovementType /\ q \in Int /\ NoRef \in Orders \cup {NoRef} BY DEF MovementType
<1>3. /\ row \in Movement /\ row \notin f.movements
      /\ e.movements = f.movements \cup {row}
      /\ e.lastMovement = f.lastMovement + 1
      /\ e.items = f.items /\ e.lots = f.lots
      /\ e.negative = f.negative /\ e.orders = f.orders
  BY <1>1, <1>2, LogMovementIs
<1>4. row.ref = NoRef /\ row.type \notin OrderTypes /\ row.option = b /\ row.qty = q
  BY DEF NewRow, OrderTypes
<1>5. Sound(e) BY <1>1, <1>2, LogMovementSound
<1> HIDE DEF e, row
<1>6. \A c \in Options : AvailableQuantity(e, c) =
        AvailableQuantity(d, c) + IF c = row.option THEN row.qty ELSE 0
  BY <1>1, <1>3, <1>4, SameItems DEF Shifts
<1>7. \A m \in d.movements : ConsumedBy(e, m) = ConsumedBy(d, m)
  <2> TAKE m \in d.movements
  <2>1. m.id # NoMovement BY DEF Recorded, NumberedOnce, NoMovement, Sound, Database
  <2> QED BY <1>1, <1>3, <2>1, SameItems
<1>8. Books(e) BY <1>1, <1>3, <1>4, <1>5, <1>6, <1>7, StockMoved
<1>9. \A o \in Orders : RowsOf(e.movements, o) = RowsOf(d.movements, o)
  BY <1>1, <1>3, <1>4, OrdersAssumption DEF RowsOf
<1> QED BY <1>1, <1>3, <1>8, <1>9 DEF e, f

\* Stock that is taken out, where there is enough.
LEMMA TakeOutBooks ==
  ASSUME NEW d, Sound(d), Recorded(d), Books(d), NEW type \in {"waste", "adjustment"},
         NEW b \in Options, NEW q \in Nat, Deficit(d, b, q) = 0
  PROVE  LET e == TakeOut(d, type, b, q)
         IN  /\ Books(e) /\ e.orders = d.orders
             /\ \A o \in Orders : RowsOf(e.movements, o) = RowsOf(d.movements, o)
<1> DEFINE f == LogMovement(d, type, b, -q, NoRef)
           row == NewRow(d, type, b, -q, NoRef)
           S == FifoTake(d, b, q)
           e == TakeOut(d, type, b, q)
<1>1. type \in MovementType /\ -q \in Int /\ NoRef \in Orders \cup {NoRef} BY DEF MovementType
<1>2. /\ row \in Movement /\ row \notin d.movements
      /\ f.movements = d.movements \cup {row}
      /\ f.lastMovement = d.lastMovement + 1
      /\ f.items = d.items /\ f.lots = d.lots
      /\ f.negative = d.negative /\ f.orders = d.orders
  BY <1>1, LogMovementIs
<1>3. Sound(f) /\ Sound(e) BY <1>1, LogMovementSound, TakeOutSound
<1>4. e = ConsumeItems(f, S, f.lastMovement)
  <2>1. FifoTake(f, b, q) = S BY <1>2, SameItems
  <2> QED BY <2>1 DEF TakeOut, ConsumeFifoItems
<1>5. S \subseteq AvailableItems(d, b) /\ Cardinality(S) \in Nat BY FifoTakeAtMost
<1>6. Cardinality(S) = q BY <1>5 DEF Deficit
<1>7. row.ref = NoRef /\ row.type \notin OrderTypes /\ row.option = b /\ row.qty = -q
      /\ row.id = d.lastMovement + 1
  BY DEF NewRow, OrderTypes
<1> HIDE DEF e, f, row, S
<1>8. f.lastMovement \in Nat /\ f.lastMovement # NoMovement
  BY <1>2 DEF NoMovement, Sound, Database
<1>9. S \subseteq AvailableItems(f, b) BY <1>2, <1>5, SameItems
<1>10. /\ Shifts(f, e, b, -Cardinality(S))
       /\ \A n : n.id = f.lastMovement => ConsumedBy(e, n) = ConsumedBy(f, n) \cup S
       /\ \A n : n.id # f.lastMovement => ConsumedBy(e, n) = ConsumedBy(f, n) \ S
       /\ e.movements = f.movements /\ e.lastMovement = f.lastMovement
       /\ e.negative = f.negative /\ e.orders = f.orders
  BY <1>3, <1>4, <1>8, <1>9, ConsumeItemsLeaves
<1>11. \A c \in Options : AvailableQuantity(e, c) =
         AvailableQuantity(d, c) + IF c = row.option THEN row.qty ELSE 0
  <2> TAKE c \in Options
  <2>1. AvailableQuantity(f, c) = AvailableQuantity(d, c) /\ AvailableQuantity(d, c) \in Nat
    BY <1>2, SameItems, AvailableFinite
  <2> QED BY <1>6, <1>7, <1>10, <2>1 DEF Shifts
<1>12. \A m \in d.movements : ConsumedBy(e, m) = ConsumedBy(d, m)
  <2> TAKE m \in d.movements
  <2>1. m.id # f.lastMovement /\ m.id # NoMovement
    BY <1>2 DEF Recorded, NumberedOnce, NoMovement, Sound, Database
  <2>2. ConsumedBy(f, m) = ConsumedBy(d, m) BY <1>2, SameItems
  <2>3. ConsumedBy(d, m) \cap S = {} BY <1>5, <2>1 DEF ConsumedBy, AvailableItems
  <2> QED BY <1>10, <2>1, <2>2, <2>3
<1>13. Books(e) BY <1>2, <1>3, <1>7, <1>10, <1>11, <1>12, StockMoved
<1>14. \A o \in Orders : RowsOf(e.movements, o) = RowsOf(d.movements, o)
  BY <1>2, <1>7, <1>10, OrdersAssumption DEF RowsOf
<1> QED BY <1>2, <1>10, <1>13, <1>14 DEF e

\* The rows of N are those of M and more of order o, for option b.
Adds(M, N, o, b) ==
  /\ M \subseteq N
  /\ \A m \in N \ M : m.ref = o /\ m.option = b

\* A line that does not raise is sold, however much of it was there.
LEMMA DeductLineBooks ==
  ASSUME BaseOptions = {}, NEW d, Sound(d), Recorded(d), Books(d), NEW o \in Orders,
         NEW line \in Line, ShouldConsumeFifo(d, o, line), ~LineRaises(d, o, line),
         \A m \in d.movements : m.ref = o => m.option # line.option,
         NEW e, e = DeductLine(d, o, line)
  PROVE  /\ Books(e) /\ e.orders = d.orders
         /\ Adds(d.movements, e.movements, o, line.option)
         /\ \A m \in e.movements \ d.movements : m.type # "restore_sale"
         /\ SoldAs(e.movements, o, line)
         /\ \A c \in Options \ {line.option} :
              AvailableQuantity(e, c) = AvailableQuantity(d, c)
<1> DEFINE b == line.option
           q == line.qty
           k == Deficit(d, b, q)
           S == FifoTake(d, b, q)
           f == LogMovement(d, "sale", b, -q, o)
           s == NewRow(d, "sale", b, -q, o)
           sold == SellLine(d, o, line)
           g == LogMovement(sold, "negative_sale", b, -k, o)
           n == NewRow(sold, "negative_sale", b, -k, o)
<1>1. b \in Options /\ q \in Nat /\ q > 0 /\ -q \in Int BY DEF Line
<1>2. k \in Nat /\ k <= q /\ -k \in Int BY <1>1, DeficitIs
<1>3. S \subseteq AvailableItems(d, b) /\ Cardinality(S) \in Nat /\ Cardinality(S) <= q
  BY <1>1, FifoTakeAtMost
<1>4. Cardinality(S) = q - k BY <1>1, <1>3 DEF Deficit
<1>5. "sale" \in MovementType /\ "negative_sale" \in MovementType
      /\ o \in Orders \cup {NoRef}
  BY DEF MovementType
<1> HIDE DEF b, q, k, S
<1>6. /\ s \in Movement /\ s \notin d.movements
      /\ f.movements = d.movements \cup {s}
      /\ f.lastMovement = d.lastMovement + 1
      /\ f.items = d.items /\ f.lots = d.lots
      /\ f.negative = d.negative /\ f.orders = d.orders
  BY <1>1, <1>5, LogMovementIs
<1>7. Sound(f) BY <1>1, <1>5, LogMovementSound
<1>8. sold = ConsumeItems(f, S, f.lastMovement)
  <2>1. FifoTake(f, b, q) = S BY <1>6, SameItems DEF S
  <2> QED BY <2>1 DEF SellLine, ConsumeFifoItems, b, q
<1>9. Recorded(sold)
  <2>1. Recorded(ConsumeItems(LogMovement(d, "sale", b, -q, o), S, d.lastMovement + 1))
    BY <1>1, <1>3, <1>5, OutflowRecorded
  <2> QED BY <1>6, <1>8, <2>1
<1>10. s.type = "sale" /\ s.ref = o /\ s.option = b /\ s.qty = -q
       /\ s.id = d.lastMovement + 1
  BY DEF NewRow
<1> HIDE DEF f, s
<1>11. f.lastMovement \in Nat /\ f.lastMovement # NoMovement
  BY <1>6 DEF NoMovement, Sound, Database
<1>12. S \subseteq AvailableItems(f, b) BY <1>3, <1>6, SameItems
<1>13. Sound(sold)
  <2>1. S \in SUBSET DOMAIN f.items /\ \A i \in S : f.items[i].by = NoMovement
    BY <1>12 DEF AvailableItems
  <2> QED BY <1>7, <1>8, <1>11, <2>1, ConsumeItemsSound
<1> HIDE DEF sold
<1>14. /\ Shifts(f, sold, b, -Cardinality(S))
       /\ \A x : x.id = f.lastMovement => ConsumedBy(sold, x) = ConsumedBy(f, x) \cup S
       /\ \A x : x.id # f.lastMovement => ConsumedBy(sold, x) = ConsumedBy(f, x) \ S
       /\ sold.movements = f.movements /\ sold.lastMovement = f.lastMovement
       /\ sold.negative = f.negative /\ sold.orders = f.orders
  <2> HIDE DEF n, g, b
  <2> QED BY ONLY <1>1, <1>7, <1>8, <1>11, <1>12, ConsumeItemsLeaves
<1>15. /\ n \in Movement /\ n \notin sold.movements
       /\ g.movements = sold.movements \cup {n}
       /\ g.lastMovement = sold.lastMovement + 1
       /\ g.items = sold.items /\ g.lots = sold.lots
       /\ g.negative = sold.negative /\ g.orders = sold.orders
  BY <1>1, <1>2, <1>5, <1>9, <1>13, LogMovementIs
<1>16. n.type = "negative_sale" /\ n.ref = o /\ n.option = b /\ n.qty = -k BY DEF NewRow
<1>17. e = IF k > 0 THEN UpsertNegativeBalance(g, b, k) ELSE sold
  BY DEF DeductLine, LineDeficit, LineRaises, OversellLine, b, q, k, sold
<1>18. Sound(g) BY <1>1, <1>2, <1>5, <1>13, LogMovementSound
<1>19. Sound(e) BY DeductLineSound
<1> HIDE DEF g, n
<1>20. /\ \A c \in Options \ {b} : BalanceRows(e, c) = BalanceRows(d, c)
       /\ IF k = 0 THEN e.negative = d.negative
          ELSE OwesInRow(e, b, k - Total(Owed(d.movements, b)))
       /\ e.items = sold.items /\ e.lots = sold.lots
       /\ e.movements = d.movements \cup {s} \cup IF k = 0 THEN {} ELSE {n}
       /\ e.orders = d.orders
  <2>1. CASE k = 0 BY <1>6, <1>14, <1>17, <2>1 DEF BalanceRows
  <2>2. CASE k # 0
    <3> DEFINE j == -Total(Owed(d.movements, b))
    <3>1. j \in Int /\ Total(Owed(d.movements, b)) \in Int
      BY RowsQuantified DEF Books, Sound, Database
    <3>2. OwesInRow(d, b, j) BY <1>1 DEF Books, Balanced
    <3>3. OwesInRow(g, b, j) BY <1>6, <1>14, <1>15, <3>2 DEF OwesInRow, BalanceRows
    <3>4. e = UpsertNegativeBalance(g, b, k) /\ g \in Database /\ k > 0
      BY <1>2, <1>17, <1>18, <2>2 DEF Sound
    <3> HIDE DEF j
    <3>5. /\ \A c \in Options \ {b} : BalanceRows(e, c) = BalanceRows(g, c)
          /\ OwesInRow(e, b, j + k)
          /\ e.items = g.items /\ e.lots = g.lots /\ e.orders = g.orders
          /\ e.movements = g.movements /\ e.lastMovement = g.lastMovement
      BY <1>1, <1>2, <3>1, <3>3, <3>4, UpsertOwes
    <3>6. j + k = k - Total(Owed(d.movements, b)) BY <1>2, <3>1 DEF j
    <3> QED BY <1>6, <1>14, <1>15, <2>2, <3>5, <3>6 DEF BalanceRows
  <2> QED BY <2>1, <2>2
<1>21. Shifts(d, e, b, k - q)
  <2> SUFFICES ASSUME NEW c \in Options
               PROVE  AvailableQuantity(e, c)
                        = AvailableQuantity(d, c) + IF c = b THEN k - q ELSE 0
    BY DEF Shifts
  <2>1. AvailableQuantity(e, c) = AvailableQuantity(sold, c)
        /\ AvailableQuantity(f, c) = AvailableQuantity(d, c)
    BY <1>6, <1>20, SameItems
  <2>2. AvailableQuantity(d, c) \in Nat BY AvailableFinite
  <2> QED BY <1>1, <1>2, <1>4, <1>14, <2>1, <2>2 DEF Shifts
<1>22. \A m \in d.movements : ConsumedBy(e, m) = ConsumedBy(d, m)
  <2> TAKE m \in d.movements
  <2>1. m.id # f.lastMovement /\ m.id # NoMovement
    BY <1>6 DEF Recorded, NumberedOnce, NoMovement, Sound, Database
  <2>2. ConsumedBy(f, m) = ConsumedBy(d, m) /\ ConsumedBy(e, m) = ConsumedBy(sold, m)
    BY <1>6, <1>20, SameItems
  <2>3. ConsumedBy(d, m) \cap S = {} BY <1>3, <2>1 DEF ConsumedBy, AvailableItems
  <2> QED BY <1>14, <2>1, <2>2, <2>3
<1>23. Cardinality(ConsumedBy(e, s)) = q - k
  <2>1. ConsumedBy(d, s) = {} BY <1>10, NewRowIsClear
  <2>2. ConsumedBy(f, s) = ConsumedBy(d, s) /\ ConsumedBy(e, s) = ConsumedBy(sold, s)
    BY <1>6, <1>20, SameItems
  <2>3. ConsumedBy(e, s) = S BY <1>6, <1>10, <1>14, <2>1, <2>2
  <2> QED BY <1>4, <2>3
<1>24. \A c \in Options : AvailableQuantity(e, c) =
         AvailableQuantity(d, c) - IF c = b THEN q - k ELSE 0
  <2> TAKE c \in Options
  <2>1. AvailableQuantity(d, c) \in Nat BY AvailableFinite
  <2> QED BY <1>1, <1>2, <1>21, <2>1 DEF Shifts
<1>25. n \notin d.movements \cup {s} /\ \A m \in d.movements : m.ref = o => m.option # b
  BY <1>6, <1>14, <1>15 DEF b
<1>26. Books(e)
  BY ONLY <1>1, <1>2, <1>6, <1>10, <1>15, <1>16, <1>19, <1>20, <1>22, <1>23, <1>24,
          <1>25, Sound(d), Books(d), o \in Orders, LineSold
<1>27. Adds(d.movements, e.movements, o, line.option) BY <1>10, <1>16, <1>20 DEF Adds, b
<1>28. SoldAs(e.movements, o, line) BY <1>10, <1>20 DEF SoldAs, b, q
<1>29. \A c \in Options \ {line.option} :
         AvailableQuantity(e, c) = AvailableQuantity(d, c)
  <2> TAKE c \in Options \ {line.option}
  <2>1. AvailableQuantity(d, c) \in Nat /\ c # b BY AvailableFinite DEF b
  <2> QED BY <1>24, <2>1
<1>30. \A m \in e.movements \ d.movements : m.type # "restore_sale" BY <1>10, <1>16, <1>20
<1> QED BY <1>20, <1>26, <1>27, <1>28, <1>29, <1>30

\* A sale restored by what is oversold of it.
LEMMA RestoreSaleBooks ==
  ASSUME NEW d, Sound(d), Recorded(d), Books(d), NEW o \in Orders,
         NEW m \in d.movements, m.type = "sale", m.ref = o, ~Back(d.movements, m),
         NEW k, k = OversoldOf(d, o, m), NEW e, e = RestoreSale(d, o, m, k)
  PROVE  /\ Books(e) /\ e.orders = d.orders
         /\ \E row : /\ e.movements = d.movements \cup {row}
                     /\ row.type = "restore_sale" /\ row.ref = o /\ row.option = m.option
<1> DEFINE b == m.option
           returned == -m.qty - k
           j == -Total(Owed(d.movements, b))
           f == LogMovement(d, "restore_sale", b, -m.qty, o)
           row == NewRow(d, "restore_sale", b, -m.qty, o)
           g == Incoming(f, b, returned)
<1>1. m \in Movement /\ b \in Options /\ m.qty \in Int /\ -m.qty \in Int
      /\ d.movements \in SUBSET Movement /\ IsFiniteSet(d.movements)
  BY DEF Books, Sound, Database, Movement
<1>2. "restore_sale" \in MovementType /\ o \in Orders \cup {NoRef} BY DEF MovementType
<1>3. /\ \A n \in d.movements :
           n.type = "negative_sale" /\ n.ref = o /\ n.option = m.option =>
             OversoldOf(d, o, m) = -n.qty
      /\ (\A n \in d.movements :
            ~(n.type = "negative_sale" /\ n.ref = o /\ n.option = m.option)) =>
           OversoldOf(d, o, m) = 0
  BY OversoldIs DEF Books
<1>4. j \in Int BY <1>1, RowsQuantified
<1>5. k \in Nat /\ (k > 0 => j # 0 /\ k <= j)
  <2>1. CASE \A n \in d.movements :
               ~(n.type = "negative_sale" /\ n.ref = o /\ n.option = m.option)
    BY <1>3, <2>1
  <2>2. CASE \E n \in d.movements :
               n.type = "negative_sale" /\ n.ref = o /\ n.option = m.option
    <3>1. PICK n \in d.movements :
                 n.type = "negative_sale" /\ n.ref = o /\ n.option = m.option
      BY <2>2
    <3>2. k = -n.qty /\ n.qty \in Int BY <1>1, <1>3, <3>1 DEF Movement
    <3>3. ~Back(d.movements, n) BY <3>1 DEF Back, SameKey
    <3>4. Total(Owed(d.movements, n.option)) <= n.qty /\ n.qty < 0 BY <3>1, <3>3, OwedAtLeast
    <3>5. Total(Owed(d.movements, b)) \in Int /\ n.option = b BY <1>1, <3>1, RowsQuantified
    <3> QED BY <3>2, <3>4, <3>5
  <2> QED BY <2>1, <2>2
<1>6. returned \in Nat
  <2>1. Cardinality(ConsumedBy(d, m)) = -m.qty - k BY DEF Books, Filled
  <2>2. Cardinality(ConsumedBy(d, m)) \in Nat BY ItemSets DEF ConsumedBy, Sound
  <2> QED BY <2>1, <2>2
<1>7. e = IF k > 0 THEN ReduceNegativeBalance(g, b, k) ELSE g BY DEF RestoreSale, Incoming
<1>8. /\ row \in Movement /\ row \notin d.movements
      /\ f.movements = d.movements \cup {row}
      /\ f.lastMovement = d.lastMovement + 1
      /\ f.items = d.items /\ f.lots = d.lots
      /\ f.negative = d.negative /\ f.orders = d.orders
  BY <1>1, <1>2, LogMovementIs
<1>9. row.type = "restore_sale" /\ row.ref = o /\ row.option = b /\ row.qty = -m.qty BY DEF NewRow
<1>10. Sound(f) /\ Recorded(f) BY <1>1, <1>2, LogMovementSound, LogMovementRecorded
<1>11. Sound(e) BY <1>1, <1>5, RestoreSaleSound
<1> HIDE DEF b, f, row, j, returned
<1>12. /\ Sound(g) /\ Recorded(g)
       /\ Shifts(f, g, b, returned)
       /\ \A n : n.id # NoMovement => ConsumedBy(g, n) = ConsumedBy(f, n)
       /\ g.movements = f.movements /\ g.lastMovement = f.lastMovement
       /\ g.negative = f.negative /\ g.orders = f.orders
  BY <1>1, <1>6, <1>10, IncomingBrings
<1> HIDE DEF g
<1>13. /\ \A c \in Options \ {b} : BalanceRows(e, c) = BalanceRows(d, c)
       /\ IF k = 0 THEN e.negative = d.negative ELSE OwesInRow(e, b, j - k)
       /\ e.items = g.items /\ e.lots = g.lots
       /\ e.movements = g.movements /\ e.orders = g.orders
  <2>1. CASE k = 0 BY <1>7, <1>8, <1>12, <2>1 DEF BalanceRows
  <2>2. CASE k # 0
    <3>1. OwesInRow(d, b, j) BY <1>1 DEF Books, Balanced, j, b
    <3>2. OwesInRow(g, b, j) BY <1>8, <1>12, <3>1 DEF OwesInRow, BalanceRows
    <3>3. k > 0 /\ k \in Int /\ g \in Database /\ e = ReduceNegativeBalance(g, b, k)
      BY <1>5, <1>7, <1>12, <2>2 DEF Sound
    <3>4. /\ \A c \in Options \ {b} : BalanceRows(e, c) = BalanceRows(g, c)
          /\ OwesInRow(e, b, j - k)
          /\ e.items = g.items /\ e.lots = g.lots /\ e.orders = g.orders
          /\ e.movements = g.movements /\ e.lastMovement = g.lastMovement
      BY <1>1, <1>4, <1>5, <3>2, <3>3, ReduceOwes
    <3> QED BY <1>8, <1>12, <2>2, <3>4 DEF BalanceRows
  <2> QED BY <2>1, <2>2
<1>14. \A c \in Options : AvailableQuantity(e, c) =
         AvailableQuantity(d, c) + IF c = b THEN returned ELSE 0
  <2> TAKE c \in Options
  <2>1. AvailableQuantity(e, c) = AvailableQuantity(g, c)
        /\ AvailableQuantity(f, c) = AvailableQuantity(d, c)
    BY <1>8, <1>13, SameItems
  <2> QED BY <1>12, <2>1 DEF Shifts
<1>15. \A x \in d.movements : ConsumedBy(e, x) = ConsumedBy(d, x)
  <2> TAKE x \in d.movements
  <2>1. x.id # NoMovement BY DEF Recorded, NumberedOnce, NoMovement, Sound, Database
  <2>2. ConsumedBy(e, x) = ConsumedBy(g, x) /\ ConsumedBy(f, x) = ConsumedBy(d, x)
    BY <1>8, <1>13, SameItems
  <2> QED BY <1>12, <2>1, <2>2
<1>16. e.movements = d.movements \cup {row} BY <1>8, <1>12, <1>13
<1>17. Books(e)
  <2>1. IF k = 0 THEN e.negative = d.negative
        ELSE OwesInRow(e, m.option, -Total(Owed(d.movements, m.option)) - k)
    BY <1>13 DEF j, b
  <2>2. \A c \in Options : AvailableQuantity(e, c) =
          AvailableQuantity(d, c) + IF c = m.option THEN -m.qty - k ELSE 0
    BY <1>14 DEF b, returned
  <2>3. \A c \in Options \ {m.option} : BalanceRows(e, c) = BalanceRows(d, c) BY <1>13 DEF b
  <2>4. row.option = m.option BY <1>9 DEF b
  <2> QED BY <1>5, <1>8, <1>9, <1>11, <1>15, <1>16, <2>1, <2>2, <2>3, <2>4, SaleRestored
<1> QED BY <1>8, <1>9, <1>12, <1>13, <1>16, <1>17 DEF b

\* The stock an order took, given back, and its sales deleted.
LEMMA EditBooks ==
  ASSUME NEW d, Sound(d), Recorded(d), Books(d), NEW o \in Orders,
         \A m \in RowsOf(d.movements, o) : m.type = "sale",
         NEW e, e = DeleteSales(ReleaseSales(d, o), o)
  PROVE  /\ Books(e) /\ e.orders = d.orders
         /\ e.movements = d.movements \ RowsOf(d.movements, o)
         /\ \A c \in Options : AvailableItems(d, c) \subseteq AvailableItems(e, c)
<1> DEFINE S == ConsumedBySales(d, o)
           f == ReleaseSales(d, o)
<1>1. S \in SUBSET DOMAIN d.items /\ \A i \in S : d.items[i].by # NoMovement
  BY DEF ConsumedBySales
<1>2. Sound(f) /\ Sound(e) BY ReleaseSalesSound, DeleteSalesSound
<1>3. f = ReleaseItems(d, S) BY DEF ReleaseSales
<1> HIDE DEF f
<1>4. /\ \A c \in Options : AvailableQuantity(f, c) =
           AvailableQuantity(d, c) + Cardinality({i \in S : OptionOf(d, i) = c})
      /\ \A c \in Options : AvailableItems(d, c) \subseteq AvailableItems(f, c)
      /\ \A n : n.id # NoMovement => ConsumedBy(f, n) = ConsumedBy(d, n) \ S
      /\ f.movements = d.movements /\ f.lastMovement = d.lastMovement
      /\ f.negative = d.negative /\ f.orders = d.orders
  <2> HIDE DEF S
  <2> QED BY <1>1, <1>3, ReleaseItemsBrings
<1>5. /\ e.items = f.items /\ e.lots = f.lots
      /\ e.negative = f.negative /\ e.orders = f.orders
      /\ e.movements = f.movements
           \ {m \in f.movements : m.ref = o /\ m.type \in {"sale", "negative_sale"}}
  <2>1. e = DeleteSales(f, o) /\ f \in Database BY <1>2 DEF Sound, f
  <2> QED BY <2>1 DEF DeleteSales, Database
<1>6. e.movements = d.movements \ RowsOf(d.movements, o) BY <1>4, <1>5 DEF RowsOf
<1>7. \A c \in Options : AvailableQuantity(e, c) = AvailableQuantity(d, c)
        + Cardinality({i \in ConsumedBySales(d, o) : OptionOf(d, i) = c})
  <2> TAKE c \in Options
  <2>1. AvailableQuantity(e, c) = AvailableQuantity(f, c) BY <1>5, SameItems
  <2> QED BY <1>4, <2>1
<1>8. \A m \in e.movements : ConsumedBy(e, m) = ConsumedBy(d, m)
  <2> TAKE m \in e.movements
  <2>1. m \in d.movements /\ m.ref # o BY <1>6 DEF RowsOf
  <2>2. m.id # NoMovement BY <2>1 DEF Recorded, NumberedOnce, NoMovement, Sound, Database
  <2>3. ConsumedBy(d, m) \cap S = {}
    <3> SUFFICES ASSUME NEW i \in ConsumedBy(d, m), i \in S PROVE FALSE
      OBVIOUS
    <3>1. PICK n \in d.movements : n.ref = o /\ n.id = d.items[i].by
      BY DEF ConsumedBySales, MovementsOf
    <3>2. n.id = m.id BY <3>1 DEF ConsumedBy
    <3> QED BY <2>1, <3>1, <3>2 DEF Recorded, NumberedOnce
  <2>4. ConsumedBy(e, m) = ConsumedBy(f, m) BY <1>5, SameItems
  <2>5. ConsumedBy(f, m) = ConsumedBy(d, m) \ S BY <1>4, <2>2
  <2> QED BY <2>3, <2>4, <2>5
<1>9. e.negative = d.negative BY <1>4, <1>5
<1>10. Books(e)
  <2>1. Sound(d) /\ Recorded(d) /\ Books(d) /\ o \in Orders
        /\ \A m \in RowsOf(d.movements, o) : m.type = "sale"
    OBVIOUS
  <2> QED BY ONLY <2>1, <1>2, <1>6, <1>7, <1>8, <1>9, SalesForgotten
<1>11. \A c \in Options : AvailableItems(d, c) \subseteq AvailableItems(e, c)
  <2> TAKE c \in Options
  <2>1. AvailableItems(e, c) = AvailableItems(f, c) BY <1>5, SameItems
  <2> QED BY <1>4, <2>1
<1> QED BY <1>4, <1>5, <1>6, <1>10, <1>11

-----------------------------------------------------------------------------
\* Where an order stands depends on its rows alone.
LEMMA SameStands ==
  ASSUME NEW M, NEW N, NEW o, RowsOf(N, o) = RowsOf(M, o), NEW status, NEW lines,
         NEW rest, NEW due, Stands(M, o, status, lines, rest, due)
  PROVE  Stands(N, o, status, lines, rest, due)
<1>1. \A line : SoldAs(M, o, line) <=> SoldAs(N, o, line) BY DEF SoldAs, RowsOf
<1>2. Taking(M, o, lines, rest) => Taking(N, o, lines, rest) BY <1>1 DEF Taking
<1>3. \A m \in RowsOf(M, o) : Back(M, m) <=> Back(N, m) BY DEF Back, SameKey, RowsOf
<1>4. Unrestored(N, o) = Unrestored(M, o) BY <1>3 DEF Unrestored, RowsOf
<1> QED BY <1>2, <1>4 DEF Stands

LEMMA UnrestoredAre ==
  ASSUME NEW d, NEW o
  PROVE  Unrestored(d.movements, o)
           = {m \in MovementsOf(d, o, "sale") : ~AlreadyRestored(d, o, m)}
BY DEF Unrestored, MovementsOf, AlreadyRestored, Back, SameKey

\* A live or a new order has restored nothing.
LEMMA NoneRestored ==
  ASSUME NEW d, NEW o, NEW status, NEW lines, NEW rest, NEW due,
         Stands(d.movements, o, status, lines, rest, due),
         status \in Live \cup {"new", "absent"}
  PROVE  /\ Unrestored(d.movements, o) = MovementsOf(d, o, "sale")
         /\ \A m \in RowsOf(d.movements, o) : m.type # "restore_sale"
<1>1. \A m \in RowsOf(d.movements, o) : m.type # "restore_sale" BY DEF Stands, Taking
<1> QED BY <1>1 DEF Unrestored, MovementsOf, Back, SameKey, RowsOf

\* Nothing was taken for an order that has no rows.
LEMMA NothingTaken ==
  ASSUME NEW M, NEW o, RowsOf(M, o) = {}, NEW lines, OneLineEach(lines),
         NEW status, status \in Live
  PROVE  Stands(M, o, status, lines, lines, {})
BY DEF Stands, Taking, Lists, Live

\* All of its stock was taken for a live order.
LEMMA AllTaken ==
  ASSUME NEW d, NEW o, NEW lines \in Seq(Line),
         NEW status, status \in Live, Stands(d.movements, o, status, lines, <<>>, {}),
         ~OrderSaleWasDeducted(d, o)
  PROVE  lines = <<>> /\ RowsOf(d.movements, o) = {}
<1>1. Taking(d.movements, o, lines, <<>>) BY DEF Stands
<1>2. \A b : ~Lists(<<>>, b) BY DEF Lists
<1>3. \A k \in DOMAIN lines : FALSE
  BY <1>1, <1>2 DEF Taking, SoldAs, OrderSaleWasDeducted, MovementsOf
<1>4. lines = <<>>
  <2>1. Len(lines) \in Nat /\ DOMAIN lines = 1..Len(lines) OBVIOUS
  <2>2. Len(lines) # 0 => 1 \in DOMAIN lines BY <2>1
  <2>3. Len(lines) = 0 BY <1>3, <2>2
  <2> QED BY <2>3
<1> QED BY <1>1, <1>3, <1>4 DEF Taking, Lists

\* The sales that cancelling an order restores.
LEMMA SalesToRestoreAre ==
  ASSUME NEW d, Sound(d), NEW o, NEW status \in Statuses, NEW lines,
         Stands(d.movements, o, status, lines, <<>>, {})
  PROVE  SalesToRestore(d, o) = Unrestored(d.movements, o)
<1> DEFINE sales == MovementsOf(d, o, "sale")
           due == {m \in sales : ~AlreadyRestored(d, o, m)}
<1>1. SalesToRestore(d, o) = {m \in sales : \E x \in due : ById(x, due) /\ x.id <= m.id}
  BY DEF SalesToRestore
<1>2. due = Unrestored(d.movements, o) BY UnrestoredAre
<1>3. CASE status = "cancelled"
  <2>1. due = {} BY <1>2, <1>3 DEF Stands
  <2> HIDE DEF due
  <2> QED BY <1>1, <1>2, <2>1
<1>4. CASE status # "cancelled"
  <2>1. status \in Live \cup {"new", "absent"} BY <1>4, StatusValues DEF Live
  <2>2. due = sales BY <1>2, <2>1, NoneRestored
  <2>3. sales \in SUBSET Movement BY DEF MovementsOf, Sound, Database
  <2> HIDE DEF due, sales
  <2>4. CASE due = {} BY <1>1, <1>2, <2>2, <2>4
  <2>5. CASE due # {}
    <3>1. PICK x \in due : ById(x, due) BY <2>2, <2>3, <2>5, FirstRow DEF Movement
    <3> QED BY <1>1, <1>2, <2>2, <3>1 DEF ById
  <2> QED BY <2>4, <2>5
<1> QED BY <1>3, <1>4

\* Databases that differ in one order's rows.
LEMMA ApartRows ==
  ASSUME NEW d, NEW e, NEW o, Apart(d, e, o), NEW p \in Orders \ {o}
  PROVE  RowsOf(e.movements, p) = RowsOf(d.movements, p) /\ e.orders[p] = d.orders[p]
<1>1. RowsOf(e.movements, p) = RowsOf(e.movements \ RowsOf(e.movements, o), p)
      /\ RowsOf(d.movements, p) = RowsOf(d.movements \ RowsOf(d.movements, o), p)
  BY DEF RowsOf
<1> QED BY <1>1 DEF Apart

LEMMA SameApart ==
  ASSUME NEW b, NEW d, NEW e, NEW o, Apart(b, d, o), Apart(d, e, o)
  PROVE  Apart(b, e, o)
BY DEF Apart

LEMMA AddsApart ==
  ASSUME NEW d, NEW e, NEW o, e.orders = d.orders, d.movements \subseteq e.movements,
         \A m \in e.movements \ d.movements : m.ref = o
  PROVE  Apart(d, e, o)
BY DEF Apart, RowsOf

-----------------------------------------------------------------------------
\* The steps of a write phase.
LEMMA BecomesStatus ==
  ASSUME NEW d, Sound(d), NEW r \in WriteRest
  PROVE  /\ Becomes(d, r) \in Statuses \cup {"absent"}
         /\ d.orders[r.order].lines \in Seq(Line)
<1>1. d.orders[r.order] \in Order /\ r.target \in Statuses BY DEF WriteRest, Sound, Database
<1> QED BY <1>1 DEF Becomes, Order

\* Where nothing is left to sell or to restore but of a live or a cancelled order.
LEMMA LeftOf ==
  ASSUME NEW M, NEW o, NEW status \in Statuses \cup {"absent"}, NEW lines, NEW rest,
         NEW due, Stands(M, o, status, lines, rest, due)
  PROVE  /\ rest # <<>> => status \in Live /\ Taking(M, o, lines, rest) /\ due = {}
         /\ due # {} => status = "cancelled" /\ rest = <<>> /\ due = Unrestored(M, o)
BY StatusValues DEF Stands, Live

LEMMA TailOf ==
  ASSUME NEW s \in Seq(Line), s # <<>>
  PROVE  /\ Head(s) \in Line /\ Tail(s) \in Seq(Line)
         /\ 1 \in DOMAIN s /\ s[1] = Head(s)
         /\ \A k \in DOMAIN Tail(s) : k + 1 \in DOMAIN s /\ k + 1 # 1 /\ Tail(s)[k] = s[k + 1]
         /\ \A k \in DOMAIN s : k = 1 \/ \E j \in DOMAIN Tail(s) : Tail(s)[j] = s[k]
<1>1. /\ Head(s) \in Line /\ Tail(s) \in Seq(Line)
      /\ 1 \in DOMAIN s /\ s[1] = Head(s)
      /\ DOMAIN s = 1..Len(s) /\ Len(s) \in Nat /\ Len(s) # 0
      /\ DOMAIN Tail(s) = 1..(Len(s) - 1)
      /\ \A k \in 1..(Len(s) - 1) : Tail(s)[k] = s[k + 1]
  OBVIOUS
<1>2. \A k \in DOMAIN Tail(s) : k + 1 \in DOMAIN s /\ k + 1 # 1 /\ Tail(s)[k] = s[k + 1] BY <1>1
<1>3. ASSUME NEW k \in DOMAIN s, k # 1
      PROVE  \E j \in DOMAIN Tail(s) : Tail(s)[j] = s[k]
  <2>1. k - 1 \in 1..(Len(s) - 1) /\ (k - 1) + 1 = k BY <1>1, <1>3
  <2> QED BY <1>1, <2>1
<1> QED BY <1>1, <1>2, <1>3

LEMMA DeductPhase ==
  ASSUME BaseOptions = {}, NEW b, NEW d, Sound(d), Recorded(d),
         NEW r \in WriteRest, ~r.forget, r.lines # <<>>, Phase(b, d, r),
         ~LineRaises(d, r.order, Head(r.lines)),
         NEW e, e = DeductLine(d, r.order, Head(r.lines)),
         NEW s, s = [r EXCEPT !.lines = Tail(@)]
  PROVE  Phase(b, e, s)
<1> DEFINE o == r.order
           line == Head(r.lines)
           lines == d.orders[o].lines
           rest == r.lines
           M == d.movements
           t == Tail(rest)
           status == Becomes(d, r)
<1>1. /\ o \in Orders /\ rest \in Seq(Line)
      /\ s.order = o /\ s.lines = t /\ s.sales = r.sales /\ s.op = r.op
      /\ s.target = r.target /\ s.swallow = r.swallow /\ s.negatives = r.negatives
      /\ s.forget = r.forget
  BY DEF WriteRest
<1>2. /\ line \in Line /\ t \in Seq(Line)
      /\ 1 \in DOMAIN rest /\ rest[1] = line
      /\ \A k \in DOMAIN t :
           k + 1 \in DOMAIN rest /\ k + 1 # 1 /\ t[k] = rest[k + 1]
      /\ \A k \in DOMAIN rest : k = 1 \/ \E j \in DOMAIN t : t[j] = rest[k]
  BY <1>1, TailOf
<1> HIDE DEF t
<1>3. Working(d, r) = d /\ Working(e, s) = e BY <1>1 DEF Working
<1>4. /\ r.negatives = {} /\ Books(d) /\ Orderly(d) /\ Apart(b, d, o)
      /\ Stands(M, o, status, lines, rest, r.sales)
      /\ r.swallow => \A k \in DOMAIN rest : ~LineRaises(d, o, rest[k])
  BY <1>3 DEF Phase
<1>5. status \in Statuses \cup {"absent"} BY BecomesStatus
<1> HIDE DEF status
<1>6. status \in Live /\ Taking(M, o, lines, rest) /\ r.sales = {}
  <2>1. rest # <<>> OBVIOUS
  <2> HIDE DEF rest, lines, M, o, line
  <2> QED BY ONLY <1>4, <1>5, <2>1, LeftOf
<1>7. PICK j \in DOMAIN lines : lines[j] = line BY <1>2, <1>6 DEF Taking
<1>8. OneLineEach(rest) /\ OneLineEach(lines) /\ ShouldConsumeFifo(d, o, line)
  BY <1>1, <1>4, <1>6, <1>7
     DEF Taking, Orderly, OrderlyForm, Stocked, ShouldConsumeFifo
<1>9. Lists(rest, line.option) /\ Lists(lines, line.option) BY <1>2, <1>7 DEF Lists
<1>10. \A m \in M : m.ref = o => m.option # line.option BY <1>6, <1>9 DEF Taking, RowsOf
<1> HIDE DEF lines, rest, line, o, t
<1>11. ~LineRaises(d, o, line) /\ e = DeductLine(d, o, line) BY DEF line, rest, o
<1>12. /\ Books(e) /\ e.orders = d.orders
       /\ Adds(d.movements, e.movements, o, line.option)
       /\ \A m \in e.movements \ d.movements : m.type # "restore_sale"
       /\ SoldAs(e.movements, o, line)
       /\ \A c \in Options \ {line.option} :
            AvailableQuantity(e, c) = AvailableQuantity(d, c)
  BY <1>1, <1>2, <1>4, <1>8, <1>10, <1>11, DeductLineBooks
<1>13. ~Lists(t, line.option) /\ \A c : Lists(t, c) => Lists(rest, c)
  <2>1. ASSUME NEW k \in DOMAIN t, t[k].option = line.option PROVE FALSE
    <3>1. k + 1 \in DOMAIN rest /\ rest[k + 1].option = rest[1].option BY <1>2, <2>1
    <3>2. k + 1 = 1 BY <1>2, <1>8, <3>1 DEF OneLineEach
    <3> QED BY <1>2, <3>2
  <2> QED BY <1>2, <2>1 DEF Lists
<1>14. Taking(e.movements, o, lines, t)
  <2>1. \A k \in DOMAIN t : \E i \in DOMAIN lines : lines[i] = t[k] BY <1>2, <1>6 DEF Taking
  <2>2. OneLineEach(t)
    <3> SUFFICES ASSUME NEW i \in DOMAIN t, NEW k \in DOMAIN t,
                        t[i].option = t[k].option
                 PROVE  i = k
      BY DEF OneLineEach
    <3>1. i + 1 = k + 1 BY <1>2, <1>8 DEF OneLineEach
    <3>2. t \in Seq(Line) BY <1>2
    <3>3. i \in Int /\ k \in Int BY <3>2
    <3> QED BY <3>1, <3>3
  <2>3. ASSUME NEW m \in RowsOf(e.movements, o)
        PROVE  /\ m.type # "restore_sale"
               /\ Lists(lines, m.option) /\ ~Lists(t, m.option)
    <3>1. CASE m \in d.movements BY <1>6, <1>13, <3>1 DEF Taking, RowsOf
    <3>2. CASE m \notin d.movements BY <1>9, <1>12, <1>13, <3>2 DEF Adds, RowsOf
    <3> QED BY <3>1, <3>2
  <2>4. ASSUME NEW k \in DOMAIN lines
        PROVE  Lists(t, lines[k].option) \/ SoldAs(e.movements, o, lines[k])
    <3>1. CASE SoldAs(M, o, lines[k]) BY <1>12, <3>1 DEF SoldAs, Adds
    <3>2. CASE Lists(rest, lines[k].option)
      <4>1. PICK i \in DOMAIN rest : rest[i].option = lines[k].option BY <3>2 DEF Lists
      <4>2. CASE i = 1
        <5>1. k = j BY <1>2, <1>7, <1>8, <4>1, <4>2 DEF OneLineEach
        <5> QED BY <1>7, <1>12, <5>1
      <4>3. CASE i # 1 BY <1>2, <4>1, <4>3 DEF Lists
      <4> QED BY <4>2, <4>3
    <3> QED BY <1>6, <3>1, <3>2 DEF Taking
  <2> QED BY <2>1, <2>2, <2>3, <2>4 DEF Taking
<1>15. status \notin {"cancelled", "new", "absent"} BY <1>6 DEF Live
<1>16. Stands(e.movements, o, status, lines, t, {}) BY <1>14, <1>15 DEF Stands
<1>17. Apart(b, e, o)
  <2>1. Apart(d, e, o) BY <1>12, AddsApart DEF Adds
  <2> QED BY <1>4, <2>1, SameApart
<1>18. ASSUME r.swallow, NEW k \in DOMAIN t
       PROVE  ~LineRaises(e, o, t[k])
  <2> DEFINE x == t[k]
  <2>1. ~LineRaises(d, o, x) BY <1>2, <1>4, <1>18
  <2>2. x \in Line /\ x.option \in Options /\ x.qty \in Nat
    <3>1. t \in Seq(Line) BY <1>2
    <3>2. x \in Line BY <3>1
    <3> HIDE DEF x
    <3> QED BY <3>2 DEF Line
  <2>3. x.option # line.option BY <1>13 DEF Lists
  <2>4. AvailableQuantity(e, x.option) = AvailableQuantity(d, x.option) BY <1>12, <2>2, <2>3
  <2>5. Sound(e) BY <1>1, <1>2, <1>11, DeductLineSound
  <2> HIDE DEF x
  <2>6. Deficit(e, x.option, x.qty) > 0 <=> Deficit(d, x.option, x.qty) > 0
    BY <2>2, <2>4, <2>5, DeficitIs
  <2>7. ~LineRaises(e, o, x)
    BY <1>12, <2>1, <2>6 DEF LineRaises, LineDeficit, ShouldConsumeFifo, AllowNegative
  <2> QED BY <2>7 DEF x
<1>19. Orderly(e) BY <1>4, <1>12 DEF Orderly
<1>20. Becomes(e, s) = status /\ e.orders[o].lines = lines
  BY <1>1, <1>12 DEF Becomes, status, lines, o
<1>21. \A k \in DOMAIN s.lines : s.swallow => ~LineRaises(e, o, s.lines[k]) BY <1>1, <1>18
<1> QED BY <1>1, <1>3, <1>4, <1>6, <1>12, <1>16, <1>17, <1>19, <1>20, <1>21 DEF Phase

LEMMA RestorePhase ==
  ASSUME NEW b, NEW d, Sound(d), Recorded(d),
         NEW r \in WriteRest, ~r.forget, Phase(b, d, r), NEW m \in r.sales,
         NEW e, e = IF AlreadyRestored(d, r.order, m) THEN d
                    ELSE RestoreSale(d, r.order, m, OversoldOf(d, r.order, m)),
         NEW s, s = [r EXCEPT !.sales = @ \ {m}]
  PROVE  /\ Phase(b, e, s)
         /\ e = RestoreSale(d, r.order, m, OversoldOf(d, r.order, m))
<1> DEFINE o == r.order
           lines == d.orders[o].lines
           M == d.movements
           due == r.sales
           left == due \ {m}
           status == Becomes(d, r)
<1>1. /\ o \in Orders
      /\ s.order = o /\ s.lines = r.lines /\ s.sales = left /\ s.op = r.op
      /\ s.target = r.target /\ s.swallow = r.swallow /\ s.negatives = r.negatives
      /\ s.forget = r.forget
  BY DEF WriteRest
<1>2. Working(d, r) = d /\ Working(e, s) = e BY <1>1 DEF Working
<1>3. /\ r.negatives = {} /\ Books(d) /\ Orderly(d) /\ Apart(b, d, o)
      /\ Stands(M, o, status, lines, r.lines, due)
  BY <1>2 DEF Phase
<1>4. status \in Statuses \cup {"absent"} BY BecomesStatus
<1> HIDE DEF status
<1>5. status = "cancelled" /\ r.lines = <<>> /\ due = Unrestored(M, o)
  <2>1. due # {} OBVIOUS
  <2> HIDE DEF lines, M, o, due
  <2> QED BY ONLY <1>3, <1>4, <2>1, LeftOf
<1>6. m \in M /\ m.type = "sale" /\ m.ref = o /\ ~Back(M, m) BY <1>5 DEF Unrestored
<1>7. ~AlreadyRestored(d, o, m) BY <1>6 DEF AlreadyRestored, Back, SameKey, MovementsOf
<1> DEFINE k == OversoldOf(d, o, m)
<1>8. e = RestoreSale(d, o, m, k) BY <1>7
<1> HIDE DEF k
<1>9. /\ Books(e) /\ e.orders = d.orders
      /\ \E row : /\ e.movements = d.movements \cup {row}
                  /\ row.type = "restore_sale" /\ row.ref = o /\ row.option = m.option
  BY <1>1, <1>3, <1>6, <1>8, RestoreSaleBooks DEF k
<1>10. PICK row : /\ e.movements = M \cup {row}
                  /\ row.type = "restore_sale" /\ row.ref = o /\ row.option = m.option
  BY <1>9
<1> HIDE DEF o, lines, M, due
<1>11. Unrestored(e.movements, o) = left
  <2>1. \A n \in M : n.type = "sale" /\ n.ref = o /\ n.option = m.option => n = m
    BY <1>3, <1>6 DEF Books, Kinds, OrderTypes, SameKey, M
  <2>2. \A n : Back(e.movements, n) <=> Back(M, n) \/ SameKey(row, n) BY <1>10 DEF Back
  <2>3. \A n \in M : n.type = "sale" /\ n.ref = o => (SameKey(row, n) <=> n = m)
    BY <1>6, <1>10, <2>1 DEF SameKey
  <2> QED BY <1>5, <1>6, <1>10, <2>2, <2>3 DEF Unrestored
<1>12. Stands(e.movements, o, status, lines, <<>>, left) BY <1>5, <1>11 DEF Stands, Live
<1>13. Apart(b, e, o)
  <2>1. Apart(d, e, o) BY <1>9, <1>10, AddsApart DEF M
  <2> QED BY <1>3, <2>1, SameApart
<1>14. Orderly(e) /\ Becomes(e, s) = status /\ e.orders[o].lines = lines
  BY <1>1, <1>3, <1>9 DEF Orderly, Becomes, status, lines, o
<1>15. \A x \in DOMAIN r.lines : FALSE BY <1>5
<1>16. Phase(b, e, s) BY <1>1, <1>2, <1>3, <1>5, <1>9, <1>12, <1>13, <1>14, <1>15 DEF Phase
<1> QED BY <1>8, <1>16 DEF k, o

LEMMA ForgetPhase ==
  ASSUME NEW b, NEW d, Sound(d), NEW r \in WriteRest, r.forget, Phase(b, d, r),
         NEW e, e = DeleteSales(d, r.order), NEW s, s = [r EXCEPT !.forget = FALSE]
  PROVE  Phase(b, e, s)
<1>1. /\ s.order = r.order /\ s.lines = r.lines /\ s.sales = r.sales /\ s.op = r.op
      /\ s.target = r.target /\ s.swallow = r.swallow /\ s.negatives = r.negatives
      /\ ~s.forget
  BY DEF WriteRest
<1>2. e.orders = d.orders BY DEF DeleteSales, Sound, Database
<1>3. Working(e, s) = Working(d, r) /\ Becomes(e, s) = Becomes(d, r)
  BY <1>1, <1>2 DEF Working, Becomes
<1> QED BY <1>1, <1>2, <1>3 DEF Phase, Orderly

\* What a write phase commits.
LEMMA PhaseEnds ==
  ASSUME NEW b, NEW d, Sound(d), Reckoned(b),
         NEW r \in WriteRest, ~r.forget, r.lines = <<>>, r.sales = {}, Phase(b, d, r),
         NEW e, e = IF r.op = "status" THEN SetStatus(d, r.order, r.target) ELSE d
  PROVE  /\ Reckoned(e) /\ Apart(b, e, r.order)
<1> DEFINE o == r.order
<1>1. o \in Orders /\ d \in Database /\ d.orders[o] \in Order BY DEF WriteRest, Sound, Database
<1>2. /\ Books(d) /\ Orderly(d) /\ Apart(b, d, o)
      /\ Stands(d.movements, o, Becomes(d, r), d.orders[o].lines, <<>>, {})
  BY DEF Phase, Working
<1>3. /\ e.items = d.items /\ e.lots = d.lots /\ e.negative = d.negative
      /\ e.movements = d.movements
      /\ \A p \in Orders \ {o} : e.orders[p] = d.orders[p]
      /\ e.orders[o].lines = d.orders[o].lines /\ e.orders[o].source = d.orders[o].source
      /\ e.orders[o].status = Becomes(d, r)
  <2>1. CASE r.op = "status" BY <1>1, <2>1 DEF SetStatus, Database, Order, Becomes
  <2>2. CASE r.op # "status" BY <2>2 DEF Becomes
  <2> QED BY <2>1, <2>2
<1> HIDE DEF o
<1>4. Books(e) BY <1>2, <1>3, SameBooks
<1>5. Orderly(e) BY <1>1, <1>2, <1>3 DEF Orderly, OrderlyForm, Stocked
<1>6. ASSUME NEW p \in Orders
      PROVE  Stands(e.movements, p, e.orders[p].status, e.orders[p].lines, <<>>, {})
  <2>1. CASE p = o BY <1>2, <1>3, <2>1
  <2>2. CASE p # o
    <3>1. RowsOf(e.movements, p) = RowsOf(b.movements, p) /\ e.orders[p] = b.orders[p]
      BY <1>2, <1>3, <2>2, ApartRows
    <3>2. Stands(b.movements, p, b.orders[p].status, b.orders[p].lines, <<>>, {})
      BY DEF Reckoned, Settled
    <3> QED BY <3>1, <3>2, SameStands
  <2> QED BY <2>1, <2>2
<1>7. Apart(b, e, o) BY <1>2, <1>3 DEF Apart
<1> QED BY <1>4, <1>5, <1>6, <1>7 DEF Reckoned, Settled, o

\* A write phase that began by writing to its order alone, or nothing.
LEMMA PhaseBegins ==
  ASSUME NEW d, Reckoned(d), NEW o \in Orders, NEW e,
         e.items = d.items, e.lots = d.lots, e.negative = d.negative,
         e.movements = d.movements,
         \A p \in Orders \ {o} : e.orders[p] = d.orders[p],
         OrderlyForm(e.orders[o]),
         NEW r, r.order = o, ~r.forget, r.negatives = {},
         Stands(d.movements, o, Becomes(e, r), e.orders[o].lines, r.lines, r.sales),
         r.swallow => \A k \in DOMAIN r.lines : ~LineRaises(e, o, r.lines[k])
  PROVE  Phase(d, e, r)
<1>1. Working(e, r) = e BY DEF Working
<1>2. Books(e) BY SameBooks DEF Reckoned
<1>3. Orderly(e) BY DEF Reckoned, Orderly
<1>4. Apart(d, e, o) BY DEF Apart
<1> QED BY <1>1, <1>2, <1>3, <1>4 DEF Phase

-----------------------------------------------------------------------------
\* How the write phases begin.
LEMMA NothingIs ==
  ASSUME NEW op \in {"create", "status", "edit", "sync"}, NEW o \in Orders
  PROVE  /\ Nothing(op, o) \in WriteRest
         /\ Nothing(op, o).op = op /\ Nothing(op, o).order = o
         /\ Nothing(op, o).negatives = {} /\ Nothing(op, o).sales = {}
         /\ Nothing(op, o).lines = <<>>
         /\ ~Nothing(op, o).forget /\ ~Nothing(op, o).swallow
BY NothingType DEF Nothing

LEMMA AccountsOf ==
  ASSUME NEW d, Sound(d), Reckoned(d), NEW o \in Orders
  PROVE  /\ Stands(d.movements, o, d.orders[o].status, d.orders[o].lines, <<>>, {})
         /\ OrderlyForm(d.orders[o]) /\ OneLineEach(d.orders[o].lines)
         /\ d.orders[o].lines \in Seq(Line)
         /\ d.orders[o].status \in Statuses \cup {"absent"}
<1>1. d.orders[o] \in Order BY DEF Sound, Database
<1> QED BY <1>1 DEF Reckoned, Settled, Orderly, OrderlyForm, Order

\* A new order, or one that no order was created with, has no rows.
LEMMA NoRows ==
  ASSUME NEW M, NEW o, NEW status \in {"new", "absent"}, NEW lines, NEW rest, NEW due,
         Stands(M, o, status, lines, rest, due)
  PROVE  RowsOf(M, o) = {}
BY DEF Stands

LEMMA NoRowsNoSale ==
  ASSUME NEW d, NEW o, RowsOf(d.movements, o) = {}
  PROVE  ~OrderSaleWasDeducted(d, o)
BY DEF RowsOf, OrderSaleWasDeducted, MovementsOf

LEMMA CreatePhase ==
  ASSUME OrderlyShop, Sound(db), Reckoned(db), NEW o \in Orders, NEW form \in Forms,
         NEW status \in {"new", "delivered"}, CreateOrder(o, form, status)
  PROVE  Phase(db, tx', wr')
<1> DEFINE row == [status |-> status, source |-> form.source, lines |-> form.lines]
           due == IF status = "delivered" THEN form.lines ELSE <<>>
<1>1. /\ tx' = [db EXCEPT !.orders[o] = row]
      /\ wr' = [Nothing("create", o) EXCEPT !.lines = due]
      /\ db.orders[o].status = "absent"
  BY DEF CreateOrder, BeginWith, Exists
<1>2. OrderlyForm(form) BY DEF OrderlyShop
<1>3. RowsOf(db.movements, o) = {} BY <1>1, AccountsOf, NoRows
<1>4. /\ tx'.items = db.items /\ tx'.lots = db.lots /\ tx'.negative = db.negative
      /\ tx'.movements = db.movements /\ tx'.orders[o] = row
      /\ \A p \in Orders \ {o} : tx'.orders[p] = db.orders[p]
  BY <1>1 DEF Sound, Database
<1>5. row.lines = form.lines /\ row.status = status /\ OrderlyForm(row) BY <1>2 DEF OrderlyForm
<1>6. /\ wr'.op = "create" /\ wr'.order = o /\ wr'.lines = due /\ wr'.sales = {}
      /\ ~wr'.forget /\ ~wr'.swallow /\ wr'.negatives = {}
  BY <1>1 DEF Nothing
<1>7. Stands(db.movements, o, status, form.lines, due, {})
  <2>1. CASE status = "new" BY <1>3, <2>1 DEF Stands, Live
  <2>2. CASE status = "delivered" BY <1>2, <1>3, <2>2, NothingTaken DEF OrderlyForm, Live
  <2> QED BY <2>1, <2>2
<1>8. Becomes(tx', wr') = status BY <1>4, <1>5, <1>6 DEF Becomes
<1> HIDE DEF row, due
<1>9. Stands(db.movements, o, Becomes(tx', wr'), tx'.orders[o].lines, wr'.lines, wr'.sales)
  BY <1>4, <1>5, <1>6, <1>7, <1>8
<1> QED BY <1>4, <1>5, <1>6, <1>9, PhaseBegins

\* How an order may move where the shop keeps to its practices.
LEMMA Moves ==
  ASSUME OrderlyShop, Sound(db), NEW o \in Orders, NEW target \in Statuses,
         Exists(o), Practised(o, target)
  PROVE  /\ \/ target = "cancelled"
            \/ db.orders[o].status = "new" /\ target \in {"new", "confirmed"}
            \/ db.orders[o].status \in Live /\ target \in Live
         /\ target = "confirmed" =>
              \A k \in DOMAIN db.orders[o].lines : ~LineRaises(db, o, db.orders[o].lines[k])
<1>1. db.orders[o].status \in Statuses /\ Practices = {}
  BY DEF Sound, Database, Order, Exists, OrderlyShop
<1>2. target = "confirmed" => ~Short(o, db.orders[o].lines) BY <1>1 DEF Practised
<1>3. \/ target = "cancelled"
      \/ db.orders[o].status = "new" /\ target \in {"new", "confirmed"}
      \/ db.orders[o].status \in Live /\ target \in Live
  BY <1>1, StatusValues DEF Practised, Live
<1> QED BY <1>2, <1>3 DEF Short

\* Nothing was taken for an order that sold nothing.
LEMMA NothingSold ==
  ASSUME NEW d, NEW o, NEW lines \in Seq(Line), NEW status \in Live \cup {"new"},
         Stands(d.movements, o, status, lines, <<>>, {}), ~OrderSaleWasDeducted(d, o)
  PROVE  RowsOf(d.movements, o) = {} /\ (status \in Live => lines = <<>>)
<1>1. CASE status \in Live BY <1>1, AllTaken
<1>2. CASE status = "new" BY <1>2, NoRows DEF Live
<1> QED BY <1>1, <1>2

LEMMA FreshStatus ==
  ASSUME IInv, ReadInv, NEW w \in Workers, pending[w].op = "status"
  PROVE  LET r == pending[w]
         IN  /\ r \in StatusRequest /\ r.order \in Orders /\ r.target \in Statuses
             /\ Exists(r.order) /\ Practised(r.order, r.target)
             /\ r.lines = IF r.target = "confirmed" /\ ~OrderSaleWasDeducted(db, r.order)
                          THEN db.orders[r.order].lines ELSE <<>>
             /\ r.sales = IF r.target = "cancelled" THEN SalesToRestore(db, r.order) ELSE {}
             /\ r.oversold = {OversoldOf(db, r.order, m) :
                                m \in {n \in r.sales : ById(n, r.sales)}}
<1>1. pending[w] \in StatusRequest BY RequestKinds DEF IInv
<1> QED BY <1>1 DEF ReadInv, Fresh, StatusRequest

LEMMA PlainPhase ==
  ASSUME OrderlyShop, IInv, Reckoned(db), ReadInv, NEW w \in Workers, BeginPlainStatus(w)
  PROVE  Phase(db, tx', wr')
<1> DEFINE r == pending[w]
           o == r.order
           lines == db.orders[o].lines
           from == db.orders[o].status
<1>1. /\ r.op = "status" /\ r.lines = <<>> /\ r.sales = {}
      /\ tx' = db /\ wr' = [Nothing("status", o) EXCEPT !.target = r.target]
  BY DEF BeginPlainStatus, BeginWith
<1>2. /\ o \in Orders /\ r.target \in Statuses
      /\ Exists(o) /\ Practised(o, r.target)
      /\ r.lines = IF r.target = "confirmed" /\ ~OrderSaleWasDeducted(db, o)
                   THEN lines ELSE <<>>
      /\ r.sales = IF r.target = "cancelled" THEN SalesToRestore(db, o) ELSE {}
  BY <1>1, FreshStatus
<1>3. Sound(db) BY DEF IInv
<1>4. /\ Stands(db.movements, o, from, lines, <<>>, {})
      /\ OrderlyForm(db.orders[o]) /\ OneLineEach(lines)
      /\ from \in Statuses
  BY <1>2, <1>3, AccountsOf DEF Exists
<1>5. \/ r.target = "cancelled"
      \/ from = "new" /\ r.target \in {"new", "confirmed"}
      \/ from \in Live /\ r.target \in Live
  BY <1>2, <1>3, Moves
<1>6. /\ wr'.op = "status" /\ wr'.order = o /\ wr'.lines = <<>> /\ wr'.sales = {}
      /\ ~wr'.forget /\ ~wr'.swallow /\ wr'.negatives = {} /\ wr'.target = r.target
  BY <1>1 DEF Nothing
<1> DEFINE target == r.target
<1> HIDE DEF lines, from
<1>7. Stands(db.movements, o, target, lines, <<>>, {})
  <2>1. CASE target = "cancelled"
    <3>1. Unrestored(db.movements, o) = {} BY <1>1, <1>2, <1>3, <1>4, <2>1, SalesToRestoreAre
    <3> QED BY <2>1, <3>1 DEF Stands, Live
  <2>2. CASE from = "new" /\ target = "new" BY <1>4, <2>2
  <2>3. CASE from = "new" /\ target = "confirmed"
    <3>1. RowsOf(db.movements, o) = {} BY <1>4, <2>3, NoRows
    <3>2. lines = <<>> BY <1>1, <1>2, <2>3, <3>1, NoRowsNoSale
    <3> QED BY <1>4, <2>3, <3>1, <3>2, NothingTaken DEF Live
  <2>4. CASE from \in Live /\ target \in Live BY <1>4, <2>4 DEF Stands, Live
  <2> QED BY <1>5, <2>1, <2>2, <2>3, <2>4
<1>8. Becomes(tx', wr') = target BY <1>6 DEF Becomes
<1>9. tx'.orders[o].lines = lines BY <1>1 DEF lines
<1> HIDE DEF target, o
<1> QED BY <1>1, <1>2, <1>4, <1>6, <1>7, <1>8, <1>9, PhaseBegins

LEMMA BeginDeductPhase ==
  ASSUME OrderlyShop, IInv, Reckoned(db), ReadInv, NEW w \in Workers, BeginDeduct(w)
  PROVE  Phase(db, tx', wr')
<1> DEFINE r == pending[w]
           o == r.order
           lines == db.orders[o].lines
           from == db.orders[o].status
<1>1. /\ r.op = "status" /\ r.lines # <<>>
      /\ tx' = db
      /\ wr' = [Nothing("status", o) EXCEPT
                  !.target = r.target, !.reason = r.reason, !.recheck = TRUE,
                  !.swallow = TRUE, !.lines = r.lines]
  BY DEF BeginDeduct, BeginWith
<1>2. /\ o \in Orders /\ r.target \in Statuses
      /\ Exists(o) /\ Practised(o, r.target)
      /\ r.lines = IF r.target = "confirmed" /\ ~OrderSaleWasDeducted(db, o)
                   THEN lines ELSE <<>>
  BY <1>1, FreshStatus
<1>3. Sound(db) BY DEF IInv
<1>4. /\ Stands(db.movements, o, from, lines, <<>>, {})
      /\ OrderlyForm(db.orders[o]) /\ OneLineEach(lines) /\ lines \in Seq(Line)
  BY <1>2, <1>3, AccountsOf
<1>5. /\ r.target = "confirmed" /\ ~OrderSaleWasDeducted(db, o)
      /\ r.lines = lines
  BY <1>1, <1>2
<1>6. from \in Live \cup {"new"}
      /\ \A k \in DOMAIN lines : ~LineRaises(db, o, lines[k])
  BY <1>2, <1>3, <1>5, Moves
<1>7. /\ wr'.op = "status" /\ wr'.order = o /\ wr'.lines = lines /\ wr'.sales = {}
      /\ ~wr'.forget /\ wr'.negatives = {} /\ wr'.target = "confirmed"
  BY <1>1, <1>5 DEF Nothing
<1> HIDE DEF lines, from
<1>8. RowsOf(db.movements, o) = {}
  <2> HIDE DEF o
  <2> QED BY <1>4, <1>5, <1>6, NothingSold
<1>9. Stands(db.movements, o, "confirmed", lines, lines, {}) BY <1>4, <1>8, NothingTaken DEF Live
<1>10. Becomes(tx', wr') = "confirmed" BY <1>7 DEF Becomes
<1>11. tx'.orders[o].lines = lines BY <1>1 DEF lines
<1> HIDE DEF o
<1> QED BY <1>1, <1>2, <1>4, <1>6, <1>7, <1>9, <1>10, <1>11, PhaseBegins

LEMMA BeginRestorePhase ==
  ASSUME OrderlyShop, IInv, RecordsInv, Reckoned(db), ReadInv, NEW w \in Workers,
         BeginRestore(w)
  PROVE  Phase(db, tx', wr')
<1> DEFINE r == pending[w]
           o == r.order
           from == db.orders[o].status
           lines == db.orders[o].lines
<1>1. PICK first \in r.sales, oversold \in r.oversold :
        /\ ById(first, r.sales)
        /\ tx' = RestoreSale(db, o, first, oversold)
        /\ wr' = [Nothing("status", o) EXCEPT
                    !.target = r.target, !.reason = r.reason,
                    !.recheck = TRUE, !.sales = r.sales \ {first}]
  BY DEF BeginRestore, BeginWith
<1>2. r.op = "status" BY DEF BeginRestore
<1>3. /\ r \in StatusRequest /\ o \in Orders /\ r.target \in Statuses /\ Exists(o)
      /\ r.sales = IF r.target = "cancelled" THEN SalesToRestore(db, o) ELSE {}
      /\ r.oversold = {OversoldOf(db, o, m) : m \in {n \in r.sales : ById(n, r.sales)}}
  BY <1>2, FreshStatus
<1>4. Sound(db) /\ Recorded(db) BY DEF IInv, RecordsInv
<1>5. /\ Stands(db.movements, o, from, lines, <<>>, {})
      /\ OrderlyForm(db.orders[o]) /\ from \in Statuses
  BY <1>3, <1>4, AccountsOf DEF Exists
<1>6. r.target = "cancelled" /\ r.sales = Unrestored(db.movements, o)
  BY <1>3, <1>4, <1>5, SalesToRestoreAre
<1>7. oversold = OversoldOf(db, o, first)
  <2>1. PICK m \in r.sales : ById(m, r.sales) /\ oversold = OversoldOf(db, o, m) BY <1>3
  <2>2. m.id <= first.id /\ first.id <= m.id BY <1>1, <2>1 DEF ById
  <2>3. m \in db.movements /\ first \in db.movements BY <1>6 DEF Unrestored
  <2>4. m.id \in Nat /\ first.id \in Nat BY <1>4, <2>3 DEF Sound, Database, Movement
  <2>5. m = first BY <1>4, <2>2, <2>3, <2>4 DEF Recorded, NumberedOnce
  <2> QED BY <2>1, <2>5
<1> DEFINE s == [Nothing("status", o) EXCEPT
                   !.target = r.target, !.reason = r.reason,
                   !.recheck = TRUE, !.sales = r.sales]
<1>8. /\ s.op = "status" /\ s.order = o /\ s.lines = <<>> /\ s.sales = r.sales
      /\ ~s.forget /\ ~s.swallow /\ s.negatives = {} /\ s.target = "cancelled"
      /\ s \in WriteRest
      /\ wr' = [s EXCEPT !.sales = @ \ {first}]
  <2>1. r.reason \in BOOLEAN /\ r.sales \in SUBSET Movement BY <1>3 DEF StatusRequest
  <2>2. s \in WriteRest
    <3>1. Nothing("status", o) \in WriteRest BY <1>3, NothingIs
    <3> QED BY <1>3, <2>1, <3>1 DEF WriteRest
  <2>3. /\ s.op = "status" /\ s.order = o /\ s.lines = <<>> /\ s.sales = r.sales
        /\ ~s.forget /\ ~s.swallow /\ s.negatives = {} /\ s.target = "cancelled"
    BY <1>6 DEF Nothing
  <2>4. wr' = [s EXCEPT !.sales = @ \ {first}] BY <1>1 DEF Nothing
  <2> QED BY <2>2, <2>3, <2>4
<1> HIDE DEF s, lines, from
<1>9. Stands(db.movements, o, "cancelled", lines, <<>>, r.sales) BY <1>6 DEF Stands, Live
<1>10. Becomes(db, s) = "cancelled" /\ db.orders[o].lines = lines BY <1>8 DEF Becomes, lines
<1>11. Phase(db, db, s)
  <2> HIDE DEF o, r
  <2> QED BY <1>3, <1>5, <1>8, <1>9, <1>10, PhaseBegins
<1>12. ~AlreadyRestored(db, o, first) BY <1>6, UnrestoredAre
<1>13. tx' = IF AlreadyRestored(db, s.order, first) THEN db
             ELSE RestoreSale(db, s.order, first, OversoldOf(db, s.order, first))
  BY <1>1, <1>7, <1>8, <1>12
<1>14. first \in s.sales BY <1>8
<1> QED BY <1>4, <1>8, <1>11, <1>13, <1>14, RestorePhase

\* More on the shelf, and no line that did not raise does.
LEMMA MoreRaisesNone ==
  ASSUME NEW d, NEW e, Sound(d), Sound(e), NEW o, e.orders[o].source = d.orders[o].source,
         \A c \in Options : AvailableItems(d, c) \subseteq AvailableItems(e, c),
         NEW line \in Line, ~LineRaises(d, o, line)
  PROVE  ~LineRaises(e, o, line)
<1> DEFINE c == line.option
<1>1. c \in Options /\ line.qty \in Nat BY DEF Line
<1>2. AvailableQuantity(d, c) <= AvailableQuantity(e, c)
      /\ AvailableQuantity(d, c) \in Nat /\ AvailableQuantity(e, c) \in Nat
  BY <1>1, AvailableFinite, FS_Subset DEF AvailableQuantity
<1>3. Deficit(e, c, line.qty) > 0 => Deficit(d, c, line.qty) > 0 BY <1>1, <1>2, DeficitIs
<1> QED BY <1>3 DEF LineRaises, LineDeficit, ShouldConsumeFifo, AllowNegative

LEMMA FreshEdit ==
  ASSUME OrderlyShop, IInv, ReadInv, NEW w \in Workers, pending[w].op = "edit"
  PROVE  LET r == pending[w]
         IN  /\ r.order \in Orders /\ r.lines \in Seq(Line)
             /\ r.from = db.orders[r.order].status
             /\ r.from \in Live \cup {"new"}
             /\ OneLineEach(r.lines)
             /\ \A k \in DOMAIN r.lines : r.lines[k].use = "yes"
             /\ \A k \in DOMAIN r.lines : ~LineRaises(db, r.order, r.lines[k])
             /\ MovementsOf(db, r.order, "negative_sale") = {}
<1> DEFINE r == pending[w]
<1>1. r \in EditRequest BY RequestKinds DEF IInv
<1>2. r.order \in Orders /\ r.lines \in Seq(Line) /\ r.from \in Statuses BY <1>1 DEF EditRequest
<1>3. /\ Exists(r.order) /\ db.orders[r.order].status # "cancelled"
      /\ r.from = db.orders[r.order].status
      /\ r.lines \in LineLists /\ ~Short(r.order, r.lines)
      /\ MovementsOf(db, r.order, "negative_sale") = {}
  BY DEF ReadInv, Fresh
<1>4. OneLineEach(r.lines) /\ \A k \in DOMAIN r.lines : r.lines[k].use = "yes"
  BY <1>3 DEF OrderlyShop
<1>5. r.from \in Live \cup {"new"} BY <1>2, <1>3, StatusValues DEF Live
<1> QED BY <1>2, <1>3, <1>4, <1>5 DEF Short

\* An order that is live takes from stock, one that is new does not.
LEMMA LiveHasTaken ==
  ASSUME NEW status \in Live \cup {"new"}
  PROVE  HasTakenStock(status) <=> status \in Live
BY DEF HasTakenStock, Live, Rank

LEMMA BeginEditPhase ==
  ASSUME OrderlyShop, IInv, RecordsInv, Reckoned(db), ReadInv, NEW w \in Workers,
         BeginEdit(w)
  PROVE  Phase(db, tx', wr')
<1> DEFINE r == pending[w]
           o == r.order
           lines == r.lines
           from == db.orders[o].status
           M == db.movements
           edited == [db EXCEPT !.orders[o].lines = lines]
           redo == HasTakenStock(r.from)
           reverse == redo /\ OrderSaleWasDeducted(db, o)
<1>1. /\ r.op = "edit"
      /\ tx' = IF reverse THEN ReleaseSales(edited, o) ELSE edited
      /\ wr' = [Nothing("edit", o) EXCEPT
                  !.swallow = TRUE, !.forget = reverse,
                  !.negatives = IF reverse THEN MovementsOf(db, o, "negative_sale") ELSE {},
                  !.lines = IF redo THEN lines ELSE <<>>]
  BY DEF BeginEdit, BeginWith
<1>2. /\ o \in Orders /\ lines \in Seq(Line)
      /\ r.from = from
      /\ r.from \in Live \cup {"new"}
      /\ OneLineEach(lines)
      /\ \A k \in DOMAIN lines : lines[k].use = "yes"
      /\ \A k \in DOMAIN lines : ~LineRaises(db, o, lines[k])
      /\ MovementsOf(db, o, "negative_sale") = {}
  BY <1>1, FreshEdit
<1>3. Sound(db) /\ Recorded(db) BY DEF IInv, RecordsInv
<1>4. /\ Stands(M, o, from, db.orders[o].lines, <<>>, {})
      /\ db.orders[o].lines \in Seq(Line)
  BY <1>2, <1>3, AccountsOf
<1>5. redo <=> from \in Live BY <1>2, LiveHasTaken
<1>6. /\ wr'.op = "edit" /\ wr'.order = o
      /\ wr'.lines = (IF redo THEN lines ELSE <<>>) /\ wr'.sales = {}
      /\ wr'.forget = reverse /\ wr'.swallow /\ wr'.negatives = {}
  BY <1>1, <1>2 DEF Nothing
<1>7. /\ edited.items = db.items /\ edited.lots = db.lots
      /\ edited.negative = db.negative /\ edited.movements = M
      /\ edited.orders[o].lines = lines /\ edited.orders[o].status = from
      /\ edited.orders[o].source = db.orders[o].source
      /\ \A p \in Orders \ {o} : edited.orders[p] = db.orders[p]
  BY <1>2, <1>3 DEF Sound, Database, Order
<1>8. Sound(edited) /\ Recorded(edited) BY <1>2, <1>3, SetLinesSound, OrdersRecorded
<1>9. OrderlyForm(edited.orders[o]) BY <1>2, <1>7 DEF OrderlyForm, Stocked
<1>10. from \in Live \cup {"new"} BY <1>2
<1> HIDE DEF edited, reverse, redo, from, M
<1>11. CASE ~reverse
  <2>1. tx' = edited /\ ~wr'.forget /\ Becomes(tx', wr') = from
    BY <1>1, <1>6, <1>7, <1>11 DEF Becomes
  <2>2. Stands(M, o, from, lines, wr'.lines, {})
    <3>1. CASE redo
      <4>1. from \in Live /\ ~OrderSaleWasDeducted(db, o) /\ wr'.lines = lines
        BY <1>5, <1>6, <1>11, <3>1 DEF reverse
      <4>2. RowsOf(M, o) = {}
        <5> HIDE DEF o, lines, r
        <5> QED BY <1>4, <1>10, <4>1, NothingSold DEF M
      <4> QED BY <1>2, <4>1, <4>2, NothingTaken
    <3>2. CASE ~redo
      <4>1. from = "new" /\ wr'.lines = <<>> BY <1>5, <1>6, <1>10, <3>2
      <4> QED BY <1>4, <4>1 DEF Stands, Live
    <3> QED BY <3>1, <3>2
  <2>3. \A k \in DOMAIN wr'.lines : ~LineRaises(edited, o, wr'.lines[k])
    <3>1. \A k \in DOMAIN lines : ~LineRaises(edited, o, lines[k])
      <4>1. \A c \in Options : AvailableItems(db, c) \subseteq AvailableItems(edited, c)
        BY <1>7, SameItems
      <4>2. \A k \in DOMAIN lines : lines[k] \in Line BY <1>2
      <4> HIDE DEF o, lines, r
      <4> QED BY <1>2, <1>3, <1>7, <1>8, <4>1, <4>2, MoreRaisesNone
    <3> QED BY <1>6, <3>1
  <2> HIDE DEF o, lines, r
  <2> QED BY <1>2, <1>6, <1>7, <1>9, <2>1, <2>2, <2>3, PhaseBegins DEF M
<1>12. CASE reverse
  <2> DEFINE e == DeleteSales(ReleaseSales(edited, o), o)
  <2>1. /\ tx' = ReleaseSales(edited, o) /\ wr'.forget /\ Working(tx', wr') = e
        /\ from \in Live /\ wr'.lines = lines
    BY <1>1, <1>5, <1>6, <1>12 DEF Working, reverse
  <2>2. \A m \in RowsOf(edited.movements, o) : m.type = "sale"
    <3>1. \A m \in RowsOf(M, o) : m.type # "restore_sale" /\ m.type # "negative_sale"
      BY <1>2, <1>4, <2>1 DEF Stands, Taking, MovementsOf, RowsOf, M
    <3>2. \A m \in RowsOf(M, o) : m.type \in OrderTypes
      BY <1>2, OrdersAssumption DEF Reckoned, Books, Kinds, RowsOf, M
    <3> QED BY <1>7, <3>1, <3>2 DEF OrderTypes
  <2>3. Books(edited) BY <1>7, SameBooks DEF Reckoned, M
  <2>4. Sound(e) /\ ReleaseSales(edited, o).orders = edited.orders
    <3>1. Sound(e) BY <1>2, <1>8, ReleaseSalesSound, DeleteSalesSound
    <3>2. ReleaseSales(edited, o).orders = edited.orders
      BY <1>8 DEF ReleaseSales, ReleaseItems, Sound, Database
    <3> QED BY <3>1, <3>2
  <2> HIDE DEF e
  <2>5. /\ Books(e) /\ e.orders = edited.orders
        /\ e.movements = edited.movements \ RowsOf(edited.movements, o)
        /\ \A c \in Options : AvailableItems(edited, c) \subseteq AvailableItems(e, c)
    <3> HIDE DEF o
    <3> QED BY <1>2, <1>8, <2>2, <2>3, EditBooks DEF e
  <2>6. RowsOf(e.movements, o) = {} BY <2>5 DEF RowsOf
  <2>7. Becomes(tx', wr') = from BY <1>6, <1>7, <2>1, <2>4 DEF Becomes
  <2>8. Stands(e.movements, o, from, lines, lines, {}) BY <1>2, <2>1, <2>6, NothingTaken
  <2>9. Apart(db, e, o) BY <1>7, <2>5, <2>6 DEF Apart, M
  <2>10. \A k \in DOMAIN lines : ~LineRaises(e, o, lines[k])
    <3>1. \A c \in Options : AvailableItems(db, c) \subseteq AvailableItems(e, c)
      BY <1>7, <2>5, SameItems
    <3>2. \A k \in DOMAIN lines : lines[k] \in Line BY <1>2
    <3>3. e.orders[o].source = db.orders[o].source BY <1>7, <2>5
    <3> HIDE DEF o, lines, r
    <3> QED BY <1>2, <1>3, <2>4, <3>1, <3>2, <3>3, MoreRaisesNone
  <2>11. Orderly(tx') BY <1>7, <1>9, <2>1, <2>4 DEF Orderly, Reckoned
  <2>12. tx'.orders[o].lines = lines BY <1>7, <2>1, <2>4
  <2> HIDE DEF o, lines, r
  <2> QED BY <1>6, <2>1, <2>5, <2>7, <2>8, <2>9, <2>10, <2>11, <2>12 DEF Phase
<1> QED BY <1>11, <1>12

LEMMA SyncPhase ==
  ASSUME OrderlyShop, IInv, Reckoned(db), NEW o \in Orders, NEW derived \in Targets,
         SyncFromItems(o, derived)
  PROVE  Phase(db, tx', wr')
<1> DEFINE lines == db.orders[o].lines
           from == db.orders[o].status
           M == db.movements
           confirming == derived \in {"confirmed", "delivered"}
                         /\ ~OrderSaleWasDeducted(db, o)
           rest == IF confirming THEN lines ELSE <<>>
           due == IF derived = "cancelled" THEN MovementsOf(db, o, "sale") ELSE {}
<1>1. /\ Exists(o) /\ derived # from /\ Practised(o, derived)
      /\ tx' = SetStatus(db, o, derived)
      /\ wr' = [Nothing("sync", o) EXCEPT !.lines = rest, !.sales = due]
  BY DEF SyncFromItems, BeginWith
<1>2. derived \in Statuses /\ Sound(db) BY StockAssumption DEF IInv
<1>3. /\ Stands(M, o, from, lines, <<>>, {})
      /\ OrderlyForm(db.orders[o]) /\ OneLineEach(lines) /\ lines \in Seq(Line)
      /\ from \in Statuses
  BY <1>1, <1>2, AccountsOf DEF Exists
<1>4. \/ derived = "cancelled"
      \/ from = "new" /\ derived \in {"new", "confirmed"}
      \/ from \in Live /\ derived \in Live
  BY <1>1, <1>2, Moves
<1>5. from \in Live \cup {"new"} BY <1>1, <1>3, <1>4, StatusValues DEF Live
<1>6. /\ tx'.items = db.items /\ tx'.lots = db.lots
      /\ tx'.negative = db.negative /\ tx'.movements = M
      /\ tx'.orders[o].lines = lines /\ tx'.orders[o].status = derived
      /\ tx'.orders[o].source = db.orders[o].source
      /\ \A p \in Orders \ {o} : tx'.orders[p] = db.orders[p]
  BY <1>1, <1>2 DEF SetStatus, Sound, Database, Order
<1>7. OrderlyForm(tx'.orders[o]) BY <1>3, <1>6 DEF OrderlyForm, Stocked
<1>8. /\ wr'.op = "sync" /\ wr'.order = o /\ wr'.lines = rest /\ wr'.sales = due
      /\ ~wr'.forget /\ ~wr'.swallow /\ wr'.negatives = {}
  BY <1>1 DEF Nothing
<1> HIDE DEF lines, from, M
<1>9. Stands(M, o, derived, lines, rest, due)
  <2>1. CASE derived = "cancelled"
    <3>1. due = Unrestored(M, o) BY <1>3, <1>5, <2>1, NoneRestored DEF M
    <3> QED BY <2>1, <3>1 DEF Stands, Live
  <2>2. CASE from = "new" /\ derived = "confirmed"
    <3>1. RowsOf(M, o) = {} BY <1>3, <2>2, NoRows
    <3>2. rest = lines /\ due = {} BY <2>2, <3>1, NoRowsNoSale DEF M
    <3> QED BY <1>3, <2>2, <3>1, <3>2, NothingTaken DEF Live
  <2>3. CASE from \in Live /\ derived \in Live
    <3>1. rest = <<>>
      <4>1. CASE confirming BY <1>3, <2>3, <4>1, NothingSold DEF M
      <4> QED BY <4>1
    <3>2. due = {} /\ derived \notin {"cancelled", "new", "absent"} BY <2>3 DEF Live
    <3> HIDE DEF rest, due
    <3> QED BY <1>3, <2>3, <3>1, <3>2 DEF Stands
  <2> QED BY <1>1, <1>4, <2>1, <2>2, <2>3 DEF from
<1>10. Becomes(tx', wr') = derived BY <1>6, <1>8 DEF Becomes
<1> HIDE DEF rest, due
<1> QED BY <1>6, <1>7, <1>8, <1>9, <1>10, PhaseBegins DEF M

-----------------------------------------------------------------------------
\* Every action keeps the accounts.
LEMMA SameAccounts ==
  ASSUME NEW d, NEW e, Reckoned(d), Books(e), e.orders = d.orders,
         \A o \in Orders : RowsOf(e.movements, o) = RowsOf(d.movements, o)
  PROVE  Reckoned(e)
<1>1. Settled(e) BY SameStands DEF Reckoned, Settled
<1> QED BY <1>1 DEF Reckoned, Orderly

LEMMA CommitShop ==
  ASSUME tx' = db', NoneWaits', LockFree', Reckoned(db')
  PROVE  ShopInv'
<1>1. ReadInv' BY DEF ReadInv, NoneWaits, Fresh, Idle
<1> QED BY <1>1 DEF ShopInv, Writing

LEMMA BeginShop ==
  ASSUME ShopInv, NoneWaits', db' = db, wr' # NoWrite, Phase(db, tx', wr')
  PROVE  ShopInv'
BY DEF ShopInv, LockFree

LEMMA ReadShop ==
  ASSUME ShopInv, LockFree, UNCHANGED <<db, tx, wr>>, \A w \in Workers : Fresh(pending[w])'
  PROVE  ShopInv'
BY DEF ShopInv, LockFree, Writing, ReadInv

\* There is one thread: when it is served, nobody waits.
LEMMA ServedAlone == ASSUME OrderlyShop, Served PROVE NoneWaits
BY DEF OrderlyShop, Served, NoneWaits

LEMMA AnsweredAlone ==
  ASSUME OrderlyShop, IInv, NEW w \in Workers, Answered(w) PROVE NoneWaits'
BY DEF OrderlyShop, IInv, Answered, NoneWaits

LEMMA StockRequestShop ==
  ASSUME OrderlyShop, IInv, RecordsInv, ShopInv, NEW b \in Options, NEW q \in 1..MaxQty,
         RestockProduct(b, q) \/ WasteStock(b, q)
  PROVE  ShopInv'
<1>1. Sound(db) /\ Recorded(db) /\ Books(db) /\ Reckoned(db)
  BY DEF IInv, RecordsInv, ShopInv, Reckoned
<1>2. q \in Nat /\ q > 0 BY StockAssumption
<1>3. NoneWaits' /\ LockFree'
  <2>1. Served /\ UNCHANGED <<wr, pending>> BY DEF RestockProduct, WasteStock, CommitNow
  <2> QED BY <2>1, ServedAlone DEF NoneWaits, LockFree, Served
<1>4. CASE RestockProduct(b, q)
  <2> DEFINE e == LogMovement(Incoming(db, b, q), "restock", b, q, NoRef)
  <2>1. db' = e /\ tx' = e BY <1>2, <1>4 DEF RestockProduct, CommitNow, Incoming
  <2>2. /\ Books(e) /\ e.orders = db.orders
        /\ \A o \in Orders : RowsOf(e.movements, o) = RowsOf(db.movements, o)
    BY <1>1, <1>2, IncomingBooks
  <2> HIDE DEF e
  <2>3. Reckoned(e) BY <1>1, <2>2, SameAccounts
  <2> QED BY <1>3, <2>1, <2>3, CommitShop
<1>5. CASE WasteStock(b, q)
  <2> DEFINE e == TakeOut(db, "waste", b, q)
  <2>1. db' = e /\ tx' = e /\ Deficit(db, b, q) = 0 BY <1>5 DEF WasteStock, CommitNow
  <2>2. /\ Books(e) /\ e.orders = db.orders
        /\ \A o \in Orders : RowsOf(e.movements, o) = RowsOf(db.movements, o)
    BY <1>1, <1>2, <2>1, TakeOutBooks
  <2> HIDE DEF e
  <2>3. Reckoned(e) BY <1>1, <2>2, SameAccounts
  <2> QED BY <1>3, <2>1, <2>3, CommitShop
<1> QED BY <1>4, <1>5

LEMMA WriteAdjustShop ==
  ASSUME OrderlyShop, IInv, RecordsInv, ShopInv, NEW w \in Workers, WriteAdjust(w)
  PROVE  ShopInv'
<1> DEFINE b == pending[w].option
           delta == pending[w].delta
<1>1. Sound(db) /\ Recorded(db) /\ Books(db) /\ Reckoned(db)
  BY DEF IInv, RecordsInv, ShopInv, Reckoned
<1>2. pending[w] \in AdjustRequest BY RequestKinds DEF WriteAdjust, IInv
<1>3. b \in Options /\ delta \in Int BY <1>2 DEF AdjustRequest
<1>4. NoneWaits' /\ LockFree'
  <2>1. Answered(w) /\ LockFree /\ UNCHANGED wr BY DEF WriteAdjust, CommitNow
  <2> QED BY <2>1, AnsweredAlone DEF LockFree
<1>5. CASE /\ delta >= 0
           /\ CommitNow(LogMovement(
                IF delta > 0 THEN CreateLotWithItems(db, b, delta) ELSE db,
                "adjustment", b, delta, NoRef))
  <2> DEFINE e == LogMovement(Incoming(db, b, delta), "adjustment", b, delta, NoRef)
  <2>1. db' = e /\ tx' = e BY <1>5 DEF CommitNow, Incoming
  <2>2. delta \in Nat BY <1>3, <1>5
  <2> HIDE DEF b, delta
  <2>3. /\ Books(e) /\ e.orders = db.orders
        /\ \A o \in Orders : RowsOf(e.movements, o) = RowsOf(db.movements, o)
    BY <1>1, <1>3, <2>2, IncomingBooks
  <2> HIDE DEF e
  <2>4. Reckoned(e) BY <1>1, <2>3, SameAccounts
  <2> QED BY <1>4, <2>1, <2>4, CommitShop
<1>6. CASE /\ delta < 0 /\ Deficit(db, b, -delta) = 0
           /\ CommitNow(TakeOut(db, "adjustment", b, -delta))
  <2> DEFINE q == -delta
             e == TakeOut(db, "adjustment", b, q)
  <2>1. db' = e /\ tx' = e /\ Deficit(db, b, q) = 0 BY <1>6 DEF CommitNow
  <2>2. q \in Nat BY <1>3, <1>6
  <2> HIDE DEF b, q
  <2>3. /\ Books(e) /\ e.orders = db.orders
        /\ \A o \in Orders : RowsOf(e.movements, o) = RowsOf(db.movements, o)
    BY <1>1, <1>3, <2>1, <2>2, TakeOutBooks
  <2> HIDE DEF e
  <2>4. Reckoned(e) BY <1>1, <2>3, SameAccounts
  <2> QED BY <1>4, <2>1, <2>4, CommitShop
<1> QED BY <1>5, <1>6 DEF WriteAdjust

LEMMA BeginsShop ==
  ASSUME OrderlyShop, IInv, RecordsInv, ShopInv,
         \/ \E o \in Orders, form \in Forms, status \in {"new", "delivered"} :
              CreateOrder(o, form, status)
         \/ \E w \in Workers :
              BeginPlainStatus(w) \/ BeginDeduct(w) \/ BeginRestore(w) \/ BeginEdit(w)
         \/ \E o \in Orders, derived \in Targets : SyncFromItems(o, derived)
  PROVE  ShopInv'
<1>1. Sound(db) /\ Reckoned(db) BY DEF IInv, ShopInv
<1>2. CASE \E o \in Orders, form \in Forms, status \in {"new", "delivered"} :
             CreateOrder(o, form, status)
  <2>1. PICK o \in Orders, form \in Forms, status \in {"new", "delivered"} :
          CreateOrder(o, form, status)
    BY <1>2
  <2>2. Served /\ db' = db /\ pending' = pending /\ wr' # NoWrite
    BY <2>1 DEF CreateOrder, BeginWith, Nothing, NoWrite
  <2>3. NoneWaits' BY <2>2, ServedAlone DEF NoneWaits
  <2> QED BY <1>1, <2>1, <2>2, <2>3, CreatePhase, BeginShop
<1>3. CASE \E w \in Workers :
             BeginPlainStatus(w) \/ BeginDeduct(w) \/ BeginRestore(w) \/ BeginEdit(w)
  <2>1. PICK w \in Workers :
          BeginPlainStatus(w) \/ BeginDeduct(w) \/ BeginRestore(w) \/ BeginEdit(w)
    BY <1>3
  <2>2. db' = db /\ Answered(w) /\ LockFree /\ wr' # NoWrite
    BY <2>1 DEF BeginPlainStatus, BeginDeduct, BeginRestore, BeginEdit, BeginWith,
                Nothing, NoWrite
  <2>3. NoneWaits' /\ ReadInv BY <2>2, AnsweredAlone DEF ShopInv
  <2>4. Phase(db, tx', wr')
    BY <1>1, <2>1, <2>3, PlainPhase, BeginDeductPhase, BeginRestorePhase, BeginEditPhase
  <2> QED BY <2>2, <2>3, <2>4, BeginShop
<1>4. CASE \E o \in Orders, derived \in Targets : SyncFromItems(o, derived)
  <2>1. PICK o \in Orders, derived \in Targets : SyncFromItems(o, derived) BY <1>4
  <2>2. Served /\ db' = db /\ pending' = pending /\ wr' # NoWrite
    BY <2>1 DEF SyncFromItems, BeginWith, Nothing, NoWrite
  <2>3. NoneWaits' BY <2>2, ServedAlone DEF NoneWaits
  <2> QED BY <1>1, <2>1, <2>2, <2>3, SyncPhase, BeginShop
<1> QED BY <1>2, <1>3, <1>4

LEMMA ReadsShop ==
  ASSUME OrderlyShop, IInv, ShopInv, NEW w \in Workers,
         \/ \E b \in Options, target \in 0..MaxQty : ReadAdjust(w, b, target)
         \/ \E o \in Orders, target \in Targets, reason \in BOOLEAN :
              ReadStatus(w, o, target, reason)
         \/ \E o \in Orders, lines \in LineLists : ReadEdit(w, o, lines)
         \/ Drop(w)
  PROVE  ShopInv'
<1>1. LockFree /\ UNCHANGED <<db, tx, wr>> BY DEF ReadAdjust, ReadStatus, ReadEdit, Drop
<1>2. \A v \in Workers : v = w BY DEF OrderlyShop
<1>3. pending \in [Workers -> Request] BY DEF IInv
<1>4. CASE \E b \in Options, target \in 0..MaxQty : ReadAdjust(w, b, target)
  <2>1. pending'[w].op = "adjust" BY <1>3, <1>4 DEF ReadAdjust
  <2>2. \A v \in Workers : Fresh(pending[v])' BY <1>2, <2>1 DEF Fresh
  <2> QED BY <1>1, <2>2, ReadShop
<1>5. CASE \E o \in Orders, target \in Targets, reason \in BOOLEAN :
             ReadStatus(w, o, target, reason)
  <2>1. PICK o \in Orders, target \in Targets, reason \in BOOLEAN :
          ReadStatus(w, o, target, reason)
    BY <1>5
  <2> DEFINE sales == IF target = "cancelled" THEN SalesToRestore(db, o) ELSE {}
             r == [op |-> "status", order |-> o, target |-> target, reason |-> reason,
                   lines |-> IF target = "confirmed" /\ ~OrderSaleWasDeducted(db, o)
                             THEN db.orders[o].lines ELSE <<>>,
                   sales |-> sales,
                   oversold |-> {OversoldOf(db, o, m) : m \in {n \in sales : ById(n, sales)}}]
  <2>2. pending'[w] = r /\ Exists(o) /\ Practised(o, target) BY <1>3, <2>1 DEF ReadStatus
  <2>3. Fresh(r) BY <2>2 DEF Fresh
  <2> HIDE DEF r
  <2>4. Fresh(pending[w])' BY <1>1, <2>2, <2>3 DEF Fresh, Exists, Practised, Short
  <2>5. \A v \in Workers : Fresh(pending[v])' BY <1>2, <2>4
  <2> QED BY <1>1, <2>5, ReadShop
<1>6. CASE \E o \in Orders, lines \in LineLists : ReadEdit(w, o, lines)
  <2>1. PICK o \in Orders, lines \in LineLists : ReadEdit(w, o, lines) BY <1>6
  <2> DEFINE r == [op |-> "edit", order |-> o, from |-> db.orders[o].status,
                   lines |-> lines]
  <2>2. /\ pending'[w] = r /\ Exists(o) /\ db.orders[o].status # "cancelled"
        /\ MovementsOf(db, o, "negative_sale") = {} /\ ~Short(o, lines)
    BY <1>3, <2>1 DEF ReadEdit, OrderlyShop
  <2>3. Fresh(r) BY <2>2 DEF Fresh
  <2> HIDE DEF r
  <2>4. Fresh(pending[w])' BY <1>1, <2>2, <2>3 DEF Fresh, Exists, Practised, Short
  <2>5. \A v \in Workers : Fresh(pending[v])' BY <1>2, <2>4
  <2> QED BY <1>1, <2>5, ReadShop
<1>7. CASE Drop(w)
  <2>1. pending'[w] = Idle BY <1>3, <1>7 DEF Drop, Answered
  <2>2. \A v \in Workers : Fresh(pending[v])' BY <1>2, <2>1 DEF Fresh, Idle
  <2> QED BY <1>1, <2>2, ReadShop
<1> QED BY <1>4, <1>5, <1>6, <1>7

\* A statement of a write phase that leaves the rest of the phase to do.
LEMMA WriteShop ==
  ASSUME IInv, ShopInv, Writing, UNCHANGED <<db, pending>>,
         wr' # NoWrite, Phase(db, tx', wr')
  PROVE  ShopInv'
BY DEF ShopInv, LockFree, Writing, NoneWaits

LEMMA WritePhase ==
  ASSUME IInv, RecordsInv, ShopInv, Writing
  PROVE  /\ wr \in WriteRest /\ wr # NoWrite /\ Sound(tx) /\ Recorded(tx)
         /\ Reckoned(db) /\ NoneWaits /\ Phase(db, tx, wr)
         /\ wr.negatives = {}
         /\ wr.forget => wr.sales = {}
         /\ wr.lines \in Seq(Line)
BY WritingType DEF RecordsInv, ShopInv, Writing, LockFree, Phase

LEMMA StillWriting ==
  ASSUME NEW r \in WriteRest,
         NEW s, \/ \E x : s = [r EXCEPT !.forget = x]
                \/ \E x : s = [r EXCEPT !.lines = x]
                \/ \E x : s = [r EXCEPT !.sales = x]
  PROVE  s # NoWrite
<1>1. s.op = r.op /\ r.op # "none" BY DEF WriteRest
<1> QED BY <1>1 DEF NoWrite

LEMMA WriteStepShop ==
  ASSUME OrderlyShop, IInv, RecordsInv, ShopInv,
         ReverseNegative \/ ForgetSales \/ DeductOne \/ RestoreOne
  PROVE  ShopInv'
<1>1. Writing /\ UNCHANGED <<db, pending>>
  BY DEF ReverseNegative, ForgetSales, DeductOne, NextLine, RestoreOne
<1>2. /\ wr \in WriteRest /\ wr # NoWrite /\ Sound(tx) /\ Recorded(tx)
      /\ Reckoned(db) /\ NoneWaits /\ Phase(db, tx, wr)
      /\ wr.negatives = {}
      /\ wr.forget => wr.sales = {}
      /\ wr.lines \in Seq(Line)
  BY <1>1, WritePhase
<1>3. CASE ReverseNegative BY <1>2, <1>3 DEF ReverseNegative
<1>4. CASE ForgetSales
  <2>1. /\ wr.forget /\ tx' = DeleteSales(tx, wr.order)
        /\ wr' = [wr EXCEPT !.forget = FALSE]
    BY <1>4 DEF ForgetSales
  <2>2. Phase(db, tx', wr') BY ONLY <1>2, <2>1, ForgetPhase
  <2>3. wr' # NoWrite BY <1>2, <2>1, StillWriting
  <2> QED BY <1>1, <2>2, <2>3, WriteShop
<1>5. CASE DeductOne
  <2>1. /\ ~wr.forget /\ wr.lines # <<>>
        /\ LineRaises(tx, wr.order, Head(wr.lines)) => wr.swallow
        /\ tx' = DeductLine(tx, wr.order, Head(wr.lines))
        /\ wr' = [wr EXCEPT !.lines = IF LineRaises(tx, wr.order, Head(wr.lines))
                                      THEN <<>> ELSE Tail(@)]
    BY <1>5 DEF DeductOne, NextLine
  <2>2. 1 \in DOMAIN wr.lines /\ wr.lines[1] = Head(wr.lines) BY <1>2, <2>1, TailOf
  <2>3. ~LineRaises(tx, wr.order, Head(wr.lines))
    <3>1. Working(tx, wr) = tx BY <2>1 DEF Working
    <3>2. wr.swallow => \A k \in DOMAIN wr.lines :
            ~LineRaises(Working(tx, wr), wr.order, wr.lines[k])
      BY <1>2 DEF Phase
    <3>3. wr.swallow => ~LineRaises(tx, wr.order, wr.lines[1]) BY <2>2, <3>1, <3>2
    <3> QED BY <2>1, <2>2, <3>3
  <2>4. wr' = [wr EXCEPT !.lines = Tail(@)] BY <2>1, <2>3
  <2>5. BaseOptions = {} BY DEF OrderlyShop
  <2>6. Phase(db, tx', wr') BY ONLY <1>2, <2>1, <2>3, <2>4, <2>5, DeductPhase
  <2>7. wr' # NoWrite BY <1>2, <2>4, StillWriting
  <2> QED BY <1>1, <2>6, <2>7, WriteShop
<1>6. CASE RestoreOne
  <2>1. PICK m \in wr.sales :
          /\ tx' = IF AlreadyRestored(tx, wr.order, m) THEN tx
                   ELSE RestoreSale(tx, wr.order, m, OversoldOf(tx, wr.order, m))
          /\ wr' = [wr EXCEPT !.sales = @ \ {m}]
    BY <1>6 DEF RestoreOne
  <2>2. ~wr.forget BY <1>2, <2>1
  <2>3. Phase(db, tx', wr') BY ONLY <1>2, <2>1, <2>2, RestorePhase
  <2>4. wr' # NoWrite BY <1>2, <2>1, StillWriting
  <2> QED BY <1>1, <2>3, <2>4, WriteShop
<1> QED BY <1>3, <1>4, <1>5, <1>6

\* What a commit does to the rows of every order but its own: nothing.
LEMMA CommitEnds ==
  ASSUME IInv, RecordsInv, ShopInv, Commit
  PROVE  /\ Reckoned(db') /\ Apart(db, db', wr.order) /\ wr.order \in Orders
         /\ NoneWaits' /\ LockFree' /\ tx' = db'
<1>1. Writing /\ ~wr.forget /\ wr.lines = <<>> /\ wr.sales = {} BY DEF Commit, StockDone
<1>2. /\ wr \in WriteRest /\ wr # NoWrite /\ Sound(tx) /\ Recorded(tx)
      /\ Reckoned(db) /\ NoneWaits /\ Phase(db, tx, wr)
      /\ wr.negatives = {}
      /\ wr.forget => wr.sales = {}
      /\ wr.lines \in Seq(Line)
  BY <1>1, WritePhase
<1>3. db' = IF wr.op = "status" THEN SetStatus(tx, wr.order, wr.target) ELSE tx BY DEF Commit
<1>4. Reckoned(db') /\ Apart(db, db', wr.order) BY ONLY <1>1, <1>2, <1>3, PhaseEnds
<1>5. wr.order \in Orders BY <1>2 DEF WriteRest
<1>6. NoneWaits' /\ LockFree' /\ tx' = db' BY <1>2 DEF Commit, NoneWaits, LockFree
<1> QED BY <1>4, <1>5, <1>6

LEMMA EndShop ==
  ASSUME IInv, RecordsInv, ShopInv, Commit \/ RaiseOut \/ Refuse
  PROVE  ShopInv'
<1>1. CASE Commit BY <1>1, CommitEnds, CommitShop
<1>2. CASE RaiseOut \/ Refuse
  <2>1. Writing /\ Undo BY <1>2 DEF RaiseOut, Refuse, NextLine, StockDone
  <2>2. Reckoned(db) /\ NoneWaits BY <2>1 DEF ShopInv
  <2>3. tx' = db' /\ NoneWaits' /\ LockFree' /\ Reckoned(db')
    BY <2>1, <2>2 DEF Undo, NoneWaits, LockFree
  <2> QED BY <2>3, CommitShop
<1> QED BY <1>1, <1>2

LEMMA NextKeepsShop ==
  ASSUME OrderlyShop
  PROVE  IInv /\ RecordsInv /\ ShopInv /\ [Next]_vars => ShopInv'
<1> SUFFICES ASSUME IInv, RecordsInv, ShopInv, [Next]_vars PROVE ShopInv'
  OBVIOUS
<1>1. CASE \E b \in Options, q \in 1..MaxQty : RestockProduct(b, q) \/ WasteStock(b, q)
  BY <1>1, StockRequestShop
<1>2. CASE \E w \in Workers : WriteAdjust(w) BY <1>2, WriteAdjustShop
<1>3. CASE \/ \E o \in Orders, form \in Forms, status \in {"new", "delivered"} :
                CreateOrder(o, form, status)
           \/ \E w \in Workers :
                BeginPlainStatus(w) \/ BeginDeduct(w) \/ BeginRestore(w) \/ BeginEdit(w)
           \/ \E o \in Orders, derived \in Targets : SyncFromItems(o, derived)
  BY <1>3, BeginsShop
<1>4. CASE \E w \in Workers :
             \/ \E b \in Options, target \in 0..MaxQty : ReadAdjust(w, b, target)
             \/ \E o \in Orders, target \in Targets, reason \in BOOLEAN :
                  ReadStatus(w, o, target, reason)
             \/ \E o \in Orders, lines \in LineLists : ReadEdit(w, o, lines)
             \/ Drop(w)
  BY <1>4, ReadsShop
<1>5. CASE ReverseNegative \/ ForgetSales \/ DeductOne \/ RestoreOne BY <1>5, WriteStepShop
<1>6. CASE Commit \/ RaiseOut \/ Refuse BY <1>6, EndShop
<1>7. CASE UNCHANGED vars
  BY <1>7 DEF vars, ShopInv, ReadInv, NoneWaits, LockFree, Writing, Fresh, Exists,
              Practised, Short
<1> QED BY <1>1, <1>2, <1>3, <1>4, <1>5, <1>6, <1>7 DEF Next

LEMMA NoRowsTotal ==
  ASSUME NEW d, d.movements = {}, d.negative = {}, DOMAIN d.items = {}
  PROVE  Books(d)
<1>1. \A b : /\ BalanceRows(d, b) = {} /\ AvailableItems(d, b) = {}
             /\ Owed(d.movements, b) = {} /\ Counted(d.movements, b) = {}
  BY DEF BalanceRows, AvailableItems, Owed, Counted
<1>2. \A b : Balanced(d, b) BY <1>1, TotalNone DEF Balanced, OwesInRow
<1>3. \A b : Shelved(d, b) BY <1>1, TotalNone, FS_EmptySet DEF Shelved, AvailableQuantity
<1>4. IsFiniteSet(d.movements) BY FS_EmptySet
<1> QED BY <1>2, <1>3, <1>4 DEF Books, Kinds, Matched, Filled

LEMMA InitShop ==
  ASSUME OrderlyShop
  PROVE  Init => ShopInv
<1> SUFFICES ASSUME Init PROVE ShopInv
  OBVIOUS
<1>1. /\ db.movements = {} /\ db.negative = {} /\ db.items = <<>>
      /\ \A o \in Orders : db.orders[o] = Absent
      /\ tx = db /\ LockFree /\ \A w \in Workers : pending[w] = Idle
  BY DEF Init, LockFree
<1>2. Books(db) BY <1>1, NoRowsTotal
<1>3. Settled(db)
  <2> SUFFICES ASSUME NEW o \in Orders
               PROVE  Stands(db.movements, o, db.orders[o].status, db.orders[o].lines,
                             <<>>, {})
    BY DEF Settled
  <2>1. db.orders[o].status = "absent" /\ RowsOf(db.movements, o) = {} BY <1>1 DEF Absent, RowsOf
  <2> QED BY <2>1 DEF Stands, Live
<1>4. Orderly(db) BY <1>1 DEF Orderly, OrderlyForm, Absent, OneLineEach
<1>5. ReadInv BY <1>1 DEF ReadInv, Fresh, Idle
<1> QED BY <1>1, <1>2, <1>3, <1>4, <1>5 DEF ShopInv, Reckoned, Writing

LEMMA ShopHolds ==
  ASSUME OrderlyShop
  PROVE  Spec => [](IInv /\ RecordsInv /\ ShopInv)
<1>1. Init => RecordsInv BY DEF Init, RecordsInv, Recorded, NumberedOnce, ItemsAreRecorded
<1>2. Init => ShopInv BY InitShop
<1>3. IInv /\ RecordsInv /\ ShopInv /\ [Next]_vars => ShopInv' BY NextKeepsShop
<1> QED BY <1>1, <1>2, <1>3, NextKeepsRecords, InvariantHolds, PTL DEF Spec

-----------------------------------------------------------------------------
\* What an order holds, oversold and consumed.
HeldRows(d, o, b) ==
  OfOption(MovementsOf(d, o, "sale") \union MovementsOf(d, o, "restore_sale"), b)

SoldRows(d, o, b) == OfOption(MovementsOf(d, o, "sale"), b)
OversoldRows(d, o, b) == OfOption(MovementsOf(d, o, "negative_sale"), b)

\* The rows of an order and option: a sale and what was oversold of it, no rows,
\* or a sale that was given back.
LEMMA RowsOfOrder ==
  ASSUME NEW d, Sound(d), Reckoned(d), NEW o \in Orders, NEW b
  PROVE  \/ /\ HeldRows(d, o, b) = {} /\ SoldRows(d, o, b) = {}
            /\ OversoldRows(d, o, b) = {}
            /\ d.orders[o].status \in Live => ~Lists(d.orders[o].lines, b)
         \/ \E m \in d.movements :
              /\ d.orders[o].status \in Live
              /\ m.type = "sale" /\ m.ref = o /\ m.option = b /\ m.qty \in Int
              /\ HeldRows(d, o, b) = {m} /\ SoldRows(d, o, b) = {m}
              /\ \E k \in DOMAIN d.orders[o].lines :
                   d.orders[o].lines[k].option = b /\ m.qty = -d.orders[o].lines[k].qty
         \/ \E m, r \in d.movements :
              /\ d.orders[o].status = "cancelled"
              /\ m # r /\ HeldRows(d, o, b) = {m, r} /\ r.qty = -m.qty /\ m.qty \in Int
<1> DEFINE M == d.movements
           lines == d.orders[o].lines
           status == d.orders[o].status
<1>1. /\ Stands(M, o, status, lines, <<>>, {}) /\ OneLineEach(lines)
      /\ status \in Statuses \cup {"absent"}
  BY AccountsOf
<1>2. Kinds(M) /\ Matched(M) /\ \A m \in M : m.qty \in Int
  BY DEF Reckoned, Books, Sound, Database, Movement
<1>3. \/ status \in Live \/ status = "cancelled" \/ status \in {"new", "absent"}
  BY <1>1, StatusValues DEF Live
<1> HIDE DEF M, lines, status
<1>4. /\ HeldRows(d, o, b) = {m \in M : m.ref = o /\ m.option = b
                                /\ m.type \in {"sale", "restore_sale"}}
      /\ SoldRows(d, o, b) = {m \in M : m.ref = o /\ m.option = b /\ m.type = "sale"}
      /\ OversoldRows(d, o, b)
           = {m \in M : m.ref = o /\ m.option = b /\ m.type = "negative_sale"}
  BY DEF HeldRows, SoldRows, OversoldRows, OfOption, MovementsOf, M
<1>5. \A m, n \in M : m.type = "sale" /\ m.ref = o /\ m.option = b
                       /\ n.type = "sale" /\ n.ref = o /\ n.option = b => m = n
  BY <1>2 DEF Kinds, SameKey, OrderTypes
<1>6. CASE status \in {"new", "absent"}
  <2>1. RowsOf(M, o) = {} BY <1>1, <1>6, NoRows
  <2>2. status \notin Live BY <1>6 DEF Live
  <2> QED BY <1>4, <2>1, <2>2 DEF RowsOf, status
<1>7. CASE status \in Live
  <2>1. Taking(M, o, lines, <<>>) BY <1>1, <1>7 DEF Stands
  <2>2. /\ \A m \in M : m.ref = o => m.type # "restore_sale" /\ Lists(lines, m.option)
        /\ \A k \in DOMAIN lines : SoldAs(M, o, lines[k])
    BY <2>1 DEF Taking, RowsOf, Lists
  <2>3. CASE ~Lists(lines, b) BY <1>4, <2>2, <2>3 DEF lines
  <2>4. CASE Lists(lines, b)
    <3>1. PICK k \in DOMAIN lines : lines[k].option = b BY <2>4 DEF Lists
    <3>2. PICK m \in M : /\ m.type = "sale" /\ m.ref = o
                         /\ m.option = b /\ m.qty = -lines[k].qty
      BY <2>2, <3>1 DEF SoldAs
    <3>3. HeldRows(d, o, b) = {m} /\ SoldRows(d, o, b) = {m} BY <1>4, <1>5, <2>2, <3>2
    <3> QED BY <1>2, <1>7, <3>1, <3>2, <3>3 DEF M, lines, status
  <2> QED BY <2>3, <2>4
<1>8. CASE status = "cancelled"
  <2>1. Unrestored(M, o) = {} BY <1>1, <1>8 DEF Stands
  <2>2. \A m \in M : m.type = "sale" /\ m.ref = o => Back(M, m) BY <2>1 DEF Unrestored
  <2>3. CASE SoldRows(d, o, b) = {}
    <3>1. \A n \in M : n.type \in {"negative_sale", "restore_sale"} /\ n.ref = o =>
            n.option # b
      BY <1>2, <1>4, <2>3 DEF Matched, SameKey
    <3>2. status \notin Live BY <1>8 DEF Live
    <3> QED BY <1>4, <2>3, <3>1, <3>2 DEF status
  <2>4. CASE SoldRows(d, o, b) # {}
    <3>1. PICK m \in M : m.type = "sale" /\ m.ref = o /\ m.option = b BY <1>4, <2>4
    <3>2. PICK r \in M : r.type = "restore_sale" /\ r.ref = o /\ r.option = b
      BY <2>2, <3>1 DEF Back, SameKey
    <3>3. r.qty = -m.qty BY <1>2, <1>5, <3>1, <3>2 DEF Matched, SameKey
    <3>4. \A n \in M : n.type = "restore_sale" /\ n.ref = o /\ n.option = b => n = r
      BY <1>2, <3>2 DEF Kinds, SameKey, OrderTypes
    <3>5. HeldRows(d, o, b) = {m, r} /\ m # r BY <1>4, <1>5, <3>1, <3>2, <3>4
    <3> QED BY <1>2, <1>8, <3>1, <3>2, <3>3, <3>5 DEF M, status
  <2> QED BY <2>3, <2>4
<1> QED BY <1>3, <1>6, <1>7, <1>8

\* What the lines of an order with one line of an option list of it.
OrderedIn(d, o, b) ==
  LET lines == d.orders[o].lines
  IN  SumFunctionOnSet([k \in DOMAIN lines |-> lines[k].qty],
                       {k \in DOMAIN lines : lines[k].option = b})

LEMMA OrderedIs ==
  ASSUME NEW d, NEW o, NEW b, NEW lines \in Seq(Line), lines = d.orders[o].lines
  PROVE  /\ ~Lists(lines, b) => OrderedIn(d, o, b) = 0
         /\ \A k \in DOMAIN lines : OneLineEach(lines) /\ lines[k].option = b =>
              OrderedIn(d, o, b) = lines[k].qty /\ lines[k].qty \in Nat
<1> DEFINE f == [k \in DOMAIN lines |-> lines[k].qty]
           S == {k \in DOMAIN lines : lines[k].option = b}
<1>1. OrderedIn(d, o, b) = SumFunctionOnSet(f, S) BY DEF OrderedIn
<1>2. ASSUME ~Lists(lines, b) PROVE SumFunctionOnSet(f, S) = 0
  <2>1. S = {} BY <1>2 DEF Lists
  <2> HIDE DEF S, f
  <2> QED BY <2>1, SumOfNone
<1>3. ASSUME NEW k \in DOMAIN lines, OneLineEach(lines), lines[k].option = b
      PROVE  SumFunctionOnSet(f, S) = lines[k].qty /\ lines[k].qty \in Nat
  <2>1. S = {k} BY <1>3 DEF OneLineEach
  <2>2. lines[k] \in Line OBVIOUS
  <2>3. lines[k].qty \in Nat /\ f[k] = lines[k].qty /\ f[k] \in Int BY <2>2 DEF Line
  <2> HIDE DEF S, f
  <2>4. SumFunctionOnSet(f, {k}) = f[k] BY <2>3, SumOne
  <2> QED BY <2>1, <2>3, <2>4
<1> QED BY <1>1, <1>2, <1>3

LEMMA HeldIs ==
  ASSUME NEW d, Sound(d), Reckoned(d), NEW o \in Orders, NEW b
  PROVE  /\ -Total(HeldRows(d, o, b))
              = IF d.orders[o].status \in Live THEN OrderedIn(d, o, b) ELSE 0
         /\ -Total(HeldRows(d, o, b)) \in Nat
<1> DEFINE lines == d.orders[o].lines
           status == d.orders[o].status
<1>1. lines \in Seq(Line) /\ OneLineEach(lines) BY AccountsOf
<1>2. "cancelled" \notin Live BY DEF Live
<1> HIDE DEF lines, status
<1>3. /\ ~Lists(lines, b) => OrderedIn(d, o, b) = 0
      /\ \A k \in DOMAIN lines : OneLineEach(lines) /\ lines[k].option = b =>
           OrderedIn(d, o, b) = lines[k].qty /\ lines[k].qty \in Nat
  BY <1>1, OrderedIs DEF lines
<1>4. CASE HeldRows(d, o, b) = {} /\ (status \in Live => ~Lists(lines, b))
  BY <1>3, <1>4, TotalNone DEF status
<1>5. ASSUME NEW m, HeldRows(d, o, b) = {m}, status \in Live, m.qty \in Int,
             NEW k \in DOMAIN lines, lines[k].option = b, m.qty = -lines[k].qty
      PROVE  /\ -Total(HeldRows(d, o, b)) = OrderedIn(d, o, b)
             /\ -Total(HeldRows(d, o, b)) \in Nat
  <2>1. Total({m}) = m.qty BY <1>5, TotalOne
  <2>2. OrderedIn(d, o, b) = lines[k].qty /\ lines[k].qty \in Nat BY <1>1, <1>3, <1>5
  <2> QED BY <1>5, <2>1, <2>2
<1>6. ASSUME NEW m, NEW r, HeldRows(d, o, b) = {m, r}, m # r, status = "cancelled",
             r.qty = -m.qty, m.qty \in Int
      PROVE  -Total(HeldRows(d, o, b)) = 0
  <2>1. Total({m}) = m.qty /\ Quantified({m}) BY <1>6, TotalOne
  <2>2. Total({m} \cup {r}) = Total({m}) + r.qty BY <1>6, <2>1, TotalAdd
  <2>3. HeldRows(d, o, b) = {m} \cup {r} BY <1>6
  <2>4. Total(HeldRows(d, o, b)) = m.qty + r.qty BY <2>1, <2>2, <2>3
  <2>5. m.qty + r.qty = 0 BY <1>6
  <2> QED BY ONLY <2>4, <2>5
<1> QED BY <1>2, <1>4, <1>5, <1>6, RowsOfOrder DEF lines, status

\* The rows of options, oversold and not given back, are those of live orders.
LEMMA OwedByLive ==
  ASSUME NEW d, Sound(d), Reckoned(d), NEW b
  PROVE  /\ \A n \in Owed(d.movements, b) :
              n.ref \in Orders /\ d.orders[n.ref].status \in Live
         /\ \A o \in Orders : d.orders[o].status \in Live =>
              {n \in Owed(d.movements, b) : n.ref = o} = OversoldRows(d, o, b)
<1> DEFINE M == d.movements
<1>1. Kinds(M) /\ Matched(M) /\ \A m \in M : m.ref \in Orders \cup {NoRef}
  BY DEF Reckoned, Books, Sound, Database, Movement
<1>2. \A n \in Owed(M, b) : n \in M /\ n.ref \in Orders /\ n.option = b
                            /\ n.type = "negative_sale" /\ ~Back(M, n)
  BY <1>1 DEF Owed, Kinds, OrderTypes
<1>3. ASSUME NEW n \in Owed(M, b) PROVE d.orders[n.ref].status \in Live
  <2> DEFINE o == n.ref
             status == d.orders[o].status
  <2>1. o \in Orders /\ n \in M /\ n.type = "negative_sale" /\ ~Back(M, n) BY <1>2, <1>3
  <2> HIDE DEF M
  <2>2. /\ Stands(M, o, status, d.orders[o].lines, <<>>, {})
        /\ status \in Statuses \cup {"absent"}
    BY <2>1, AccountsOf DEF M
  <2>3. status \notin {"new", "absent"}
    <3>1. n \in RowsOf(M, o) BY <2>1 DEF RowsOf
    <3> QED BY <2>2, <3>1, NoRows
  <2>4. status # "cancelled"
    <3> SUFFICES ASSUME status = "cancelled" PROVE FALSE
      OBVIOUS
    <3>1. PICK m \in M : m.type = "sale" /\ SameKey(m, n) BY <1>1, <2>1 DEF Matched
    <3>2. Unrestored(M, o) = {} BY <2>2 DEF Stands
    <3>3. Back(M, m) BY <3>1, <3>2 DEF Unrestored, SameKey
    <3> QED BY <2>1, <3>1, <3>3 DEF Back, SameKey
  <2> QED BY <2>2, <2>3, <2>4, StatusValues DEF Live
<1>4. ASSUME NEW o \in Orders, d.orders[o].status \in Live
      PROVE  {n \in Owed(M, b) : n.ref = o} = OversoldRows(d, o, b)
  <2>1. \A m \in M : m.ref = o => m.type # "restore_sale"
    <3> HIDE DEF M
    <3>1. Stands(M, o, d.orders[o].status, d.orders[o].lines, <<>>, {}) BY AccountsOf DEF M
    <3> QED BY <1>4, <3>1 DEF Stands, Taking, RowsOf
  <2>2. \A n \in M : n.ref = o => ~Back(M, n) BY <2>1 DEF Back, SameKey
  <2> QED BY <2>2 DEF OversoldRows, OfOption, MovementsOf, Owed
<1> QED BY <1>2, <1>3, <1>4

\* A total over rows is that over the orders of their totals.
LEMMA TotalByOrder ==
  ASSUME NEW S, Quantified(S), NEW K, IsFiniteSet(K), \A m \in S : m.ref \in K,
         NEW g, \A o \in K : g[o] = Total({m \in S : m.ref = o})
  PROVE  Total(S) = SumFunctionOnSet(g, K) /\ \A o \in K : g[o] \in Int
<1> DEFINE f == [m \in S |-> m.qty]
           kind == [m \in S |-> m.ref]
<1>1. IsFiniteSet(S) /\ (\A m \in S : f[m] \in Int) /\ \A m \in S : kind[m] \in K
  BY DEF Quantified
<1>2. \A o \in K : OfKind(S, kind, o) = {m \in S : m.ref = o} BY DEF OfKind
<1>3. \A o \in K : OfKind(S, kind, o) \subseteq S BY <1>2
<1>4. Total(S) = SumFunctionOnSet(f, S) BY DEF Total
<1>5. \A o \in K : Total(OfKind(S, kind, o)) = SumFunctionOnSet(f, OfKind(S, kind, o))
                   /\ Quantified(OfKind(S, kind, o))
  BY <1>3, TotalPart
<1> HIDE DEF f, kind
<1>6. \A o \in K : g[o] = SumFunctionOnSet(f, OfKind(S, kind, o)) BY <1>2, <1>5
<1>7. SumFunctionOnSet(g, K) = SumFunctionOnSet(f, S) BY <1>1, <1>6, SumByKind
<1>8. \A o \in K : g[o] \in Int BY <1>2, <1>5, TotalInt
<1> QED BY <1>4, <1>7, <1>8

LEMMA AccountsType ==
  ASSUME NEW d, Sound(d), Reckoned(d)
  PROVE  /\ d \in Database /\ d.movements \in SUBSET Movement /\ IsFiniteSet(d.movements)
         /\ Quantified(d.movements)
         /\ \A T : T \subseteq d.movements => Quantified(T)
<1>1. /\ d \in Database /\ d.movements \in SUBSET Movement /\ IsFiniteSet(d.movements)
  BY DEF Sound, Database, Reckoned, Books
<1>2. Quantified(d.movements) BY <1>1, RowsQuantified
<1> QED BY <1>1, <1>2, TotalPart

LEMMA BalanceOwed ==
  ASSUME OrderlyShop, NEW d, Sound(d), Reckoned(d), NEW b \in Options
  PROVE  Total(BalanceRows(d, b)) =
           SumFunctionOnSet([o \in Orders |-> -Total(OversoldRows(d, o, b))],
                            {o \in Orders : d.orders[o].status \in Live})
<1> DEFINE S == Owed(d.movements, b)
           K == {o \in Orders : d.orders[o].status \in Live}
           g == [o \in Orders |-> Total(OversoldRows(d, o, b))]
           h == [o \in Orders |-> -Total(OversoldRows(d, o, b))]
<1>1. S \subseteq d.movements BY DEF Owed
<1>2. Quantified(S) /\ d \in Database BY <1>1, AccountsType
<1>3. IsFiniteSet(K) BY FS_Subset DEF OrderlyShop
<1>4. \A m \in S : m.ref \in K BY OwedByLive
<1>5. \A o \in K : g[o] = Total({m \in S : m.ref = o}) /\ h[o] = -g[o] BY OwedByLive
<1>6. OwesInRow(d, b, -Total(S)) BY DEF Reckoned, Books, Balanced
<1> HIDE DEF S, K, g, h
<1>7. Total(S) = SumFunctionOnSet(g, K) /\ \A o \in K : g[o] \in Int
  BY <1>2, <1>3, <1>4, <1>5, TotalByOrder
<1>8. SumFunctionOnSet(h, K) = -SumFunctionOnSet(g, K)
  <2>1. \A o \in K : g[o] \in Int /\ h[o] = -g[o] BY <1>5, <1>7
  <2> QED BY <1>3, <2>1, SumNegated
<1>9. -Total(S) \in Int BY <1>2, TotalInt
<1>10. Total(BalanceRows(d, b)) = -Total(S) BY <1>2, <1>6, <1>9, OwesInRowIs
<1> QED BY <1>7, <1>8, <1>10 DEF K, h

-----------------------------------------------------------------------------
\* What is on the shelf.
StockRows(d, b) == OfOption({m \in d.movements : m.ref = NoRef}, b)

LiveSales(d, b) ==
  {m \in OfOption(d.movements, b) :
     m.type = "sale" /\ d.orders[m.ref].status # "cancelled"}

Taken(d, S) == SumFunctionOnSet([m \in d.movements |-> Cardinality(ConsumedBy(d, m))], S)

LEMMA ConsumedNat ==
  ASSUME NEW d, Sound(d), NEW m
  PROVE  Cardinality(ConsumedBy(d, m)) \in Nat
<1>1. d \in Database /\ ConsumedBy(d, m) \in SUBSET DOMAIN d.items BY DEF Sound, ConsumedBy
<1>2. IsFiniteSet(ConsumedBy(d, m)) BY <1>1, ItemSets
<1> QED BY <1>2, FS_CardinalityType

\* Of one order: what it holds and what its sales consumed make what it owes.
LEMMA ConsumedOfOrder ==
  ASSUME NEW d, Sound(d), Reckoned(d), NEW o \in Orders, NEW b
  PROVE  Total(HeldRows(d, o, b))
           + Taken(d, {m \in LiveSales(d, b) : m.ref = o})
         = Total({n \in Owed(d.movements, b) : n.ref = o})
<1> DEFINE S == {m \in LiveSales(d, b) : m.ref = o}
           N == {n \in Owed(d.movements, b) : n.ref = o}
           live == d.orders[o].status \in Live
           f == [m \in d.movements |-> Cardinality(ConsumedBy(d, m))]
<1>1. S = IF d.orders[o].status # "cancelled" THEN SoldRows(d, o, b) ELSE {}
  BY DEF LiveSales, SoldRows, OfOption, MovementsOf
<1>2. N = IF live THEN OversoldRows(d, o, b) ELSE {} BY OwedByLive
<1>3. /\ Kinds(d.movements) /\ Matched(d.movements) /\ Filled(d)
      /\ \A m \in d.movements : m.qty \in Int
  BY DEF Reckoned, Books, Sound, Database, Movement
<1>4. "cancelled" \notin Live BY DEF Live
<1>5. Taken(d, {}) = 0 /\ Total({}) = 0 BY SumOfNone, TotalNone DEF Taken
<1> HIDE DEF S, N, f
<1>6. CASE /\ HeldRows(d, o, b) = {} /\ SoldRows(d, o, b) = {}
           /\ OversoldRows(d, o, b) = {}
  BY <1>1, <1>2, <1>5, <1>6 DEF S, N
<1>7. ASSUME NEW m \in d.movements, live, m.type = "sale", m.ref = o, m.option = b,
             m.qty \in Int, HeldRows(d, o, b) = {m}, SoldRows(d, o, b) = {m}
      PROVE  Total(HeldRows(d, o, b)) + Taken(d, S) = Total(N)
  <2> DEFINE c == Cardinality(ConsumedBy(d, m))
  <2>1. S = {m} /\ N = OversoldRows(d, o, b) BY <1>1, <1>2, <1>4, <1>7
  <2>2. Total({m}) = m.qty BY <1>7, TotalOne
  <2>3. c \in Nat /\ c = -m.qty - OversoldOf(d, o, m) BY <1>3, <1>7, ConsumedNat DEF Filled
  <2>4. Taken(d, {m}) = c
    <3>1. f[m] = c /\ f[m] \in Int BY <1>7, <2>3 DEF f
    <3>2. Taken(d, {m}) = SumFunctionOnSet(f, {m}) BY DEF Taken, f
    <3> HIDE DEF c
    <3>3. SumFunctionOnSet(f, {m}) = f[m] BY <3>1, SumOne
    <3> QED BY <3>1, <3>2, <3>3
  <2>5. OversoldRows(d, o, b) = {n \in d.movements : n.type = "negative_sale" /\ n.ref = o
                                                     /\ n.option = m.option}
    BY <1>7 DEF OversoldRows, OfOption, MovementsOf
  <2>6. OversoldOf(d, o, m) = -Total(N) /\ Total(N) \in Int
    <3>1. CASE OversoldRows(d, o, b) = {}
      <4>1. OversoldOf(d, o, m) = 0 BY <1>3, <2>5, <3>1, OversoldIs
      <4> QED BY <1>5, <2>1, <3>1, <4>1
    <3>2. CASE OversoldRows(d, o, b) # {}
      <4>1. PICK n \in d.movements : n.type = "negative_sale" /\ n.ref = o
                                     /\ n.option = m.option
        BY <2>5, <3>2
      <4>2. OversoldRows(d, o, b) = {n} BY <1>3, <2>5, <4>1 DEF Kinds, SameKey, OrderTypes
      <4>3. Total({n}) = n.qty /\ n.qty \in Int BY <1>3, TotalOne
      <4>4. OversoldOf(d, o, m) = -n.qty BY <1>3, <4>1, OversoldIs
      <4> QED BY <2>1, <4>2, <4>3, <4>4
    <3> QED BY <3>1, <3>2
  <2> HIDE DEF c
  <2> QED BY <1>7, <2>1, <2>2, <2>3, <2>4, <2>6
<1>8. ASSUME d.orders[o].status = "cancelled"
      PROVE  Total(HeldRows(d, o, b)) + Taken(d, S) = Total(N)
  <2>1. S = {} /\ N = {} BY <1>1, <1>2, <1>4, <1>8
  <2>2. -Total(HeldRows(d, o, b)) = 0 BY <1>4, <1>8, HeldIs
  <2>3. Total(HeldRows(d, o, b)) \in Int
    <3>1. HeldRows(d, o, b) \subseteq d.movements BY DEF HeldRows, OfOption, MovementsOf
    <3> QED BY <3>1, AccountsType, TotalInt
  <2> QED BY <1>5, <2>1, <2>2, <2>3
<1> QED BY <1>6, <1>7, <1>8, RowsOfOrder DEF S, N

LEMMA ShelfIs ==
  ASSUME OrderlyShop, NEW d, Sound(d), Reckoned(d), NEW b \in Options
  PROVE  AvailableQuantity(d, b) = Total(StockRows(d, b)) - Taken(d, LiveSales(d, b))
<1> DEFINE M == d.movements
           R == {m \in M : m.ref # NoRef /\ m.option = b /\ m.type # "negative_sale"}
           W == Owed(M, b)
           L == LiveSales(d, b)
           held == [o \in Orders |-> Total({m \in R : m.ref = o})]
           took == [o \in Orders |-> Taken(d, {m \in L : m.ref = o})]
           owes == [o \in Orders |-> Total({n \in W : n.ref = o})]
           f == [m \in M |-> Cardinality(ConsumedBy(d, m))]
           kind == [m \in M |-> m.ref]
<1>1. /\ Kinds(M) /\ \A m \in M : m.ref \in Orders \cup {NoRef}
      /\ AvailableQuantity(d, b) = Total(Counted(M, b)) - Total(W)
  BY DEF Reckoned, Books, Sound, Database, Movement, Shelved
<1>2. IsFiniteSet(Orders) /\ IsFiniteSet(M) /\ \A T : T \subseteq M => Quantified(T)
  BY AccountsType DEF OrderlyShop
<1>3. R \subseteq M /\ W \subseteq M /\ L \subseteq M /\ StockRows(d, b) \subseteq M
  BY DEF Owed, LiveSales, StockRows, OfOption
<1>4. Total(Counted(M, b)) = Total(StockRows(d, b)) + Total(R)
  <2>1. Counted(M, b) = StockRows(d, b) \cup R /\ StockRows(d, b) \cap R = {}
    BY <1>1 DEF Counted, StockRows, OfOption, Kinds, OrderTypes
  <2>2. Quantified(StockRows(d, b)) /\ Quantified(R) BY <1>2, <1>3
  <2> HIDE DEF R
  <2> QED BY <2>1, <2>2, TotalUnion
<1>5. /\ \A m \in R : m.ref \in Orders
      /\ \A m \in W : m.ref \in Orders
      /\ \A m \in L : m.ref \in Orders
  BY <1>1 DEF Kinds, OrderTypes, Owed, LiveSales, OfOption
<1>6. \A o \in Orders : {m \in R : m.ref = o} = HeldRows(d, o, b)
  BY <1>1, OrdersAssumption DEF Kinds, OrderTypes, HeldRows, OfOption, MovementsOf
<1>7. \A o \in Orders : held[o] + took[o] = owes[o]
  <2> SUFFICES ASSUME NEW o \in Orders PROVE held[o] + took[o] = owes[o]
    OBVIOUS
  <2>1. Total(HeldRows(d, o, b)) + Taken(d, {m \in LiveSales(d, b) : m.ref = o})
          = Total({n \in Owed(d.movements, b) : n.ref = o})
    BY ConsumedOfOrder
  <2>2. held[o] = Total(HeldRows(d, o, b)) BY <1>6
  <2>3. took[o] = Taken(d, {m \in LiveSales(d, b) : m.ref = o}) OBVIOUS
  <2>4. owes[o] = Total({n \in Owed(d.movements, b) : n.ref = o}) OBVIOUS
  <2> HIDE DEF held, took, owes
  <2> QED BY <2>1, <2>2, <2>3, <2>4
<1>8. Total(R) = SumFunctionOnSet(held, Orders) /\ \A o \in Orders : held[o] \in Int
  <2>1. Quantified(R) BY <1>2, <1>3
  <2>2. \A o \in Orders : held[o] = Total({m \in R : m.ref = o}) OBVIOUS
  <2> HIDE DEF R, held
  <2> QED BY <1>2, <1>5, <2>1, <2>2, TotalByOrder
<1>9. Total(W) = SumFunctionOnSet(owes, Orders) /\ \A o \in Orders : owes[o] \in Int
  <2>1. Quantified(W) BY <1>2, <1>3
  <2>2. \A o \in Orders : owes[o] = Total({n \in W : n.ref = o}) OBVIOUS
  <2> HIDE DEF W, owes
  <2> QED BY <1>2, <1>5, <2>1, <2>2, TotalByOrder
<1>10. Taken(d, L) = SumFunctionOnSet(took, Orders) /\ \A o \in Orders : took[o] \in Int
  <2>1. IsFiniteSet(L) /\ (\A m \in L : f[m] \in Int) /\ \A m \in L : kind[m] \in Orders
    <3>1. IsFiniteSet(L) BY <1>2, <1>3, FS_Subset
    <3>2. \A m \in L : f[m] = Cardinality(ConsumedBy(d, m)) /\ kind[m] = m.ref BY <1>3
    <3>3. \A m \in L : Cardinality(ConsumedBy(d, m)) \in Int BY ConsumedNat
    <3> HIDE DEF L, f, kind
    <3> QED BY <1>5, <3>1, <3>2, <3>3
  <2>2. \A o \in Orders : OfKind(L, kind, o) = {m \in L : m.ref = o}
    <3>1. \A m \in L : kind[m] = m.ref BY <1>3
    <3> HIDE DEF L, kind
    <3> QED BY <3>1 DEF OfKind
  <2>3. \A o \in Orders : took[o] = SumFunctionOnSet(f, OfKind(L, kind, o)) BY <2>2 DEF Taken
  <2>4. Taken(d, L) = SumFunctionOnSet(f, L) BY DEF Taken
  <2>5. \A o \in Orders : OfKind(L, kind, o) \subseteq L BY <2>2
  <2> HIDE DEF L, f, kind, took
  <2>6. SumFunctionOnSet(took, Orders) = SumFunctionOnSet(f, L) BY <1>2, <2>1, <2>3, SumByKind
  <2>7. \A o \in Orders : SumFunctionOnSet(f, OfKind(L, kind, o)) \in Int
    <3> SUFFICES ASSUME NEW o \in Orders
                 PROVE  SumFunctionOnSet(f, OfKind(L, kind, o)) \in Int
      OBVIOUS
    <3>1. IsFiniteSet(OfKind(L, kind, o)) BY <2>1, <2>5, FS_Subset
    <3>2. \A m \in OfKind(L, kind, o) : f[m] \in Int BY <2>1, <2>5
    <3> QED BY <3>1, <3>2, SumInt
  <2> QED BY <2>3, <2>4, <2>6, <2>7
<1> HIDE DEF M, R, W, L, held, took, owes
<1>11. \A o \in Orders : held[o] \in Int /\ took[o] \in Int /\ owes[o] = held[o] + took[o]
  BY <1>7, <1>8, <1>10
<1>12. SumFunctionOnSet(owes, Orders)
         = SumFunctionOnSet(held, Orders) + SumFunctionOnSet(took, Orders)
  BY <1>2, <1>11, SumPlus
<1>13. /\ SumFunctionOnSet(held, Orders) \in Int /\ SumFunctionOnSet(took, Orders) \in Int
       /\ Total(StockRows(d, b)) \in Int
  <2>1. Total(StockRows(d, b)) \in Int BY <1>2, <1>3, TotalInt
  <2>2. SumFunctionOnSet(held, Orders) \in Int BY <1>2, <1>8, SumInt
  <2>3. SumFunctionOnSet(took, Orders) \in Int BY <1>2, <1>10, SumInt
  <2> QED BY <2>1, <2>2, <2>3
<1>14. AvailableQuantity(d, b) = Total(StockRows(d, b)) - Taken(d, L)
  BY <1>1, <1>4, <1>8, <1>9, <1>10, <1>12, <1>13
<1> QED BY <1>14 DEF L

-----------------------------------------------------------------------------
(***************************************************************************)
(* In a shop of any options, orders and quantities that keeps to its       *)
(* practices, what an order in production or handed over has taken from    *)
(* stock is what it lists, and no other order holds anything, however      *)
(* requests, edits and cancellations follow each other.                    *)
(***************************************************************************)
THEOREM LinesAreHeld ==
  ASSUME OrderlyShop
  PROVE  Spec => []OrdersHoldTheirLines
<1>1. IInv /\ ShopInv => OrdersHoldTheirLines
  <2> SUFFICES ASSUME IInv, ShopInv, NEW o \in Orders, NEW b \in Options
               PROVE  HeldBy(o, b) = IF db.orders[o].status \in Live
                                     THEN Ordered(o, b) ELSE 0
    BY DEF OrdersHoldTheirLines
  <2>1. Sound(db) /\ Reckoned(db) BY DEF IInv, ShopInv
  <2>2. -Total(HeldRows(db, o, b))
          = IF db.orders[o].status \in Live THEN OrderedIn(db, o, b) ELSE 0
    BY <2>1, HeldIs
  <2>3. HeldBy(o, b) = -Total(HeldRows(db, o, b)) BY DEF HeldBy, HeldRows
  <2>4. Ordered(o, b) = OrderedIn(db, o, b) BY DEF Ordered, OrderedIn
  <2> QED BY <2>2, <2>3, <2>4
<1> QED BY <1>1, ShopHolds, PTL

(***************************************************************************)
(* In such a shop the negative balance of an option is what the orders     *)
(* that are live oversold of it: no unit is owed twice or forgotten.       *)
(***************************************************************************)
THEOREM BalanceIsOwed ==
  ASSUME OrderlyShop
  PROVE  Spec => []BalanceIsOwedByOrders
<1>1. IInv /\ ShopInv => BalanceIsOwedByOrders
  <2> SUFFICES ASSUME IInv, ShopInv, NEW b \in Options
               PROVE  OutstandingBalance(b) =
                        SumFunctionOnSet([o \in Orders |-> OversoldBy(o, b)],
                                         {o \in Orders : db.orders[o].status \in Live})
    BY DEF BalanceIsOwedByOrders
  <2>1. Sound(db) /\ Reckoned(db) BY DEF IInv, ShopInv
  <2>2. Total(BalanceRows(db, b)) =
          SumFunctionOnSet([o \in Orders |-> -Total(OversoldRows(db, o, b))],
                           {o \in Orders : db.orders[o].status \in Live})
    BY <2>1, BalanceOwed
  <2> QED BY <2>2 DEF OutstandingBalance, OversoldBy, OversoldRows
<1> QED BY <1>1, ShopHolds, PTL

(***************************************************************************)
(* In such a shop the shelf is what restocks, wastes and adjustments left, *)
(* less what orders that are not cancelled consumed: no sale, edit or      *)
(* cancellation makes an item appear or vanish.                            *)
(***************************************************************************)
THEOREM StockStaysConserved ==
  ASSUME OrderlyShop
  PROVE  Spec => []StockIsConserved
<1>1. IInv /\ ShopInv => StockIsConserved
  <2> SUFFICES ASSUME IInv, ShopInv, NEW b \in Options
               PROVE  AvailableQuantity(db, b) =
                        Total(OfOption({m \in db.movements : m.ref = NoRef}, b))
                        - SumFunctionOnSet(
                            [m \in db.movements |-> Cardinality(ConsumedBy(db, m))],
                            {m \in OfOption(db.movements, b) :
                               m.type = "sale" /\ db.orders[m.ref].status # "cancelled"})
    BY DEF StockIsConserved
  <2>1. Sound(db) /\ Reckoned(db) BY DEF IInv, ShopInv
  <2>2. AvailableQuantity(db, b) = Total(StockRows(db, b)) - Taken(db, LiveSales(db, b))
    BY <2>1, ShelfIs
  <2> QED BY <2>2 DEF StockRows, Taken, LiveSales
<1> QED BY <1>1, ShopHolds, PTL

-----------------------------------------------------------------------------
(***************************************************************************)
(* The refinement.  The net position of an option is the total of its rows *)
(* but those oversold; what an order holds is a part of them.              *)
(***************************************************************************)
LEMMA NetIs ==
  ASSUME NEW d, Sound(d), Reckoned(d), NEW b \in Options
  PROVE  /\ NetAvailableQuantity(d, b) = Total(Counted(d.movements, b))
         /\ NetAvailableQuantity(d, b) \in Int
<1> DEFINE W == Owed(d.movements, b)
           C == Counted(d.movements, b)
<1>1. d \in Database /\ Total(W) \in Int /\ Total(C) \in Int BY AccountsType, RowsQuantified
<1>2. OwesInRow(d, b, -Total(W)) /\ AvailableQuantity(d, b) = Total(C) - Total(W)
  BY DEF Reckoned, Books, Balanced, Shelved
<1> HIDE DEF W, C
<1>3. NegativeBalanceQty(d, b) = -Total(W) BY <1>1, <1>2, OwesInRowIs
<1>4. NetAvailableQuantity(d, b) = Total(C) BY <1>1, <1>2, <1>3 DEF NetAvailableQuantity
<1> QED BY <1>1, <1>4 DEF C

LEMMA SameHeld ==
  ASSUME NEW d, NEW e, NEW o, RowsOf(e.movements, o) = RowsOf(d.movements, o), NEW b
  PROVE  HeldRows(e, o, b) = HeldRows(d, o, b)
BY DEF HeldRows, OfOption, MovementsOf, RowsOf

\* Where only the rows of one order change, the position moves by what it holds.
LEMMA HoldMoves ==
  ASSUME NEW d, Sound(d), Reckoned(d), NEW e, Sound(e), Reckoned(e), NEW o \in Orders,
         Apart(d, e, o), NEW b \in Options
  PROVE  NetAvailableQuantity(e, b) = NetAvailableQuantity(d, b)
           + -Total(HeldRows(d, o, b)) - -Total(HeldRows(e, o, b))
<1> DEFINE R == Counted(d.movements \ RowsOf(d.movements, o), b)
<1>1. R = Counted(e.movements \ RowsOf(e.movements, o), b) BY DEF Apart
<1>2. ASSUME NEW f, Sound(f), Reckoned(f),
             R = Counted(f.movements \ RowsOf(f.movements, o), b)
      PROVE  /\ NetAvailableQuantity(f, b) = Total(R) + Total(HeldRows(f, o, b))
             /\ Total(R) \in Int /\ Total(HeldRows(f, o, b)) \in Int
  <2>1. Kinds(f.movements) BY <1>2 DEF Reckoned, Books
  <2>2. /\ Counted(f.movements, b) = R \cup HeldRows(f, o, b)
        /\ R \cap HeldRows(f, o, b) = {}
        /\ R \subseteq f.movements /\ HeldRows(f, o, b) \subseteq f.movements
    <3> HIDE DEF R
    <3> QED BY <1>2, <2>1, OrdersAssumption
      DEF Counted, RowsOf, HeldRows, OfOption, MovementsOf, Kinds, OrderTypes
  <2>3. Quantified(R) /\ Quantified(HeldRows(f, o, b))
    <3> HIDE DEF R
    <3> QED BY <1>2, <2>2, AccountsType
  <2> HIDE DEF R
  <2>4. Total(Counted(f.movements, b)) = Total(R) + Total(HeldRows(f, o, b))
    BY <2>2, <2>3, TotalUnion
  <2> QED BY <1>2, <2>3, <2>4, NetIs, TotalInt
<1> HIDE DEF R
<1>3. /\ NetAvailableQuantity(d, b) = Total(R) + Total(HeldRows(d, o, b))
      /\ Total(R) \in Int /\ Total(HeldRows(d, o, b)) \in Int
  BY <1>2 DEF R
<1>4. /\ NetAvailableQuantity(e, b) = Total(R) + Total(HeldRows(e, o, b))
      /\ Total(HeldRows(e, o, b)) \in Int
  BY <1>1, <1>2
<1> QED BY <1>3, <1>4

\* A stock request records one row, of no order.
Records(d, e, b) ==
  \E row : e.movements = d.movements \cup {row} /\ row.option = b /\ row.ref = NoRef

LEMMA LogRecords ==
  ASSUME NEW d, NEW e, NEW type, NEW b, NEW q, Sound(d), e.movements = d.movements,
         Sound(e)
  PROVE  Records(d, LogMovement(e, type, b, q, NoRef), b)
<1> DEFINE f == LogMovement(e, type, b, q, NoRef)
           row == NewRow(e, type, b, q, NoRef)
<1>1. f.movements = d.movements \cup {row} BY DEF LogMovement, NewRow, Sound, Database
<1>2. row.option = b /\ row.ref = NoRef BY DEF NewRow
<1> HIDE DEF f, row
<1>3. Records(d, f, b) BY <1>1, <1>2 DEF Records
<1> QED BY <1>3 DEF f

LEMMA TakeOutRecords ==
  ASSUME NEW d, NEW type, NEW b, NEW q, Sound(d)
  PROVE  Records(d, TakeOut(d, type, b, q), b)
<1> DEFINE f == LogMovement(d, type, b, -q, NoRef)
<1>1. Records(d, f, b) BY LogRecords
<1>2. TakeOut(d, type, b, q) = ConsumeItems(f, FifoTake(f, b, q), f.lastMovement)
  BY DEF TakeOut, ConsumeFifoItems
<1>3. ASSUME NEW S, NEW m PROVE ConsumeItems(f, S, m).movements = f.movements
  BY DEF ConsumeItems, LogMovement, Sound, Database
<1>4. TakeOut(d, type, b, q).movements = f.movements
  <2> HIDE DEF f
  <2> QED BY <1>2, <1>3
<1> HIDE DEF f
<1> QED BY <1>1, <1>4 DEF Records

LEMMA RecordMoves ==
  ASSUME NEW d, Sound(d), Reckoned(d), NEW e, Sound(e), Reckoned(e), NEW b \in Options,
         Records(d, e, b)
  PROVE  /\ \A c \in Options \ {b} :
              NetAvailableQuantity(e, c) = NetAvailableQuantity(d, c)
         /\ \A o \in Orders, c \in Options : HeldRows(e, o, c) = HeldRows(d, o, c)
<1>1. PICK row : e.movements = d.movements \cup {row} /\ row.option = b /\ row.ref = NoRef
  BY DEF Records
<1>2. \A c \in Options \ {b} : Counted(e.movements, c) = Counted(d.movements, c)
  BY <1>1 DEF Counted
<1>3. \A o \in Orders : RowsOf(e.movements, o) = RowsOf(d.movements, o)
  BY <1>1, OrdersAssumption DEF RowsOf
<1> QED BY <1>2, <1>3, NetIs, SameHeld

LEMMA StockRequestRecords ==
  ASSUME IInv, NEW b \in Options, NEW q \in 1..MaxQty,
         RestockProduct(b, q) \/ WasteStock(b, q)
  PROVE  Records(db, db', b)
<1>1. Sound(db) /\ q \in Nat BY StockAssumption DEF IInv
<1>2. CASE RestockProduct(b, q)
  <2> DEFINE e == CreateLotWithItems(db, b, q)
  <2>1. Sound(e) /\ e.movements = db.movements BY <1>1, CreateLotSound, CreateLotBrings
  <2>2. db' = LogMovement(e, "restock", b, q, NoRef) BY <1>2 DEF RestockProduct, CommitNow
  <2> HIDE DEF e
  <2> QED BY <1>1, <2>1, <2>2, LogRecords
<1>3. CASE WasteStock(b, q) BY <1>1, <1>3, TakeOutRecords DEF WasteStock, CommitNow
<1> QED BY <1>2, <1>3

LEMMA AdjustRecords ==
  ASSUME IInv, NEW w \in Workers, WriteAdjust(w)
  PROVE  \E b \in Options : Records(db, db', b)
<1> DEFINE b == pending[w].option
           delta == pending[w].delta
           raised == IF delta > 0 THEN CreateLotWithItems(db, b, delta) ELSE db
<1>1. pending[w] \in AdjustRequest BY RequestKinds DEF WriteAdjust, IInv
<1>2. b \in Options /\ delta \in Int /\ Sound(db) BY <1>1 DEF AdjustRequest, IInv
<1>3. CASE delta >= 0 /\ CommitNow(LogMovement(raised, "adjustment", b, delta, NoRef))
  <2>1. Sound(raised) /\ raised.movements = db.movements
    <3> HIDE DEF b, delta
    <3>1. delta > 0 => delta \in Nat BY <1>2
    <3> QED BY <1>2, <3>1, CreateLotSound, CreateLotBrings
  <2>2. db' = LogMovement(raised, "adjustment", b, delta, NoRef) BY <1>3 DEF CommitNow
  <2> HIDE DEF raised, b, delta
  <2> QED BY <1>2, <2>1, <2>2, LogRecords
<1>4. CASE CommitNow(TakeOut(db, "adjustment", b, -delta))
  <2> HIDE DEF b, delta
  <2>1. Records(db, db', b) BY <1>2, <1>4, TakeOutRecords DEF CommitNow
  <2> QED BY <1>2, <2>1
<1> QED BY <1>3, <1>4 DEF WriteAdjust

PositionNet(d) == [b \in Options |-> NetAvailableQuantity(d, b)]
PositionHeld(d) == [o \in Orders |-> [b \in Options |-> -Total(HeldRows(d, o, b))]]

LEMMA SamePosition ==
  ASSUME NEW d, NEW e, e = d
  PROVE  PositionNet(e) = PositionNet(d) /\ PositionHeld(e) = PositionHeld(d)
OBVIOUS

LEMMA PositionMoves ==
  ASSUME NEW d, Sound(d), Reckoned(d), NEW e, Sound(e), Reckoned(e), NEW b \in Options,
         Records(d, e, b)
  PROVE  /\ PositionNet(e) \in [Options -> Int]
         /\ \A c \in Options \ {b} : PositionNet(e)[c] = PositionNet(d)[c]
         /\ PositionHeld(e) = PositionHeld(d)
<1>1. PositionNet(e) \in [Options -> Int] BY NetIs DEF PositionNet
<1>2. \A c \in Options \ {b} : PositionNet(e)[c] = PositionNet(d)[c]
  BY RecordMoves DEF PositionNet
<1>3. \A o \in Orders, c \in Options : HeldRows(e, o, c) = HeldRows(d, o, c) BY RecordMoves
<1>4. PositionHeld(e) = PositionHeld(d) BY <1>3 DEF PositionHeld
<1> QED BY <1>1, <1>2, <1>4

LEMMA PositionHolds ==
  ASSUME NEW d, Sound(d), Reckoned(d), NEW e, Sound(e), Reckoned(e), NEW o \in Orders,
         Apart(d, e, o)
  PROVE  /\ PositionHeld(e) \in [Orders -> [Options -> Nat]]
         /\ \A p \in Orders \ {o} : PositionHeld(e)[p] = PositionHeld(d)[p]
         /\ PositionNet(e) = [b \in Options |->
              PositionNet(d)[b] + PositionHeld(d)[o][b] - PositionHeld(e)[o][b]]
<1>1. \A p \in Orders, b \in Options : -Total(HeldRows(e, p, b)) \in Nat BY HeldIs
<1>2. PositionHeld(e) \in [Orders -> [Options -> Nat]] BY <1>1 DEF PositionHeld
<1>3. ASSUME NEW p \in Orders \ {o} PROVE PositionHeld(e)[p] = PositionHeld(d)[p]
  <2>1. RowsOf(e.movements, p) = RowsOf(d.movements, p) BY ApartRows
  <2>2. \A b \in Options : HeldRows(e, p, b) = HeldRows(d, p, b) BY <2>1, SameHeld
  <2> QED BY <2>2 DEF PositionHeld
<1>4. \A b \in Options : NetAvailableQuantity(e, b) = NetAvailableQuantity(d, b)
        + -Total(HeldRows(d, o, b)) - -Total(HeldRows(e, o, b))
  BY HoldMoves
<1>5. /\ \A b \in Options : PositionNet(d)[b] = NetAvailableQuantity(d, b)
      /\ \A b \in Options : PositionHeld(d)[o][b] = -Total(HeldRows(d, o, b))
      /\ \A b \in Options : PositionHeld(e)[o][b] = -Total(HeldRows(e, o, b))
  BY DEF PositionNet, PositionHeld
<1>6. \A b \in Options : NetAvailableQuantity(e, b)
        = PositionNet(d)[b] + PositionHeld(d)[o][b] - PositionHeld(e)[o][b]
  BY <1>4, <1>5
<1>7. PositionNet(e) = [b \in Options |->
        PositionNet(d)[b] + PositionHeld(d)[o][b] - PositionHeld(e)[o][b]]
  BY <1>6 DEF PositionNet
<1> QED BY <1>2, <1>3, <1>7

\* The state functions that INSTANCE substitutes, in the terms above.
LEMMA PositionIs ==
  /\ [b \in Options |-> NetAvailableQuantity(db, b)] = PositionNet(db)
  /\ [o \in Orders |-> [b \in Options |-> HeldBy(o, b)]] = PositionHeld(db)
BY DEF PositionNet, PositionHeld, HeldBy, HeldRows

LEMMA PositionIsNext ==
  /\ [b \in Options |-> NetAvailableQuantity(db, b)]' = PositionNet(db')
  /\ [o \in Orders |-> [b \in Options |-> HeldBy(o, b)]]' = PositionHeld(db')
BY DEF PositionNet, PositionHeld, HeldBy, HeldRows

LEMMA StepMoves ==
  ASSUME OrderlyShop, IInv, RecordsInv, ShopInv, IInv', ShopInv', [Next]_vars
  PROVE  \/ db' = db
         \/ \E b \in Options : Records(db, db', b)
         \/ \E o \in Orders : Apart(db, db', o)
<1>1. CASE \E b \in Options, q \in 1..MaxQty : RestockProduct(b, q) \/ WasteStock(b, q)
  BY <1>1, StockRequestRecords
<1>2. CASE \E w \in Workers : WriteAdjust(w) BY <1>2, AdjustRecords
<1>3. CASE Commit BY <1>3, CommitEnds
<1>4. \/ \E w \in Workers, b \in Options, target \in 0..MaxQty : ReadAdjust(w, b, target)
      \/ \E o \in Orders, form \in Forms, status \in {"new", "delivered"} :
           CreateOrder(o, form, status)
      \/ \E w \in Workers, o \in Orders, target \in Targets, reason \in BOOLEAN :
           ReadStatus(w, o, target, reason)
      \/ \E w \in Workers : BeginPlainStatus(w) \/ BeginDeduct(w) \/ BeginRestore(w)
      \/ \E w \in Workers, o \in Orders, lines \in LineLists : ReadEdit(w, o, lines)
      \/ \E w \in Workers : BeginEdit(w) \/ Drop(w)
      \/ \E o \in Orders, derived \in Targets : SyncFromItems(o, derived)
      \/ ReverseNegative \/ ForgetSales \/ DeductOne \/ RaiseOut \/ RestoreOne \/ Refuse
      \/ UNCHANGED vars
      => db' = db
  BY DEF ReadAdjust, CreateOrder, ReadStatus, BeginPlainStatus, BeginDeduct,
         BeginRestore, ReadEdit, BeginEdit, Drop, SyncFromItems, ReverseNegative,
         ForgetSales, DeductOne, RaiseOut, RestoreOne, Refuse, Undo, BeginWith, vars
<1> QED BY <1>1, <1>2, <1>3, <1>4 DEF Next

(***************************************************************************)
(* In such a shop every commit of a handler is one step of StockPosition,  *)
(* or none: it brings in or takes out stock of one option, or one order    *)
(* comes to hold more or less and the net available quantity of each       *)
(* option, which the code computes from lots, items and balance rows,      *)
(* moves by just that.                                                     *)
(***************************************************************************)
THEOREM CommitsMoveThePosition ==
  ASSUME OrderlyShop
  PROVE  Spec => ImplementsStockPosition
<1>1. Init => Position!Init
  <2> SUFFICES ASSUME Init PROVE Position!Init
    OBVIOUS
  <2>1. db.movements = {} /\ db.negative = {} /\ DOMAIN db.items = {} BY DEF Init
  <2>2. \A b \in Options : NetAvailableQuantity(db, b) = 0
    <3>1. \A b \in Options : BalanceRows(db, b) = {} /\ AvailableItems(db, b) = {}
      BY <2>1 DEF BalanceRows, AvailableItems
    <3> QED BY <3>1, FS_EmptySet DEF NetAvailableQuantity, AvailableQuantity,
                               NegativeBalanceQty
  <2>3. \A o \in Orders, b \in Options : HeldBy(o, b) = 0
    <3>1. \A o \in Orders, b \in Options : HeldRows(db, o, b) = {}
      BY <2>1 DEF HeldRows, OfOption, MovementsOf
    <3>2. \A o \in Orders, b \in Options : Total(HeldRows(db, o, b)) = 0 BY <3>1, TotalNone
    <3> QED BY <3>2 DEF HeldBy, HeldRows
  <2> QED BY <2>2, <2>3 DEF Position!Init
<1>2. ASSUME IInv, RecordsInv, ShopInv, IInv', ShopInv', [Next]_vars
      PROVE  [Position!Next]_(Position!vars)
  <2>1. Sound(db) /\ Reckoned(db) /\ Sound(db') /\ Reckoned(db') BY <1>2 DEF IInv, ShopInv
  <2>2. CASE db' = db
    <3>1. PositionNet(db') = PositionNet(db) /\ PositionHeld(db') = PositionHeld(db) BY <2>2
    <3> QED BY <3>1, PositionIs, PositionIsNext DEF Position!vars
  <2>3. ASSUME NEW b \in Options, Records(db, db', b)
        PROVE  Position!Move(b)
    <3>1. /\ PositionNet(db') \in [Options -> Int]
          /\ \A c \in Options \ {b} : PositionNet(db')[c] = PositionNet(db)[c]
          /\ PositionHeld(db') = PositionHeld(db)
      BY <2>1, <2>3, PositionMoves
    <3> QED BY <3>1, PositionIs, PositionIsNext DEF Position!Move
  <2>4. ASSUME NEW o \in Orders, Apart(db, db', o)
        PROVE  Position!Hold(o)
    <3>1. /\ PositionHeld(db') \in [Orders -> [Options -> Nat]]
          /\ \A p \in Orders \ {o} : PositionHeld(db')[p] = PositionHeld(db)[p]
          /\ PositionNet(db') = [b \in Options |->
               PositionNet(db)[b] + PositionHeld(db)[o][b] - PositionHeld(db')[o][b]]
      BY <2>1, <2>4, PositionHolds
    <3> QED BY <3>1, PositionIs, PositionIsNext DEF Position!Hold
  <2>5. \/ db' = db
        \/ \E b \in Options : Records(db, db', b)
        \/ \E o \in Orders : Apart(db, db', o)
    BY <1>2, StepMoves
  <2> QED BY <2>2, <2>3, <2>4, <2>5 DEF Position!Next
<1> QED BY <1>1, <1>2, ShopHolds, PTL DEF Spec, ImplementsStockPosition, Position!Spec

-----------------------------------------------------------------------------
(***************************************************************************)
(* Counting the stock.  StockCount works on the same tables with the same  *)
(* helpers; its database has the journal as well, and its movements may be *)
(* of a submission.                                                        *)
(***************************************************************************)
(***************************************************************************)
(* A database of StockCount.  Its shelf is one that the theorems above     *)
(* speak of, whatever the other rows.                                      *)
(***************************************************************************)
CountRow == [id : Nat, type : MovementType, option : Options, qty : Int,
             ref : Orders \cup {NoRef, Session}]

\* Costs that are booked for a movement; that of an order is "order_cogs".
MovementCosts == {"waste_cogs", "negative_sale_cogs", "restock_inflow"}
CostKinds == MovementCosts \cup {"order_cogs"}

CostRow == [id : Nat, source : CostKinds, of : Nat \cup Orders, text : CostKinds,
            lines : [Accounts -> Int], locked : {FALSE}]

CountOrder == [status : {"absent", "delivered", "cancelled"}, source : CounterSources,
               lines : Seq(Line)]

CountBase == [lots : Seq(Lot), items : Seq(InventoryItem),
              negative : SUBSET BalanceRow, movements : SUBSET CountRow,
              lastMovement : Nat, orders : [Orders -> CountOrder],
              journal : SUBSET CostRow, lastEntry : Nat]

Countable(d) == d \in CountBase /\ LotsCountTheirItems(d)

Shelf(d) == [lots |-> d.lots, items |-> d.items, negative |-> {}, movements |-> {},
             lastMovement |-> 0, orders |-> [o \in Orders |-> Absent]]

LEMMA ShelfSound ==
  ASSUME NEW d, Countable(d)
  PROVE  /\ Sound(Shelf(d))
         /\ \A b : AvailableItems(Shelf(d), b) = AvailableItems(d, b)
         /\ \A b : AvailableQuantity(Shelf(d), b) = AvailableQuantity(d, b)
         /\ \A b, q : FifoTake(Shelf(d), b, q) = FifoTake(d, b, q)
         /\ \A b, q : Deficit(Shelf(d), b, q) = Deficit(d, b, q)
<1> DEFINE s == Shelf(d)
<1>1. s.lots = d.lots /\ s.items = d.items BY DEF Shelf
<1>2. s \in Database
  <2>1. Absent \in Order BY DEF Absent, Order, Sources, CounterSources
  <2>2. [o \in Orders |-> Absent] \in [Orders -> Order] BY <2>1
  <2>3. {} \in SUBSET BalanceRow /\ {} \in SUBSET Movement /\ 0 \in Nat OBVIOUS
  <2>4. d.lots \in Seq(Lot) /\ d.items \in Seq(InventoryItem) BY DEF Countable, CountBase
  <2> QED BY <2>2, <2>3, <2>4 DEF Database, Shelf
<1> HIDE DEF s
<1>3. LotsCountTheirItems(s) BY <1>1 DEF Countable, LotsCountTheirItems, AvailableOfLot
<1>4. \A b : AvailableItems(s, b) = AvailableItems(d, b) BY <1>1 DEF AvailableItems
<1>5. \A b, q : FifoTake(s, b, q) = FifoTake(d, b, q)
  <2>1. \A b : Consumable(s, b) = Consumable(d, b) BY <1>1, <1>4 DEF Consumable
  <2> QED BY <2>1 DEF FifoTake
<1>6. \A b : AvailableQuantity(s, b) = AvailableQuantity(d, b) BY <1>4 DEF AvailableQuantity
<1>7. \A b, q : Deficit(s, b, q) = Deficit(d, b, q) BY <1>5 DEF Deficit
<1> QED BY <1>2, <1>3, <1>4, <1>5, <1>6, <1>7 DEF Sound, s

\* Only the shelf, the log, the balance or the journal is written.
ShelfOnly(d, e) ==
  /\ e.negative = d.negative /\ e.movements = d.movements
  /\ e.lastMovement = d.lastMovement /\ e.orders = d.orders
  /\ e.journal = d.journal /\ e.lastEntry = d.lastEntry

LogOnly(d, e) ==
  /\ e.lots = d.lots /\ e.items = d.items /\ e.negative = d.negative
  /\ e.orders = d.orders /\ e.journal = d.journal /\ e.lastEntry = d.lastEntry

BalanceOnly(d, e) ==
  /\ e.lots = d.lots /\ e.items = d.items /\ e.movements = d.movements
  /\ e.lastMovement = d.lastMovement /\ e.orders = d.orders
  /\ e.journal = d.journal /\ e.lastEntry = d.lastEntry

JournalOnly(d, e) ==
  /\ e.lots = d.lots /\ e.items = d.items /\ e.negative = d.negative
  /\ e.movements = d.movements /\ e.lastMovement = d.lastMovement
  /\ e.orders = d.orders

LEMMA SameShelf ==
  ASSUME NEW d, Countable(d), NEW e \in CountBase, e.lots = d.lots, e.items = d.items
  PROVE  /\ Countable(e)
         /\ \A b : AvailableItems(e, b) = AvailableItems(d, b)
         /\ \A b : AvailableQuantity(e, b) = AvailableQuantity(d, b)
         /\ \A b, q : FifoTake(e, b, q) = FifoTake(d, b, q)
<1>1. Countable(e) BY DEF Countable, LotsCountTheirItems, AvailableOfLot
<1>2. \A b : AvailableItems(e, b) = AvailableItems(d, b) BY DEF AvailableItems
<1>3. \A b : AvailableQuantity(e, b) = AvailableQuantity(d, b) BY <1>2 DEF AvailableQuantity
<1>4. \A b, q : FifoTake(e, b, q) = FifoTake(d, b, q)
  <2>1. \A b : Consumable(e, b) = Consumable(d, b) BY <1>2 DEF Consumable
  <2> QED BY <2>1 DEF FifoTake
<1> QED BY <1>1, <1>2, <1>3, <1>4

LEMMA ShelfNat ==
  ASSUME NEW d, Countable(d), NEW b
  PROVE  AvailableQuantity(d, b) \in Nat
BY ShelfSound, AvailableFinite

\* Less(a, q): what is left of a when q are taken, or as many as there are.
Less(a, q) == IF a < q THEN 0 ELSE a - q

LEMMA ShelfTaken ==
  ASSUME NEW d, Countable(d), NEW b \in Options, NEW q \in Nat, NEW m \in Nat, m # 0
  PROVE  LET e == ConsumeFifoItems(d, b, q, m)
         IN  /\ Countable(e) /\ ShelfOnly(d, e)
             /\ \A c \in Options : AvailableQuantity(e, c) =
                  IF c = b THEN Less(AvailableQuantity(d, b), q) ELSE AvailableQuantity(d, c)
<1> DEFINE e == ConsumeFifoItems(d, b, q, m)
           s == Shelf(d)
           S == FifoTake(d, b, q)
           t == ConsumeItems(s, S, m)
<1>1. /\ Sound(s) /\ S = FifoTake(s, b, q) /\ S \subseteq AvailableItems(s, b)
      /\ \A c : AvailableQuantity(s, c) = AvailableQuantity(d, c)
      /\ s.lots = d.lots /\ s.items = d.items
  <2>1. FifoTake(d, b, q) \subseteq AvailableItems(d, b) BY DEF FifoTake, Consumable
  <2>2. s.lots = d.lots /\ s.items = d.items BY DEF Shelf
  <2>3. /\ Sound(s)
        /\ AvailableItems(s, b) = AvailableItems(d, b)
        /\ FifoTake(s, b, q) = FifoTake(d, b, q)
        /\ \A c : AvailableQuantity(s, c) = AvailableQuantity(d, c)
    BY ShelfSound
  <2> HIDE DEF s
  <2> QED BY <2>1, <2>2, <2>3
<1>2. m # NoMovement BY DEF NoMovement
<1>3. Sound(t)
  <2>1. t = ConsumeFifoItems(s, b, q, m) BY <1>1 DEF ConsumeFifoItems
  <2>2. q \in Int OBVIOUS
  <2> HIDE DEF t, s
  <2> QED BY <1>1, <1>2, <2>1, <2>2, ConsumeFifoItemsSound
<1>4. /\ e.items = [i \in DOMAIN d.items |->
                      IF i \in S THEN [d.items[i] EXCEPT !.by = m] ELSE d.items[i]]
      /\ e.lots = [l \in DOMAIN d.lots |->
                     [d.lots[l] EXCEPT !.remaining =
                        @ - Cardinality({i \in S : d.items[i].lot = l})]]
      /\ ShelfOnly(d, e)
      /\ e = [d EXCEPT !.items = e.items, !.lots = e.lots]
  <2> HIDE DEF S
  <2>1. e = ConsumeItems(d, S, m) BY DEF ConsumeFifoItems, S
  <2> HIDE DEF e
  <2>2. d \in CountBase BY DEF Countable
  <2> QED BY <2>1, <2>2 DEF ConsumeItems, CountBase, ShelfOnly
<1>5. t.items = e.items /\ t.lots = e.lots
  <2> HIDE DEF S, e
  <2>1. /\ t.items = [i \in DOMAIN s.items |->
                        IF i \in S THEN [s.items[i] EXCEPT !.by = m] ELSE s.items[i]]
        /\ t.lots = [l \in DOMAIN s.lots |->
                       [s.lots[l] EXCEPT !.remaining =
                          @ - Cardinality({i \in S : s.items[i].lot = l})]]
    BY DEF ConsumeItems, Shelf
  <2>2. s.lots = d.lots /\ s.items = d.items BY <1>1
  <2> HIDE DEF s, t
  <2> QED BY <1>4, <2>1, <2>2
<1>6. e \in CountBase
  <2>1. e.items \in Seq(InventoryItem) /\ e.lots \in Seq(Lot)
    <3> HIDE DEF t, e
    <3> QED BY <1>3, <1>5 DEF Sound, Database
  <2>2. d \in CountBase BY DEF Countable
  <2> HIDE DEF e
  <2> QED BY <1>4, <2>1, <2>2 DEF CountBase
<1>7. Countable(e)
  <2>1. LotsCountTheirItems(t) BY <1>3 DEF Sound
  <2> HIDE DEF t, e
  <2> QED BY <1>5, <1>6, <2>1 DEF Countable, LotsCountTheirItems, AvailableOfLot
<1>8. \A c : AvailableQuantity(e, c) = AvailableQuantity(t, c)
  <2> HIDE DEF t, e
  <2> QED BY <1>5 DEF AvailableQuantity, AvailableItems
<1>9. Cardinality(S)
        = IF AvailableQuantity(d, b) < q THEN AvailableQuantity(d, b) ELSE q
  <2> HIDE DEF S, s
  <2> QED BY <1>1, FifoTakes
<1>10. Shifts(s, t, b, -Cardinality(S))
  <2> HIDE DEF S, s, t
  <2>1. t = ConsumeItems(s, S, m) BY DEF t
  <2> QED BY <1>1, <1>2, <2>1, ConsumeItemsLeaves
<1>11. \A c : AvailableQuantity(d, c) \in Nat BY ShelfNat
<1> HIDE DEF e, s, t, S
<1>12. ASSUME NEW c \in Options
       PROVE  AvailableQuantity(e, c) =
                IF c = b THEN Less(AvailableQuantity(d, b), q) ELSE AvailableQuantity(d, c)
  <2>1. AvailableQuantity(t, c)
          = AvailableQuantity(d, c) + IF c = b THEN -Cardinality(S) ELSE 0
    BY <1>1, <1>10 DEF Shifts
  <2>2. AvailableQuantity(d, b) \in Nat /\ AvailableQuantity(d, c) \in Nat BY <1>11
  <2> QED BY <1>8, <1>9, <2>1, <2>2 DEF Less
<1> QED BY <1>4, <1>7, <1>12 DEF e

LEMMA ShelfBrought ==
  ASSUME NEW d, Countable(d), NEW b \in Options, NEW q \in Nat
  PROVE  LET e == CreateLotWithItems(d, b, q)
         IN  /\ Countable(e) /\ ShelfOnly(d, e)
             /\ \A c \in Options : AvailableQuantity(e, c) =
                  AvailableQuantity(d, c) + IF c = b THEN q ELSE 0
<1> DEFINE e == CreateLotWithItems(d, b, q)
           s == Shelf(d)
           t == CreateLotWithItems(s, b, q)
<1>1. /\ Sound(s) /\ s.lots = d.lots /\ s.items = d.items
      /\ \A c : AvailableQuantity(s, c) = AvailableQuantity(d, c)
  BY ShelfSound DEF Shelf
<1>2. /\ Sound(t)
      /\ \A c \in Options : AvailableQuantity(t, c) =
           AvailableQuantity(s, c) + IF c = b THEN q ELSE 0
  <2> HIDE DEF s
  <2> QED BY <1>1, CreateLotSound, CreateLotBrings
<1>3. /\ e = [d EXCEPT !.items = e.items, !.lots = e.lots] /\ ShelfOnly(d, e)
      /\ e.lots = Append(d.lots, [option |-> b, remaining |-> q])
      /\ e.items = [i \in 1..(Len(d.items) + q) |->
                      IF i <= Len(d.items) THEN d.items[i]
                      ELSE [lot |-> Len(d.lots) + 1, by |-> NoMovement]]
  <2>1. d \in CountBase BY DEF Countable
  <2> QED BY <2>1 DEF CreateLotWithItems, CountBase, ShelfOnly
<1>4. /\ t.lots = Append(s.lots, [option |-> b, remaining |-> q])
      /\ t.items = [i \in 1..(Len(s.items) + q) |->
                      IF i <= Len(s.items) THEN s.items[i]
                      ELSE [lot |-> Len(s.lots) + 1, by |-> NoMovement]]
  BY DEF CreateLotWithItems, Shelf
<1> HIDE DEF e, s, t
<1>5. t.items = e.items /\ t.lots = e.lots BY <1>1, <1>3, <1>4
<1>6. e \in CountBase
  <2>1. e.items \in Seq(InventoryItem) /\ e.lots \in Seq(Lot) BY <1>2, <1>5 DEF Sound, Database
  <2>2. d \in CountBase BY DEF Countable
  <2> QED BY <1>3, <2>1, <2>2 DEF CountBase
<1>7. Countable(e)
  <2>1. LotsCountTheirItems(t) BY <1>2 DEF Sound
  <2> QED BY <1>5, <1>6, <2>1 DEF Countable, LotsCountTheirItems, AvailableOfLot
<1>8. \A c : AvailableQuantity(e, c) = AvailableQuantity(t, c)
  BY <1>5 DEF AvailableQuantity, AvailableItems
<1> QED BY <1>1, <1>2, <1>3, <1>7, <1>8 DEF e
-----------------------------------------------------------------------------
Balances(rows, last) ==
  /\ IsFiniteSet(rows) /\ rows \subseteq BalanceRow
  /\ \A r \in rows : r.qty > 0 /\ r.id <= last
  /\ \A r, s \in rows : r.id = s.id => r = s

\* What was bought, what its cost is booked at, and what is in stock.
Rows(d) ==
  /\ IsFiniteSet(d.movements) /\ IsFiniteSet(d.journal)
  /\ \A m \in d.movements : m.id \in 1..d.lastMovement
  /\ \A x \in d.journal : /\ x.id \in 1..d.lastEntry
                          /\ x.source \in MovementCosts => x.of \in 1..d.lastMovement
  /\ Balances(d.negative, d.lastMovement)

Kept(d) == Countable(d) /\ Rows(d)

Bought(d) == Total({m \in d.movements : m.type = "restock" /\ m.ref = NoRef})
Cost(d) == SumFunctionOnSet([x \in d.journal |-> x.lines["cogs"]], d.journal)
Stock(d) == SumFunctionOnSet([b \in Options |-> AvailableQuantity(d, b)], Options)

LEMMA CountsAreInt ==
  ASSUME IsFiniteSet(Options), NEW d, Kept(d)
  PROVE  Bought(d) \in Int /\ Cost(d) \in Int /\ Stock(d) \in Int
<1>1. Bought(d) \in Int
  <2> DEFINE R == {m \in d.movements : m.type = "restock" /\ m.ref = NoRef}
  <2>1. R \subseteq d.movements /\ d.movements \subseteq CountRow
    BY DEF Kept, Countable, CountBase
  <2>2. IsFiniteSet(R) BY <2>1, FS_Subset DEF Kept, Rows
  <2>3. Quantified(R) BY <2>1, <2>2 DEF Quantified, CountRow
  <2> HIDE DEF R
  <2>4. Total(R) \in Int BY <2>3, TotalInt
  <2> QED BY <2>4 DEF Bought, R
<1>2. Cost(d) \in Int
  <2> DEFINE f == [x \in d.journal |-> x.lines["cogs"]]
  <2>1. \A x \in d.journal : f[x] \in Int
    BY CountAssumption DEF Kept, Countable, CountBase, CostRow, StockAccounts
  <2>2. IsFiniteSet(d.journal) BY DEF Kept, Rows
  <2> HIDE DEF f
  <2>3. SumFunctionOnSet(f, d.journal) \in Int BY <2>1, <2>2, SumInt
  <2> QED BY <2>3 DEF Cost, f
<1>3. Stock(d) \in Int
  <2> DEFINE f == [b \in Options |-> AvailableQuantity(d, b)]
  <2>1. \A b \in Options : f[b] \in Int BY ShelfNat DEF Kept
  <2> HIDE DEF f
  <2>2. SumFunctionOnSet(f, Options) \in Int BY <2>1, SumInt
  <2> QED BY <2>2 DEF Stock, f
<1> QED BY <1>1, <1>2, <1>3

LEMMA StockMoves ==
  ASSUME IsFiniteSet(Options), NEW d, Countable(d), NEW e, Countable(e),
         NEW b \in Options, NEW k \in Int,
         \A c \in Options : AvailableQuantity(e, c) =
           IF c = b THEN AvailableQuantity(d, b) + k ELSE AvailableQuantity(d, c)
  PROVE  Stock(e) = Stock(d) + k
<1> DEFINE f == [c \in Options |-> AvailableQuantity(d, c)]
           g == [c \in Options |-> AvailableQuantity(e, c)]
           R == Options \ {b}
<1>1. \A c \in Options : f[c] \in Int /\ g[c] \in Int BY ShelfNat
<1>2. g[b] = f[b] + k /\ \A c \in R : g[c] = f[c] OBVIOUS
<1>3. Stock(d) = SumFunctionOnSet(f, Options) /\ Stock(e) = SumFunctionOnSet(g, Options)
  BY DEF Stock
<1> HIDE DEF f, g
<1>4. /\ SumFunctionOnSet(f, Options) = f[b] + SumFunctionOnSet(f, R)
      /\ SumFunctionOnSet(g, Options) = g[b] + SumFunctionOnSet(g, R)
  BY <1>1, SumRemove
<1>5. IsFiniteSet(R) /\ R \subseteq Options BY FS_Subset
<1> HIDE DEF R
<1>6. SumFunctionOnSet(f, R) = SumFunctionOnSet(g, R) BY <1>2, <1>5, SumEqual
<1>7. SumFunctionOnSet(f, R) \in Int BY <1>1, <1>5, SumInt
<1>8. f[b] \in Int BY <1>1
<1> QED BY <1>2, <1>3, <1>4, <1>6, <1>7, <1>8

LEMMA SameStock ==
  ASSUME NEW d, NEW e, e.lots = d.lots, e.items = d.items
  PROVE  Stock(e) = Stock(d)
<1>1. \A b : AvailableQuantity(e, b) = AvailableQuantity(d, b)
  BY DEF AvailableQuantity, AvailableItems
<1>2. [b \in Options |-> AvailableQuantity(e, b)] = [b \in Options |-> AvailableQuantity(d, b)]
  BY <1>1
<1> QED BY <1>2 DEF Stock

-----------------------------------------------------------------------------
(***************************************************************************)
(* The statements: a movement logged, a cost booked or taken back, a       *)
(* balance written.                                                        *)
(***************************************************************************)
LEMMA CountLogged ==
  ASSUME NEW d, Kept(d), NEW type \in MovementType, NEW b \in Options, NEW q \in Int,
         NEW ref \in Orders \cup {NoRef, Session}
  PROVE  LET e == LogMovement(d, type, b, q, ref)
             row == [id |-> d.lastMovement + 1, type |-> type, option |-> b,
                     qty |-> q, ref |-> ref]
         IN  /\ Kept(e) /\ LogOnly(d, e)
             /\ e.movements = d.movements \cup {row}
             /\ e.lastMovement = d.lastMovement + 1 /\ e.lastMovement \in Nat \ {0}
             /\ Bought(e) = Bought(d)
                  + IF type = "restock" /\ ref = NoRef THEN q ELSE 0
<1> DEFINE e == LogMovement(d, type, b, q, ref)
           row == [id |-> d.lastMovement + 1, type |-> type, option |-> b,
                   qty |-> q, ref |-> ref]
           last == d.lastMovement + 1
           moved == d.movements \cup {row}
           Of(M) == {m \in M : m.type = "restock" /\ m.ref = NoRef}
<1>1. d \in CountBase /\ d.lastMovement \in Nat /\ d.movements \subseteq CountRow
  BY DEF Kept, Countable, CountBase
<1>2. row \in CountRow /\ last \in Nat \ {0} BY <1>1 DEF CountRow
<1>3. moved \subseteq CountRow BY <1>1, <1>2
<1>4. e = [d EXCEPT !.lastMovement = last, !.movements = moved] BY DEF LogMovement
<1>5. row.id = last /\ row.type = type /\ row.ref = ref /\ row.qty = q OBVIOUS
<1>6. row \notin d.movements
  <2>1. \A m \in d.movements : m.id # last BY <1>1 DEF Kept, Rows
  <2> QED BY <1>5, <2>1
<1> HIDE DEF e, row
<1>7. /\ e \in CountBase /\ LogOnly(d, e)
      /\ e.lastMovement = last /\ e.movements = moved
  <2> HIDE DEF last, moved
  <2> QED BY <1>1, <1>2, <1>3, <1>4 DEF CountBase, LogOnly
<1>8. Countable(e) BY <1>7, SameShelf DEF Kept, LogOnly
<1>9. IsFiniteSet(moved)
  <2>1. IsFiniteSet(d.movements) BY DEF Kept, Rows
  <2> QED BY <2>1, FS_AddElement
<1>10. Rows(e)
  <2>1. e.journal = d.journal /\ e.lastEntry = d.lastEntry /\ e.negative = d.negative
    BY <1>7 DEF LogOnly
  <2>2. 1..d.lastMovement \subseteq 1..last /\ last \in 1..last BY <1>1
  <2>3. \A m \in moved : m.id \in 1..last BY <1>5, <2>2 DEF Kept, Rows
  <2>4. Balances(d.negative, last)
    <3>1. Balances(d.negative, d.lastMovement) BY DEF Kept, Rows
    <3>2. \A r \in d.negative : r.id <= last BY <1>1, <3>1 DEF Balances, BalanceRow
    <3> HIDE DEF last
    <3> QED BY <3>1, <3>2 DEF Balances
  <2> HIDE DEF moved, last
  <2> QED BY <1>7, <1>9, <2>1, <2>2, <2>3, <2>4 DEF Kept, Rows
<1>11. Bought(e) = Bought(d) + IF type = "restock" /\ ref = NoRef THEN q ELSE 0
  <2> DEFINE R == Of(d.movements)
  <2>1. Quantified(R)
    <3>1. R \subseteq d.movements OBVIOUS
    <3>2. IsFiniteSet(R) BY <3>1, FS_Subset DEF Kept, Rows
    <3> QED BY <1>1, <3>1, <3>2 DEF Quantified, CountRow
  <2>2. Bought(d) = Total(R) /\ Bought(e) = Total(Of(moved)) BY <1>7 DEF Bought
  <2>3. row \notin R BY <1>6
  <2>4. CASE type = "restock" /\ ref = NoRef
    <3>1. Of(moved) = R \cup {row} BY <1>5, <2>4
    <3> HIDE DEF R
    <3>2. Total(R \cup {row}) = Total(R) + row.qty BY <1>5, <2>1, <2>3, TotalAdd
    <3> QED BY <1>5, <2>2, <2>4, <3>1, <3>2
  <2>5. CASE ~(type = "restock" /\ ref = NoRef)
    <3>1. Of(moved) = R BY <1>5, <2>5
    <3> HIDE DEF R
    <3>2. Total(R) \in Int BY <2>1, TotalInt
    <3>3. Bought(e) = Bought(d) /\ Bought(d) \in Int BY <2>2, <3>1, <3>2
    <3> HIDE DEF moved
    <3> QED BY <2>5, <3>3
  <2> QED BY <2>4, <2>5
<1> QED BY <1>2, <1>7, <1>8, <1>10, <1>11 DEF Kept, e, row

LEMMA CountBalance ==
  ASSUME NEW d, Kept(d), NEW rows, Balances(rows, d.lastMovement)
  PROVE  LET e == [d EXCEPT !.negative = rows]
         IN  Kept(e) /\ BalanceOnly(d, e) /\ e.negative = rows
<1> DEFINE e == [d EXCEPT !.negative = rows]
<1>1. d \in CountBase BY DEF Kept, Countable
<1>2. e \in CountBase /\ BalanceOnly(d, e) /\ e.negative = rows
  BY <1>1 DEF Balances, CountBase, BalanceOnly
<1> HIDE DEF e
<1>3. Countable(e) BY <1>2, SameShelf DEF Kept, BalanceOnly
<1>4. Rows(e) BY <1>2 DEF Kept, Rows, BalanceOnly
<1> QED BY <1>2, <1>3, <1>4 DEF Kept, e

LEMMA CountPosted ==
  ASSUME NEW d, Kept(d), NEW source \in CostKinds,
         NEW of \in Nat \cup Orders, NEW q \in Int,
         source \in MovementCosts => of \in 1..d.lastMovement
  PROVE  LET e == PostCost(d, source, of, q)
         IN  /\ Kept(e) /\ JournalOnly(d, e)
             /\ \A s, o : s # source \/ o # of =>
                  EntriesOf(e, s, o) = EntriesOf(d, s, o)
             /\ EntriesOf(d, source, of) = {} =>
                  /\ Cost(e) = Cost(d) + q
                  /\ q # 0 => \E x \in e.journal :
                       EntriesOf(e, source, of) = {x} /\ x.lines["cogs"] = q
<1> DEFINE e == PostCost(d, source, of, q)
           lines == CostLines(q)
           row == [id |-> d.lastEntry + 1, source |-> source, of |-> of,
                   text |-> source, lines |-> lines, locked |-> FALSE]
           last == d.lastEntry + 1
           posted == d.journal \cup {row}
<1>1. /\ d \in CountBase /\ d.lastEntry \in Nat /\ d.journal \subseteq CostRow
      /\ IsFiniteSet(d.journal)
  BY DEF Kept, Rows, Countable, CountBase
<1>2. lines \in [Accounts -> Int] /\ lines["cogs"] = q
  <2>1. lines = [a \in Accounts |-> IF a = "cogs" THEN q ELSE -q]
    BY CountAssumption DEF CostLines, Lines, StockAccounts
  <2> HIDE DEF lines
  <2>2. -q \in Int /\ "cogs" \in Accounts BY CountAssumption DEF StockAccounts
  <2> QED BY <2>1, <2>2
<1> HIDE DEF lines
<1>3. row \in CostRow /\ last \in Nat BY <1>1, <1>2 DEF CostRow
<1>4. row.id = last /\ row.source = source /\ row.of = of /\ row.lines = lines OBVIOUS
<1> HIDE DEF row
<1>5. row \notin d.journal
  <2>1. \A x \in d.journal : x.id # last BY <1>1 DEF Kept, Rows
  <2> QED BY <1>4, <2>1
<1>6. \/ e = d /\ (q = 0 \/ EntriesOf(d, source, of) # {})
      \/ /\ q # 0 /\ EntriesOf(d, source, of) = {}
         /\ e = [d EXCEPT !.lastEntry = last, !.journal = posted]
  BY DEF PostCost, Insert, row, lines
<1> HIDE DEF e
<1>7. CASE e = d /\ (q = 0 \/ EntriesOf(d, source, of) # {})
  <2>1. Cost(d) \in Int
    <3> DEFINE f == [x \in d.journal |-> x.lines["cogs"]]
    <3>1. \A x \in d.journal : f[x] \in Int BY <1>1, CountAssumption DEF CostRow, StockAccounts
    <3> HIDE DEF f
    <3>2. SumFunctionOnSet(f, d.journal) \in Int BY <1>1, <3>1, SumInt
    <3> QED BY <3>2 DEF Cost, f
  <2> QED BY <1>7, <2>1 DEF JournalOnly, e
<1>8. CASE /\ q # 0 /\ EntriesOf(d, source, of) = {}
           /\ e = [d EXCEPT !.lastEntry = last, !.journal = posted]
  <2>1. posted \subseteq CostRow BY <1>1, <1>3
  <2>2. /\ e \in CountBase /\ JournalOnly(d, e)
        /\ e.lastEntry = last /\ e.journal = posted
    <3> HIDE DEF last, posted
    <3> QED BY <1>1, <1>3, <1>8, <2>1 DEF CountBase, JournalOnly
  <2>3. Countable(e) BY <2>2, SameShelf DEF Kept, JournalOnly
  <2>4. IsFiniteSet(posted) BY <1>1, FS_AddElement
  <2>5. Rows(e)
    <3>1. /\ e.movements = d.movements /\ e.lastMovement = d.lastMovement
          /\ e.negative = d.negative
      BY <2>2 DEF JournalOnly
    <3>2. 1..d.lastEntry \subseteq 1..last /\ last \in 1..last BY <1>1
    <3>3. \A x \in posted : /\ x.id \in 1..last
                            /\ x.source \in MovementCosts => x.of \in 1..d.lastMovement
      BY <1>4, <3>2 DEF Kept, Rows
    <3> HIDE DEF posted, last
    <3> QED BY <2>2, <2>4, <3>1, <3>3 DEF Kept, Rows
  <2>6. \A s, o : s # source \/ o # of =>
          EntriesOf(e, s, o) = EntriesOf(d, s, o)
    BY <1>4, <2>2 DEF EntriesOf
  <2>7. EntriesOf(e, source, of) = {row} /\ row \in e.journal
    <3>1. EntriesOf(e, source, of) = EntriesOf(d, source, of) \cup {row}
      BY <1>4, <2>2 DEF EntriesOf
    <3> QED BY <1>8, <2>2, <3>1
  <2>8. Cost(e) = Cost(d) + q
    <3> DEFINE f == [x \in d.journal |-> x.lines["cogs"]]
               g == [x \in posted |-> x.lines["cogs"]]
    <3>1. \A x \in posted : g[x] \in Int BY <2>1, CountAssumption DEF CostRow, StockAccounts
    <3>2. \A x \in d.journal : f[x] = g[x] OBVIOUS
    <3>3. g[row] = q BY <1>2, <1>4
    <3>4. Cost(d) = SumFunctionOnSet(f, d.journal) /\ Cost(e) = SumFunctionOnSet(g, posted)
      BY <2>2 DEF Cost
    <3> HIDE DEF f, g
    <3>5. SumFunctionOnSet(g, posted) = g[row] + SumFunctionOnSet(g, d.journal)
      BY <1>1, <1>5, <3>1, SumAdd
    <3>6. SumFunctionOnSet(f, d.journal) = SumFunctionOnSet(g, d.journal) BY <1>1, <3>2, SumEqual
    <3>7. SumFunctionOnSet(g, d.journal) \in Int
      <4>1. \A x \in d.journal : g[x] \in Int BY <3>1
      <4> QED BY <1>1, <4>1, SumInt
    <3> QED BY <3>3, <3>4, <3>5, <3>6, <3>7
  <2> QED BY <1>2, <1>4, <2>2, <2>3, <2>5, <2>6, <2>7, <2>8 DEF Kept, e
<1> QED BY <1>6, <1>7, <1>8 DEF e

\* No entry is locked: a cost is taken back with its entry.
LEMMA CountUnposted ==
  ASSUME NEW d, Kept(d), NEW x \in d.journal
  PROVE  LET e == ReverseOrDelete(d, x)
         IN  /\ Kept(e) /\ JournalOnly(d, e) /\ e.journal = d.journal \ {x}
             /\ Cost(e) = Cost(d) - x.lines["cogs"]
<1> DEFINE e == ReverseOrDelete(d, x)
           left == d.journal \ {x}
<1>1. /\ d \in CountBase /\ d.journal \subseteq CostRow /\ IsFiniteSet(d.journal)
  BY DEF Kept, Rows, Countable, CountBase
<1>2. ~x.locked BY <1>1 DEF CostRow
<1>3. e = [d EXCEPT !.journal = left] BY <1>2 DEF ReverseOrDelete, DeleteCascade
<1>4. left \subseteq CostRow /\ IsFiniteSet(left) BY <1>1, FS_Subset
<1> HIDE DEF e
<1>5. /\ e \in CountBase /\ JournalOnly(d, e) /\ e.lastEntry = d.lastEntry
      /\ e.journal = left
  <2> HIDE DEF left
  <2> QED BY <1>1, <1>3, <1>4 DEF CountBase, JournalOnly
<1>6. Countable(e) BY <1>5, SameShelf DEF Kept, JournalOnly
<1>7. Rows(e) BY <1>4, <1>5 DEF Kept, Rows, JournalOnly
<1>8. Cost(e) = Cost(d) - x.lines["cogs"]
  <2> DEFINE f == [y \in d.journal |-> y.lines["cogs"]]
             g == [y \in left |-> y.lines["cogs"]]
  <2>1. \A y \in d.journal : f[y] \in Int BY <1>1, CountAssumption DEF CostRow, StockAccounts
  <2>2. \A y \in left : f[y] = g[y] OBVIOUS
  <2>3. f[x] = x.lines["cogs"] OBVIOUS
  <2>4. Cost(d) = SumFunctionOnSet(f, d.journal) /\ Cost(e) = SumFunctionOnSet(g, left)
    BY <1>5 DEF Cost
  <2> HIDE DEF f, g
  <2>5. SumFunctionOnSet(f, d.journal) = f[x] + SumFunctionOnSet(f, left) BY <1>1, <2>1, SumRemove
  <2>6. SumFunctionOnSet(f, left) = SumFunctionOnSet(g, left) BY <1>4, <2>2, SumEqual
  <2>7. SumFunctionOnSet(f, left) \in Int
    <3>1. \A y \in left : f[y] \in Int BY <2>1
    <3> QED BY <1>4, <3>1, SumInt
  <2>8. f[x] \in Int BY <2>1
  <2> QED BY <2>3, <2>4, <2>5, <2>6, <2>7, <2>8
<1> QED BY <1>5, <1>6, <1>7, <1>8 DEF Kept, e

-----------------------------------------------------------------------------
(***************************************************************************)
(* The account of the cost: what was bought and is neither booked nor in   *)
(* stock.  Handed(d): an order not taken has no rows; one that is          *)
(* delivered has its sale, and its cost, once.                             *)
(***************************************************************************)
Gap(d) == Bought(d) - Cost(d) - Stock(d)

NoneOversold(d) == \A m \in d.movements : m.type # "negative_sale"

Explained(d) == NoneOversold(d) => d.negative = {} /\ Gap(d) = 0

SalesOf(d, o) == MovementsOf(d, o, "sale")
CostsOf(d, o) == EntriesOf(d, "order_cogs", o)

HasSale(d, o) ==
  \E m \in SalesOf(d, o), x \in CostsOf(d, o) :
    /\ SalesOf(d, o) = {m} /\ CostsOf(d, o) = {x}
    /\ m.qty = -x.lines["cogs"] /\ x.lines["cogs"] > 0

Handed(d) ==
  \A o \in Orders :
    /\ d.orders[o] = Untaken => SalesOf(d, o) = {} /\ CostsOf(d, o) = {}
    /\ d.orders[o].status = "delivered" => HasSale(d, o)

Good(d) == Kept(d) /\ Handed(d) /\ Explained(d)

\* e comes of d with no row of an order's sale or cost written.
SameHands(d, e) ==
  /\ e.orders = d.orders
  /\ \A o \in Orders : SalesOf(e, o) = SalesOf(d, o) /\ CostsOf(e, o) = CostsOf(d, o)

SameShelves(d, e) ==
  \A c \in Options : AvailableQuantity(e, c) = AvailableQuantity(d, c)

\* The option stands in e as in d.
SameAt(d, e, c) ==
  AvailableQuantity(e, c) = AvailableQuantity(d, c) /\ BalanceRows(e, c) = BalanceRows(d, c)

\* e is kept, has every movement of d, and its account is k more.
Drifts(d, e, k) ==
  Kept(e) /\ d.movements \subseteq e.movements /\ Gap(e) = Gap(d) + k

LEMMA GapInt ==
  ASSUME IsFiniteSet(Options), NEW d, Kept(d)
  PROVE  Gap(d) \in Int
BY CountsAreInt DEF Gap

LEMMA DriftsOn ==
  ASSUME IsFiniteSet(Options), NEW d, Kept(d), NEW e, NEW f,
         NEW j \in Int, NEW k \in Int, Drifts(d, e, j), Drifts(e, f, k)
  PROVE  Drifts(d, f, j + k)
<1>1. Gap(d) \in Int BY GapInt
<1> QED BY <1>1 DEF Drifts

LEMMA SameHanded ==
  ASSUME NEW d, Handed(d), NEW e, SameHands(d, e)
  PROVE  Handed(e)
BY DEF Handed, SameHands, HasSale

LEMMA LoggedDrifts ==
  ASSUME IsFiniteSet(Options), NEW d, Kept(d),
         NEW type \in MovementType, NEW b \in Options, NEW q \in Int,
         NEW ref \in Orders \cup {NoRef, Session}
  PROVE  LET e == LogMovement(d, type, b, q, ref)
             row == [id |-> d.lastMovement + 1, type |-> type, option |-> b,
                     qty |-> q, ref |-> ref]
         IN  /\ Drifts(d, e, IF type = "restock" /\ ref = NoRef THEN q ELSE 0)
             /\ SameShelves(d, e) /\ LogOnly(d, e) /\ e.lastMovement = d.lastMovement + 1
             /\ e.lastMovement \in Nat \ {0} /\ e.lastMovement \in 1..e.lastMovement
             /\ \A s \in MovementCosts : EntriesOf(e, s, e.lastMovement) = {}
             /\ \A o : CostsOf(e, o) = CostsOf(d, o)
             /\ \A o : SalesOf(e, o) =
                  SalesOf(d, o) \cup (IF type = "sale" /\ o = ref THEN {row} ELSE {})
             /\ type # "sale" => SameHands(d, e)
             /\ row \in e.movements
<1> DEFINE e == LogMovement(d, type, b, q, ref)
           row == [id |-> d.lastMovement + 1, type |-> type, option |-> b,
                   qty |-> q, ref |-> ref]
           k == IF type = "restock" /\ ref = NoRef THEN q ELSE 0
<1>1. /\ Kept(e) /\ LogOnly(d, e) /\ e.movements = d.movements \cup {row}
      /\ e.lastMovement = d.lastMovement + 1 /\ e.lastMovement \in Nat \ {0}
      /\ Bought(e) = Bought(d) + k
  BY CountLogged
<1>2. row.type = type /\ row.ref = ref OBVIOUS
<1>3. k \in Int OBVIOUS
<1> HIDE DEF e, row, k
<1>4. Cost(e) = Cost(d) /\ Stock(e) = Stock(d)
  <2>1. e.journal = d.journal /\ e.lots = d.lots /\ e.items = d.items BY <1>1 DEF LogOnly
  <2> QED BY <2>1, SameStock DEF Cost
<1>5. Drifts(d, e, k)
  <2>1. Bought(d) \in Int /\ Cost(d) \in Int /\ Stock(d) \in Int BY CountsAreInt
  <2> QED BY <1>1, <1>3, <1>4, <2>1 DEF Drifts, Gap
<1>6. SameShelves(d, e) BY <1>1 DEF LogOnly, SameShelves, AvailableQuantity, AvailableItems
<1>7. \A s \in MovementCosts : EntriesOf(e, s, e.lastMovement) = {}
  <2>1. e.journal = d.journal BY <1>1 DEF LogOnly
  <2>2. \A x \in d.journal : x.source \in MovementCosts => x.of \in 1..d.lastMovement
    BY DEF Kept, Rows
  <2>3. d.lastMovement \in Nat BY DEF Kept, Countable, CountBase
  <2>4. e.lastMovement \notin 1..d.lastMovement BY <1>1, <2>3
  <2> QED BY <2>1, <2>2, <2>4 DEF EntriesOf
<1>8. \A o : CostsOf(e, o) = CostsOf(d, o) BY <1>1 DEF LogOnly, CostsOf, EntriesOf
<1>9. ASSUME NEW o
      PROVE  SalesOf(e, o) =
               SalesOf(d, o) \cup (IF type = "sale" /\ o = ref THEN {row} ELSE {})
  BY <1>1, <1>2 DEF SalesOf, MovementsOf
<1>10. type # "sale" => SameHands(d, e) BY <1>1, <1>8, <1>9 DEF SameHands, LogOnly
<1>11. e.lastMovement \in 1..e.lastMovement BY <1>1
<1> QED BY <1>1, <1>5, <1>6, <1>7, <1>8, <1>9, <1>10, <1>11 DEF e, row, k

LEMMA PostedDrifts ==
  ASSUME IsFiniteSet(Options), NEW d, Kept(d), NEW source \in CostKinds,
         NEW of \in Nat \cup Orders, NEW q \in Int,
         source \in MovementCosts => of \in 1..d.lastMovement
  PROVE  LET e == PostCost(d, source, of, q)
         IN  /\ Kept(e) /\ JournalOnly(d, e) /\ SameShelves(d, e)
             /\ source # "order_cogs" => SameHands(d, e)
             /\ \A o : o # of => CostsOf(e, o) = CostsOf(d, o)
             /\ EntriesOf(d, source, of) = {} =>
                  /\ Drifts(d, e, -q)
                  /\ q # 0 => \E x \in e.journal :
                       EntriesOf(e, source, of) = {x} /\ x.lines["cogs"] = q
<1> DEFINE e == PostCost(d, source, of, q)
<1>1. /\ Kept(e) /\ JournalOnly(d, e)
      /\ \A s, o : s # source \/ o # of =>
           EntriesOf(e, s, o) = EntriesOf(d, s, o)
      /\ EntriesOf(d, source, of) = {} =>
           /\ Cost(e) = Cost(d) + q
           /\ q # 0 => \E x \in e.journal :
                EntriesOf(e, source, of) = {x} /\ x.lines["cogs"] = q
  <2> HIDE DEF e
  <2>1. e = PostCost(d, source, of, q) BY DEF e
  <2>2. source \in MovementCosts => of \in 1..d.lastMovement OBVIOUS
  <2>3. Kept(PostCost(d, source, of, q)) /\ JournalOnly(d, PostCost(d, source, of, q))
    BY ONLY Kept(d), source \in CostKinds, of \in Nat \cup Orders, q \in Int, <2>2, CountPosted
  <2>4. \A s, o : s # source \/ o # of =>
          EntriesOf(PostCost(d, source, of, q), s, o) = EntriesOf(d, s, o)
    BY ONLY Kept(d), source \in CostKinds, of \in Nat \cup Orders, q \in Int, <2>2, CountPosted
  <2>5. LET f == PostCost(d, source, of, q)
        IN  EntriesOf(d, source, of) = {} =>
              /\ Cost(f) = Cost(d) + q
              /\ q # 0 => \E x \in f.journal :
                   EntriesOf(f, source, of) = {x} /\ x.lines["cogs"] = q
    BY ONLY Kept(d), source \in CostKinds, of \in Nat \cup Orders, q \in Int, <2>2, CountPosted
  <2> QED BY ONLY <2>1, <2>3, <2>4, <2>5
<1> HIDE DEF e
<1>2. SameShelves(d, e) BY <1>1 DEF JournalOnly, SameShelves, AvailableQuantity, AvailableItems
<1>3. \A o : SalesOf(e, o) = SalesOf(d, o) BY <1>1 DEF JournalOnly, SalesOf, MovementsOf
<1>4. \A o : source # "order_cogs" \/ o # of => CostsOf(e, o) = CostsOf(d, o) BY <1>1 DEF CostsOf
<1>5. source # "order_cogs" => SameHands(d, e) BY <1>1, <1>3, <1>4 DEF SameHands, JournalOnly
<1>6. ASSUME EntriesOf(d, source, of) = {} PROVE Drifts(d, e, -q)
  <2>1. e.movements = d.movements /\ e.lots = d.lots /\ e.items = d.items BY <1>1 DEF JournalOnly
  <2>2. Bought(e) = Bought(d) /\ Stock(e) = Stock(d) BY <2>1, SameStock DEF Bought
  <2>3. Bought(d) \in Int /\ Cost(d) \in Int /\ Stock(d) \in Int BY CountsAreInt
  <2> QED BY <1>1, <1>6, <2>1, <2>2, <2>3 DEF Drifts, Gap
<1> QED BY <1>1, <1>2, <1>4, <1>5, <1>6 DEF e

LEMMA UnpostedDrifts ==
  ASSUME IsFiniteSet(Options), NEW d, Kept(d), NEW x \in d.journal
  PROVE  LET e == ReverseOrDelete(d, x)
         IN  /\ Drifts(d, e, x.lines["cogs"]) /\ JournalOnly(d, e)
             /\ SameShelves(d, e) /\ e.journal = d.journal \ {x}
<1> DEFINE e == ReverseOrDelete(d, x)
<1>1. /\ Kept(e) /\ JournalOnly(d, e) /\ e.journal = d.journal \ {x}
      /\ Cost(e) = Cost(d) - x.lines["cogs"]
  BY CountUnposted
<1>2. x.lines["cogs"] \in Int
  BY CountAssumption DEF Kept, Countable, CountBase, CostRow, StockAccounts
<1> HIDE DEF e
<1>3. SameShelves(d, e) BY <1>1 DEF JournalOnly, SameShelves, AvailableQuantity, AvailableItems
<1>4. e.movements = d.movements /\ e.lots = d.lots /\ e.items = d.items BY <1>1 DEF JournalOnly
<1>5. Bought(e) = Bought(d) /\ Stock(e) = Stock(d) BY <1>4, SameStock DEF Bought
<1>6. Bought(d) \in Int /\ Cost(d) \in Int /\ Stock(d) \in Int BY CountsAreInt
<1>7. Drifts(d, e, x.lines["cogs"]) BY <1>1, <1>2, <1>4, <1>5, <1>6 DEF Drifts, Gap
<1> QED BY <1>1, <1>3, <1>7 DEF e

\* The rows are those of d where only the shelf is written.
LEMMA ShelfWritten ==
  ASSUME NEW d, Kept(d), NEW e, Countable(e), ShelfOnly(d, e)
  PROVE  /\ Kept(e) /\ SameHands(d, e)
         /\ Bought(e) = Bought(d) /\ Cost(e) = Cost(d)
<1>1. Rows(e) BY DEF Kept, Rows, ShelfOnly
<1>2. SameHands(d, e) BY DEF SameHands, ShelfOnly, SalesOf, MovementsOf, CostsOf, EntriesOf
<1> QED BY <1>1, <1>2 DEF Kept, ShelfOnly, Bought, Cost

LEMMA TakenDrifts ==
  ASSUME IsFiniteSet(Options), NEW d, Kept(d), NEW b \in Options, NEW q \in Nat,
         NEW m \in Nat, m # 0
  PROVE  LET e == ConsumeFifoItems(d, b, q, m)
         IN  /\ Kept(e) /\ ShelfOnly(d, e) /\ SameHands(d, e)
             /\ \A c \in Options : AvailableQuantity(e, c) =
                  IF c = b THEN Less(AvailableQuantity(d, b), q) ELSE AvailableQuantity(d, c)
             /\ AvailableQuantity(d, b) >= q => Drifts(d, e, q)
<1> DEFINE e == ConsumeFifoItems(d, b, q, m)
<1>1. Countable(d) BY DEF Kept
<1>2. /\ Countable(e) /\ ShelfOnly(d, e)
      /\ \A c \in Options : AvailableQuantity(e, c) =
           IF c = b THEN Less(AvailableQuantity(d, b), q) ELSE AvailableQuantity(d, c)
  BY <1>1, ShelfTaken
<1> HIDE DEF e
<1>3. Kept(e) /\ SameHands(d, e) /\ Bought(e) = Bought(d) /\ Cost(e) = Cost(d)
  BY <1>2, ShelfWritten
<1>4. ASSUME AvailableQuantity(d, b) >= q PROVE Drifts(d, e, q)
  <2>1. AvailableQuantity(d, b) \in Nat BY <1>1, ShelfNat
  <2>2. Less(AvailableQuantity(d, b), q) = AvailableQuantity(d, b) + (-q) BY <1>4, <2>1 DEF Less
  <2>3. -q \in Int OBVIOUS
  <2>4. Stock(e) = Stock(d) + (-q) BY <1>1, <1>2, <2>2, <2>3, StockMoves
  <2>5. Bought(d) \in Int /\ Cost(d) \in Int /\ Stock(d) \in Int BY CountsAreInt
  <2>6. e.movements = d.movements BY <1>2 DEF ShelfOnly
  <2> QED BY <1>3, <2>4, <2>5, <2>6 DEF Drifts, Gap
<1> QED BY <1>2, <1>3, <1>4 DEF e

LEMMA BroughtDrifts ==
  ASSUME IsFiniteSet(Options), NEW d, Kept(d), NEW b \in Options, NEW q \in Nat
  PROVE  LET e == CreateLotWithItems(d, b, q)
         IN  /\ Drifts(d, e, -q) /\ ShelfOnly(d, e) /\ SameHands(d, e)
             /\ \A c \in Options : AvailableQuantity(e, c) =
                  AvailableQuantity(d, c) + IF c = b THEN q ELSE 0
<1> DEFINE e == CreateLotWithItems(d, b, q)
<1>1. Countable(d) BY DEF Kept
<1>2. /\ Countable(e) /\ ShelfOnly(d, e)
      /\ \A c \in Options : AvailableQuantity(e, c) =
           AvailableQuantity(d, c) + IF c = b THEN q ELSE 0
  BY <1>1, ShelfBrought
<1> HIDE DEF e
<1>3. Kept(e) /\ SameHands(d, e) /\ Bought(e) = Bought(d) /\ Cost(e) = Cost(d)
  BY <1>2, ShelfWritten
<1>4. Drifts(d, e, -q)
  <2>1. \A c \in Options : AvailableQuantity(d, c) \in Nat BY <1>1, ShelfNat
  <2>2. \A c \in Options : AvailableQuantity(e, c) =
          IF c = b THEN AvailableQuantity(d, b) + q ELSE AvailableQuantity(d, c)
    BY <1>2, <2>1
  <2>3. Stock(e) = Stock(d) + q BY <1>1, <1>2, <2>2, StockMoves
  <2>4. Bought(d) \in Int /\ Cost(d) \in Int /\ Stock(d) \in Int BY CountsAreInt
  <2>5. e.movements = d.movements BY <1>2 DEF ShelfOnly
  <2> QED BY <1>3, <2>3, <2>4, <2>5 DEF Drifts, Gap
<1> QED BY <1>2, <1>3, <1>4 DEF e

LEMMA BalanceDrifts ==
  ASSUME IsFiniteSet(Options), NEW d, Kept(d), NEW rows, Balances(rows, d.lastMovement)
  PROVE  LET e == [d EXCEPT !.negative = rows]
         IN  /\ Drifts(d, e, 0) /\ BalanceOnly(d, e) /\ e.negative = rows
             /\ SameHands(d, e) /\ SameShelves(d, e)
<1> DEFINE e == [d EXCEPT !.negative = rows]
<1>1. Kept(e) /\ BalanceOnly(d, e) /\ e.negative = rows BY CountBalance
<1> HIDE DEF e
<1>2. SameHands(d, e)
  BY <1>1 DEF BalanceOnly, SameHands, SalesOf, MovementsOf, CostsOf, EntriesOf
<1>3. SameShelves(d, e) BY <1>1 DEF BalanceOnly, SameShelves, AvailableQuantity, AvailableItems
<1>4. Stock(e) = Stock(d) BY <1>1, SameStock DEF BalanceOnly
<1>5. Bought(d) \in Int /\ Cost(d) \in Int /\ Stock(d) \in Int BY CountsAreInt
<1>6. Drifts(d, e, 0) BY <1>1, <1>4, <1>5 DEF Drifts, Gap, BalanceOnly, Bought, Cost
<1> QED BY <1>1, <1>2, <1>3, <1>6 DEF e

\* A row of orders is written and nothing else.
LEMMA OrderDrifts ==
  ASSUME IsFiniteSet(Options), NEW d, Kept(d), NEW o \in Orders, NEW row \in CountOrder
  PROVE  LET e == [d EXCEPT !.orders[o] = row]
         IN  /\ Drifts(d, e, 0) /\ SameShelves(d, e)
             /\ e.orders = [d.orders EXCEPT ![o] = row]
             /\ e.lots = d.lots /\ e.items = d.items /\ e.negative = d.negative
             /\ e.movements = d.movements /\ e.lastMovement = d.lastMovement
             /\ e.journal = d.journal /\ e.lastEntry = d.lastEntry
<1> DEFINE e == [d EXCEPT !.orders[o] = row]
           orders == [d.orders EXCEPT ![o] = row]
<1>1. d \in CountBase BY DEF Kept, Countable
<1>2. orders \in [Orders -> CountOrder] BY <1>1 DEF CountBase
<1>3. e = [d EXCEPT !.orders = orders] OBVIOUS
<1> HIDE DEF orders
<1>4. /\ e \in CountBase /\ e.orders = orders
      /\ e.lots = d.lots /\ e.items = d.items /\ e.negative = d.negative
      /\ e.movements = d.movements /\ e.lastMovement = d.lastMovement
      /\ e.journal = d.journal /\ e.lastEntry = d.lastEntry
  <2> HIDE DEF e
  <2> QED BY <1>1, <1>2, <1>3 DEF CountBase
<1> HIDE DEF e
<1>5. Countable(e) BY <1>4, SameShelf DEF Kept
<1>6. Kept(e) BY <1>4, <1>5 DEF Kept, Rows
<1>7. Stock(e) = Stock(d) BY <1>4, SameStock
<1>8. Bought(d) \in Int /\ Cost(d) \in Int /\ Stock(d) \in Int BY CountsAreInt
<1>9. Drifts(d, e, 0) BY <1>4, <1>6, <1>7, <1>8 DEF Drifts, Gap, Bought, Cost
<1>10. SameShelves(d, e) BY <1>4 DEF SameShelves, AvailableQuantity, AvailableItems
<1> QED BY <1>4, <1>9, <1>10 DEF e, orders

LEMMA ShelfDeficit ==
  ASSUME NEW d, Countable(d), NEW b \in Options, NEW q \in Nat
  PROVE  /\ Deficit(d, b, q) \in Nat /\ Deficit(d, b, q) <= q
         /\ Deficit(d, b, q) > 0 <=> AvailableQuantity(d, b) < q
<1> DEFINE s == Shelf(d)
<1>1. /\ Sound(s) /\ Deficit(s, b, q) = Deficit(d, b, q)
      /\ AvailableQuantity(s, b) = AvailableQuantity(d, b)
  BY ShelfSound
<1> HIDE DEF s
<1> QED BY <1>1, DeficitIs

\* Rows of which each is a row with another quantity.
LEMMA Requantified ==
  ASSUME NEW rows, NEW last, Balances(rows, last), NEW f, \A r \in rows : f[r].id = r.id,
         NEW more, \A r \in more : /\ r \in BalanceRow /\ r.qty > 0
                                   /\ \E s \in rows : r = f[s]
  PROVE  Balances(more, last)
<1> DEFINE image == {f[r] : r \in rows}
           g == [r \in rows |-> f[r]]
<1>1. IsFiniteSet(more)
  <2>1. g \in Surjection(rows, image) BY DEF Surjection
  <2> QED BY <2>1, FS_Surjection, FS_Subset DEF Balances
<1>2. \A r, s \in more : r.id = s.id => r = s BY DEF Balances
<1>3. \A r \in more : r.id <= last BY DEF Balances
<1> QED BY <1>1, <1>2, <1>3 DEF Balances

LEMMA CountUpserts ==
  ASSUME NEW d, Kept(d), NEW b \in Options, NEW k \in Nat, k > 0,
         \A r \in d.negative : r.id # d.lastMovement
  PROVE  \E rows : /\ Balances(rows, d.lastMovement)
                   /\ \A c : c # b => {r \in rows : r.option = c} = BalanceRows(d, c)
                   /\ UpsertNegativeBalance(d, b, k) = [d EXCEPT !.negative = rows]
<1>1. Balances(d.negative, d.lastMovement) /\ d.lastMovement \in Nat
  BY DEF Kept, Rows, Countable, CountBase
<1>2. CASE b \notin BaseOptions /\ BalanceRows(d, b) # {}
  <2> DEFINE Changed(r) == IF r.option = b THEN [r EXCEPT !.qty = @ + k] ELSE r
             rows == {Changed(r) : r \in d.negative}
             f == [r \in d.negative |-> Changed(r)]
  <2>1. UpsertNegativeBalance(d, b, k) = [d EXCEPT !.negative = rows]
    BY <1>2 DEF UpsertNegativeBalance, AddToBalance
  <2>2. \A r \in d.negative : /\ Changed(r) \in BalanceRow /\ Changed(r).qty > 0
                              /\ Changed(r).id = r.id /\ Changed(r).option = r.option
                              /\ r.option # b => Changed(r) = r
    BY <1>1 DEF Balances, BalanceRow
  <2> HIDE DEF Changed
  <2>3. Balances(rows, d.lastMovement)
    <3>1. \A r \in rows : /\ r \in BalanceRow /\ r.qty > 0
                          /\ \E t \in d.negative : r = f[t]
      BY <2>2
    <3>2. \A r \in d.negative : f[r].id = r.id BY <2>2
    <3> HIDE DEF f, rows
    <3> QED BY <1>1, <3>1, <3>2, Requantified
  <2>4. \A c : c # b => {r \in rows : r.option = c} = BalanceRows(d, c)
    BY <2>2 DEF BalanceRows
  <2> HIDE DEF rows
  <2> QED BY <2>1, <2>3, <2>4
<1>3. CASE ~(b \notin BaseOptions /\ BalanceRows(d, b) # {})
  <2> DEFINE row == [id |-> d.lastMovement, option |-> b, qty |-> k]
             rows == d.negative \cup {row}
  <2>1. UpsertNegativeBalance(d, b, k) = [d EXCEPT !.negative = rows]
    BY <1>3 DEF UpsertNegativeBalance
  <2>2. /\ row \in BalanceRow /\ row.qty > 0 /\ row.id = d.lastMovement /\ row.option = b
        /\ row.id <= d.lastMovement
    BY <1>1 DEF BalanceRow
  <2> HIDE DEF row
  <2>3. IsFiniteSet(rows) BY <1>1, FS_AddElement DEF Balances
  <2>4. Balances(rows, d.lastMovement) BY <1>1, <2>2, <2>3 DEF Balances
  <2>5. \A c : c # b => {r \in rows : r.option = c} = BalanceRows(d, c)
    BY <2>2 DEF BalanceRows
  <2> HIDE DEF rows
  <2> QED BY <2>1, <2>4, <2>5
<1> QED BY <1>2, <1>3

LEMMA CountReduces ==
  ASSUME NEW d, Kept(d), NEW b \in Options, NEW k \in Int
  PROVE  \E rows : /\ Balances(rows, d.lastMovement)
                   /\ ReduceNegativeBalance(d, b, k) = [d EXCEPT !.negative = rows]
<1>1. d \in CountBase /\ Balances(d.negative, d.lastMovement)
  BY DEF Kept, Rows, Countable, CountBase
<1> DEFINE Changed(r) == IF r.option = b THEN [r EXCEPT !.qty = @ + (-k)] ELSE r
           reduced == {Changed(r) : r \in d.negative}
           rows == {r \in reduced : r.option # b \/ r.qty > 0}
           f == [r \in d.negative |-> Changed(r)]
<1>2. AddToBalance(d, b, -k) = [d EXCEPT !.negative = reduced] BY DEF AddToBalance
<1>3. ReduceNegativeBalance(d, b, k) = [d EXCEPT !.negative = rows]
  <2> HIDE DEF reduced
  <2>1. [d EXCEPT !.negative = reduced].negative = reduced BY <1>1 DEF CountBase
  <2>2. ReduceNegativeBalance(d, b, k)
          = [[d EXCEPT !.negative = reduced] EXCEPT !.negative = rows]
    BY <1>2, <2>1 DEF ReduceNegativeBalance
  <2> HIDE DEF rows
  <2> QED BY <1>1, <2>2 DEF CountBase
<1>4. \A r \in d.negative : /\ Changed(r) \in BalanceRow
                            /\ Changed(r).option = r.option /\ Changed(r).id = r.id
                            /\ r.option # b => Changed(r).qty > 0
  BY <1>1 DEF Balances, BalanceRow
<1> HIDE DEF Changed
<1>5. Balances(rows, d.lastMovement)
  <2>1. \A r \in rows : /\ r \in BalanceRow /\ r.qty > 0
                        /\ \E s \in d.negative : r = f[s]
    BY <1>4
  <2>2. \A r \in d.negative : f[r].id = r.id BY <1>4
  <2> HIDE DEF f, rows
  <2> QED BY <1>1, <2>1, <2>2, Requantified
<1> HIDE DEF rows
<1> QED BY <1>3, <1>5

-----------------------------------------------------------------------------
\* A sale, of an order that was free.
Deducts(d, e, o, b, q, deficit) ==
  /\ Kept(e) /\ e.orders = d.orders /\ d.movements \subseteq e.movements
  /\ e.lastMovement \in 1..e.lastMovement
  /\ \A p \in Orders : CostsOf(e, p) = CostsOf(d, p)
  /\ \A p \in Orders : p # o => SalesOf(e, p) = SalesOf(d, p)
  /\ \E m \in e.movements : SalesOf(e, o) = {m} /\ m.qty = -q
  /\ \A c \in Options : AvailableQuantity(e, c) =
       IF c = b THEN Less(AvailableQuantity(d, b), q) ELSE AvailableQuantity(d, c)
  /\ \A c : c # b => BalanceRows(e, c) = BalanceRows(d, c)
  /\ deficit \in Nat /\ (deficit > 0 <=> AvailableQuantity(d, b) < q)
  /\ deficit > 0 => ~NoneOversold(e)
  /\ deficit = 0 => Drifts(d, e, q) /\ e.negative = d.negative

LEMMA DeductDrifts ==
  ASSUME IsFiniteSet(Options), NEW d, Kept(d), NEW o \in Orders,
         d.orders[o].source \in CounterSources, SalesOf(d, o) = {},
         NEW b \in Options, NEW q \in Nat, q > 0
  PROVE  LET line == SaleOf(b, q)
         IN  Deducts(d, DeductLine(d, o, line), o, b, q, LineDeficit(d, o, line))
<1> DEFINE line == SaleOf(b, q)
           deficit == LineDeficit(d, o, line)
           sold == LogMovement(d, "sale", b, -q, o)
           row == [id |-> d.lastMovement + 1, type |-> "sale", option |-> b,
                   qty |-> -q, ref |-> o]
           taken == ConsumeFifoItems(sold, b, q, sold.lastMovement)
           missed == LogMovement(taken, "negative_sale", b, -deficit, o)
           owed == UpsertNegativeBalance(missed, b, deficit)
           e == DeductLine(d, o, line)
           Result == Deducts(d, e, o, b, q, deficit)
<1>1. /\ line.option = b /\ line.qty = q /\ ShouldConsumeFifo(d, o, line)
      /\ AllowNegative(d, o)
  BY DEF SaleOf, ShouldConsumeFifo, AllowNegative
<1> HIDE DEF line
<1>2. deficit = Deficit(d, b, q) BY <1>1 DEF LineDeficit
<1>3. SellLine(d, o, line) = taken BY <1>1 DEF SellLine
<1>4. e = IF deficit > 0 THEN owed ELSE taken BY <1>1, <1>3 DEF DeductLine, OversellLine
<1>5. /\ deficit \in Nat
      /\ deficit > 0 <=> AvailableQuantity(d, b) < q
  <2>1. Countable(d) BY DEF Kept
  <2> QED BY <1>2, <2>1, ShelfDeficit
<1> HIDE DEF deficit
<1>6. "sale" \in MovementType /\ "negative_sale" \in MovementType BY DEF MovementType
<1>7. -q \in Int /\ o \in Orders \cup {NoRef, Session} OBVIOUS
<1>8. row.type = "sale" /\ row.ref = o /\ row.qty = -q OBVIOUS
<1>9. /\ Drifts(d, sold, 0) /\ SameShelves(d, sold) /\ LogOnly(d, sold)
      /\ sold.lastMovement \in Nat \ {0} /\ sold.lastMovement \in 1..sold.lastMovement
      /\ \A p : CostsOf(sold, p) = CostsOf(d, p)
      /\ \A p : SalesOf(sold, p) = SalesOf(d, p) \cup (IF p = o THEN {row} ELSE {})
      /\ row \in sold.movements
  BY <1>6, <1>7, LoggedDrifts
<1> HIDE DEF sold, row
<1>10. sold.orders = d.orders /\ sold.negative = d.negative BY <1>9 DEF LogOnly
<1>11. /\ Kept(taken) /\ ShelfOnly(sold, taken) /\ SameHands(sold, taken)
       /\ \A c \in Options : AvailableQuantity(taken, c) =
            IF c = b THEN Less(AvailableQuantity(sold, b), q) ELSE AvailableQuantity(sold, c)
       /\ AvailableQuantity(sold, b) >= q => Drifts(sold, taken, q)
  <2>1. Kept(sold) BY <1>9 DEF Drifts
  <2>2. sold.lastMovement \in Nat /\ sold.lastMovement # 0 BY <1>9
  <2> QED BY <2>1, <2>2, TakenDrifts
<1> HIDE DEF taken
<1>12. /\ taken.orders = d.orders /\ taken.negative = d.negative
       /\ taken.movements = sold.movements /\ taken.lastMovement = sold.lastMovement
       /\ \A p : CostsOf(taken, p) = CostsOf(d, p)
       /\ \A p : SalesOf(taken, p) = SalesOf(d, p) \cup (IF p = o THEN {row} ELSE {})
  <2>1. /\ taken.orders = d.orders /\ taken.negative = d.negative
        /\ taken.movements = sold.movements /\ taken.lastMovement = sold.lastMovement
        /\ taken.journal = sold.journal
    BY <1>10, <1>11 DEF ShelfOnly
  <2> QED BY <1>9, <2>1 DEF CostsOf, EntriesOf, SalesOf, MovementsOf
<1>13. \A c \in Options : AvailableQuantity(taken, c) =
         IF c = b THEN Less(AvailableQuantity(d, b), q) ELSE AvailableQuantity(d, c)
  BY <1>9, <1>11 DEF SameShelves
<1>14. ASSUME deficit = 0 PROVE Result
  <2>1. e = taken BY <1>4, <1>14
  <2>2. AvailableQuantity(d, b) \in Nat BY ShelfNat DEF Kept
  <2>3. Drifts(sold, taken, q)
    <3>1. AvailableQuantity(sold, b) = AvailableQuantity(d, b) BY <1>9 DEF SameShelves
    <3> QED BY <1>5, <1>11, <1>14, <2>2, <3>1
  <2>4. Drifts(d, taken, 0 + q) BY <1>9, <2>3, DriftsOn
  <2>5. Drifts(d, taken, q) BY <2>4
  <2>6. d.movements \subseteq taken.movements BY <2>5 DEF Drifts
  <2> HIDE DEF e
  <2>7. SalesOf(e, o) = {row} /\ row \in e.movements BY <1>9, <1>12, <2>1
  <2>8. \A p : p # o => SalesOf(e, p) = SalesOf(d, p) BY <1>12, <2>1
  <2>9. e.lastMovement \in 1..e.lastMovement BY <1>9, <1>12, <2>1
  <2>10. \A c : BalanceRows(e, c) = BalanceRows(d, c) BY <1>12, <2>1 DEF BalanceRows
  <2> QED
    BY <1>5, <1>8, <1>11, <1>12, <1>13, <1>14, <2>1, <2>5, <2>6, <2>7, <2>8, <2>9, <2>10 DEF Deducts
<1>15. ASSUME deficit > 0 PROVE Result
  <2>1. e = owed BY <1>4, <1>15
  <2>2. /\ Drifts(taken, missed, 0) /\ SameShelves(taken, missed) /\ LogOnly(taken, missed)
        /\ missed.lastMovement \in Nat \ {0} /\ SameHands(taken, missed)
        /\ missed.lastMovement = taken.lastMovement + 1
        /\ \E m \in missed.movements : m.type = "negative_sale"
    <3> DEFINE lack == [id |-> taken.lastMovement + 1, type |-> "negative_sale", option |-> b,
                        qty |-> -deficit, ref |-> o]
    <3>1. -deficit \in Int BY <1>5
    <3>2. lack.type = "negative_sale" OBVIOUS
    <3>3. /\ Drifts(taken, missed, 0) /\ SameShelves(taken, missed) /\ LogOnly(taken, missed)
          /\ missed.lastMovement \in Nat \ {0} /\ SameHands(taken, missed)
          /\ missed.lastMovement = taken.lastMovement + 1
          /\ lack \in missed.movements
      BY <1>6, <1>7, <1>11, <3>1, LoggedDrifts
    <3> HIDE DEF lack, missed
    <3> QED BY <3>2, <3>3
  <2> HIDE DEF missed
  <2>3. Kept(missed) BY <2>2 DEF Drifts
  <2>4. PICK rows : /\ Balances(rows, missed.lastMovement)
                    /\ \A c : c # b => {r \in rows : r.option = c} = BalanceRows(missed, c)
                    /\ owed = [missed EXCEPT !.negative = rows]
    <3>1. Balances(taken.negative, taken.lastMovement) /\ taken.lastMovement \in Nat
      BY <1>11 DEF Kept, Rows, Countable, CountBase
    <3>2. missed.negative = taken.negative BY <2>2 DEF LogOnly
    <3>3. \A r \in missed.negative : r.id # missed.lastMovement
      BY <2>2, <3>1, <3>2 DEF Balances, BalanceRow
    <3> QED BY <1>5, <1>15, <2>3, <3>3, CountUpserts
  <2>5. /\ Drifts(missed, owed, 0) /\ BalanceOnly(missed, owed)
        /\ SameHands(missed, owed) /\ SameShelves(missed, owed) /\ owed.negative = rows
    BY <2>3, <2>4, BalanceDrifts
  <2> HIDE DEF owed, e
  <2>6. /\ Kept(owed) /\ taken.movements \subseteq owed.movements
        /\ owed.movements = missed.movements /\ owed.orders = d.orders
        /\ owed.lastMovement = missed.lastMovement
    BY <1>12, <2>2, <2>5 DEF Drifts, BalanceOnly, LogOnly
  <2>7. \A p \in Orders : /\ CostsOf(owed, p) = CostsOf(d, p)
                           /\ SalesOf(owed, p) = SalesOf(taken, p)
    BY <1>12, <2>2, <2>5 DEF SameHands
  <2>8. d.movements \subseteq owed.movements /\ row \in owed.movements
    BY <1>9, <1>12, <2>6 DEF Drifts
  <2>9. \A c \in Options : AvailableQuantity(owed, c) = AvailableQuantity(taken, c)
    BY <2>2, <2>5 DEF SameShelves
  <2>10. ~NoneOversold(owed) BY <2>2, <2>6 DEF NoneOversold
  <2>11. SalesOf(owed, o) = {row} BY <1>12, <2>7
  <2>12. \A p \in Orders : p # o => SalesOf(owed, p) = SalesOf(d, p)
    BY <1>12, <2>7
  <2>13. owed.lastMovement \in 1..owed.lastMovement BY <2>2, <2>6
  <2>14. \A c : c # b => BalanceRows(owed, c) = BalanceRows(d, c)
    <3>1. missed.negative = d.negative BY <1>12, <2>2 DEF LogOnly
    <3> QED BY <2>4, <2>5, <3>1 DEF BalanceRows
  <2> QED
    BY <1>5, <1>8, <1>13, <1>15, <2>1, <2>6, <2>7, <2>8, <2>9, <2>10, <2>11, <2>12, <2>13, <2>14
    DEF Deducts
<1>16. Result
  <2> HIDE DEF Result
  <2> QED BY <1>5, <1>14, <1>15
<1> HIDE DEF e
<1> QED BY <1>16 DEF e, deficit, line

LEMMA SellGood ==
  ASSUME IsFiniteSet(Options), NEW d, Good(d), NEW o \in FreeOrders(d),
         NEW source \in CounterSources, NEW b \in Options, NEW q \in Nat, q > 0
  PROVE  LET e == Sell(d, o, source, SaleOf(b, q))
         IN  /\ Good(e) /\ FreeOrders(e) = FreeOrders(d) \ {o}
             /\ \A c \in Options : AvailableQuantity(e, c) =
                  IF c = b THEN Less(AvailableQuantity(d, b), q) ELSE AvailableQuantity(d, c)
             /\ \A c : c # b \/ AvailableQuantity(d, b) >= q =>
                  BalanceRows(e, c) = BalanceRows(d, c)
<1> DEFINE line == SaleOf(b, q)
           order == [status |-> "delivered", source |-> source, lines |-> <<line>>]
           created == [d EXCEPT !.orders[o] = order]
           deficit == LineDeficit(created, o, line)
           sold == DeductLine(created, o, line)
           lacked == PostCost(sold, "negative_sale_cogs", sold.lastMovement, deficit)
           e == PostCost(lacked, "order_cogs", o, q)
           left == [c \in Options |-> IF c = b THEN Less(AvailableQuantity(d, b), q)
                                      ELSE AvailableQuantity(d, c)]
<1>1. Sell(d, o, source, line) = e
  <2>1. line.qty = q BY DEF SaleOf
  <2> QED BY <2>1 DEF Sell
<1>2. /\ o \in Orders /\ d.orders[o] = Untaken
      /\ Kept(d) /\ Handed(d) /\ Explained(d)
  BY DEF FreeOrders, Good
<1>3. order \in CountOrder
  <2>1. line \in Line BY DEF SaleOf, Line
  <2>2. <<line>> \in Seq(Line) BY <2>1
  <2> HIDE DEF line
  <2> QED BY <2>2 DEF CountOrder
<1>4. order.source = source /\ order.status = "delivered" OBVIOUS
<1> HIDE DEF order
<1>5. /\ Drifts(d, created, 0) /\ SameShelves(d, created)
      /\ created.orders = [d.orders EXCEPT ![o] = order]
      /\ created.negative = d.negative
      /\ created.movements = d.movements /\ created.journal = d.journal
  BY <1>2, <1>3, OrderDrifts
<1>6. /\ Kept(created) /\ created.orders[o] = order
      /\ \A p \in Orders : p # o => created.orders[p] = d.orders[p]
  <2>1. d.orders \in [Orders -> CountOrder] BY <1>2 DEF Kept, Countable, CountBase
  <2> HIDE DEF created
  <2> QED BY <1>2, <1>5, <2>1 DEF Drifts
<1> HIDE DEF created
<1>7. /\ \A p : SalesOf(created, p) = SalesOf(d, p) /\ CostsOf(created, p) = CostsOf(d, p)
      /\ SalesOf(d, o) = {} /\ CostsOf(d, o) = {}
  BY <1>2, <1>5 DEF Handed, SalesOf, CostsOf, MovementsOf, EntriesOf
<1>8. Deducts(created, sold, o, b, q, deficit)
  <2>1. created.orders[o].source \in CounterSources BY <1>4, <1>6
  <2>2. SalesOf(created, o) = {} BY <1>7
  <2> QED BY <1>2, <1>6, <2>1, <2>2, DeductDrifts
<1> HIDE DEF sold, deficit, line
<1>9. /\ Kept(lacked) /\ JournalOnly(sold, lacked) /\ SameShelves(sold, lacked)
      /\ SameHands(sold, lacked)
      /\ deficit = 0 => lacked = sold
  <2>1. /\ "negative_sale_cogs" \in CostKinds /\ "negative_sale_cogs" # "order_cogs"
        /\ sold.lastMovement \in Nat \cup Orders /\ deficit \in Int
    BY <1>8 DEF CostKinds, MovementCosts, Deducts
  <2>2. deficit = 0 => lacked = sold BY DEF PostCost
  <2>3. /\ Kept(lacked) /\ JournalOnly(sold, lacked) /\ SameShelves(sold, lacked)
        /\ SameHands(sold, lacked)
    BY <1>8, <2>1, PostedDrifts DEF Deducts
  <2> QED BY <2>2, <2>3
<1>10. "order_cogs" \in CostKinds /\ "order_cogs" \notin MovementCosts
  BY DEF CostKinds, MovementCosts
<1> HIDE DEF lacked
<1>11. /\ Kept(e) /\ JournalOnly(lacked, e) /\ SameShelves(lacked, e)
       /\ \A p : p # o => CostsOf(e, p) = CostsOf(lacked, p)
       /\ Drifts(lacked, e, -q)
       /\ \E x \in e.journal : CostsOf(e, o) = {x} /\ x.lines["cogs"] = q
  <2>1. EntriesOf(lacked, "order_cogs", o) = {}
    <3>1. CostsOf(lacked, o) = CostsOf(sold, o) BY <1>2, <1>9 DEF SameHands
    <3>2. CostsOf(sold, o) = {} BY ONLY <1>2, <1>7, <1>8 DEF Deducts
    <3> QED BY <3>1, <3>2 DEF CostsOf
  <2>2. o \in Nat \cup Orders /\ q \in Int /\ q # 0 BY <1>2
  <2>3. /\ Kept(e) /\ JournalOnly(lacked, e) /\ SameShelves(lacked, e)
        /\ \A p : p # o => CostsOf(e, p) = CostsOf(lacked, p)
        /\ Drifts(lacked, e, -q)
        /\ \E x \in e.journal :
             EntriesOf(e, "order_cogs", o) = {x} /\ x.lines["cogs"] = q
    <3> HIDE DEF e
    <3>1. e = PostCost(lacked, "order_cogs", o, q) BY DEF e
    <3>2. Kept(lacked) BY <1>9
    <3>3. "order_cogs" \in MovementCosts => o \in 1..lacked.lastMovement BY <1>10
    <3> QED BY ONLY IsFiniteSet(Options), <1>10, <2>1, <2>2, <3>1, <3>2, <3>3, PostedDrifts
  <2> HIDE DEF e
  <2> QED BY <2>3 DEF CostsOf
<1> HIDE DEF e
<1>12. /\ e.orders = created.orders /\ e.movements = sold.movements
       /\ e.negative = sold.negative
  BY <1>8, <1>9, <1>11 DEF JournalOnly, Deducts
<1>13. \A c \in Options : AvailableQuantity(e, c) = left[c]
  <2>1. \A c \in Options : /\ AvailableQuantity(created, c) = AvailableQuantity(d, c)
                          /\ AvailableQuantity(lacked, c) = AvailableQuantity(sold, c)
                          /\ AvailableQuantity(e, c) = AvailableQuantity(lacked, c)
    BY <1>5, <1>9, <1>11 DEF SameShelves
  <2> QED BY <1>8, <2>1 DEF Deducts
<1> HIDE DEF left
<1>14. Handed(e)
  <2> SUFFICES ASSUME NEW p \in Orders
               PROVE  /\ e.orders[p] = Untaken => SalesOf(e, p) = {} /\ CostsOf(e, p) = {}
                      /\ e.orders[p].status = "delivered" => HasSale(e, p)
    BY DEF Handed
  <2>1. CASE p = o
    <3>1. e.orders[p] # Untaken BY <1>4, <1>6, <1>12, <2>1 DEF Untaken
    <3>2. \E m \in e.movements : SalesOf(e, o) = {m} /\ m.qty = -q
      BY <1>8, <1>12 DEF SalesOf, MovementsOf, Deducts
    <3>3. HasSale(e, o) BY <1>11, <3>2 DEF HasSale
    <3> QED BY <2>1, <3>1, <3>3
  <2>2. CASE p # o
    <3>1. e.orders[p] = d.orders[p] BY <1>6, <1>12, <2>2
    <3>2. SalesOf(e, p) = SalesOf(d, p)
      <4>1. SalesOf(e, p) = SalesOf(sold, p) BY <1>12 DEF SalesOf, MovementsOf
      <4> QED BY <1>7, <1>8, <2>2, <4>1 DEF Deducts
    <3>3. CostsOf(e, p) = CostsOf(d, p)
      <4>1. CostsOf(e, p) = CostsOf(lacked, p) BY ONLY <1>11, <2>2
      <4>2. CostsOf(lacked, p) = CostsOf(sold, p) BY <1>9 DEF SameHands
      <4>3. CostsOf(sold, p) = CostsOf(d, p) BY ONLY <1>7, <1>8 DEF Deducts
      <4> QED BY <4>1, <4>2, <4>3
    <3> QED BY <1>2, <3>1, <3>2, <3>3 DEF Handed, HasSale
  <2> QED BY <2>1, <2>2
<1>15. Explained(e)
  <2> SUFFICES ASSUME NoneOversold(e) PROVE e.negative = {} /\ Gap(e) = 0 BY DEF Explained
  <2>1. deficit = 0 BY <1>8, <1>12 DEF NoneOversold, Deducts
  <2>2. Drifts(created, sold, q) /\ lacked = sold /\ e.negative = d.negative
    <3>1. Drifts(created, sold, q) /\ sold.negative = created.negative
      BY ONLY <1>8, <2>1 DEF Deducts
    <3> QED BY ONLY <1>5, <1>9, <1>12, <2>1, <3>1
  <2>3. Drifts(d, sold, 0 + q) BY <1>2, <1>5, <2>2, DriftsOn
  <2>4. Drifts(d, e, (0 + q) + (-q)) BY <1>2, <1>11, <2>2, <2>3, DriftsOn
  <2>5. NoneOversold(d) BY <2>4 DEF Drifts, NoneOversold
  <2>6. d.negative = {} /\ Gap(d) = 0 BY <1>2, <2>5 DEF Explained
  <2> QED BY <2>2, <2>4, <2>6 DEF Drifts
<1>16. FreeOrders(e) = FreeOrders(d) \ {o}
  <2>1. e.orders[o] # Untaken BY <1>4, <1>6, <1>12 DEF Untaken
  <2>2. \A p \in Orders : p # o => e.orders[p] = d.orders[p] BY <1>6, <1>12
  <2> QED BY <2>1, <2>2 DEF FreeOrders
<1>17. Good(e) BY <1>11, <1>14, <1>15 DEF Good
<1>18. \A c : c # b \/ AvailableQuantity(d, b) >= q => BalanceRows(e, c) = BalanceRows(d, c)
  <2>1. AvailableQuantity(d, b) \in Nat BY <1>2, ShelfNat DEF Kept
  <2>2. AvailableQuantity(created, b) = AvailableQuantity(d, b) BY <1>5 DEF SameShelves
  <2>3. AvailableQuantity(d, b) >= q => sold.negative = created.negative
    BY ONLY <1>8, <2>1, <2>2, q \in Nat DEF Deducts
  <2>4. created.negative = d.negative BY <1>5
  <2> QED BY <1>8, <1>12, <2>3, <2>4 DEF BalanceRows, Deducts
<1> QED BY <1>1, <1>13, <1>16, <1>17, <1>18 DEF line, left

-----------------------------------------------------------------------------
\* The other requests.
LEMMA StaysGood ==
  ASSUME NEW d, Good(d), NEW e, Kept(e), SameHands(d, e), d.movements \subseteq e.movements,
         NoneOversold(d) /\ d.negative = {} /\ Gap(d) = 0 => e.negative = {} /\ Gap(e) = 0
  PROVE  Good(e) /\ FreeOrders(e) = FreeOrders(d)
<1>1. Handed(e) BY SameHanded DEF Good
<1>2. Explained(e) BY DEF Good, Explained, NoneOversold
<1>3. e.orders = d.orders BY DEF SameHands
<1> QED BY <1>1, <1>2, <1>3 DEF Good, FreeOrders

LEMMA SameHandsOn ==
  ASSUME NEW d, NEW e, NEW f, SameHands(d, e), SameHands(e, f)
  PROVE  SameHands(d, f)
BY DEF SameHands

LEMMA RestockGood ==
  ASSUME IsFiniteSet(Options), NEW d, Good(d), NEW b \in Options, NEW q \in Nat
  PROVE  Good(LogMovement(CreateLotWithItems(d, b, q), "restock", b, q, NoRef))
<1> DEFINE brought == CreateLotWithItems(d, b, q)
           e == LogMovement(brought, "restock", b, q, NoRef)
<1>1. Kept(d) BY DEF Good
<1>2. Drifts(d, brought, -q) /\ ShelfOnly(d, brought) /\ SameHands(d, brought)
  BY <1>1, BroughtDrifts
<1> HIDE DEF brought
<1>3. /\ "restock" \in MovementType /\ q \in Int /\ "restock" # "sale"
      /\ NoRef \in Orders \cup {NoRef, Session} /\ Kept(brought)
  BY <1>2 DEF MovementType, Drifts
<1>4. Drifts(brought, e, q) /\ SameHands(brought, e) /\ LogOnly(brought, e) BY <1>3, LoggedDrifts
<1> HIDE DEF e
<1>5. Drifts(d, e, (-q) + q) BY <1>1, <1>2, <1>4, DriftsOn
<1>6. SameHands(d, e) BY <1>2, <1>4, SameHandsOn
<1>7. e.negative = d.negative BY <1>2, <1>4 DEF LogOnly, ShelfOnly
<1>8. Kept(e) /\ d.movements \subseteq e.movements BY <1>5 DEF Drifts
<1>9. Gap(d) = 0 => Gap(e) = 0 BY <1>5 DEF Drifts
<1>10. Good(e) BY <1>6, <1>7, <1>8, <1>9, StaysGood
<1> QED BY <1>10 DEF e, brought

LEMMA WasteGood ==
  ASSUME IsFiniteSet(Options), NEW d, Good(d), NEW b \in Options, NEW q \in Nat,
         AvailableQuantity(d, b) >= q, NEW ref \in {NoRef, Session}
  PROVE  LET e == Waste(d, b, q, ref)
         IN  /\ Good(e) /\ FreeOrders(e) = FreeOrders(d) /\ e.negative = d.negative
             /\ \A c \in Options : AvailableQuantity(e, c) =
                  IF c = b THEN Less(AvailableQuantity(d, b), q) ELSE AvailableQuantity(d, c)
<1> DEFINE logged == LogMovement(d, "waste", b, -q, ref)
           taken == ConsumeFifoItems(logged, b, q, logged.lastMovement)
           e == PostCost(taken, "waste_cogs", logged.lastMovement, q)
<1>1. Waste(d, b, q, ref) = e BY DEF Waste
<1>2. Kept(d) BY DEF Good
<1>3. /\ "waste" \in MovementType /\ -q \in Int /\ "waste" # "sale"
      /\ ref \in Orders \cup {NoRef, Session}
      /\ "waste_cogs" \in MovementCosts /\ "waste_cogs" \in CostKinds
      /\ "waste_cogs" # "order_cogs"
  BY DEF MovementType, MovementCosts, CostKinds
<1>4. /\ Drifts(d, logged, 0) /\ SameShelves(d, logged) /\ LogOnly(d, logged)
      /\ logged.lastMovement \in Nat \ {0} /\ logged.lastMovement \in 1..logged.lastMovement
      /\ \A s \in MovementCosts : EntriesOf(logged, s, logged.lastMovement) = {}
      /\ SameHands(d, logged)
  <2>1. "waste" = "restock" /\ ref = NoRef <=> FALSE OBVIOUS
  <2> QED BY <1>2, <1>3, <2>1, LoggedDrifts
<1> HIDE DEF logged
<1>5. AvailableQuantity(logged, b) = AvailableQuantity(d, b) BY <1>4 DEF SameShelves
<1>6. /\ ShelfOnly(logged, taken) /\ SameHands(logged, taken) /\ Drifts(logged, taken, q)
      /\ \A c \in Options : AvailableQuantity(taken, c) =
           IF c = b THEN Less(AvailableQuantity(logged, b), q)
           ELSE AvailableQuantity(logged, c)
  <2>1. Kept(logged) /\ AvailableQuantity(logged, b) >= q BY <1>4, <1>5 DEF Drifts
  <2>2. logged.lastMovement \in Nat /\ logged.lastMovement # 0 BY <1>4
  <2> QED BY <2>1, <2>2, TakenDrifts
<1> HIDE DEF taken
<1>7. /\ SameHands(taken, e) /\ Drifts(taken, e, -q) /\ JournalOnly(taken, e)
      /\ SameShelves(taken, e)
  <2>1. EntriesOf(taken, "waste_cogs", logged.lastMovement) = {}
    <3>1. taken.journal = logged.journal BY <1>6 DEF ShelfOnly
    <3>2. EntriesOf(logged, "waste_cogs", logged.lastMovement) = {} BY <1>3, <1>4
    <3> QED BY <3>1, <3>2 DEF EntriesOf
  <2>2. /\ Kept(taken) /\ q \in Int /\ logged.lastMovement \in Nat \cup Orders
        /\ logged.lastMovement \in 1..taken.lastMovement
    BY <1>4, <1>6 DEF Drifts, ShelfOnly
  <2> QED BY <1>3, <2>1, <2>2, PostedDrifts
<1> HIDE DEF e
<1>8. Drifts(d, taken, 0 + q) BY <1>2, <1>4, <1>6, DriftsOn
<1>9. Drifts(d, e, (0 + q) + (-q)) BY <1>2, <1>7, <1>8, DriftsOn
<1>10. SameHands(d, e) BY <1>4, <1>6, <1>7, SameHandsOn
<1>11. e.negative = d.negative BY <1>4, <1>6, <1>7 DEF LogOnly, ShelfOnly, JournalOnly
<1>12. Kept(e) /\ d.movements \subseteq e.movements BY <1>9 DEF Drifts
<1>13. Gap(d) = 0 => Gap(e) = 0 BY <1>9 DEF Drifts
<1>14. Good(e) /\ FreeOrders(e) = FreeOrders(d)
  BY <1>10, <1>11, <1>12, <1>13, StaysGood
<1>15. \A c \in Options : AvailableQuantity(e, c) =
         IF c = b THEN Less(AvailableQuantity(d, b), q) ELSE AvailableQuantity(d, c)
  BY <1>4, <1>6, <1>7 DEF SameShelves
<1> QED BY <1>1, <1>11, <1>14, <1>15

LEMMA ClearGood ==
  ASSUME IsFiniteSet(Options), NEW d, Good(d), NEW line
  PROVE  LET e == ClearBalance(d, line)
         IN  /\ Good(e) /\ \A c \in Options : c # line.option => SameAt(d, e, c)
             /\ line.expected >= 0 \/ line.counted # 0 => e = d
<1> DEFINE e == ClearBalance(d, line)
           owed == BalanceRows(d, line.option)
           gone == CHOOSE r \in owed : ById(r, owed)
           rows == d.negative \ {gone}
<1>1. CASE e = d BY <1>1 DEF SameAt
<1>2. CASE e # d
  <2>1. e = [d EXCEPT !.negative = rows] /\ owed # {} BY <1>2 DEF ClearBalance
  <2>2. Kept(d) /\ Balances(d.negative, d.lastMovement) BY DEF Good, Kept, Rows
  <2>3. gone.option = line.option
    <3>1. \A r \in owed : r.id \in Nat /\ r.option = line.option
      BY <2>2 DEF Balances, BalanceRow, BalanceRows
    <3> HIDE DEF owed
    <3>2. gone \in owed BY <2>1, <3>1, FirstRow
    <3> QED BY <3>1, <3>2
  <2> HIDE DEF gone, owed
  <2>4. Balances(rows, d.lastMovement) BY <2>2, FS_Subset DEF Balances
  <2>5. /\ d.negative = {} => rows = {}
        /\ \A c : c # line.option => {r \in rows : r.option = c} = BalanceRows(d, c)
    BY <2>3 DEF BalanceRows
  <2> HIDE DEF rows
  <2>6. Drifts(d, e, 0) /\ e.negative = rows /\ SameHands(d, e) /\ SameShelves(d, e)
    BY <2>1, <2>2, <2>4, BalanceDrifts
  <2>7. e = d \/ ~(line.expected >= 0 \/ line.counted # 0) BY DEF ClearBalance
  <2> HIDE DEF e
  <2>8. Kept(e) /\ d.movements \subseteq e.movements /\ (Gap(d) = 0 => Gap(e) = 0)
    BY <2>6 DEF Drifts
  <2>9. Good(e) BY <2>5, <2>6, <2>8, StaysGood
  <2>10. \A c \in Options : c # line.option => SameAt(d, e, c)
    BY <2>5, <2>6 DEF SameShelves, SameAt, BalanceRows
  <2> QED BY <2>7, <2>9, <2>10 DEF e
<1> QED BY <1>1, <1>2

\* What is oversold of an option, as a total of rows.
LEMMA QtySum ==
  ASSUME NEW S, IsFiniteSet(S)
  PROVE  MapThenSumSet(LAMBDA r : r.qty, S) = Total(S)
<1> DEFINE f == [r \in S |-> r.qty]
<1>1. MapThenSumSet(LAMBDA r : r.qty, S) = (CHOOSE g : SumStep(f, S, g))[S]
  BY DEF MapThenSumSet, MapThenFoldSet, SumStep, Pick
<1>2. SumFunctionOnSet(f, S) = (CHOOSE g : SumStep(f, S, g))[S]
  BY DEF SumFunctionOnSet, FoldFunctionOnSet, MapThenFoldSet, SumStep, Pick
<1> QED BY <1>1, <1>2 DEF Total

LEMMA ExpectedIs ==
  ASSUME NEW d, Kept(d), NEW b
  PROVE  LET rows == BalanceRows(d, b)
         IN  /\ ExpectedQty(d, b) = AvailableQuantity(d, b) - Total(rows)
             /\ AvailableQuantity(d, b) \in Nat /\ Total(rows) \in Nat
             /\ Quantified(rows) /\ \A r, s \in rows : r.id = s.id => r = s
             /\ d.negative = {} \/ rows = {} => Total(rows) = 0
<1> DEFINE rows == BalanceRows(d, b)
<1>1. rows \subseteq d.negative BY DEF BalanceRows
<1>2. Balances(d.negative, d.lastMovement) BY DEF Kept, Rows
<1>3. ExpectedQty(d, b) = AvailableQuantity(d, b) - MapThenSumSet(LAMBDA r : r.qty, rows)
  BY DEF ExpectedQty, BalanceQty
<1> HIDE DEF rows
<1>4. IsFiniteSet(rows) /\ \A r \in rows : r.qty \in Nat
  BY <1>1, <1>2, FS_Subset DEF Balances, BalanceRow
<1>5. MapThenSumSet(LAMBDA r : r.qty, rows) = Total(rows) BY <1>4, QtySum
<1>6. Total(rows) \in Nat
  <2> DEFINE f == [r \in rows |-> r.qty]
  <2>1. \A r \in rows : f[r] \in Nat BY <1>4
  <2> HIDE DEF f
  <2>2. SumFunctionOnSet(f, rows) \in Nat BY <1>4, <2>1, SumNat
  <2> QED BY <2>2 DEF Total, f
<1>7. \A r, s \in rows : r.id = s.id => r = s BY <1>1, <1>2 DEF Balances
<1>8. AvailableQuantity(d, b) \in Nat BY ShelfNat DEF Kept
<1> QED BY <1>1, <1>3, <1>4, <1>5, <1>6, <1>7, <1>8, TotalNone DEF rows, Quantified

\* Taken off by k in one row, the rows total to k less.
LEMMA OffsetTotal ==
  ASSUME NEW rows, Quantified(rows), \A r, s \in rows : r.id = s.id => r = s,
         NEW row \in rows, row \in BalanceRow, NEW k \in 1..row.qty
  PROVE  Total((rows \ {row}) \cup (IF row.qty > k THEN {[row EXCEPT !.qty = @ - k]} ELSE {}))
           = Total(rows) - k
<1> DEFINE rest == rows \ {row}
           left == [row EXCEPT !.qty = @ - k]
<1>1. row.qty \in Int /\ left.qty = row.qty - k /\ left.id = row.id /\ Total(rows) \in Int
  BY TotalInt DEF BalanceRow
<1>2. Total(rest) = Total(rows) - row.qty /\ Quantified(rest) BY TotalRemove
<1>3. left \notin rest BY <1>1
<1> HIDE DEF rest, left
<1>4. Total(rest \cup {left}) = Total(rest) + left.qty BY <1>1, <1>2, <1>3, TotalAdd
<1>5. rest \cup {} = rest OBVIOUS
<1> QED BY <1>1, <1>2, <1>4, <1>5 DEF rest, left

\* What a line makes of its option where more was found than was available.
Found(d, e, line) ==
  LET b == line.option
      surplus == line.counted - AvailableQuantity(d, b)
  IN  \E k \in Nat :
        /\ AvailableQuantity(e, b) = line.counted - k
        /\ Total(BalanceRows(e, b)) = Total(BalanceRows(d, b)) - k
        /\ NegativeBalanceQty(d, b) >= surplus => k = surplus

LEMMA SurplusGood ==
  ASSUME IsFiniteSet(Options), NEW d, Good(d), NEW line,
         line.option \in Options, line.counted \in Nat
  PROVE  LET e == SurplusInflow(d, line)
             more == /\ ~(line.counted <= line.expected)
                     /\ line.counted > AvailableQuantity(d, line.option)
         IN  /\ Good(e) /\ \A c \in Options : c # line.option => SameAt(d, e, c)
             /\ ~more => e = d
             /\ more => Found(d, e, line)
<1> DEFINE b == line.option
           surplus == line.counted - AvailableQuantity(d, b)
           rows == BalanceRows(d, b)
           row == CHOOSE r \in rows : ById(r, rows)
           offset == IF rows = {} THEN 0 ELSE IF surplus < row.qty THEN surplus ELSE row.qty
           netted == IF offset = 0 THEN d ELSE OffsetBalance(d, row, offset)
           found == surplus - offset
           logged == LogMovement(netted, "restock", b, found, Session)
           brought == CreateLotWithItems(logged, b, found)
           e == PostCost(brought, "restock_inflow", logged.lastMovement, -found)
           Result(f) == /\ Good(f) /\ \A c \in Options : c # b => SameAt(d, f, c)
                        /\ Found(d, f, line)
<1>1. SurplusInflow(d, line)
        = IF line.counted <= line.expected \/ surplus <= 0 THEN d
          ELSE IF found = 0 THEN netted ELSE e
  BY DEF SurplusInflow
<1>2. Kept(d) /\ Balances(d.negative, d.lastMovement) BY DEF Good, Kept, Rows
<1>3. surplus \in Int /\ AvailableQuantity(d, b) \in Nat
      /\ line.counted = AvailableQuantity(d, b) + surplus
  <2>1. AvailableQuantity(d, b) \in Nat BY <1>2, ShelfNat DEF Kept
  <2> QED BY <2>1
<1>4. rows # {} => row \in rows /\ row \in d.negative /\ row \in BalanceRow /\ row.qty \in Nat
                   /\ row.qty > 0 /\ row.option = b
  <2> SUFFICES ASSUME rows # {}
               PROVE  /\ row \in rows /\ row \in d.negative /\ row \in BalanceRow
                      /\ row.qty \in Nat /\ row.qty > 0 /\ row.option = b
    OBVIOUS
  <2>1. rows \subseteq d.negative /\ \A r \in rows : r.option = b BY DEF BalanceRows
  <2>2. \A r \in rows : r.id \in Nat BY <1>2, <2>1 DEF Balances, BalanceRow
  <2> HIDE DEF rows
  <2>3. row \in rows BY <2>2, FirstRow
  <2> HIDE DEF row
  <2> QED BY <1>2, <2>1, <2>3 DEF Balances, BalanceRow
<1>5. NegativeBalanceQty(d, b) = IF rows = {} THEN 0 ELSE row.qty BY DEF NegativeBalanceQty
<1> HIDE DEF row, surplus
<1>6. ASSUME surplus > 0
      PROVE  /\ offset \in Nat /\ offset <= surplus /\ (rows # {} => offset <= row.qty)
             /\ NegativeBalanceQty(d, b) >= surplus => offset = surplus
  <2> HIDE DEF rows
  <2> QED BY <1>3, <1>4, <1>5, <1>6
<1>7. d.negative = {} => offset = 0 BY DEF BalanceRows
<1>8. offset # 0 => rows # {} OBVIOUS
<1>9. \A c : BalanceRows(d, c) = {r \in d.negative : r.option = c} BY DEF BalanceRows
<1> HIDE DEF offset, rows
<1>10. ASSUME surplus > 0
       PROVE  /\ Drifts(d, netted, 0) /\ SameHands(d, netted) /\ SameShelves(d, netted)
              /\ d.negative = {} => netted.negative = {}
              /\ Total(BalanceRows(netted, b)) = Total(rows) - offset
              /\ \A c : c # b => BalanceRows(netted, c) = BalanceRows(d, c)
  <2>1. CASE offset = 0
    <3>1. netted = d BY <2>1
    <3>2. Gap(d) \in Int BY <1>2, GapInt
    <3>3. Total(BalanceRows(netted, b)) = Total(rows) - offset
      BY <1>2, <2>1, <3>1, ExpectedIs DEF rows
    <3> HIDE DEF netted
    <3> QED BY <1>2, <3>1, <3>2, <3>3 DEF Drifts, SameHands, SameShelves
  <2>2. CASE offset # 0
    <3> DEFINE cut == [row EXCEPT !.qty = @ - offset]
               rest == IF row.qty > offset THEN {cut} ELSE {}
               less == (d.negative \ {row}) \cup rest
               f == [r \in d.negative |-> IF r = row THEN cut ELSE r]
    <3>1. netted = [d EXCEPT !.negative = less] BY <2>2 DEF OffsetBalance
    <3>2. /\ row \in rows /\ row \in d.negative /\ row \in BalanceRow /\ row.qty \in Nat
          /\ row.option = b /\ offset \in Nat /\ offset \in 1..row.qty
      BY <1>4, <1>6, <1>8, <1>10, <2>2
    <3>3. /\ cut \in BalanceRow /\ (row.qty > offset => cut.qty > 0)
          /\ cut.id = row.id /\ cut.option = b
      BY <3>2 DEF BalanceRow
    <3>4. Total((rows \ {row}) \cup rest) = Total(rows) - offset
      <4>1. Quantified(rows) /\ \A r, s \in rows : r.id = s.id => r = s
        BY <1>2, ExpectedIs DEF rows
      <4> QED BY <3>2, <4>1, OffsetTotal
    <3> HIDE DEF cut
    <3>5. \A r \in rest : r = cut /\ row.qty > offset OBVIOUS
    <3>6. Balances(less, d.lastMovement)
      <4>1. \A r \in d.negative : f[r].id = r.id BY <3>3
      <4>2. \A r \in less : /\ r \in BalanceRow /\ r.qty > 0
                            /\ \E t \in d.negative : r = f[t]
        <5>1. \A r \in d.negative : r \in BalanceRow /\ r.qty > 0 BY <1>2 DEF Balances
        <5>2. f[row] = cut /\ \A r \in d.negative \ {row} : f[r] = r BY <3>2
        <5> HIDE DEF f, rest
        <5> QED BY <3>2, <3>3, <3>5, <5>1, <5>2
      <4> HIDE DEF f, less
      <4> QED BY <1>2, <4>1, <4>2, Requantified
    <3>7. /\ {r \in less : r.option = b} = (rows \ {row}) \cup rest
          /\ \A c : c # b => {r \in less : r.option = c} = BalanceRows(d, c)
      <4> HIDE DEF rest
      <4> QED BY <1>9, <3>2, <3>3, <3>5 DEF rows
    <3> HIDE DEF netted, less
    <3>8. /\ Drifts(d, netted, 0) /\ SameHands(d, netted) /\ SameShelves(d, netted)
          /\ netted.negative = less
      BY <1>2, <3>1, <3>6, BalanceDrifts
    <3>9. \A c : BalanceRows(netted, c) = {r \in less : r.option = c} BY <3>8 DEF BalanceRows
    <3> HIDE DEF rest
    <3> QED BY <1>7, <2>2, <3>4, <3>7, <3>8, <3>9
  <2> QED BY <2>1, <2>2
<1> HIDE DEF netted
<1>11. ASSUME surplus > 0, NEW f, BalanceRows(f, b) = BalanceRows(netted, b),
              AvailableQuantity(f, b) = AvailableQuantity(d, b) + found
       PROVE  Found(d, f, line)
  <2>1. AvailableQuantity(f, b) = line.counted - offset BY <1>3, <1>6, <1>11
  <2> QED BY <1>6, <1>10, <1>11, <2>1 DEF Found, surplus, rows
<1>12. ASSUME surplus > 0, found = 0 PROVE Result(netted)
  <2>1. Kept(netted) /\ d.movements \subseteq netted.movements
        /\ (Gap(d) = 0 => Gap(netted) = 0)
    BY <1>10, <1>12 DEF Drifts
  <2>2. Good(netted) BY <1>10, <1>12, <2>1, StaysGood
  <2>3. AvailableQuantity(netted, b) = AvailableQuantity(d, b) + found
    BY <1>3, <1>10, <1>12 DEF SameShelves
  <2>4. \A c \in Options : c # b => SameAt(d, netted, c)
    BY <1>10, <1>12 DEF SameAt, SameShelves
  <2> QED BY <1>11, <1>12, <2>2, <2>3, <2>4
<1>13. ASSUME surplus > 0, found # 0 PROVE Result(e)
  <2>1. found \in Nat /\ found \in Int /\ -found \in Int BY <1>3, <1>6, <1>13
  <2>2. Kept(netted) /\ Drifts(d, netted, 0) /\ SameHands(d, netted) /\ SameShelves(d, netted)
        /\ (d.negative = {} => netted.negative = {})
    BY <1>10, <1>13 DEF Drifts
  <2> HIDE DEF found
  <2>3. /\ "restock" \in MovementType /\ "restock" # "sale" /\ Session # NoRef
        /\ Session \in Orders \cup {NoRef, Session}
        /\ "restock_inflow" \in MovementCosts /\ "restock_inflow" \in CostKinds
        /\ "restock_inflow" # "order_cogs"
    BY DEF MovementType, MovementCosts, CostKinds, Session, NoRef
  <2>4. /\ Drifts(netted, logged, 0) /\ LogOnly(netted, logged)
        /\ logged.lastMovement \in Nat \ {0}
        /\ logged.lastMovement \in 1..logged.lastMovement
        /\ \A s \in MovementCosts : EntriesOf(logged, s, logged.lastMovement) = {}
        /\ SameHands(netted, logged) /\ SameShelves(netted, logged)
    BY <2>1, <2>2, <2>3, LoggedDrifts
  <2> HIDE DEF logged
  <2>5. Kept(logged) BY <2>4 DEF Drifts
  <2>6. /\ Drifts(logged, brought, -found) /\ ShelfOnly(logged, brought)
        /\ SameHands(logged, brought)
        /\ \A c \in Options : AvailableQuantity(brought, c) =
             AvailableQuantity(logged, c) + IF c = b THEN found ELSE 0
    BY <2>1, <2>5, BroughtDrifts
  <2> HIDE DEF brought
  <2>7. /\ SameHands(brought, e) /\ Drifts(brought, e, -(-found)) /\ JournalOnly(brought, e)
        /\ SameShelves(brought, e)
    <3>1. EntriesOf(brought, "restock_inflow", logged.lastMovement) = {}
      <4>1. brought.journal = logged.journal BY <2>6 DEF ShelfOnly
      <4>2. EntriesOf(logged, "restock_inflow", logged.lastMovement) = {} BY <2>3, <2>4
      <4> QED BY <4>1, <4>2 DEF EntriesOf
    <3>2. /\ Kept(brought) /\ logged.lastMovement \in Nat \cup Orders
          /\ logged.lastMovement \in 1..brought.lastMovement
      BY <2>4, <2>6 DEF Drifts, ShelfOnly
    <3> DEFINE k == -found
    <3>3. k \in Int BY <2>1
    <3> HIDE DEF k
    <3>4. LET f == PostCost(brought, "restock_inflow", logged.lastMovement, k)
          IN  /\ SameHands(brought, f) /\ Drifts(brought, f, -k) /\ JournalOnly(brought, f)
              /\ SameShelves(brought, f)
      BY <2>3, <3>1, <3>2, <3>3, PostedDrifts
    <3> QED BY <3>4 DEF k
  <2> HIDE DEF e
  <2>8. -(-found) \in Int BY <2>1
  <2>9. Drifts(d, logged, 0 + 0) BY <1>2, <2>2, <2>4, DriftsOn
  <2>10. Drifts(d, brought, (0 + 0) + (-found)) BY <1>2, <2>1, <2>6, <2>9, DriftsOn
  <2>11. Drifts(d, e, ((0 + 0) + (-found)) + (-(-found)))
    BY <1>2, <2>1, <2>7, <2>8, <2>10, DriftsOn
  <2>12. SameHands(d, e) BY <2>2, <2>4, <2>6, <2>7, SameHandsOn
  <2>13. e.negative = netted.negative
    BY <2>4, <2>6, <2>7 DEF LogOnly, ShelfOnly, JournalOnly
  <2>14. ((0 + 0) + (-found)) + (-(-found)) = 0 BY <2>1
  <2>15. Kept(e) /\ d.movements \subseteq e.movements /\ (Gap(d) = 0 => Gap(e) = 0)
    BY <2>11, <2>14 DEF Drifts
  <2>16. Good(e) BY <2>2, <2>12, <2>13, <2>15, StaysGood
  <2>17. \A c \in Options : AvailableQuantity(e, c) =
           AvailableQuantity(d, c) + IF c = b THEN found ELSE 0
    BY <2>2, <2>4, <2>6, <2>7 DEF SameShelves
  <2>18. \A c : BalanceRows(e, c) = BalanceRows(netted, c) BY <2>13 DEF BalanceRows
  <2>19. \A c \in Options : AvailableQuantity(d, c) \in Nat BY <1>2, ShelfNat DEF Kept
  <2>20. \A c \in Options : c # b => SameAt(d, e, c)
    <3> SUFFICES ASSUME NEW c \in Options, c # b PROVE SameAt(d, e, c) OBVIOUS
    <3>1. AvailableQuantity(e, c) = AvailableQuantity(d, c) BY <2>17, <2>19
    <3> QED BY <1>10, <1>13, <2>18, <3>1 DEF SameAt
  <2>21. AvailableQuantity(e, b) = AvailableQuantity(d, b) + found BY <2>17
  <2> QED BY <1>11, <1>13, <2>16, <2>18, <2>20, <2>21 DEF found
<1> HIDE DEF found, e
<1>14. CASE line.counted <= line.expected \/ surplus <= 0
  <2>1. SurplusInflow(d, line) = d BY <1>1, <1>14
  <2>2. ~(line.counted > AvailableQuantity(d, b)) \/ line.counted <= line.expected BY <1>3, <1>14
  <2> QED BY <2>1, <2>2 DEF SameAt
<1>15. CASE ~(line.counted <= line.expected \/ surplus <= 0)
  <2>1. surplus > 0 /\ line.counted > AvailableQuantity(d, b) BY <1>3, <1>15
  <2>2. SurplusInflow(d, line) = IF found = 0 THEN netted ELSE e BY ONLY <1>1, <1>15
  <2>3. Result(SurplusInflow(d, line))
    <3> HIDE DEF Result
    <3> QED BY <1>12, <1>13, <2>1, <2>2
  <2> QED BY <1>15, <2>1, <2>3
<1> QED BY <1>14, <1>15

LEMMA RestoreDrifts ==
  ASSUME IsFiniteSet(Options), NEW d, Kept(d), NEW o \in Orders, NEW m \in d.movements,
         NEW k \in Int
  PROVE  LET e == RestoreSale(d, o, m, k)
         IN  /\ Kept(e) /\ SameHands(d, e) /\ d.movements \subseteq e.movements
             /\ e.journal = d.journal
             /\ k = 0 /\ m.qty < 0 => Drifts(d, e, m.qty) /\ e.negative = d.negative
<1> DEFINE b == m.option
           logged == LogMovement(d, "restore_sale", b, -m.qty, o)
           returned == -m.qty - k
           stocked == IF returned > 0 THEN CreateLotWithItems(logged, b, returned) ELSE logged
           e == IF k > 0 THEN ReduceNegativeBalance(stocked, b, k) ELSE stocked
<1>1. RestoreSale(d, o, m, k) = e BY DEF RestoreSale
<1>2. b \in Options /\ m.qty \in Int /\ -m.qty \in Int BY DEF Kept, Countable, CountBase, CountRow
<1>3. /\ "restore_sale" \in MovementType /\ "restore_sale" # "sale"
      /\ "restore_sale" # "restock" /\ o \in Orders \cup {NoRef, Session}
  BY DEF MovementType
<1> HIDE DEF b
<1>4. Drifts(d, logged, 0) /\ LogOnly(d, logged) /\ SameHands(d, logged)
  BY <1>2, <1>3, LoggedDrifts
<1> HIDE DEF logged
<1>5. /\ Kept(stocked) /\ SameHands(d, stocked) /\ d.movements \subseteq stocked.movements
      /\ stocked.journal = d.journal /\ stocked.negative = d.negative
      /\ returned > 0 => Drifts(d, stocked, -returned)
  <2>1. returned \in Int BY <1>2
  <2> HIDE DEF returned
  <2>2. CASE returned > 0
    <3>1. Kept(logged) /\ returned \in Nat /\ stocked = CreateLotWithItems(logged, b, returned)
      BY <1>4, <2>1, <2>2 DEF Drifts
    <3>2. /\ Drifts(logged, stocked, -returned) /\ ShelfOnly(logged, stocked)
          /\ SameHands(logged, stocked)
      BY <1>2, <3>1, BroughtDrifts
    <3> HIDE DEF stocked
    <3>3. Drifts(d, stocked, 0 + (-returned)) BY <1>4, <2>1, <3>2, DriftsOn
    <3>4. 0 + (-returned) = -returned BY <2>1
    <3>5. SameHands(d, stocked) BY <1>4, <3>2, SameHandsOn
    <3> QED BY <1>4, <3>2, <3>3, <3>4, <3>5 DEF Drifts, LogOnly, ShelfOnly
  <2>3. CASE ~(returned > 0)
    <3>1. stocked = logged BY <2>3
    <3> HIDE DEF stocked
    <3> QED BY <1>4, <2>3, <3>1 DEF Drifts, LogOnly
  <2> QED BY <2>2, <2>3
<1> HIDE DEF stocked
<1>6. CASE k > 0
  <2>1. e = ReduceNegativeBalance(stocked, b, k) BY <1>6
  <2>2. PICK rows :
          /\ Balances(rows, stocked.lastMovement)
          /\ ReduceNegativeBalance(stocked, b, k) = [stocked EXCEPT !.negative = rows]
    BY <1>2, <1>5, CountReduces
  <2> HIDE DEF e
  <2>3. Drifts(stocked, e, 0) /\ BalanceOnly(stocked, e) /\ SameHands(stocked, e)
    BY <1>5, <2>1, <2>2, BalanceDrifts
  <2>4. SameHands(d, e) BY <1>5, <2>3, SameHandsOn
  <2> QED BY <1>1, <1>5, <1>6, <2>3, <2>4 DEF Drifts, BalanceOnly
<1>7. CASE ~(k > 0)
  <2>1. e = stocked BY <1>7
  <2>2. ASSUME k = 0, m.qty < 0 PROVE Drifts(d, stocked, m.qty)
    <3>1. returned > 0 /\ -returned = m.qty BY <1>2, <2>2
    <3> QED BY <1>5, <3>1
  <2> HIDE DEF e
  <2> QED BY <1>1, <1>5, <2>1, <2>2
<1> QED BY <1>6, <1>7

LEMMA CancelGood ==
  ASSUME IsFiniteSet(Options), NEW d, Good(d), NEW o \in Orders,
         d.orders[o].status = "delivered"
  PROVE  Good(CancelSale(d, o))
<1>1. Kept(d) /\ Handed(d) /\ Explained(d) /\ d \in CountBase BY DEF Good, Kept, Countable
<1>2. PICK m \in d.movements, x \in d.journal :
        /\ SalesOf(d, o) = {m} /\ CostsOf(d, o) = {x}
        /\ m.qty = -x.lines["cogs"] /\ x.lines["cogs"] > 0
  BY <1>1 DEF Handed, HasSale, SalesOf, MovementsOf, CostsOf, EntriesOf
<1> DEFINE k == OversoldOf(d, o, m)
           restored == RestoreSale(d, o, m, k)
           order == [d.orders[o] EXCEPT !.status = "cancelled"]
           marked == [restored EXCEPT !.orders[o].status = "cancelled"]
           e == ReverseOrDelete(marked, x)
<1>3. CancelSale(d, o) = e
  <2>1. (CHOOSE n \in d.movements : n.ref = o /\ n.type = "sale") = m
    <3>1. \A n \in d.movements : n.ref = o /\ n.type = "sale" <=> n = m
      <4>1. \A n : n \in SalesOf(d, o) <=> n = m BY <1>2
      <4> QED BY <4>1 DEF SalesOf, MovementsOf
    <3> QED BY <3>1
  <2>2. Latest(EntriesOf(d, "order_cogs", o)) = x
    <3>1. EntriesOf(d, "order_cogs", o) = {x} BY <1>2 DEF CostsOf
    <3>2. x.id \in Nat BY <1>1 DEF CountBase, CostRow
    <3>3. Latest({x}) = x BY <3>2 DEF Latest
    <3> QED BY <3>1, <3>3
  <2> DEFINE sale == CHOOSE n \in d.movements : n.ref = o /\ n.type = "sale"
             again == RestoreSale(d, o, sale, OversoldOf(d, o, sale))
  <2>3. CancelSale(d, o)
          = ReverseOrDelete([again EXCEPT !.orders[o].status = "cancelled"],
                                  Latest(EntriesOf(d, "order_cogs", o)))
    BY DEF CancelSale
  <2> HIDE DEF sale
  <2>4. again = restored BY <2>1 DEF sale
  <2> HIDE DEF again, restored
  <2> QED BY <2>2, <2>3, <2>4
<1>4. m.qty \in Int /\ m.qty < 0 /\ x.lines["cogs"] \in Int
  <2>1. m \in CountRow /\ x \in CostRow BY <1>1 DEF CountBase
  <2> QED BY <1>2, <2>1, CountAssumption DEF CountRow, CostRow, StockAccounts
<1>5. k \in Int /\ (NoneOversold(d) => k = 0)
  <2> DEFINE rows == {n \in MovementsOf(d, o, "negative_sale") : n.option = m.option}
             first == CHOOSE n \in rows : ById(n, rows)
  <2>1. k = IF rows = {} THEN 0 ELSE -first.qty BY DEF OversoldOf
  <2>2. rows \subseteq d.movements /\ (NoneOversold(d) => rows = {})
    BY DEF MovementsOf, NoneOversold
  <2>3. \A n \in d.movements : n.id \in Nat /\ n.qty \in Int BY <1>1 DEF CountBase, CountRow
  <2> HIDE DEF rows, k
  <2>4. rows # {} => first \in rows BY <2>2, <2>3, FirstRow
  <2> HIDE DEF first
  <2> QED BY <2>1, <2>2, <2>3, <2>4
<1> HIDE DEF k
<1>6. /\ Kept(restored) /\ SameHands(d, restored) /\ d.movements \subseteq restored.movements
      /\ restored.journal = d.journal
      /\ k = 0 => Drifts(d, restored, m.qty) /\ restored.negative = d.negative
  BY <1>1, <1>4, <1>5, RestoreDrifts
<1> HIDE DEF restored
<1>7. /\ order \in CountOrder /\ order.status = "cancelled"
      /\ marked = [restored EXCEPT !.orders[o] = order]
  <2>1. d.orders[o] \in CountOrder BY <1>1 DEF CountBase
  <2>2. restored.orders = d.orders BY <1>6 DEF SameHands
  <2>3. order \in CountOrder /\ order.status = "cancelled" BY <2>1 DEF CountOrder
  <2> QED BY <2>2, <2>3
<1> HIDE DEF order, marked
<1>8. /\ Drifts(restored, marked, 0)
      /\ marked.orders = [restored.orders EXCEPT ![o] = order]
      /\ marked.negative = restored.negative
      /\ marked.movements = restored.movements /\ marked.journal = restored.journal
  BY <1>6, <1>7, OrderDrifts
<1>9. /\ Drifts(marked, e, x.lines["cogs"]) /\ JournalOnly(marked, e)
      /\ e.journal = marked.journal \ {x}
  <2>1. Kept(marked) /\ x \in marked.journal BY <1>2, <1>6, <1>8 DEF Drifts
  <2> QED BY <2>1, UnpostedDrifts
<1> HIDE DEF e
<1>10. /\ e.orders = [d.orders EXCEPT ![o] = order] /\ e.negative = restored.negative
       /\ e.movements = restored.movements /\ e.journal = d.journal \ {x}
  BY <1>6, <1>8, <1>9 DEF JournalOnly, SameHands
<1>11. Handed(e)
  <2> SUFFICES ASSUME NEW p \in Orders
               PROVE  /\ e.orders[p] = Untaken => SalesOf(e, p) = {} /\ CostsOf(e, p) = {}
                      /\ e.orders[p].status = "delivered" => HasSale(e, p)
    BY DEF Handed
  <2>1. d.orders \in [Orders -> CountOrder] BY <1>1 DEF CountBase
  <2>2. CASE p = o
    <3>1. e.orders[p] = order BY <1>10, <2>1, <2>2
    <3> QED BY <1>7, <3>1 DEF Untaken
  <2>3. CASE p # o
    <3>1. e.orders[p] = d.orders[p] BY <1>10, <2>1, <2>3
    <3>2. SalesOf(e, p) = SalesOf(d, p)
      <4>1. SalesOf(e, p) = SalesOf(restored, p) BY <1>10 DEF SalesOf, MovementsOf
      <4> QED BY <1>6, <4>1 DEF SameHands
    <3>3. CostsOf(e, p) = CostsOf(d, p)
      <4>1. x.of = o
        <5>1. x \in CostsOf(d, o) BY <1>2
        <5> QED BY <5>1 DEF CostsOf, EntriesOf
      <4> QED BY <1>10, <2>3, <4>1 DEF CostsOf, EntriesOf
    <3> QED BY <1>1, <3>1, <3>2, <3>3 DEF Handed, HasSale
  <2> QED BY <2>2, <2>3
<1>12. Explained(e)
  <2> SUFFICES ASSUME NoneOversold(e) PROVE e.negative = {} /\ Gap(e) = 0 BY DEF Explained
  <2>1. NoneOversold(d) BY <1>6, <1>10 DEF NoneOversold
  <2>2. d.negative = {} /\ Gap(d) = 0 BY <1>1, <2>1 DEF Explained
  <2>3. Drifts(d, restored, m.qty) /\ restored.negative = d.negative BY <1>5, <1>6, <2>1
  <2>4. Drifts(d, marked, m.qty + 0) BY <1>1, <1>4, <1>8, <2>3, DriftsOn
  <2>5. Drifts(d, e, (m.qty + 0) + x.lines["cogs"]) BY <1>1, <1>4, <1>9, <2>4, DriftsOn
  <2>6. (m.qty + 0) + x.lines["cogs"] = 0 BY <1>2, <1>4
  <2> QED BY <1>10, <2>2, <2>3, <2>5, <2>6 DEF Drifts
<1>13. Kept(e) BY <1>9 DEF Drifts
<1> QED BY <1>3, <1>11, <1>12, <1>13 DEF Good

-----------------------------------------------------------------------------
\* The loops of a submission.
LEMMA FreeFinite ==
  ASSUME IsFiniteSet(Orders), NEW d
  PROVE  /\ IsFiniteSet(FreeOrders(d))
         /\ Cardinality(FreeOrders(d)) \in Nat
<1>1. FreeOrders(d) \subseteq Orders BY DEF FreeOrders
<1> QED BY <1>1, FS_Subset, FS_CardinalityType

\* One line, by the pass that it is in; <<"unit", b>> sells a unit of b.
Done(pass, d, line) ==
  IF pass[1] = "unit"
  THEN Sell(d, CHOOSE o \in FreeOrders(d) : TRUE, "reconciliation", SaleOf(pass[2], 1))
  ELSE IF pass[1] = "sold" THEN SellUnits(d, line)
  ELSE IF pass[1] = "wasted" THEN WasteLine(d, line)
  ELSE IF pass[1] = "found" THEN SurplusInflow(d, line)
  ELSE ClearBalance(d, line)

Passed(pass, d, lines) ==
  (CHOOSE g : g = [s \in SUBSET lines |->
                     IF s = {} THEN d ELSE Done(pass, g[s \ {Pick(s)}], Pick(s))])[lines]

LEMMA SubmitPasses ==
  ASSUME NEW d, NEW lines
  PROVE  LET wasted == Passed(<<"wasted">>, Passed(<<"sold">>, d, lines), lines)
         IN  Submit(d, lines) = Passed(<<"cleared">>, Passed(<<"found">>, wasted, lines), lines)
BY DEF Submit, FoldSet, MapThenFoldSet, Pick, Passed, Done

LEMMA PassKeeps ==
  ASSUME NEW pass, NEW d, NEW lines, IsFiniteSet(lines), NEW inv,
         \A s \in SUBSET lines : inv[s] \subseteq CountBase,
         d \in inv[{}],
         \A s \in SUBSET lines : s # {} =>
           \A x \in inv[s \ {Pick(s)}] : Done(pass, x, Pick(s)) \in inv[s]
  PROVE  Passed(pass, d, lines) \in inv[lines]
<1> DEFINE step == [line \in lines |-> [x \in CountBase |-> Done(pass, x, line)]]
           Raw(g) == g = [s \in SUBSET lines |->
                            IF s = {} THEN d ELSE Done(pass, g[s \ {Pick(s)}], Pick(s))]
<1>1. \A line \in lines : \A x \in CountBase : step[line][x] = Done(pass, x, line) OBVIOUS
<1> HIDE DEF step
<1>2. \A s \in SUBSET lines : s # {} =>
        /\ Pick(s) \in lines
        /\ \A x \in inv[s \ {Pick(s)}] : step[Pick(s)][x] = Done(pass, x, Pick(s))
  <2> SUFFICES ASSUME NEW s \in SUBSET lines, s # {}
               PROVE  /\ Pick(s) \in lines
                      /\ \A x \in inv[s \ {Pick(s)}] :
                           step[Pick(s)][x] = Done(pass, x, Pick(s))
    OBVIOUS
  <2>1. Pick(s) \in lines BY PickIs
  <2>2. s \ {Pick(s)} \in SUBSET lines OBVIOUS
  <2> QED BY <1>1, <2>1, <2>2
<1>3. \A s \in SUBSET lines : s # {} =>
        \A x \in inv[s \ {Pick(s)}] : step[Pick(s)][x] \in inv[s]
  BY <1>2
<1>4. FoldsWithin(step, d, lines, inv) BY <1>3, FoldKeeps
<1> PICK g : PickStep(step, d, lines, g) /\ \A s \in SUBSET lines : g[s] \in inv[s]
  BY <1>4 DEF FoldsWithin
<1>5. Raw(g)
  <2>1. g = [s \in SUBSET lines |->
               IF s = {} THEN d ELSE step[Pick(s)][g[s \ {Pick(s)}]]]
    BY DEF PickStep
  <2>2. ASSUME NEW s \in SUBSET lines, s # {}
        PROVE  step[Pick(s)][g[s \ {Pick(s)}]] = Done(pass, g[s \ {Pick(s)}], Pick(s))
    <3>1. s \ {Pick(s)} \in SUBSET lines OBVIOUS
    <3> QED BY <1>2, <2>2, <3>1
  <2> QED BY <2>1, <2>2
<1> DEFINE h == CHOOSE f : Raw(f)
<1>6. Raw(h) BY <1>5
<1>7. Passed(pass, d, lines) = h[lines] BY DEF Passed
<1> HIDE DEF h
<1>8. \A s \in SUBSET lines :
        h[s] = IF s = {} THEN d ELSE Done(pass, h[s \ {Pick(s)}], Pick(s))
  BY <1>6
<1>9. h[{}] = d BY <1>8
<1>10. ASSUME NEW s \in SUBSET lines, s # {}, h[s \ {Pick(s)}] \in inv[s \ {Pick(s)}]
       PROVE  h[s] = step[Pick(s)][h[s \ {Pick(s)}]]
  BY <1>2, <1>8, <1>10
<1> HIDE DEF Raw
<1> QED BY <1>4, <1>7, <1>9, <1>10 DEF FoldsWithin

\* What a sale of q units makes of the option.
SoldAt(d, e, b, q) ==
  /\ AvailableQuantity(e, b) = Less(AvailableQuantity(d, b), q)
  /\ AvailableQuantity(d, b) >= q => BalanceRows(e, b) = BalanceRows(d, b)

LEMMA SellUnitsGood ==
  ASSUME IsFiniteSet(Options), IsFiniteSet(Orders), NEW d, Good(d), NEW line,
         line.option \in Options, line.sold \in Nat,
         line.sold <= Cardinality(FreeOrders(d))
  PROVE  LET e == SellUnits(d, line)
         IN  /\ Good(e)
             /\ Cardinality(FreeOrders(e))
                  = Cardinality(FreeOrders(d)) - line.sold
             /\ \A c \in Options : c # line.option => SameAt(d, e, c)
             /\ SoldAt(d, e, line.option, line.sold)
<1> DEFINE b == line.option
           n == line.sold
           S == 1..n
           free == Cardinality(FreeOrders(d))
           pass == <<"unit", b>>
           Unit(x) == Sell(x, CHOOSE o \in FreeOrders(x) : TRUE, "reconciliation",
                           SaleOf(b, 1))
           Holds(e, s) ==
             /\ Good(e) /\ Cardinality(FreeOrders(e)) = free - Cardinality(s)
             /\ \A c \in Options : c # b => SameAt(d, e, c)
             /\ SoldAt(d, e, b, Cardinality(s))
           inv == [s \in SUBSET S |-> {e \in CountBase : Holds(e, s)}]
<1>1. SellUnits(d, line) = Passed(pass, d, S)
  BY DEF SellUnits, FoldSet, MapThenFoldSet, Pick, Passed, Done
<1>2. IsFiniteSet(S) /\ Cardinality(S) = n
  <2>1. IsFiniteSet(S) BY FS_Interval
  <2>2. Cardinality(1..n) = IF 1 > n THEN 0 ELSE n - 1 + 1 BY FS_Interval, 1 \in Int, n \in Int
  <2> QED BY <2>1, <2>2
<1>3. free \in Nat /\ \A s \in SUBSET S : /\ IsFiniteSet(s) /\ Cardinality(s) \in Nat
                                          /\ Cardinality(s) <= n
  BY <1>2, FreeFinite, FS_Subset, FS_CardinalityType
<1>4. \A e : Good(e) => e \in CountBase /\ \A c \in Options : AvailableQuantity(e, c) \in Nat
  BY ShelfNat DEF Good, Kept, Countable
<1>5. d \in inv[{}]
  <2>1. Cardinality({}) = 0 BY FS_EmptySet
  <2>2. Holds(d, {}) BY <1>3, <1>4, <2>1 DEF SameAt, SoldAt, Less
  <2>3. {} \in SUBSET S OBVIOUS
  <2> HIDE DEF Holds
  <2> QED BY <1>4, <2>2, <2>3
<1>6. ASSUME NEW s \in SUBSET S, s # {}, NEW x, Holds(x, s \ {Pick(s)})
      PROVE  Holds(Unit(x), s)
  <2> DEFINE r == s \ {Pick(s)}
             o == CHOOSE p \in FreeOrders(x) : TRUE
             e == Unit(x)
  <2>1. Cardinality(s) = Cardinality(r) + 1 /\ Cardinality(r) \in Nat
        /\ Cardinality(s) <= n
    <3>1. Pick(s) \in s BY <1>6, PickIs
    <3>2. Cardinality(s \ {Pick(s)}) = Cardinality(s) - 1 BY <1>3, <3>1, FS_RemoveElement
    <3>3. r \in SUBSET S OBVIOUS
    <3>4. Cardinality(s) \in Nat /\ Cardinality(r) \in Nat /\ Cardinality(s) <= n BY <1>3, <3>3
    <3> QED BY <3>2, <3>4
  <2>2. /\ Good(x) /\ Cardinality(FreeOrders(x)) = free - Cardinality(r)
        /\ \A c \in Options : c # b => SameAt(d, x, c)
        /\ SoldAt(d, x, b, Cardinality(r))
    BY <1>6
  <2> HIDE DEF r, Holds
  <2>3. FreeOrders(x) # {}
    <3>1. Cardinality(FreeOrders(x)) > 0 BY <1>3, <2>1, <2>2
    <3> QED BY <3>1, FS_EmptySet
  <2>4. o \in FreeOrders(x) BY <2>3
  <2> HIDE DEF o
  <2>5. /\ Good(e) /\ FreeOrders(e) = FreeOrders(x) \ {o}
        /\ \A c \in Options : AvailableQuantity(e, c) =
             IF c = b THEN Less(AvailableQuantity(x, b), 1) ELSE AvailableQuantity(x, c)
        /\ \A c : c # b \/ AvailableQuantity(x, b) >= 1 => BalanceRows(e, c) = BalanceRows(x, c)
    <3>1. "reconciliation" \in CounterSources /\ 1 \in Nat /\ 1 > 0 BY DEF CounterSources
    <3>2. e = Sell(x, o, "reconciliation", SaleOf(b, 1)) BY DEF o
    <3> HIDE DEF e, b
    <3>3. b \in Options BY DEF b
    <3> QED BY <2>2, <2>4, <3>1, <3>2, <3>3, SellGood
  <2> HIDE DEF e, Unit
  <2>6. Cardinality(FreeOrders(e)) = free - Cardinality(s)
    <3>1. Cardinality(FreeOrders(e)) = Cardinality(FreeOrders(x)) - 1
      BY <2>4, <2>5, FreeFinite, FS_RemoveElement
    <3> QED BY <1>3, <2>1, <2>2, <3>1
  <2>7. \A c \in Options : c # b => SameAt(d, e, c) BY <2>2, <2>5 DEF SameAt
  <2>8. SoldAt(d, e, b, Cardinality(s))
    <3>1. AvailableQuantity(d, b) \in Nat /\ AvailableQuantity(x, b) \in Nat
      BY <1>4, <2>2
    <3> QED BY <2>1, <2>2, <2>5, <3>1 DEF SoldAt, Less
  <2> QED BY <2>5, <2>6, <2>7, <2>8 DEF Holds, e
<1>7. \A x, i : Done(pass, x, i) = Unit(x) BY DEF Done
<1> HIDE DEF Holds, Unit, S, pass
<1>8. \A s \in SUBSET S : inv[s] \subseteq CountBase /\ \A x : x \in inv[s] <=> Holds(x, s)
  BY <1>4 DEF Holds
<1>9. \A s \in SUBSET S : s \ {Pick(s)} \in SUBSET S OBVIOUS
<1> HIDE DEF inv
<1>10. \A s \in SUBSET S : s # {} =>
         \A x \in inv[s \ {Pick(s)}] : Done(pass, x, Pick(s)) \in inv[s]
  BY <1>6, <1>7, <1>8, <1>9
<1>11. Passed(pass, d, S) \in inv[S] BY <1>2, <1>5, <1>8, <1>10, PassKeeps
<1>12. Holds(Passed(pass, d, S), S)
  <2>1. S \in SUBSET S OBVIOUS
  <2> QED BY <1>8, <1>11, <2>1
<1> QED BY <1>1, <1>2, <1>12 DEF Holds

-----------------------------------------------------------------------------
(***************************************************************************)
(* The lines of a submission: one of an option, which sells no more than   *)
(* is missing of it.                                                       *)
(***************************************************************************)
CountLine == [option : Options, expected : Int, counted : Nat, sold : Nat]

Sheet(lines) ==
  /\ IsFiniteSet(lines) /\ lines \subseteq CountLine
  /\ \A line \in lines : line.sold <= Missing(line)
  /\ \A j, k \in lines : j.option = k.option => j = k

SoldIn(lines, s) == SumFunctionOnSet([line \in lines |-> line.sold], s)

LEMMA SoldSum ==
  ASSUME NEW lines, IsFiniteSet(lines)
  PROVE  MapThenSumSet(LAMBDA line : line.sold, lines) = SoldIn(lines, lines)
<1> DEFINE f == [line \in lines |-> line.sold]
<1>1. MapThenSumSet(LAMBDA line : line.sold, lines)
        = (CHOOSE g : SumStep(f, lines, g))[lines]
  BY DEF MapThenSumSet, MapThenFoldSet, SumStep, Pick
<1>2. SumFunctionOnSet(f, lines) = (CHOOSE g : SumStep(f, lines, g))[lines]
  BY DEF SumFunctionOnSet, FoldFunctionOnSet, MapThenFoldSet, SumStep, Pick
<1> QED BY <1>1, <1>2 DEF SoldIn

LEMMA SoldParts ==
  ASSUME NEW lines, Sheet(lines), NEW s \in SUBSET lines
  PROVE  /\ IsFiniteSet(s) /\ SoldIn(lines, s) \in Nat
         /\ SoldIn(lines, s) <= SoldIn(lines, lines)
         /\ \A p \in s : SoldIn(lines, s) = p.sold + SoldIn(lines, s \ {p})
<1> DEFINE f == [line \in lines |-> line.sold]
           t == lines \ s
<1>1. /\ \A p \in lines : f[p] \in Nat /\ f[p] = p.sold
      /\ IsFiniteSet(s) /\ IsFiniteSet(t)
  BY FS_Subset DEF Sheet, CountLine
<1> HIDE DEF f
<1>2. SumFunctionOnSet(f, s) \in Nat /\ SumFunctionOnSet(f, t) \in Nat BY <1>1, SumNat
<1>3. SumFunctionOnSet(f, s \cup t) = SumFunctionOnSet(f, s) + SumFunctionOnSet(f, t)
  <2>1. s \cap t = {} /\ \A x \in s \cup t : f[x] \in Int BY <1>1
  <2> QED BY <1>1, <2>1, SumUnion
<1>4. s \cup t = lines OBVIOUS
<1>5. \A p \in s : SumFunctionOnSet(f, s) = f[p] + SumFunctionOnSet(f, s \ {p})
  <2>1. \A x \in s : f[x] \in Int BY <1>1
  <2> QED BY <1>1, <2>1, SumRemove
<1>6. \A u : SoldIn(lines, u) = SumFunctionOnSet(f, u) BY DEF SoldIn, f
<1> HIDE DEF t
<1> QED BY <1>1, <1>2, <1>3, <1>4, <1>5, <1>6

\* What a pass makes of the option of a line is what the line makes of it
\* where it stands as it did before the pass.
LEMMA EachPass ==
  ASSUME NEW pass, NEW d, NEW lines, Sheet(lines), NEW inv,
         \A s \in SUBSET lines : inv[s] \subseteq CountBase, d \in inv[{}],
         \A line \in lines, s \in SUBSET lines : \A x \in inv[s \ {line}] :
           line \in s /\ SameAt(d, x, line.option) =>
             /\ Done(pass, x, line) \in inv[s]
             /\ \A c \in Options : c # line.option => SameAt(x, Done(pass, x, line), c)
  PROVE  LET e == Passed(pass, d, lines)
         IN  /\ e \in inv[lines]
             /\ \A line \in lines : \E s \in SUBSET lines : \E x \in inv[s \ {line}] :
                  /\ line \in s /\ SameAt(d, x, line.option)
                  /\ SameAt(Done(pass, x, line), e, line.option)
<1> DEFINE Comes(e, line) ==
             \E s \in SUBSET lines : \E x \in inv[s \ {line}] :
               /\ line \in s /\ SameAt(d, x, line.option)
               /\ SameAt(Done(pass, x, line), e, line.option)
           Holds(e, s) ==
             \A line \in lines : IF line \in s THEN Comes(e, line) ELSE SameAt(d, e, line.option)
           more == [s \in SUBSET lines |-> {e \in inv[s] : Holds(e, s)}]
<1>1. \A line \in lines : line.option \in Options BY DEF Sheet, CountLine
<1>2. ASSUME NEW s \in SUBSET lines, s # {}, NEW x \in inv[s \ {Pick(s)}],
             Holds(x, s \ {Pick(s)})
      PROVE  Done(pass, x, Pick(s)) \in inv[s] /\ Holds(Done(pass, x, Pick(s)), s)
  <2> DEFINE p == Pick(s)
             e == Done(pass, x, p)
  <2>1. p \in s /\ p \in lines BY <1>2, PickIs
  <2>2. SameAt(d, x, p.option) BY <1>2, <2>1
  <2>3. x \in inv[s \ {p}] OBVIOUS
  <2>4. \A line \in lines : line # p =>
          IF line \in s THEN Comes(x, line) ELSE SameAt(d, x, line.option)
    BY <1>2
  <2> HIDE DEF p, Holds
  <2>5. e \in inv[s] /\ \A c \in Options : c # p.option => SameAt(x, e, c)
    BY <2>1, <2>2, <2>3
  <2>6. Comes(e, p) BY <2>1, <2>2, <2>3 DEF SameAt
  <2> HIDE DEF e
  <2>7. ASSUME NEW line \in lines, line # p
        PROVE  IF line \in s THEN Comes(e, line) ELSE SameAt(d, e, line.option)
    <3>1. line.option # p.option BY <2>1, <2>7 DEF Sheet
    <3>2. SameAt(x, e, line.option) BY <1>1, <2>5, <3>1
    <3> QED BY <2>4, <2>7, <3>2 DEF SameAt
  <2>8. Holds(e, s) BY <2>1, <2>6, <2>7 DEF Holds
  <2> QED BY <2>5, <2>8 DEF e, p
<1>3. Holds(d, {}) BY DEF SameAt
<1> HIDE DEF Holds
<1>4. d \in more[{}]
  <2>1. {} \in SUBSET lines OBVIOUS
  <2> QED BY <1>3, <2>1
<1>5. \A s \in SUBSET lines : s # {} =>
        \A x \in more[s \ {Pick(s)}] : Done(pass, x, Pick(s)) \in more[s]
  BY <1>2
<1>6. \A s \in SUBSET lines : /\ more[s] \subseteq CountBase
                              /\ \A x \in more[s] : x \in inv[s] /\ Holds(x, s)
  OBVIOUS
<1> HIDE DEF more
<1>7. Passed(pass, d, lines) \in more[lines] BY <1>4, <1>5, <1>6, PassKeeps DEF Sheet
<1>8. lines \in SUBSET lines OBVIOUS
<1> QED BY <1>6, <1>7, <1>8 DEF Holds

LEMMA GoodPass ==
  ASSUME NEW pass, NEW d, Good(d), NEW lines, Sheet(lines),
         \A line \in lines : \A x : Good(x) /\ SameAt(d, x, line.option) =>
           /\ Good(Done(pass, x, line))
           /\ \A c \in Options : c # line.option => SameAt(x, Done(pass, x, line), c)
  PROVE  LET e == Passed(pass, d, lines)
         IN  /\ Good(e)
             /\ \A line \in lines : \E x : /\ Good(x) /\ SameAt(d, x, line.option)
                                           /\ SameAt(Done(pass, x, line), e, line.option)
<1> DEFINE inv == [s \in SUBSET lines |-> {e \in CountBase : Good(e)}]
<1>1. \A e : Good(e) => e \in CountBase BY DEF Good, Kept, Countable
<1>2. \A s \in SUBSET lines : /\ inv[s] \subseteq CountBase
                              /\ \A x : x \in inv[s] <=> Good(x)
  BY <1>1
<1> HIDE DEF inv
<1>3. \A line \in lines, s \in SUBSET lines : s \ {line} \in SUBSET lines OBVIOUS
<1>4. {} \in SUBSET lines /\ lines \in SUBSET lines OBVIOUS
<1>5. LET e == Passed(pass, d, lines)
      IN  /\ e \in inv[lines]
          /\ \A line \in lines : \E s \in SUBSET lines : \E x \in inv[s \ {line}] :
               /\ line \in s /\ SameAt(d, x, line.option)
               /\ SameAt(Done(pass, x, line), e, line.option)
  BY <1>2, <1>3, <1>4, EachPass
<1> QED BY <1>2, <1>3, <1>4, <1>5

LEMMA SoldPass ==
  ASSUME IsFiniteSet(Options), IsFiniteSet(Orders), NEW d, Good(d), NEW lines, Sheet(lines),
         SoldIn(lines, lines) <= Cardinality(FreeOrders(d))
  PROVE  LET e == Passed(<<"sold">>, d, lines)
         IN  Good(e) /\ \A line \in lines : SoldAt(d, e, line.option, line.sold)
<1> DEFINE free == Cardinality(FreeOrders(d))
           Holds(e, s) == Good(e) /\ Cardinality(FreeOrders(e)) = free - SoldIn(lines, s)
           inv == [s \in SUBSET lines |-> {e \in CountBase : Holds(e, s)}]
<1>1. free \in Nat BY FreeFinite
<1>2. \A e : Good(e) => e \in CountBase BY DEF Good, Kept, Countable
<1>3. \A line \in lines : line.option \in Options /\ line.sold \in Nat BY DEF Sheet, CountLine
<1>4. Holds(d, {})
  <2>1. SoldIn(lines, {}) = 0 BY SumOfNone DEF SoldIn
  <2> QED BY <1>1, <2>1
<1>5. ASSUME NEW p \in lines, NEW s \in SUBSET lines, p \in s, NEW x, Holds(x, s \ {p})
      PROVE  LET e == Done(<<"sold">>, x, p)
             IN  /\ Holds(e, s) /\ \A c \in Options : c # p.option => SameAt(x, e, c)
                 /\ SoldAt(x, e, p.option, p.sold)
  <2> DEFINE r == s \ {p}
             e == SellUnits(x, p)
  <2>1. r \in SUBSET lines OBVIOUS
  <2>2. Good(x) /\ Cardinality(FreeOrders(x)) = free - SoldIn(lines, r) BY <1>5
  <2>3. /\ SoldIn(lines, r) \in Nat /\ SoldIn(lines, s) \in Nat
        /\ SoldIn(lines, s) = p.sold + SoldIn(lines, r)
        /\ SoldIn(lines, s) <= SoldIn(lines, lines)
        /\ SoldIn(lines, lines) \in Nat
    BY <1>5, <2>1, SoldParts
  <2>4. p.sold \in Nat /\ p.option \in Options BY <1>3
  <2>5. p.sold <= Cardinality(FreeOrders(x)) BY <1>1, <2>2, <2>3, <2>4
  <2> HIDE DEF r
  <2>6. /\ Good(e)
        /\ Cardinality(FreeOrders(e)) = Cardinality(FreeOrders(x)) - p.sold
        /\ \A c \in Options : c # p.option => SameAt(x, e, c)
        /\ SoldAt(x, e, p.option, p.sold)
    BY <2>2, <2>4, <2>5, SellUnitsGood
  <2>7. Done(<<"sold">>, x, p) = e BY DEF Done
  <2> HIDE DEF e
  <2>8. Cardinality(FreeOrders(e)) = free - SoldIn(lines, s) BY <1>1, <2>2, <2>3, <2>4, <2>6
  <2> QED BY <2>6, <2>7, <2>8
<1> HIDE DEF Holds
<1>6. \A s \in SUBSET lines : inv[s] \subseteq CountBase /\ \A x : x \in inv[s] <=> Holds(x, s)
  BY <1>2 DEF Holds
<1> HIDE DEF inv
<1>7. {} \in SUBSET lines /\ \A line \in lines, s \in SUBSET lines : s \ {line} \in SUBSET lines
  OBVIOUS
<1>8. d \in inv[{}] BY <1>4, <1>6, <1>7
<1> DEFINE e == Passed(<<"sold">>, d, lines)
<1>9. /\ e \in inv[lines]
      /\ \A line \in lines : \E s \in SUBSET lines : \E x \in inv[s \ {line}] :
           /\ line \in s /\ SameAt(d, x, line.option)
           /\ SameAt(Done(<<"sold">>, x, line), e, line.option)
  <2> HIDE DEF e
  <2>1. \A line \in lines, s \in SUBSET lines : \A x \in inv[s \ {line}] :
          line \in s /\ SameAt(d, x, line.option) =>
            /\ Done(<<"sold">>, x, line) \in inv[s]
            /\ \A c \in Options : c # line.option => SameAt(x, Done(<<"sold">>, x, line), c)
    BY <1>5, <1>6, <1>7
  <2> QED BY <1>6, <1>8, <2>1, EachPass DEF e
<1> HIDE DEF e
<1>10. Good(e)
  <2>1. lines \in SUBSET lines OBVIOUS
  <2> QED BY <1>6, <1>9, <2>1 DEF Holds
<1>11. ASSUME NEW line \in lines PROVE SoldAt(d, e, line.option, line.sold)
  <2>1. PICK s \in SUBSET lines : \E x \in inv[s \ {line}] :
          /\ line \in s /\ SameAt(d, x, line.option)
          /\ SameAt(Done(<<"sold">>, x, line), e, line.option)
    BY <1>9
  <2>2. PICK x \in inv[s \ {line}] : /\ line \in s /\ SameAt(d, x, line.option)
                                     /\ SameAt(Done(<<"sold">>, x, line), e, line.option)
    BY <2>1
  <2>3. SoldAt(x, Done(<<"sold">>, x, line), line.option, line.sold) BY <1>5, <1>6, <1>7, <2>2
  <2> QED BY <2>2, <2>3 DEF SameAt, SoldAt
<1> QED BY <1>10, <1>11 DEF e

LEMMA WastedIs ==
  ASSUME NEW lines, Sheet(lines), NEW line \in lines
  PROVE  Wasted(line) \in Nat /\ line.option \in Options /\ line.sold \in Nat
BY DEF Sheet, CountLine, Wasted, Missing

LEMMA WastePass ==
  ASSUME IsFiniteSet(Options), NEW d, Good(d), NEW lines, Sheet(lines),
         \A line \in lines : Wasted(line) > 0 =>
           AvailableQuantity(d, line.option) >= Wasted(line)
  PROVE  LET e == Passed(<<"wasted">>, d, lines)
         IN  /\ Good(e)
             /\ \A line \in lines :
                  /\ AvailableQuantity(e, line.option)
                       = AvailableQuantity(d, line.option) - Wasted(line)
                  /\ BalanceRows(e, line.option) = BalanceRows(d, line.option)
<1> DEFINE e == Passed(<<"wasted">>, d, lines)
<1>1. ASSUME NEW p \in lines, NEW x, Good(x), SameAt(d, x, p.option)
      PROVE  LET f == Done(<<"wasted">>, x, p)
             IN  /\ Good(f) /\ \A c \in Options : c # p.option => SameAt(x, f, c)
                 /\ AvailableQuantity(f, p.option) = AvailableQuantity(x, p.option) - Wasted(p)
                 /\ BalanceRows(f, p.option) = BalanceRows(x, p.option)
  <2> DEFINE q == Wasted(p)
             f == Waste(x, p.option, q, Session)
  <2>1. Done(<<"wasted">>, x, p) = IF q > 0 THEN f ELSE x BY DEF Done, WasteLine
  <2>2. /\ q \in Nat /\ p.option \in Options /\ AvailableQuantity(x, p.option) \in Nat
        /\ q > 0 => AvailableQuantity(x, p.option) >= q
    BY <1>1, WastedIs, ShelfNat DEF SameAt, Good, Kept
  <2> HIDE DEF q
  <2>3. CASE q > 0
    <3>1. /\ Good(f) /\ f.negative = x.negative
          /\ \A c \in Options : AvailableQuantity(f, c) =
               IF c = p.option THEN Less(AvailableQuantity(x, p.option), q)
               ELSE AvailableQuantity(x, c)
      BY <1>1, <2>2, <2>3, WasteGood
    <3> HIDE DEF f
    <3>2. \A c : BalanceRows(f, c) = BalanceRows(x, c) BY <3>1 DEF BalanceRows
    <3>3. AvailableQuantity(f, p.option) = AvailableQuantity(x, p.option) - q
      BY <2>2, <2>3, <3>1 DEF Less
    <3> QED BY <2>1, <2>3, <3>1, <3>2, <3>3 DEF SameAt, q
  <2>4. CASE ~(q > 0)
    <3>1. Done(<<"wasted">>, x, p) = x /\ q = 0 BY <2>1, <2>2, <2>4
    <3> QED BY <1>1, <2>2, <3>1 DEF SameAt, q
  <2> QED BY <2>3, <2>4
<1>2. /\ Good(e)
      /\ \A line \in lines : \E x : /\ Good(x) /\ SameAt(d, x, line.option)
                                    /\ SameAt(Done(<<"wasted">>, x, line), e, line.option)
  BY <1>1, GoodPass
<1> HIDE DEF e
<1> QED BY <1>1, <1>2 DEF SameAt, e

LEMMA FoundAlong ==
  ASSUME NEW line, NEW d, NEW x, SameAt(d, x, line.option), NEW f, Found(x, f, line),
         NEW e, SameAt(f, e, line.option)
  PROVE  Found(d, e, line)
BY DEF SameAt, Found, NegativeBalanceQty

LEMMA FoundPass ==
  ASSUME IsFiniteSet(Options), NEW d, Good(d), NEW lines, Sheet(lines)
  PROVE  LET e == Passed(<<"found">>, d, lines)
         IN  /\ Good(e)
             /\ \A line \in lines :
                  IF line.counted > line.expected
                       /\ line.counted > AvailableQuantity(d, line.option)
                  THEN Found(d, e, line) ELSE SameAt(d, e, line.option)
<1> DEFINE e == Passed(<<"found">>, d, lines)
<1>1. ASSUME NEW p \in lines, NEW x, Good(x)
      PROVE  LET f == Done(<<"found">>, x, p)
                 more == p.counted > p.expected /\ p.counted > AvailableQuantity(x, p.option)
             IN  /\ Good(f) /\ \A c \in Options : c # p.option => SameAt(x, f, c)
                 /\ ~more => f = x
                 /\ more => Found(x, f, p)
  <2>1. Done(<<"found">>, x, p) = SurplusInflow(x, p) BY DEF Done
  <2>2. p.option \in Options /\ p.counted \in Nat /\ p.expected \in Int BY DEF Sheet, CountLine
  <2>3. ~(p.counted <= p.expected) <=> p.counted > p.expected BY <2>2
  <2> QED BY <1>1, <2>1, <2>2, <2>3, SurplusGood
<1>2. /\ Good(e)
      /\ \A line \in lines : \E x : /\ Good(x) /\ SameAt(d, x, line.option)
                                    /\ SameAt(Done(<<"found">>, x, line), e, line.option)
  BY <1>1, GoodPass
<1> HIDE DEF e
<1>3. ASSUME NEW p \in lines
      PROVE  IF p.counted > p.expected /\ p.counted > AvailableQuantity(d, p.option)
             THEN Found(d, e, p) ELSE SameAt(d, e, p.option)
  <2>1. PICK x : /\ Good(x) /\ SameAt(d, x, p.option)
                 /\ SameAt(Done(<<"found">>, x, p), e, p.option)
    BY <1>2
  <2> DEFINE f == Done(<<"found">>, x, p)
  <2>2. AvailableQuantity(x, p.option) = AvailableQuantity(d, p.option) BY <2>1 DEF SameAt
  <2>3. IF p.counted > p.expected /\ p.counted > AvailableQuantity(d, p.option)
        THEN Found(x, f, p) ELSE f = x
    BY <1>1, <2>1, <2>2
  <2> HIDE DEF f
  <2>4. SameAt(f, e, p.option) BY <2>1 DEF f
  <2>5. Found(x, f, p) => Found(d, e, p) BY <2>1, <2>4, FoundAlong
  <2> QED BY <2>1, <2>3, <2>4, <2>5 DEF SameAt
<1> QED BY <1>2, <1>3 DEF e

LEMMA ClearPass ==
  ASSUME IsFiniteSet(Options), NEW d, Good(d), NEW lines, Sheet(lines)
  PROVE  LET e == Passed(<<"cleared">>, d, lines)
         IN  /\ Good(e)
             /\ \A line \in lines : line.expected >= 0 \/ line.counted # 0 =>
                  SameAt(d, e, line.option)
<1>1. \A x, line : Done(<<"cleared">>, x, line) = ClearBalance(x, line) BY DEF Done
<1> DEFINE e == Passed(<<"cleared">>, d, lines)
<1>2. /\ Good(e)
      /\ \A line \in lines : \E x : /\ Good(x) /\ SameAt(d, x, line.option)
                                    /\ SameAt(Done(<<"cleared">>, x, line), e, line.option)
  BY <1>1, ClearGood, GoodPass
<1> HIDE DEF e
<1>3. \A line \in lines : \A x : Good(x) /\ (line.expected >= 0 \/ line.counted # 0) =>
        Done(<<"cleared">>, x, line) = x
  BY <1>1, ClearGood
<1> QED BY <1>2, <1>3 DEF SameAt, e

\* What a submission makes of the option of a line.
LineCounts(d, e, line) ==
  LET b == line.option
  IN  /\ line.counted > line.expected /\ line.counted > AvailableQuantity(d, b) =>
           Found(d, e, line)
      /\ line.counted <= line.expected /\ AvailableQuantity(d, b) >= Missing(line) =>
           /\ AvailableQuantity(e, b) = AvailableQuantity(d, b) - Missing(line)
           /\ BalanceRows(e, b) = BalanceRows(d, b)

LEMMA SubmitGood ==
  ASSUME IsFiniteSet(Options), IsFiniteSet(Orders), NEW d, Good(d), NEW lines, Sheet(lines),
         Cardinality(FreeOrders(d)) >= SoldIn(lines, lines),
         Wastable(d, lines)
  PROVE  LET e == Submit(d, lines)
         IN  Good(e) /\ \A line \in lines : LineCounts(d, e, line)
<1> DEFINE sold == Passed(<<"sold">>, d, lines)
           wasted == Passed(<<"wasted">>, sold, lines)
           found == Passed(<<"found">>, wasted, lines)
           e == Passed(<<"cleared">>, found, lines)
<1>1. \A line \in lines : /\ Wasted(line) \in Nat /\ line.option \in Options
                          /\ line.sold \in Nat /\ line.counted \in Nat
                          /\ line.expected \in Int
                          /\ Missing(line) = line.sold + Wasted(line)
  BY DEF Sheet, CountLine, Wasted, Missing
<1>2. \A x : Good(x) => \A line \in lines : AvailableQuantity(x, line.option) \in Nat
  BY <1>1, ShelfNat DEF Good, Kept
<1>3. \A line \in lines : Wasted(line) > 0 => AvailableQuantity(d, line.option) >= Missing(line)
  <2> SUFFICES ASSUME NEW line \in lines, Wasted(line) > 0
               PROVE  AvailableQuantity(d, line.option) >= Missing(line)
    OBVIOUS
  <2>1. /\ line.option \in Options /\ Missing(line) \in Nat
        /\ AvailableQuantity(d, line.option) \in Nat
    BY <1>1, <1>2
  <2>2. Deficit(d, line.option, Missing(line)) = 0 BY <1>1 DEF Wastable
  <2>3. ~(AvailableQuantity(d, line.option) < Missing(line))
    BY <2>1, <2>2, ShelfDeficit DEF Good, Kept
  <2> QED BY <2>1, <2>3
<1>4. Good(sold) /\ \A line \in lines : SoldAt(d, sold, line.option, line.sold)
  <2>1. SoldIn(lines, lines) \in Nat /\ Cardinality(FreeOrders(d)) \in Nat
    BY SoldParts, FreeFinite
  <2>2. SoldIn(lines, lines) <= Cardinality(FreeOrders(d)) BY <2>1
  <2> QED BY <2>2, SoldPass
<1> HIDE DEF sold
<1>5. \A line \in lines : Wasted(line) > 0 =>
        AvailableQuantity(sold, line.option) >= Wasted(line)
  BY <1>1, <1>2, <1>3, <1>4 DEF SoldAt, Less
<1>6. /\ Good(wasted)
      /\ \A line \in lines :
           /\ AvailableQuantity(wasted, line.option)
                = AvailableQuantity(sold, line.option) - Wasted(line)
           /\ BalanceRows(wasted, line.option) = BalanceRows(sold, line.option)
  BY <1>4, <1>5, WastePass
<1> HIDE DEF wasted
<1>7. /\ Good(found)
      /\ \A line \in lines :
           IF line.counted > line.expected
                /\ line.counted > AvailableQuantity(wasted, line.option)
           THEN Found(wasted, found, line) ELSE SameAt(wasted, found, line.option)
  BY <1>6, FoundPass
<1> HIDE DEF found
<1>8. /\ Good(e)
      /\ \A line \in lines : line.expected >= 0 \/ line.counted # 0 =>
           SameAt(found, e, line.option)
  BY <1>7, ClearPass
<1> HIDE DEF e
<1>9. ASSUME NEW line \in lines PROVE LineCounts(d, e, line)
  <2> DEFINE b == line.option
  <2>1. /\ AvailableQuantity(d, b) \in Nat /\ AvailableQuantity(sold, b) \in Nat
        /\ AvailableQuantity(wasted, b) \in Nat
    BY <1>2, <1>4, <1>6
  <2>2. /\ AvailableQuantity(sold, b) = Less(AvailableQuantity(d, b), line.sold)
        /\ AvailableQuantity(d, b) >= line.sold => BalanceRows(sold, b) = BalanceRows(d, b)
    BY <1>4 DEF SoldAt
  <2>3. ASSUME line.counted > line.expected, line.counted > AvailableQuantity(d, b)
        PROVE  Found(d, e, line)
    <3>1. line.sold = 0 /\ Wasted(line) = 0 BY <1>1, <2>3 DEF Missing
    <3>2. SameAt(d, wasted, b) BY <1>6, <2>1, <2>2, <3>1 DEF SameAt, Less
    <3>3. Found(wasted, found, line) BY <1>7, <2>3, <3>2 DEF SameAt
    <3>4. SameAt(found, e, b) BY <1>8, <2>1, <2>3
    <3> QED BY <3>2, <3>3, <3>4, FoundAlong
  <2>4. ASSUME line.counted <= line.expected, AvailableQuantity(d, b) >= Missing(line)
        PROVE  /\ AvailableQuantity(e, b) = AvailableQuantity(d, b) - Missing(line)
               /\ BalanceRows(e, b) = BalanceRows(d, b)
    <3>1. /\ AvailableQuantity(wasted, b) = AvailableQuantity(d, b) - Missing(line)
          /\ BalanceRows(wasted, b) = BalanceRows(d, b)
      BY <1>1, <1>6, <2>1, <2>2, <2>4 DEF Less
    <3>2. SameAt(wasted, found, b) BY <1>1, <1>7, <2>4
    <3>3. SameAt(found, e, b) BY <1>1, <1>8, <2>4
    <3> QED BY <3>1, <3>2, <3>3 DEF SameAt
  <2> QED BY <2>3, <2>4 DEF LineCounts
<1> QED BY <1>8, <1>9, SubmitPasses DEF sold, wasted, found, e

-----------------------------------------------------------------------------
\* The sums of StockCount.
LEMMA CostSum ==
  ASSUME NEW S, IsFiniteSet(S)
  PROVE  NetOf(S, "cogs") = SumFunctionOnSet([x \in S |-> x.lines["cogs"]], S)
<1> DEFINE f == [x \in S |-> x.lines["cogs"]]
<1>1. NetOf(S, "cogs") = (CHOOSE g : SumStep(f, S, g))[S]
  BY DEF NetOf, MapThenSumSet, MapThenFoldSet, SumStep, Pick
<1>2. SumFunctionOnSet(f, S) = (CHOOSE g : SumStep(f, S, g))[S]
  BY DEF SumFunctionOnSet, FoldFunctionOnSet, MapThenFoldSet, SumStep, Pick
<1> QED BY <1>1, <1>2

LEMMA StockSum ==
  ASSUME IsFiniteSet(Options), NEW d, Kept(d), d.negative = {}
  PROVE  MapThenSumSet(LAMBDA b : ExpectedQty(d, b), Options) = Stock(d)
<1> DEFINE f == [b \in Options |-> ExpectedQty(d, b)]
           Raw(g) == g = [s \in SUBSET Options |->
                            IF s = {} THEN 0
                            ELSE ExpectedQty(d, Pick(s)) + g[s \ {Pick(s)}]]
<1>1. MapThenSumSet(LAMBDA b : ExpectedQty(d, b), Options)
        = (CHOOSE g : SumStep(f, Options, g))[Options]
  <2>1. \A s \in SUBSET Options : s # {} => f[Pick(s)] = ExpectedQty(d, Pick(s)) BY PickIs
  <2> HIDE DEF f
  <2>2. \A g : Raw(g) <=> SumStep(f, Options, g) BY <2>1 DEF SumStep
  <2>3. MapThenSumSet(LAMBDA b : ExpectedQty(d, b), Options) = (CHOOSE g : Raw(g))[Options]
    BY DEF MapThenSumSet, MapThenFoldSet, Pick
  <2> HIDE DEF Raw
  <2>4. (CHOOSE g : Raw(g)) = (CHOOSE g : SumStep(f, Options, g)) BY <2>2
  <2> QED BY <2>3, <2>4
<1>2. SumFunctionOnSet(f, Options) = (CHOOSE g : SumStep(f, Options, g))[Options]
  BY DEF SumFunctionOnSet, FoldFunctionOnSet, MapThenFoldSet, SumStep, Pick
<1>3. \A b \in Options : ExpectedQty(d, b) = AvailableQuantity(d, b) BY ExpectedIs
<1>4. f = [b \in Options |-> AvailableQuantity(d, b)] BY <1>3
<1> QED BY <1>1, <1>2, <1>4 DEF Stock

-----------------------------------------------------------------------------
(***************************************************************************)
(* The invariant of StockCount, and its steps.  CostExplainsStock is not   *)
(* inductive: a cancelled order gives back its sale and its cost only if   *)
(* it had one of each (Handed), and what a submission writes is good for   *)
(* the database it finds only as its lines are of distinct options and     *)
(* sell no more than is missing (Sheet).                                   *)
(***************************************************************************)
Checked(r) == r = NoSheet \/ (r.op = "submit" /\ Sheet(r.lines))

CountInv ==
  /\ Good(shop)
  /\ sheets = [w \in Clerks |-> sheets[w]]
  /\ \A w \in Clerks : Checked(sheets[w])

LEMMA EmptyGood ==
  ASSUME IsFiniteSet(Options), CountInit
  PROVE  Good(shop)
<1>1. /\ shop.lots = <<>> /\ shop.items = <<>> /\ shop.negative = {} /\ shop.movements = {}
      /\ shop.lastMovement = 0 /\ shop.orders = [o \in Orders |-> Untaken]
      /\ shop.journal = {} /\ shop.lastEntry = 0
  BY DEF CountInit
<1>2. Countable(shop)
  <2>1. Untaken \in CountOrder BY DEF Untaken, CountOrder, CounterSources
  <2>2. [o \in Orders |-> Untaken] \in [Orders -> CountOrder] BY <2>1
  <2>3. shop \in CountBase BY <2>2 DEF CountInit, CountBase
  <2> QED BY <1>1, <2>3 DEF Countable, LotsCountTheirItems
<1>3. Rows(shop) BY <1>1, FS_EmptySet DEF Rows, Balances
<1>4. Handed(shop) BY <1>1 DEF Handed, SalesOf, MovementsOf, CostsOf, EntriesOf, Untaken
<1>5. Bought(shop) = 0
  <2>1. {m \in shop.movements : m.type = "restock" /\ m.ref = NoRef} = {} BY <1>1
  <2> QED BY <2>1, TotalNone DEF Bought
<1>6. Cost(shop) = 0 BY <1>1, SumOfNone DEF Cost
<1>7. Stock(shop) = 0
  <2> DEFINE f == [b \in Options |-> AvailableQuantity(shop, b)]
  <2>1. \A b \in Options : f[b] = 0
    <3> SUFFICES ASSUME NEW b \in Options PROVE AvailableQuantity(shop, b) = 0 OBVIOUS
    <3>1. AvailableItems(shop, b) = {} BY <1>1 DEF AvailableItems
    <3> QED BY <3>1, FS_EmptySet DEF AvailableQuantity
  <2>2. Cardinality(Options) \in Nat BY FS_CardinalityType
  <2> HIDE DEF f
  <2>3. SumFunctionOnSet(f, Options) = Cardinality(Options) * 0
    BY ONLY <2>1, IsFiniteSet(Options), 0 \in Int, SumConstant
  <2> QED BY <2>2, <2>3 DEF Stock, f
<1>8. Explained(shop) BY <1>1, <1>5, <1>6, <1>7 DEF Explained, Gap
<1> QED BY <1>2, <1>3, <1>4, <1>8 DEF Good, Kept

LEMMA CountStarts ==
  ASSUME IsFiniteSet(Options), CountInit
  PROVE  CountInv
<1>1. Good(shop) BY EmptyGood
<1>2. sheets = [w \in Clerks |-> NoSheet] BY DEF CountInit
<1> QED BY <1>1, <1>2 DEF CountInv, Checked

\* One worker's submission is written down, or gone.
LEMMA PendingStep ==
  ASSUME CountInv, NEW w \in Clerks, NEW r, Checked(r), Good(shop)',
         sheets' = [sheets EXCEPT ![w] = r]
  PROVE  CountInv'
<1>1. /\ sheets = [v \in Clerks |-> sheets[v]]
      /\ \A v \in Clerks : Checked(sheets[v])
  BY DEF CountInv
<1>2. \A v \in Clerks : sheets'[v] = IF v = w THEN r ELSE sheets[v] BY <1>1
<1>3. sheets' = [v \in Clerks |-> sheets'[v]] BY <1>1
<1>4. \A v \in Clerks : Checked(sheets'[v]) BY <1>1, <1>2
<1> QED BY <1>3, <1>4 DEF CountInv

LEMMA ServedStep ==
  ASSUME CountInv, NEW d, Good(d), Serves(d)
  PROVE  CountInv'
BY DEF CountInv, Serves, Good, Kept, Countable, Rows, Balances, Handed, Explained

LEMMA ShopSteps ==
  ASSUME IsFiniteSet(Options), CountInv, NEW b \in Options, NEW q \in Nat, q > 0,
         RestockGoods(b, q) \/ WasteGoods(b, q) \/ SellAtCounter(b, q)
  PROVE  CountInv'
<1>1. Good(shop) BY DEF CountInv
<1>2. CASE RestockGoods(b, q)
  <2> DEFINE e == LogMovement(CreateLotWithItems(shop, b, q), "restock", b, q, NoRef)
  <2>1. Good(e) BY <1>1, RestockGood
  <2>2. Serves(e) BY <1>2 DEF RestockGoods, NoRef
  <2> HIDE DEF e
  <2> QED BY <2>1, <2>2, ServedStep
<1>3. CASE WasteGoods(b, q)
  <2>1. Countable(shop) BY <1>1 DEF Good, Kept
  <2>2. Deficit(shop, b, q) = 0 BY <1>3 DEF WasteGoods
  <2>3. ~(AvailableQuantity(shop, b) < q) BY <2>1, <2>2, ShelfDeficit
  <2>4. AvailableQuantity(shop, b) \in Nat BY <2>1, ShelfNat
  <2>5. AvailableQuantity(shop, b) >= q BY <2>3, <2>4
  <2>6. Good(Waste(shop, b, q, NoRef)) BY <1>1, <2>5, WasteGood
  <2> DEFINE e == Waste(shop, b, q, NoRef)
  <2>7. Good(e) BY <2>6
  <2>8. Serves(e) BY <1>3 DEF WasteGoods, NoRef
  <2> HIDE DEF e
  <2> QED BY <2>7, <2>8, ServedStep
<1>4. CASE SellAtCounter(b, q)
  <2> DEFINE o == CHOOSE p \in FreeOrders(shop) : TRUE
             sold == Sell(shop, o, "pos", SaleOf(b, q))
  <2>1. FreeOrders(shop) # {} /\ Serves(sold) BY <1>4 DEF SellAtCounter
  <2>2. o \in FreeOrders(shop) BY <2>1
  <2>3. "pos" \in CounterSources BY DEF CounterSources
  <2> HIDE DEF o
  <2>4. Good(sold) BY <1>1, <2>2, <2>3, SellGood
  <2> HIDE DEF sold
  <2> QED BY <2>1, <2>4, ServedStep
<1> QED BY <1>2, <1>3, <1>4

LEMMA CancelStep ==
  ASSUME IsFiniteSet(Options), CountInv, NEW o \in Orders, CancelOrder(o)
  PROVE  CountInv'
<1>1. Good(shop) /\ shop.orders[o].status = "delivered" BY DEF CountInv, CancelOrder
<1>2. Good(CancelSale(shop, o)) BY <1>1, CancelGood
<1> QED BY <1>2, ServedStep DEF CancelOrder

\* The lines of a draft that was loaded make a sheet.
LEMMA LinesAreSheet ==
  ASSUME IsFiniteSet(Options), Good(shop),
         NEW S \in SUBSET Options, NEW counts \in [S -> 0..MaxCount],
         NEW sold \in [S -> 0..MaxCount], NEW lines,
         lines = {Line1(b, ExpectedQty(shop, b), counts[b], sold[b]) : b \in S},
         \A line \in lines : line.sold <= Missing(line)
  PROVE  Sheet(lines)
<1> DEFINE LineOf(b) == Line1(b, ExpectedQty(shop, b), counts[b], sold[b])
           f == [b \in S |-> LineOf(b)]
<1>1. \A b \in S : LineOf(b).option = b BY DEF Line1
<1>2. \A b \in S : LineOf(b) \in CountLine
  <2> SUFFICES ASSUME NEW b \in S PROVE LineOf(b) \in CountLine OBVIOUS
  <2>1. ExpectedQty(shop, b) \in Int BY ExpectedIs DEF Good
  <2>2. counts[b] \in Nat /\ sold[b] \in Nat /\ b \in Options BY CountAssumption
  <2> QED BY <2>1, <2>2 DEF Line1, CountLine
<1> HIDE DEF LineOf
<1>3. lines = {LineOf(b) : b \in S} BY DEF LineOf
<1>4. IsFiniteSet(lines)
  <2>1. IsFiniteSet(S) BY FS_Subset
  <2>2. f \in [S -> lines] /\ \A line \in lines : \E b \in S : f[b] = line BY <1>3
  <2> HIDE DEF f
  <2>3. f \in Surjection(S, lines) BY <2>2 DEF Surjection
  <2> QED BY <2>1, <2>3, FS_Surjection
<1>5. lines \subseteq CountLine BY <1>2, <1>3
<1>6. \A j, k \in lines : j.option = k.option => j = k
  <2> SUFFICES ASSUME NEW j \in lines, NEW k \in lines, j.option = k.option PROVE j = k
    OBVIOUS
  <2>1. PICK a \in S : j = LineOf(a) BY <1>3
  <2>2. PICK b \in S : k = LineOf(b) BY <1>3
  <2>3. a = b BY <1>1, <2>1, <2>2
  <2> QED BY <2>1, <2>2, <2>3
<1> QED BY <1>4, <1>5, <1>6 DEF Sheet

LEMMA SheetRead ==
  ASSUME IsFiniteSet(Options), CountInv, NEW w \in Clerks,
         NEW S \in SUBSET Options, NEW counts \in [S -> 0..MaxCount],
         ReadSubmit(w, counts)
  PROVE  CountInv'
<1>1. DOMAIN counts = S OBVIOUS
<1>2. PICK sold \in [S -> 0..MaxCount] :
        LET lines == {Line1(b, ExpectedQty(shop, b), counts[b], sold[b]) :
                        b \in S}
        IN  /\ \A line \in lines : line.sold <= Missing(line)
            /\ sheets' = [sheets EXCEPT ![w] = [op |-> "submit", lines |-> lines]]
  BY <1>1 DEF ReadSubmit
<1> DEFINE lines == {Line1(b, ExpectedQty(shop, b), counts[b], sold[b]) : b \in S}
           r == [op |-> "submit", lines |-> lines]
<1>3. /\ \A line \in lines : line.sold <= Missing(line)
      /\ sheets' = [sheets EXCEPT ![w] = r]
  BY <1>2
<1>4. Good(shop) /\ shop' = shop BY DEF CountInv, ReadSubmit
<1>5. Sheet(lines) BY <1>3, <1>4, LinesAreSheet
<1> HIDE DEF lines
<1>6. Checked(r) BY <1>5 DEF Checked
<1>7. Good(shop)' BY <1>4 DEF Good, Kept, Countable, Rows, Balances, Handed, Explained
<1> HIDE DEF r
<1> QED BY <1>3, <1>6, <1>7, PendingStep

LEMMA SheetWritten ==
  ASSUME IsFiniteSet(Options), IsFiniteSet(Orders), CountInv, NEW w \in Clerks,
         WriteSubmit(w)
  PROVE  /\ CountInv' /\ Good(shop') /\ Sheet(sheets[w].lines)
         /\ \A line \in sheets[w].lines : LineCounts(shop, shop', line)
<1> DEFINE lines == sheets[w].lines
           e == Submit(shop, lines)
<1>1. /\ sheets[w].op = "submit" /\ Wastable(shop, lines) /\ shop' = e
      /\ sheets' = [sheets EXCEPT ![w] = NoSheet]
  BY DEF WriteSubmit
<1>2. Cardinality(FreeOrders(shop))
        >= MapThenSumSet(LAMBDA line : line.sold, lines)
  BY DEF WriteSubmit
<1>3. Good(shop) /\ Sheet(lines) BY <1>1 DEF CountInv, Checked, NoSheet
<1> HIDE DEF lines
<1>4. Cardinality(FreeOrders(shop)) >= SoldIn(lines, lines)
  <2>1. IsFiniteSet(lines) BY <1>3 DEF Sheet
  <2>2. MapThenSumSet(LAMBDA line : line.sold, lines) = SoldIn(lines, lines)
    BY <2>1, SoldSum
  <2> QED BY <1>2, <2>2
<1>5. Good(e) /\ \A line \in lines : LineCounts(shop, e, line)
  BY <1>1, <1>3, <1>4, SubmitGood
<1> HIDE DEF e
<1>6. Good(shop)' BY <1>1, <1>5 DEF Good, Kept, Countable, Rows, Balances, Handed, Explained
<1>7. Checked(NoSheet) BY DEF Checked
<1>8. CountInv' BY <1>1, <1>6, <1>7, PendingStep
<1> QED BY <1>1, <1>3, <1>5, <1>8 DEF lines

LEMMA UndoStep ==
  ASSUME CountInv, NEW w \in Clerks, UndoSubmit(w)
  PROVE  CountInv'
<1>1. shop' = shop /\ sheets' = [sheets EXCEPT ![w] = NoSheet] BY DEF UndoSubmit
<1>2. Good(shop)' BY <1>1 DEF CountInv, Good, Kept, Countable, Rows, Balances, Handed, Explained
<1>3. Checked(NoSheet) BY DEF Checked
<1> QED BY <1>1, <1>2, <1>3, PendingStep

LEMMA CountStep ==
  ASSUME IsFiniteSet(Options), IsFiniteSet(Orders),
         CountInv, [CountNext]_(countVars)
  PROVE  CountInv'
<1>1. ASSUME NEW b \in Options, NEW q \in 1..MaxUnits,
             RestockGoods(b, q) \/ WasteGoods(b, q) \/ SellAtCounter(b, q)
      PROVE  CountInv'
  <2>1. q \in Nat /\ q > 0 BY CountAssumption
  <2> QED BY <1>1, <2>1, ShopSteps
<1>2. ASSUME NEW o \in Orders, CancelOrder(o) PROVE CountInv' BY <1>2, CancelStep
<1>3. ASSUME NEW w \in Clerks, NEW counts \in Counts, ReadSubmit(w, counts)
      PROVE  CountInv'
  <2>1. PICK S \in SUBSET Options : counts \in [S -> 0..MaxCount] BY DEF Counts
  <2> QED BY <1>3, <2>1, SheetRead
<1>4. ASSUME NEW w \in Clerks, WriteSubmit(w) PROVE CountInv' BY <1>4, SheetWritten
<1>5. ASSUME NEW w \in Clerks, UndoSubmit(w) PROVE CountInv' BY <1>5, UndoStep
<1>6. CASE UNCHANGED countVars
  <2>1. shop' = shop /\ sheets' = sheets BY <1>6 DEF countVars
  <2> QED BY <2>1 DEF CountInv, Good, Kept, Countable, Rows, Balances, Handed, Explained
<1>7. CASE CountNext BY <1>1, <1>2, <1>3, <1>4, <1>5, <1>7 DEF CountNext
<1> QED BY <1>6, <1>7

LEMMA CountTypes ==
  ASSUME CountInv
  PROVE  CountTypeOK
<1>1. Good(shop) BY DEF CountInv
<1>2. Countable(shop) /\ Rows(shop) /\ shop \in CountBase BY <1>1 DEF Good, Kept, Countable
<1>3. shop.lots \in Seq(Lot) /\ shop.items \in Seq(InventoryItem) BY <1>2 DEF CountBase
<1>4. shop.negative \subseteq BalanceRow /\ \A r \in shop.negative : r.qty > 0
  BY <1>2 DEF CountBase, Rows, Balances
<1>5. \A m \in shop.movements :
        /\ m.id \in 1..shop.lastMovement /\ m.type \in MovementType
        /\ m.option \in Options /\ m.ref \in Orders \cup {NoRef, Session}
  BY <1>2 DEF CountBase, Rows, CountRow
<1>6. \A l \in DOMAIN shop.lots :
        shop.lots[l].remaining = Cardinality(AvailableOfLot(shop, l))
  BY <1>2 DEF Countable, LotsCountTheirItems
<1>7. \A x \in shop.journal : x.lines \in [Accounts -> Int] BY <1>2 DEF CountBase, CostRow
<1> QED BY ONLY <1>3, <1>4, <1>5, <1>6, <1>7 DEF CountTypeOK

LEMMA CountExplains ==
  ASSUME IsFiniteSet(Options), CountInv
  PROVE  CostExplainsStock
<1> SUFFICES ASSUME NoneOversold(shop)
             PROVE  Restocked = NetOf(shop.journal, "cogs")
                      + MapThenSumSet(LAMBDA b : ExpectedQty(shop, b), Options)
  BY DEF CostExplainsStock, NoneOversold
<1>1. Kept(shop) /\ Explained(shop) BY DEF CountInv, Good
<1>2. shop.negative = {} /\ Gap(shop) = 0 BY <1>1 DEF Explained
<1>3. IsFiniteSet(shop.movements) /\ IsFiniteSet(shop.journal) BY <1>1 DEF Kept, Rows
<1>4. Restocked = Bought(shop)
  <2> DEFINE rows == {m \in shop.movements : m.type = "restock" /\ m.ref = NoRef}
  <2>1. IsFiniteSet(rows) BY <1>3, FS_Subset
  <2>2. Restocked = MapThenSumSet(LAMBDA m : m.qty, rows)
    BY DEF Restocked, NoRef
  <2> HIDE DEF rows
  <2>3. MapThenSumSet(LAMBDA m : m.qty, rows) = Total(rows) BY <2>1, QtySum
  <2> QED BY <2>2, <2>3 DEF Bought, rows
<1>5. NetOf(shop.journal, "cogs") = Cost(shop) BY <1>3, CostSum DEF Cost
<1>6. MapThenSumSet(LAMBDA b : ExpectedQty(shop, b), Options) = Stock(shop)
  BY <1>1, <1>2, StockSum
<1>7. Bought(shop) \in Int /\ Cost(shop) \in Int /\ Stock(shop) \in Int BY <1>1, CountsAreInt
<1> QED BY <1>2, <1>4, <1>5, <1>6, <1>7 DEF Gap

(***************************************************************************)
(* Whatever is sold, thrown away or counted, and whatever moves while it   *)
(* is counted: the rows of a shop that counts its stock hold values of     *)
(* their columns, and stock_lots.remaining_qty is the number of the lot's  *)
(* items that are left.                                                    *)
(***************************************************************************)
THEOREM CountTyped ==
  ASSUME IsFiniteSet(Options), IsFiniteSet(Orders)
  PROVE  CountSpec => []CountTypeOK
<1>1. CountInit => CountInv BY CountStarts
<1>2. CountInv /\ [CountNext]_(countVars) => CountInv' BY CountStep
<1>3. CountInv => CountTypeOK BY CountTypes
<1> QED BY <1>1, <1>2, <1>3, PTL DEF CountSpec

(***************************************************************************)
(* As long as nothing is oversold, every unit that was bought is in stock  *)
(* or its cost is booked, once, through sales, cancellations, waste and    *)
(* submissions that find too little or too much, for any number of goods,  *)
(* orders and workers: _sync_waste_cogs_journal and what calls it.         *)
(***************************************************************************)
THEOREM CostsStayExplained ==
  ASSUME IsFiniteSet(Options), IsFiniteSet(Orders)
  PROVE  CountSpec => []CostExplainsStock
<1>1. CountInit => CountInv BY CountStarts
<1>2. CountInv /\ [CountNext]_(countVars) => CountInv' BY CountStep
<1>3. CountInv => CostExplainsStock BY CountExplains
<1> QED BY <1>1, <1>2, <1>3, PTL DEF CountSpec

\* A submission that changes the shop is written by its own worker.
LEMMA Submitted ==
  ASSUME IsFiniteSet(Options), IsFiniteSet(Orders), CountInv, CountNext,
         NEW w \in Clerks, Submits(w), NEW line \in sheets[w].lines
  PROVE  /\ WriteSubmit(w) /\ Kept(shop) /\ Kept(shop') /\ line \in CountLine
         /\ LineCounts(shop, shop', line)
<1>1. WriteSubmit(w)
  <2>1. /\ sheets[w] # NoSheet /\ sheets'[w] = NoSheet /\ shop' # shop
        /\ sheets = [v \in Clerks |-> sheets[v]]
    BY DEF Submits, CountInv
  <2>2. ASSUME NEW v \in Clerks, WriteSubmit(v) PROVE v = w
    <3>1. sheets' = [sheets EXCEPT ![v] = NoSheet] BY <2>2 DEF WriteSubmit
    <3> QED BY <2>1, <3>1
  <2>3. \A c \in Options, q \in 1..MaxUnits :
          ~(RestockGoods(c, q) \/ WasteGoods(c, q) \/ SellAtCounter(c, q))
    BY <2>1 DEF RestockGoods, WasteGoods, SellAtCounter, Serves
  <2>4. \A o \in Orders : ~CancelOrder(o) BY <2>1 DEF CancelOrder, Serves
  <2>5. \A v \in Clerks : ~UndoSubmit(v) /\ \A counts \in Counts : ~ReadSubmit(v, counts)
    BY <2>1 DEF UndoSubmit, ReadSubmit
  <2> QED BY <2>2, <2>3, <2>4, <2>5 DEF CountNext
<1>2. /\ Good(shop') /\ Sheet(sheets[w].lines) /\ LineCounts(shop, shop', line)
  BY <1>1, SheetWritten
<1>3. Kept(shop) /\ Kept(shop') BY <1>2 DEF CountInv, Good
<1>4. line \in CountLine BY <1>2 DEF Sheet
<1> QED BY <1>1, <1>2, <1>3, <1>4

(***************************************************************************)
(* Where nothing of what is counted moves between the check of a           *)
(* submission and its writing, the tables have what was counted, for any   *)
(* lines of a submission and whatever the shop served before: of           *)
(* submit_reconciliation.                                                  *)
(***************************************************************************)
THEOREM CountsStand ==
  ASSUME IsFiniteSet(Options), IsFiniteSet(Orders),
         "moves_while_counting" \notin CountPractices
  PROVE  CountSpec => CountStands
<1> DEFINE Step ==
             \A w \in Clerks : Submits(w) =>
               \A line \in sheets[w].lines :
                 \/ ExpectedQty(shop', line.option) = line.counted
                 \/ line.counted > line.expected /\ BalanceRows(shop, line.option) # {}
<1>1. CountInit => CountInv BY CountStarts
<1>2. CountInv /\ [CountNext]_(countVars) => CountInv' BY CountStep
<1>3. CountInv /\ [CountNext]_(countVars) => [Step]_(countVars)
  <2>1. SUFFICES ASSUME CountInv, CountNext, NEW w \in Clerks, Submits(w),
                        NEW line \in sheets[w].lines
                 PROVE  \/ ExpectedQty(shop', line.option) = line.counted
                        \/ line.counted > line.expected /\ BalanceRows(shop, line.option) # {}
    OBVIOUS
  <2> DEFINE b == line.option
             rows == BalanceRows(shop, b)
  <2>2. /\ WriteSubmit(w) /\ Kept(shop) /\ Kept(shop') /\ line \in CountLine
        /\ LineCounts(shop, shop', line)
    BY <2>1, Submitted
  <2>3. ExpectedQty(shop, b) = line.expected BY <2>2 DEF WriteSubmit, SameAsRead
  <2>4. /\ line.expected = AvailableQuantity(shop, b) - Total(rows)
        /\ AvailableQuantity(shop, b) \in Nat /\ Total(rows) \in Nat
        /\ rows = {} => Total(rows) = 0
    BY <2>2, <2>3, ExpectedIs
  <2>5. ExpectedQty(shop', b) = AvailableQuantity(shop', b) - Total(BalanceRows(shop', b))
    BY <2>2, ExpectedIs
  <2>6. line.counted \in Nat /\ line.expected \in Int BY <2>2 DEF CountLine
  <2>7. CASE line.counted > line.expected /\ rows = {}
    <3>1. line.counted > AvailableQuantity(shop, b) BY <2>4, <2>6, <2>7
    <3>2. PICK k \in Nat : /\ AvailableQuantity(shop', b) = line.counted - k
                           /\ Total(BalanceRows(shop', b)) = Total(rows) - k
      BY <2>2, <2>7, <3>1 DEF LineCounts, Found
    <3> QED BY <2>4, <2>5, <2>6, <2>7, <3>2
  <2>8. CASE ~(line.counted > line.expected)
    <3>1. line.counted <= line.expected /\ Missing(line) = line.expected - line.counted
      BY <2>6, <2>8 DEF Missing
    <3>2. AvailableQuantity(shop, b) >= Missing(line) BY <2>4, <2>6, <3>1
    <3>3. /\ AvailableQuantity(shop', b) = AvailableQuantity(shop, b) - Missing(line)
          /\ BalanceRows(shop', b) = rows
      BY <2>2, <3>1, <3>2 DEF LineCounts
    <3> QED BY <2>4, <2>5, <2>6, <3>1, <3>3
  <2> QED BY <2>7, <2>8
<1>4. CountSpec => [][Step]_(countVars) BY <1>1, <1>2, <1>3, PTL DEF CountSpec
<1> QED BY <1>4 DEF CountStands

(***************************************************************************)
(* Goods found beyond what is available move the position by their number, *)
(* and none of them comes back as stock before the first balance is made   *)
(* up, even when goods move while they are counted:                        *)
(* _process_surplus_inflow.                                                *)
(***************************************************************************)
THEOREM FindsAreNetted ==
  ASSUME IsFiniteSet(Options), IsFiniteSet(Orders)
  PROVE  CountSpec => FoundIsNetted
<1> DEFINE Netted(line) ==
             LET b == line.option
                 surplus == line.counted - AvailableQuantity(shop, b)
             IN  line.counted > line.expected /\ surplus > 0 =>
                   /\ ExpectedQty(shop', b) = ExpectedQty(shop, b) + surplus
                   /\ NegativeBalanceQty(shop, b) >= surplus
                        => AvailableQuantity(shop', b) = AvailableQuantity(shop, b)
           Step == \A w \in Clerks : Submits(w) => \A line \in sheets[w].lines : Netted(line)
<1>1. CountInit => CountInv BY CountStarts
<1>2. CountInv /\ [CountNext]_(countVars) => CountInv' BY CountStep
<1>3. CountInv /\ [CountNext]_(countVars) => [Step]_(countVars)
  <2>1. SUFFICES ASSUME CountInv, CountNext, NEW w \in Clerks, Submits(w),
                        NEW line \in sheets[w].lines
                 PROVE  Netted(line)
    OBVIOUS
  <2> DEFINE b == line.option
             avail == AvailableQuantity(shop, b)
  <2>2. Kept(shop) /\ Kept(shop') /\ line \in CountLine /\ LineCounts(shop, shop', line)
    BY <2>1, Submitted
  <2>3. /\ ExpectedQty(shop, b) = avail - Total(BalanceRows(shop, b))
        /\ avail \in Nat /\ Total(BalanceRows(shop, b)) \in Nat
        /\ ExpectedQty(shop', b) = AvailableQuantity(shop', b) - Total(BalanceRows(shop', b))
    BY <2>2, ExpectedIs
  <2>4. line.counted \in Nat /\ line.expected \in Int BY <2>2 DEF CountLine
  <2>5. ASSUME line.counted > line.expected, line.counted - avail > 0
        PROVE  /\ ExpectedQty(shop', b) = ExpectedQty(shop, b) + (line.counted - avail)
               /\ NegativeBalanceQty(shop, b) >= line.counted - avail
                    => AvailableQuantity(shop', b) = avail
    <3>1. line.counted > avail BY <2>3, <2>4, <2>5
    <3>2. PICK k \in Nat :
            /\ AvailableQuantity(shop', b) = line.counted - k
            /\ Total(BalanceRows(shop', b)) = Total(BalanceRows(shop, b)) - k
            /\ NegativeBalanceQty(shop, b) >= line.counted - avail => k = line.counted - avail
      BY <2>2, <2>5, <3>1 DEF LineCounts, Found
    <3> QED BY <2>3, <2>4, <3>2
  <2> QED BY <2>5
<1>4. CountSpec => [][Step]_(countVars) BY <1>1, <1>2, <1>3, PTL DEF CountSpec
<1> QED BY <1>4 DEF FoundIsNetted

=============================================================================
