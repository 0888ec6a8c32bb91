--------------------------- MODULE InventoryFifo ---------------------------
(***************************************************************************)
(* The stock tables and the helpers that write them:                       *)
(* src/baker/services/inventory_fifo.py over the schema it works on.       *)
(*                                                                         *)
(* A database is a record d with, among others, the fields                 *)
(*   lots      sequence of [option, remaining]: stock_lots, by id          *)
(*   items     sequence of [lot, by]: inventory_items, by id; by is        *)
(*             consumed_by_movement_id                                     *)
(*   negative  set of [id, option, qty]: negative_balance                  *)
(*   lastMovement  the autoincrement counter of stock_movements            *)
(* A helper takes the database it works on (the code's conn) and returns   *)
(* the database it leaves.  An option is one product at one price          *)
(* (product_id, price_chip_id); the options in BaseOptions are those at    *)
(* the base price, whose price_chip_id is NULL.                            *)
(***************************************************************************)
EXTENDS Integers, Sequences, FiniteSets

CONSTANTS Options, BaseOptions

ASSUME OptionsAssumption == BaseOptions \subseteq Options

\* consumed_by_movement_id is NULL, that is, the item's status is 'available'.
NoMovement == 0

Lot == [option : Options, remaining : Int]
InventoryItem == [lot : Nat, by : Nat]
BalanceRow == [id : Nat, option : Options, qty : Int]

\* SELECT without ORDER BY: rows come by id.
ById(r, S) == \A s \in S : r.id <= s.id

-----------------------------------------------------------------------------
AvailableOfLot(d, l) ==
  {i \in DOMAIN d.items : d.items[i].lot = l /\ d.items[i].by = NoMovement}

\* Mutant: the option is not looked at.
AvailableItemsOfAny(d, b) == {i \in DOMAIN d.items : d.items[i].by = NoMovement}

AvailableItems(d, b) ==
  {i \in DOMAIN d.items : /\ d.items[i].by = NoMovement
                          /\ d.lots[d.items[i].lot].option = b}

AvailableQuantity(d, b) == Cardinality(AvailableItems(d, b))

BalanceRows(d, b) == {r \in d.negative : r.option = b}

\* A single row is fetched, however many the option has.
NegativeBalanceQty(d, b) ==
  LET rows == BalanceRows(d, b)
  IN  IF rows = {} THEN 0 ELSE (CHOOSE r \in rows : ById(r, rows)).qty

NetAvailableQuantity(d, b) == AvailableQuantity(d, b) - NegativeBalanceQty(d, b)

-----------------------------------------------------------------------------
CreateLotWithItems(d, b, q) ==
  LET old == Len(d.items) IN
  [d EXCEPT
     !.lots = Append(@, [option |-> b, remaining |-> q]),
     !.items = [i \in 1..(old + q) |->
                  IF i <= old THEN d.items[i]
                  ELSE [lot |-> Len(d.lots) + 1, by |-> NoMovement]]]

(***************************************************************************)
(* FIFO.  Only lots whose remaining_qty is positive are visited.  Lots are *)
(* taken by (restocked_at, id) and items by (created_at, id): an item is   *)
(* inserted with its lot, so the order of both together is that of the     *)
(* items' ids.                                                             *)
(***************************************************************************)
Consumable(d, b) ==
  {i \in AvailableItems(d, b) : d.lots[d.items[i].lot].remaining > 0}

FifoTake(d, b, q) ==
  LET open == Consumable(d, b)
  IN  {i \in open : Cardinality({j \in open : j <= i}) <= q}

\* What is still missing once every consumable item up to q is taken.
Deficit(d, b, q) == q - Cardinality(FifoTake(d, b, q))

\* The items of S become consumed by movement m, each lot counting down.
ConsumeItems(d, S, m) ==
  [d EXCEPT
     !.items = [i \in DOMAIN d.items |->
                  IF i \in S THEN [d.items[i] EXCEPT !.by = m] ELSE d.items[i]],
     !.lots = [l \in DOMAIN d.lots |->
                 [d.lots[l] EXCEPT !.remaining =
                    @ - Cardinality({i \in S : d.items[i].lot = l})]]]

(***************************************************************************)
(* consume_fifo_items(conn, option, q, m).  The caller looks at Deficit:   *)
(* with allow_negative the deficit is its result; without, a positive      *)
(* deficit raises after these writes.                                      *)
(***************************************************************************)
ConsumeFifoItems(d, b, q, m) == ConsumeItems(d, FifoTake(d, b, q), m)

\* UPDATE negative_balance SET qty = qty + k: every row of the option.
AddToBalance(d, b, k) ==
  [d EXCEPT !.negative =
     {IF r.option = b THEN [r EXCEPT !.qty = @ + k] ELSE r : r \in @}]

\* Mutant: DO UPDATE SET qty = excluded.qty.
OverwriteNegativeBalance(d, b, k) ==
  IF k <= 0 THEN d
  ELSE [d EXCEPT !.negative =
          (@ \ BalanceRows(d, b)) \union {[id |-> d.lastMovement, option |-> b, qty |-> k]}]

(***************************************************************************)
(* INSERT ... ON CONFLICT(product_id, price_chip_id) DO UPDATE.  In the    *)
(* unique index NULLs are distinct, so a base-price option never conflicts *)
(* and gets another row.  Every call follows the INSERT of the movement it *)
(* records, whose id also orders the rows.                                 *)
(***************************************************************************)
UpsertNegativeBalance(d, b, k) ==
  IF k <= 0 THEN d
  ELSE IF b \notin BaseOptions /\ BalanceRows(d, b) # {}
       THEN AddToBalance(d, b, k)
       ELSE [d EXCEPT !.negative =
               @ \union {[id |-> d.lastMovement, option |-> b, qty |-> k]}]

=============================================================================
