----------------------------- MODULE StockCount -----------------------------
(***************************************************************************)
(* Counting the stock, api/reconciliations.py, beside what sells, restocks *)
(* and throws away the same goods; and the cost of goods in the journal,   *)
(* services/journal_sync/waste.py.                                         *)
(*                                                                         *)
(* A submission compares the position it was made from with the tables,    *)
(* and then writes: in sheets[w] is what passed.  All other requests are   *)
(* one step here; BakeryStock has theirs apart.  Names differ from those   *)
(* of BakeryStock, so that one module can speak of both.  Every unit costs *)
(* 1, and every option is on display.                                      *)
(***************************************************************************)
EXTENDS OrderStock, Journal

CONSTANTS
  Clerks,          \* request threads that count
  MaxUnits,        \* bound on the quantity of one request
  MaxCount,        \* bound on what is counted of an option
  MaxRows,         \* bound on the movements ever logged, past which none starts
  CountPractices   \* what the staff do, of AllCountPractices

\* Selling or moving goods between the check of a submission and its writing.
AllCountPractices == {"moves_while_counting"}

\* 1300 and 5900.
StockAccounts == {"inventory", "cogs"}

\* reference_id of what a submission moves other than by orders.
Session == "reconciliation"

ASSUME CountAssumption ==
  /\ Accounts = StockAccounts
  /\ MaxUnits \in Nat /\ MaxCount \in Nat /\ MaxRows \in Nat
  /\ CountPractices \subseteq AllCountPractices

VARIABLES
  shop,    \* the committed database
  sheets   \* the submission of each clerk that was checked, or NoSheet

countVars == <<shop, sheets>>

NoSheet == [op |-> "idle"]
Untaken == [status |-> "absent", source |-> "pos", lines |-> <<>>]

CountInit ==
  /\ shop = [lots |-> <<>>, items |-> <<>>, negative |-> {}, movements |-> {},
             lastMovement |-> 0, orders |-> [o \in Orders |-> Untaken],
             journal |-> {}, lastEntry |-> 0]
  /\ sheets = [w \in Clerks |-> NoSheet]

-----------------------------------------------------------------------------
(***************************************************************************)
(* Cost of goods                                                           *)
(***************************************************************************)
BalanceQty(d, b) == MapThenSumSet(LAMBDA r : r.qty, BalanceRows(d, b))

\* The expected quantity of the draft: here every row of the option counts.
ExpectedQty(d, b) == AvailableQuantity(d, b) - BalanceQty(d, b)

CostLines(q) == Lines([a \in StockAccounts |-> IF a = "cogs" THEN q ELSE -q])

\* _sync_waste_cogs_journal and its kind: once for a movement, or an order.
PostCost(d, source, of, q) ==
  IF q = 0 \/ EntriesOf(d, source, of) # {} THEN d
  ELSE Insert(d, source, of, source, CostLines(q))

-----------------------------------------------------------------------------
(***************************************************************************)
(* A sale at the counter, of one line, which may oversell.  Its delivery   *)
(* books the cost of the whole line.                                       *)
(***************************************************************************)
FreeOrders(d) == {o \in Orders : d.orders[o] = Untaken}

SaleOf(b, q) == [option |-> b, qty |-> q, use |-> "unset"]

Sell(d, o, source, line) ==
  LET created == [d EXCEPT !.orders[o] = [status |-> "delivered", source |-> source,
                                          lines |-> <<line>>]]
      deficit == LineDeficit(created, o, line)
      deducted == DeductLine(created, o, line)
  IN  PostCost(PostCost(deducted, "negative_sale_cogs", deducted.lastMovement, deficit),
               "order_cogs", o, line.qty)

\* Mutant: the cost of the goods that came back stays booked.
CancelKeepingCost(d, o) ==
  LET sale == CHOOSE m \in d.movements : m.ref = o /\ m.type = "sale"
      restored == RestoreSale(d, o, sale, OversoldOf(d, o, sale))
  IN  [restored EXCEPT !.orders[o].status = "cancelled"]

\* The cost that an oversold line was booked at stays.
CancelSale(d, o) ==
  LET sale == CHOOSE m \in d.movements : m.ref = o /\ m.type = "sale"
      restored == RestoreSale(d, o, sale, OversoldOf(d, o, sale))
      cost == EntriesOf(d, "order_cogs", o)
  IN  ReverseOrDelete([restored EXCEPT !.orders[o].status = "cancelled"], Latest(cost))

Waste(d, b, q, ref) ==
  LET logged == LogMovement(d, "waste", b, -q, ref)
  IN  PostCost(ConsumeFifoItems(logged, b, q, logged.lastMovement),
               "waste_cogs", logged.lastMovement, q)

-----------------------------------------------------------------------------
(***************************************************************************)
(* submit_reconciliation.  A line says what was counted of an option and   *)
(* how much of what is missing was sold; the rest is waste.  The sales of  *)
(* all lines come first, then the waste, what was found, and the balances  *)
(* that a count of none clears.                                            *)
(***************************************************************************)
Line1(b, expected, counted, sold) ==
  [option |-> b, expected |-> expected, counted |-> counted, sold |-> sold]

Missing(line) ==
  IF line.expected > line.counted THEN line.expected - line.counted ELSE 0

Wasted(line) == Missing(line) - line.sold

\* One order for each unit.
SellUnits(d, line) ==
  LET SellUnit(i, db1) ==
        Sell(db1, CHOOSE o \in FreeOrders(db1) : TRUE, "reconciliation",
             SaleOf(line.option, 1))
  IN  FoldSet(SellUnit, d, 1..line.sold)

\* Mutant: the waste is written down and stays in stock.
LogWasteLine(d, line) ==
  IF Wasted(line) > 0 THEN LogMovement(d, "waste", line.option, -Wasted(line), Session)
  ELSE d

WasteLine(d, line) ==
  IF Wasted(line) > 0 THEN Waste(d, line.option, Wasted(line), Session) ELSE d

\* Mutant: a balance of nothing stays.
OffsetAndKeep(d, row, k) ==
  [d EXCEPT !.negative = (@ \ {row}) \union {[row EXCEPT !.qty = @ - k]}]

OffsetBalance(d, row, k) ==
  [d EXCEPT !.negative =
     (@ \ {row}) \union (IF row.qty > k THEN {[row EXCEPT !.qty = @ - k]} ELSE {})]

\* Mutant: what was found is not set against what was oversold.
RestockFound(d, line) ==
  LET b == line.option
      surplus == line.counted - AvailableQuantity(d, b)
  IN  IF line.counted <= line.expected \/ surplus <= 0 THEN d
      ELSE CreateLotWithItems(LogMovement(d, "restock", b, surplus, Session), b, surplus)

\* _process_surplus_inflow: one row of the option, then a lot of the rest.
SurplusInflow(d, line) ==
  LET b == line.option
      surplus == line.counted - AvailableQuantity(d, b)
      rows == BalanceRows(d, b)
      row == CHOOSE r \in rows : ById(r, rows)
      offset == IF rows = {} THEN 0 ELSE IF surplus < row.qty THEN surplus ELSE row.qty
      netted == IF offset = 0 THEN d ELSE OffsetBalance(d, row, offset)
      found == surplus - offset
      logged == LogMovement(netted, "restock", b, found, Session)
  IN  IF line.counted <= line.expected \/ surplus <= 0 THEN d
      ELSE IF found = 0 THEN netted
      ELSE PostCost(CreateLotWithItems(logged, b, found),
                    "restock_inflow", logged.lastMovement, -found)

ClearBalance(d, line) ==
  LET rows == BalanceRows(d, line.option)
  IN  IF line.expected >= 0 \/ line.counted # 0 \/ rows = {} THEN d
      ELSE [d EXCEPT !.negative = @ \ {CHOOSE r \in rows : ById(r, rows)}]

Submit(d, lines) ==
  LET Step(Op(_, _), d1) == FoldSet(LAMBDA line, d2 : Op(d2, line), d1, lines)
  IN  Step(ClearBalance, Step(SurplusInflow, Step(WasteLine, Step(SellUnits, d))))

\* consume_fifo_items raises for waste that the sales have not left.
Wastable(d, lines) ==
  \A line \in lines :
    Wasted(line) > 0 => Deficit(d, line.option, line.sold + Wasted(line)) = 0

-----------------------------------------------------------------------------
CountRoom == shop.lastMovement < MaxRows

\* By a thread of its own.
Serves(d) ==
  /\ CountRoom
  /\ shop' = d
  /\ UNCHANGED sheets

RestockGoods(b, q) ==
  Serves(LogMovement(CreateLotWithItems(shop, b, q), "restock", b, q, NoRef))

WasteGoods(b, q) == Deficit(shop, b, q) = 0 /\ Serves(Waste(shop, b, q, NoRef))

SellAtCounter(b, q) ==
  /\ FreeOrders(shop) # {}
  /\ Serves(Sell(shop, CHOOSE o \in FreeOrders(shop) : TRUE, "pos", SaleOf(b, q)))

CancelOrder(o) ==
  /\ shop.orders[o].status = "delivered"
  /\ Serves(CancelSale(shop, o))

\* A submission made from another position is told to load the draft again.  The
\* sheet has one line of each option, as the draft has; the route takes more.
ReadSubmit(w, counts) ==
  /\ sheets[w] = NoSheet
  /\ \E sold \in [DOMAIN counts -> 0..MaxCount] :
       LET lines == {Line1(b, ExpectedQty(shop, b), counts[b], sold[b]) :
                       b \in DOMAIN counts}
       IN  /\ \A line \in lines : line.sold <= Missing(line)
           /\ sheets' = [sheets EXCEPT ![w] = [op |-> "submit", lines |-> lines]]
  /\ UNCHANGED shop

SameAsRead(lines) == \A line \in lines : ExpectedQty(shop, line.option) = line.expected

WriteSubmit(w) ==
  LET lines == sheets[w].lines IN
  /\ CountRoom /\ sheets[w].op = "submit"
  /\ SameAsRead(lines) \/ "moves_while_counting" \in CountPractices
  /\ Cardinality(FreeOrders(shop)) >= MapThenSumSet(LAMBDA line : line.sold, lines)
  /\ Wastable(shop, lines)
  /\ shop' = Submit(shop, lines)
  /\ sheets' = [sheets EXCEPT ![w] = NoSheet]

\* Waste that is not there, or a failure: nothing of the submission stays.
UndoSubmit(w) ==
  /\ sheets[w] # NoSheet
  /\ sheets' = [sheets EXCEPT ![w] = NoSheet]
  /\ UNCHANGED shop

Counts == UNION {[S -> 0..MaxCount] : S \in SUBSET Options \ {{}}}

CountNext ==
  \/ \E b \in Options, q \in 1..MaxUnits :
       RestockGoods(b, q) \/ WasteGoods(b, q) \/ SellAtCounter(b, q)
  \/ \E o \in Orders : CancelOrder(o)
  \/ \E w \in Clerks :
       (\E counts \in Counts : ReadSubmit(w, counts)) \/ WriteSubmit(w) \/ UndoSubmit(w)

CountSpec == CountInit /\ [][CountNext]_countVars

-----------------------------------------------------------------------------
(***************************************************************************)
(* Properties                                                              *)
(***************************************************************************)
CountTypeOK ==
  /\ shop.lots \in Seq(Lot) /\ shop.items \in Seq(InventoryItem)
  /\ shop.negative \subseteq BalanceRow
  /\ \A r \in shop.negative : r.qty > 0
  /\ \A m \in shop.movements :
       /\ m.id \in 1..shop.lastMovement /\ m.type \in MovementType
       /\ m.option \in Options /\ m.ref \in Orders \union {NoRef, Session}
  /\ \A l \in DOMAIN shop.lots : shop.lots[l].remaining = Cardinality(AvailableOfLot(shop, l))
  /\ \A x \in shop.journal : x.lines \in [Accounts -> Int]

Submits(w) == sheets[w] # NoSheet /\ sheets'[w] = NoSheet /\ shop' # shop

(* After a count the tables have what was counted.  The exception is goods  *)
(* found of an option that is oversold: they are set against its balance.   *)
CountStands ==
  [][\A w \in Clerks : Submits(w) =>
       \A line \in sheets[w].lines :
         \/ ExpectedQty(shop', line.option) = line.counted
         \/ line.counted > line.expected /\ BalanceRows(shop, line.option) # {}]_countVars

(* Goods found beyond what is available move the position by their number,  *)
(* whether they make up for what was oversold or come back as stock; and    *)
(* nothing comes back as stock as long as the first balance is not made up. *)
FoundIsNetted ==
  [][\A w \in Clerks : Submits(w) =>
       \A line \in sheets[w].lines :
         LET b == line.option
             surplus == line.counted - AvailableQuantity(shop, b)
         IN  line.counted > line.expected /\ surplus > 0 =>
               /\ ExpectedQty(shop', b) = ExpectedQty(shop, b) + surplus
               /\ NegativeBalanceQty(shop, b) >= surplus
                    => AvailableQuantity(shop', b) = AvailableQuantity(shop, b)]_countVars

Restocked == MapThenSumSet(LAMBDA m : m.qty,
                           {m \in shop.movements : m.type = "restock" /\ m.ref = NoRef})

(* As long as nothing was oversold, every unit that was bought is in stock  *)
(* or its cost is booked, once: sold, cancelled, wasted, missing and found. *)
CostExplainsStock ==
  (\A m \in shop.movements : m.type # "negative_sale") =>
    Restocked = NetOf(shop.journal, "cogs")
                  + MapThenSumSet(LAMBDA b : ExpectedQty(shop, b), Options)

(* "Clear the negative_balance row so the system position resets to zero",  *)
(* submit_reconciliation.                                                   *)
ClearedIsZero ==
  [][\A w \in Clerks : Submits(w) =>
       \A line \in sheets[w].lines :
         line.expected < 0 /\ line.counted = 0 => ExpectedQty(shop', line.option) = 0]_countVars

=============================================================================
