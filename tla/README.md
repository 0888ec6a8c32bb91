# Specifications of baker

`baker` (`src/src/baker/`) is the backend of a bakery shop: a FastAPI application over one SQLite
database, used by a Flutter application (`src/app/`) and a command line. It keeps stock by lots
and items sold first-in first-out, orders and the items being baked for them, payments, a
double-entry journal derived from payments, orders and expenses, the cash drawer and its counts,
counts of the stock, and customers. This directory holds TLA+ specifications of these, TLC runs
over them, and TLAPS proofs.

- [The system](#the-system) - its parts, their state and what makes them correct
- [How requests are modelled](#how-requests-are-modelled)
- [Modules and code](#modules-and-code)
- [Ways of working](#ways-of-working) - what a run may assume of the staff
- [Runs](#runs), [Disagreements found](#disagreements-found), [Proofs](#proofs)
- [What is abstracted](#what-is-abstracted), [what is not modelled](#not-modelled) and the
  [plan](#plan)

To check a module: `tlc -workers 2 -config stock_races.cfg MCBakeryStock`. To check proofs:
`tlapm StockLedger_proofs.tla`.

## The system

Several requests run at once, each on a thread of the server's pool with a connection of its own
(`db/connection.py`), and beside them commands typed by an operator. They share nothing but the
database file, so every interaction below goes through its tables; one part calls another's
functions within its own transaction. Nothing runs in the background: there is no scheduler and no
queue. A request that fails is rolled back whole, except where a handler catches what a service
raises. That, and reads made before a transaction begins, are the two sources of hard behaviour.

| Part | State | Operations | Hard behaviour | Correct when |
|---|---|---|---|---|
| Stock tables, FIFO (`services/inventory_fifo.py`) | `stock_lots`, `inventory_items`, `negative_balance` | create a lot, consume, upsert the balance | two counters of one fact; shortage halfway; NULL in a unique index | a lot's counter is its available items |
| Order stock (`services/order_stock.py`) | `stock_movements` | deduct, reverse for an edit, restore | loops that may raise in the middle; "idempotent" by a read | an order holds exactly its lines, once |
| Stock API (`api/stock.py`) | as above | restock, waste, adjust | the count read before the write | what left by a movement is what it says |
| Orders API (`api/orders.py`, `services/order_lifecycle.py`) | `orders`, their JSON copy of the items, total, holder | create, edit, status, pay, claim | status, fee, items and holder read before the transaction; exceptions caught | row, items, stock and ledger agree |
| Work items (`api/work_items.py`), blanks (`api/blanks.py`) | `order_items`, `order_item_blanks` | create, edit, move, assign a blank | status derived up and cascaded down | a finished order has no work left |
| Payments (`api/payment_transactions.py`) | `payment_transactions` | create, update, delete, invalidate, restore | each corrects entries posted earlier | each payment is in the ledger once |
| Journal sync (`services/journal_sync/`) | `journal_entries`, `journal_lines` | post, update, reverse or delete, reconcile | entries found again by prefix and latest id; locked entries | ledger, payments and status agree |
| Journal lock (`api/accounts.py`) | `locked` | lock a period | a lock between a read and a write | a locked entry stands |
| Events, expenses, debts (`api/events.py`) | `events`, whose data list settlements | log, edit, delete, settle | a failed sync is swallowed; sources of no account; numbering of settlements | each expense is booked once, vendors are owed what is open |
| Validation (`services/accounting_validation.py`), repair (`commands/repair/`) | - | audit; put the books right | repetition; locked entries; requests in between | the audit is silent on right books, a second repair does nothing |
| Cash drawer (`api/cash_drawer.py`) | `cash_drawer`, links to entries | open, cash in and out, close, auto-close, edit, reconcile | sums read before the write; two closers | the drawer is what account 1101 says |
| Stock reconciliation (`api/reconciliations.py`), cost of goods (`journal_sync/waste.py`) | sessions, journal | count, submit | the position read before the write; oversold options | the tables become the count; cost follows goods |
| Customers (`api/customers.py`), address library | `customers`, phones, links, yearly volume | resolve, create, merge, delete | a customer gone while an order is taken; totals rewritten elsewhere | nothing refers to who is gone; volumes are current |
| Schema (`db/schema/`), started by `cli.py` and the service (`nix/module.nix`) | `schema_version`, all tables | migrate, restart | a kill halfway; two processes at once | the server comes up on the last schema |
| Sessions and roles; reports; printing; reference data; Flutter app | - | - | - | - |

`PROJECT.json` lists the same parts with their sources and what became of each, and the hazards
each one runs, at their lines.

## How requests are modelled

Python's `sqlite3` begins a transaction at the first INSERT, UPDATE or DELETE, and `BEGIN` is
deferred. A handler therefore has two phases:

- a **read phase**. Its SELECTs lock nothing and see what is committed. A `Read...` action takes
  them, and `pending[w]` keeps for thread `w` what it needs later: the status, the lines, the row,
  the sum. Other requests may commit before this one writes.
- a **write phase**, from the first write to the commit. SQLite lets one connection write, so it is
  alone. In `BakeryStock` it is a `Begin...` action, the iterations of the service loops and
  `Commit`, `Refuse` or `RaiseOut`; in `OrderBooks` it is one action but for the edit, which
  re-syncs each payment in a loop (`ResyncOne`, ids still to do in `left`). There `tx` is what the
  writer sees and `db` what is committed. In the other modules no step of a write phase can be
  seen and nothing raises halfway, so it is one action `Write...`, and there is `db` alone.

`Drop(w)` (`Refuse`, `Undo`) is a request whose client has gone, that is refused, or that did not
get the write lock in time: it has read and writes nothing. A handler that reads nothing relevant
before its first write is a single action. The migrations are the exception to all this: there
statements commit one by one, and `SchemaStart` models each statement, the write lock and the
transaction of each process.

Two simplifications. The SELECTs of a read phase happen at one instant. And no read phase starts
while a write phase runs: in WAL mode it would read `db`, which is what it was just before, so the
same request read earlier gives the same results.

## Modules and code

| Module | Code | What it says |
|---|---|---|
| `InventoryFifo` | `services/inventory_fifo.py`, tables in `db/schema/_constants.py` | the stock tables as a record `d`; each helper is an operator from the database it gets to the one it leaves |
| `OrderStock` | `services/order_stock.py` | one operator per iteration of the three services' loops |
| `BakeryStock` | `api/stock.py`, stock side of `api/orders.py`, `services/order_lifecycle.py`, `api/work_items.py`, `models/order.py` | the concurrent handlers |
| `StockPosition` | - | abstract specification: a net position per option and what each order holds of it |
| `StockLedger` | extends `BakeryStock` | the accounts as invariants, and the refinement of `StockPosition` |
| `StockCount` | `api/reconciliations.py`, `journal_sync/waste.py`, over `OrderStock` and `Journal` | counting the shelf while it is sold from; the cost of goods |
| `Journal` | `journal_sync/_common.py`, `models/journal_entry.py` | entries over the accounts `Accounts`, reversal or deletion, update in place, the lock |
| `OrderJournal` | `journal_sync/payment.py`, `journal_sync/order.py` | what a payment and a status do to the journal |
| `OrderBooks` | `api/payment_transactions.py`, money side of `api/orders.py`, `api/work_items.py`, `api/accounts.py` | the concurrent handlers of one order's money |
| `BooksAudit` | `services/accounting_validation.py` | what the audit finds in those books |
| `BooksRepair` | `commands/repair/` (payments, receivables, deposits, cancelled, revenue, tien_rut) | the commands run beside the handlers |
| `Expenses`, `ExpenseRepair` | `api/events.py`, `journal_sync/expense.py`; the audit of expenses and `commands/repair/debt_expenses.py` | expenses, debts and settlements, with syncs that fail |
| `CashDrawer` | `api/cash_drawer.py`, `models/cash_drawer.py` | the drawer's days, beside payments and expenses in cash |
| `WorkItems` | `api/work_items.py`, `services/order_lifecycle.py`, item tables of `api/orders.py` | one order and its items: derivation, cascades, the JSON copy |
| `OrderDesk` | `api/orders.py`, `api/work_items.py`, `api/blanks.py` | the concurrent handlers over them |
| `OrderClaim` | - | abstract specification: who holds an order |
| `Customers` | `api/customers.py`, `services/customer_resolver.py`, `services/address_library.py`, `api/orders.py` | customers beside the orders that refer to them |
| `Migrations` | `db/schema/registry.py` and its scripts | each of the 104 versions as statements on tables, columns and rows |
| `SchemaStart` | `ensure_schema`, `cli.py`, `commands/db.py`, `nix/module.nix` | processes that run them, are killed and restarted |
| `MC...` | - | small instances: values, patches, symmetry |
| `StockLedger_proofs`, `OrderBooks_proofs`, `OrderDesk_proofs`, `CashDrawer_proofs`, `Customers_proofs`, `Expenses_proofs`, `SchemaStart_proofs` | - | theorems |
| `SumTheorems` | - | what they need of sums and loops over finite sets |

State and actions. An *option* is a product at one price, the unit the stock tables group by
(`product_id`, `price_chip_id`); `BaseOptions` are those at the base price, whose `price_chip_id`
is NULL. `lots` and `items` are sequences indexed by row id, `movements` and `journal` sets of
rows with ids, `orders` a function (in `OrderBooks` and `OrderDesk` there is one order, as no step
of either relates two). In `BakeryStock` `wr` is what remains of a write phase: the negative sales
to reverse, whether old sales are then deleted, the lines to deduct, the sales to restore; it also
says whether the handler catches what the service raises (`swallow`: the status and edit routes
do, the create and work-item routes do not).

| Actions | Code |
|---|---|
| `RestockProduct`, `WasteStock`, `ReadAdjust`/`WriteAdjust` | the three routes of `api/stock.py` |
| `CreateOrder`, `ReadStatus` and `BeginPlainStatus`/`BeginDeduct`/`BeginRestore`, `ReadEdit`/`BeginEdit`, `SyncFromItems` (stock) | `create_order`, `transition_status` (which Begin depends on the first statement that writes), `edit_order` with items, `transition_work_item_status` |
| `ReverseNegative`, `ForgetSales`, `DeductOne`, `RestoreOne`, `RaiseOut`, `Refuse`, `Commit` | iterations and ends of the stock services |
| `CreateTransaction`, `UpdateTransaction`, `Delete...`, `Invalidate...`, `RestoreTransaction` | `api/payment_transactions.py` with the sync each calls |
| `RecordPayment`, `ReadPaymentMethod`/`UpdatePaymentMethod`, `ReadEdit`, `BeginEdit`, `ResyncOne`, `ReadStatus`, `WriteStatus`, `SyncFromItems` (money) | the money side of `api/orders.py`, and its absence in the work-item route |
| `ReadRepair`, `RunRepair` | a repair command with `--all`: it looks, then works in one transaction |
| `CreateOrder`, `CreateWorkItem`..`DeleteBlank`, `ReadMove`/`WriteMove`, `TransitionStatus`, `ReadPatch`/`WritePatch`, `ReadAssign`.. (`OrderDesk`) | the routes on one order's row and items |
| `ReadOpen`/`WriteOpen`, `ReadAutoClose`.., `ReadCash`.., `ReadClose`.., `ReadEdit`.., `Reconcile`, `BookDocument`.. | `api/cash_drawer.py`; payments and expenses in cash |
| `CreateEvent`, `ReadEvent`, `WriteEdit`, `WriteRename`, `WriteDelete`, `ReadSettle`/`WriteSettle` | `api/events.py` |
| `ReadSubmit`/`WriteSubmit`, `SellAtCounter`, `CancelOrder`, `RestockProduct`, `WasteStock` | `submit_reconciliation`, and what moves the same goods |
| `CreateCustomer`, `ReadUpdate..`, `ReadDelete..`, `ReadMerge`/`WriteMerge`, `ReadCreateOrder`.., `ReadEditOrder`/`ReadMoveOrder`, `EditItems`, `CreateEntry`, `DeleteEntry` | `api/customers.py`, the customer side of orders and of their items, the library |
| `StartServer`, `RunCommand`, `CommitFirst`, `Look`, `PassOver`, `Check`, `Execute`, `Fail`, `Finish`, `DbMigrate`, `Crash` | one statement, or one PRAGMA, of `ensure_schema` each; the service manager; a kill |

## Ways of working

The API accepts more than a shop does, and several invariants fail once some of it is allowed.
Instead of leaving such steps out, a guard of the action asks whether the constant `Practices`
contains the practice, so that what each run takes for granted is written in its `.cfg`.
`stock_races` and `closed_books` allow everything; the others name what they allow. The right
column is what TLC finds when the practice is added to the run the property belongs to, on a larger
instance where one is named in parentheses.

| Practice | What it is | What fails with it |
|---|---|---|
| **stock** | | |
| `reopen` | moving an order out of cancelled, by a status or by an item added to it | `OrdersHoldTheirLines`: its sale still exists, nothing is deducted |
| `step_back` | moving an order back to new | `OrdersHoldTheirLines`: it keeps its goods |
| `skip_confirm` | moving a new order past confirmed | `OrdersHoldTheirLines`: it never takes them |
| `short_stock` | confirming or editing without stock where none may be oversold | `StockIsConserved`, `ImplementsStockPosition`: the sale states the whole line, fewer items are consumed, the exception is swallowed |
| `edit_oversold` | editing an oversold order | `BalanceIsOwedByOrders` (disagreement 5) |
| `moves_while_counting` | selling between the check of a count and its writing | `CountStands` |
| **money** | | |
| `unbooked` | `PATCH /payment`, deposit at creation | `PaymentsAreBooked`, `HandOverSettles`: no entry is posted |
| `touch_void` | changing what was invalidated | `PaymentsAreBooked`: it is booked again |
| `unpay`, `over_refund` | taking a payment back after the hand-over or from a bus order; refunding more than the deposits (a pickup order) | `HandOverSettles` |
| `step_back` | leaving delivered or cancelled (a pickup order) | `RevenueRecognisedOnce` (disagreement 9), `HandOverSettles` |
| `by_items` | moving the order by its items, out of cancelled as well | `HandOverSettles`, `CancelledOwesNothing`: the route posts nothing |
| `switch` | changing the delivery type of a paid order (such patches) | `HandOverSettles`, `RevenueRecognisedOnce` |
| `close_books` | locking the journal | `PaymentsAreBooked` (disagreement 8), `CancelledOwesNothing`, `HandOverSettles` |
| `unbook` | repairing the deposits of a cancelled order that holds some | `PaymentsAreBooked`: valid payments leave the books, and the audit then asks for them again |
| `late_payment` | paying after the hand-over | nothing: `order_books` allows it |
| **order desk** | | |
| `same_position` | two items at one position, which is the default | `ListAgrees`: an edit takes one of them for both |
| `late_items` | adding items to a finished order | `FinishedWithItsItems` |
| `counter_sale` | creating an order delivered | `FinishedWithItsItems`: its items are pending |
| `stale_patch` | patching items while another request patches the fee | `ListAgrees`: the total is priced by what was read |
| `drop_blanks` | giving items anew, or deleting a blank, that has assignments | `ListAgrees`: the copy is not regenerated, or forgets them |
| `reassign` | a patch that names the holder (such patches) | `ImplementsOrderClaim`: the order passes without having been given up |
| **cash drawer** | | |
| `two_openers` | opening while another request opens | `BooksMatchDrawer`, `OneOpen` (disagreement 14) |
| `moving_count` | opening or closing while cash moves between sum and writing | `BooksMatchDrawer`, `CountsAreBooked`, `SnapshotExplainsClosing` |
| `late_cash` | cash put in or taken out as the drawer closes | `BooksMatchDrawer` |
| `edit_earlier` | changing cash that is not the open drawer's, or whose period is closed | `BooksMatchDrawer`: 1101 moves and the drawer's sum does not |
| **expenses** | | |
| `second_debt` | settling a debt by a number another debt has used | `VendorOwed`, `SettledIsCleared` (disagreement 2) |
| `edit_settled` | editing a debt settled in part: the data replace its settlements | `VendorOwed` |
| `unknown` | a category the books do not know, of a debt or a closed expense | `VendorOwed`, `ExpensesAreBooked`: nothing is reversed |
| `stale_settle`, `stale_delete`, `stale_rename`, `late_edit` | the named request overtaken by another on the same event | `ExpensesAreBooked` or `VendorOwed` (2 threads, 2 entries) |
| `stale_repair` | repairing an event that changes meanwhile | `ExpensesAreBooked` (2 threads, 2 entries) |
| `fail_corrected` | a failed sync of an expense corrected after a closed period | `ExpensesAreBooked` (disagreement 13) |
| **customers** | | |
| `two_edits` | editing an order while another request moves it to another customer | `SummaryIsCurrent` |
| **schema** | | |
| `interrupted_script` | a kill inside a script with an unguarded `ALTER TABLE` or a rebuild | `ComesUp` (disagreement 17) |
| `overlapping_start` | two processes migrating at once when a pending version does more than add | `ComesUp`: one finds the other's half, and the script cannot be run again |

Where a text in the repository promises otherwise the sequence is listed below as a disagreement;
the rest are recorded as hazards in `PROJECT.json`.

## Runs

| Run | Instance | Checks | States |
|---|---|---|---|
| `stock_races` | 2 threads, 2 options (one at the base price), 1 order, 3 movements started, every practice | `TypeOK`, `LotCountsMatch`, `ConsumptionIsRecorded` | 1 092 451 |
| `stock_shop` | 1 thread, 1 option, 2 orders, lines of 1 or 2, 5 movements | `OrdersHoldTheirLines`, `BalanceIsOwedByOrders`, `StockIsConserved`, `ImplementsStockPosition` | 996 692 |
| `order_books` | 1 thread, a bus order with fee 1 and subtotal 2, amounts 1 and 2, 3 payments, 4 entries started, late payments, all repair commands | `PaymentsAreBooked`, `HeldWithinFee`, `HandOverSettles`, `CancelledOwesNothing`, `RevenueRecognisedOnce`, `AuditFindsNothing`, `RepairsSettle` | 147 480 |
| `closed_books` | 2 threads, 1 payment, 2 entries started, every practice, periods closing, the six commands that respect locks | `TypeOK`, `ClosedBooksStand` | 862 576 |
| `order_desk` | 2 threads, 2 staff, a main item and a gift, 1 blank, patches of items or fee | `TypeOK`, `ListAgrees`, `FinishedWithItsItems`, `ImplementsOrderClaim` | 1 951 366 |
| `cash_drawer` | 2 threads, 2 drawers, 2 days, 3 entries, counts that differ from the books | `BooksMatchDrawer`, `SnapshotExplainsClosing`, `CountsAreBooked`, `ClosedStands` | 1 771 630 |
| `expenses` | 1 thread, 2 events, 1 vendor, amounts 1 and 2, 4 entries started, settlements from known and unknown sources, syncs that fail, the repair | `ExpensesAreBooked`, `VendorOwed`, `AuditTells` | 1 544 290 |
| `reconciliation` | 1 counter, 2 options, 3 sale orders, 3 movements started | `CountTypeOK`, `CostExplainsStock`, `CountStands`, `FoundIsNetted` | 112 520 |
| `customers` | 2 threads, 2 customers, 2 orders taken at one total and changed to another, 2 phones, 3 requests, 2 years | `TypeOK`, `SummaryIsCurrent`, `MergeKeepsPhones`, `UsedPairsStay` | 1 033 550 |
| `start_up` | the server and one command, 4 databases, 2 kills | `TypeOK`, `RecordedIsDone`, `BackfilledOnce`, `ServesTheSchema`, `ComesUp` | 51 647 |
| `double_confirm`, `second_debt` | one disagreement each | one property | violated |

What the properties mean. `LotCountsMatch`: `stock_lots.remaining_qty`, which FIFO trusts to skip a
lot, never drifts from the items, not even inside a transaction. `ConsumptionIsRecorded`: each
consumed item names a movement that is still there, of its own option, and no movement consumed
more than it says, though orders are edited (which deletes movements) while others sell.
`OrdersHoldTheirLines`: through confirm, edit and cancel an order has taken exactly what it lists
now. `BalanceIsOwedByOrders`: each oversold unit is owed once. `StockIsConserved`: cancelling puts
back exactly what was taken from the lots. `ImplementsStockPosition`: seen from
`net_available_quantity`, either stock comes and goes or one order changes what it holds, and the
position moves by the difference.

`PaymentsAreBooked`: however often a payment is corrected, invalidated and restored, the cash it
moved in the ledger is its amount. `HeldWithinFee`: payments split one by one between deposit and
shipping never hold more than the fee, though the fee changes after them. `HandOverSettles`:
delivery leaves no deposit and no held cash owed to the customer and recognises the right revenue
or receivable. `CancelledOwesNothing` and `RevenueRecognisedOnce`: whatever was posted on earlier
hand-overs is cleared. `ClosedBooksStand`: no commit changes or removes a locked entry.
`AuditFindsNothing`: over all that, and with any command run at any moment, the audit's checks of
balance, of booked and of doubly booked payments and of revenue stay silent. `RepairsSettle`: on
any reachable books, and on those books with one entry missing as a failed sync leaves them, a
command run twice does no more than run once.

`ListAgrees`: the JSON copy that tickets are printed from and the total agree with the item rows,
which three modules write. `FinishedWithItsItems`: whether a status was asked for or derived, a
finished order has no work left. `ImplementsOrderClaim`: claims pass by giving up.
`BooksMatchDrawer`: the open drawer's own sum is the balance of account 1101. `CountsAreBooked`:
after a count the ledger has what was counted. `SnapshotExplainsClosing`, `ClosedStands`: a closed
drawer explains what it should have held, and a second closer leaves it alone.
`ExpensesAreBooked`: an expense whose sync did not fail is in the ledger once with its amount.
`VendorOwed`: once no failed sync is left, a vendor is owed what the debts leave open, where only
what was paid from a source the books know counts as paid; a settlement from another source is
listed on the debt and posts nothing (disagreement 3), and so the debt and the ledger part.
`AuditTells`: before periods are closed the audit passes exactly when every expense is as a sync
would leave it and every settlement is booked as it is listed: a settlement of an unknown source, or
whose sync was swallowed, fails the audit though every expense is right, and so does one that
outlives its debt. `CountStands`, `FoundIsNetted`, `CostExplainsStock`: see their comments.
`SummaryIsCurrent`: a customer's page counts the orders of a year, and gives what they come to
unless items of one of them were changed since the volume was last computed; that it is always
right, as the code says, is `VolumeIsCurrent` (disagreement 4). `MergeKeepsPhones`,
`UsedPairsStay`, and `TypeOK` of `Customers`, which says that nothing refers to a customer who is
gone.
`RecordedIsDone`: a version that is recorded has all its row writes, `BackfilledOnce`: and none
twice; `ServesTheSchema`: from each old database the server ends on the same tables and columns.

**Liveness and fairness.** `ComesUp` is the one liveness property: the server comes up and stays
up. It assumes `WF(StartServer)`, because the service manager restarts the server whenever it has
failed (`nix/module.nix`, `Restart = "on-failure"`), and `WF(Step(p))`, because a process that runs
goes on running. Nothing is assumed of kills, of operators or of lock waits: a statement that meets
another's lock may wait or fail. All other specifications are `Init /\ [][Next]_vars`: in them
nothing waits or is retried, a request ends by itself or is dropped, and whether another comes is
up to the staff. Deadlock is checked except in `start_up` and `customers`, where the server is up
and no command is left to run, or the bound on requests is reached.

Bounds. `MaxMovements` and `MaxEntries` bound when a request may *start*; a started one finishes, so
the tables grow a little further. `MaxTxns`, `MaxDrawers`, `MaxItems`, `MaxCustomers`, `MaxOrders`
bound the rows ever created. Every hazard of two requests listed is a matter of one read phase and
one foreign commit, so two threads are enough. Three movements reach a restock, a sale by one thread
and a cancellation, edit or second sale by the other, with either order of commits; the shop run
needs more movements and fewer threads: a deduction, an oversale, their reversal and a second
order's sale. Three payments are the fewest where one fills the shipping, one is split across it and
one is left over; four entries started reach delivery unpaid, late payment and completion. Two days
and two drawers reach a drawer left open overnight, its automatic closing and the opening that takes
its expected sum. Four expense entries started reach a booked debt, a locked period, a correction
and a settlement, or a failed sync and its repair beside a debt settled twice. That run has one
thread, beside which periods close between a read and a write: what two requests can do to each
other is nearly all among the practices left out. With two threads and two entries started it passes
by hand (3 156 407 states, without `AuditTells`), and its first two properties are proved for any
number. At most one expense has a missing sync at a time, and any number of settlements. Three
customer requests reach a read, a foreign merge and the late write. Two kills reach one in a
migration and one in the restart after it; the four databases are none, and one before each kind of
rebuild that later versions undo. The theorems cover the other sizes of what they state. Symmetry:
threads and other interchangeable values; no `CHOOSE` ranges over the permuted values, and the only
temporal properties checked with it are action properties and safety specifications.

`order_books` runs on one thread, so races between two requests on the same payment are not claimed
to keep `PaymentsAreBooked` (they do not always; see the interleaving hazards in `PROJECT.json`).

## Disagreements found

Each is a property that restates a sentence of the repository, and a trace against it. The first
two are runs; the others are checked by hand with the module and `.cfg` named, whose property TLC
finds violated.

1. `double_confirm` (run) - the check that makes `auto_decrement_stock` "idempotent" is a read made
   before the transaction (`order_stock.py:32`): two confirmations both deduct.
2. `second_debt` (run) - settlements are numbered within their event and their entries found by
   that number alone (`events.py:832`): settling a second debt overwrites the first one's entry.
3. `MCExpenses`, `expenses.cfg` with the invariant `SettlementsAreBooked` - a settlement is to
   create its journal entry, and one whose payment source is of no account, the advance of a
   member of staff included, posts none (`expense.py:269`): only a blank source is refused, and
   the debt counts as paid.
4. `MCCustomers`, `customers.cfg` with the invariant `VolumeIsCurrent` - the yearly volume "always
   reflects the current state of orders", and the work-item routes rewrite the total of an order
   without computing it anew (`work_items.py:232`).
5. `MCStockLedger`, `edit_oversold.cfg` - an edit adds the deficit to the balance instead of taking
   it off (`order_stock.py:291`): one unit oversold and edited counts three.
6. `MCStockLedger`, `base_oversell.cfg` - the upsert of `negative_balance` never conflicts at the
   base price, NULLs being distinct in the unique index (`inventory_fifo.py:226`).
7. `MCStockLedger`, `unstocked_cancel.cfg` - a sale that consumed no item is restored as a whole
   lot (`order_stock.py:357`): confirming and cancelling creates stock.
8. `MCBooksRepair`, `restore_locked.cfg` - after a locked payment is invalidated, restoring it
   overwrites its reversal (`payment.py:487`): the payment is in the ledger twice.
9. `MCBooksRepair`, `stale_revenue.cfg` - the receivable branch of the revenue reconciliation does
   not clear an earlier revenue entry (`order.py:262`): an order delivered again carries both.
10. `MCBooksRepair`, `locked_receivable.cfg` - `repair-order-revenue` deletes a locked receivable
    (`order_revenue.py:85`).
11. `MCBooksRepair`, `second_repair.cfg` - `repair-deposit-balance`, which says it finds nothing the
    second time, does after a period was closed (`deposit_balance.py:170`).
12. `MCOrderDesk`, `late_unassign.cfg` - giving up an order may release another's claim
    (`orders.py:1976`).
13. `MCExpenses`, `expenses.cfg` with the practice `fail_corrected` - `repair-debt-expenses` makes
    the sync overwrite a reversal (`debt_expenses.py:187`): the expense is booked twice.
14. `MCCashDrawer`, `cash_drawer.cfg` with the practice `two_openers` and the invariant `OneOpen` -
    two requests open the day's drawer (`cash_drawer.py:417`).
15. `MCStockCount`, `cleared_count.cfg` - a count of none clears one of several balance rows
    (`reconciliations.py:771`).
16. `MCSchemaStart`, `start_up.cfg` with the invariant `BackedUpFirst` - `db migrate` never makes
    its backup: the group callback has migrated already (`commands/db.py:58`).
17. `MCSchemaStart`, `start_up.cfg` with the practice `interrupted_script` - a process killed inside
    a script with an unguarded `ALTER TABLE` can never migrate again (`registry.py:610`).

Three more things the money runs showed are not contradicted by any text. An order whose payments
only cover its shipping is handed over with neither revenue nor receivable, which
`source_completeness` then reports. After corrections of locked entries several checks report books
that are right. And `repair-deposit-balance` recognises the revenue of an overdue order that is
still open: on a pickup order, whose payments may still be lowered or re-typed, the later hand-over
adds a receivable beside it (disagreement 9 by another road), so `order_books` is of a bus order.

## Proofs

Each theorem is `Spec => []Inv` (`RepairSpec`, with the repair commands, in `OrderBooks_proofs`
where a row says so), or that it implies an action property or a specification, for any values of
the constants that satisfy the modules' named assumptions, which TLC evaluates in the runs. Where a
theorem needs more, its `ASSUME` says it: that requests do not overlap, that `Practices` lacks some
of the practices above, or, for the accounts of the stock, that the shop is an `OrderlyShop`; TLC
finds the invariant violated when one of them is given up.

| Theorem | States | Assumes |
|---|---|---|
| `StockLedger_proofs`: `TypeCorrect`, `LotsNeverDrift`, `ConsumptionStaysRecorded` (of `BakeryStock`) | `TypeOK`, `LotCountsMatch`, `ConsumptionIsRecorded` | - |
| `LinesAreHeld`, `BalanceIsOwed`, `StockStaysConserved` | `OrdersHoldTheirLines`, `BalanceIsOwedByOrders`, `StockIsConserved` | `OrderlyShop` |
| `CommitsMoveThePosition` | `ImplementsStockPosition` | `OrderlyShop` |
| `CountTyped`, `CostsStayExplained` (of `StockCount`) | `CountTypeOK`, `CostExplainsStock` | finitely many options and orders |
| `FindsAreNetted` | `FoundIsNetted` | finitely many options and orders |
| `CountsStand` | `CountStands` | the same, no `moves_while_counting` |
| `OrderBooks_proofs`: `BooksTyped`, `LockedEntriesStand` | `TypeOK`, `ClosedBooksStand` | - |
| `PaymentsStayBooked` | `PaymentsAreBooked` | one request at a time, periods stay open, no `unbooked`, `touch_void` |
| `FeeIsEnough` | `HeldWithinFee` | one request at a time, periods stay open |
| `CancelledIsClear` | `CancelledOwesNothing` | one request at a time, periods stay open, no `by_items` |
| `RevenueOnce` | `RevenueRecognisedOnce` | the same, no `step_back`, not `unpay` together with `late_payment` |
| `HandOverSettled` | `HandOverSettles` | the same, none of the practices of money but `late_payment` and `unbook`; the order keeps a price, and a bus order without a fee no refund |
| with the repair commands: `RepairsTyped` | `TypeOK` | - |
| `RepairsRespectLocks` | `ClosedBooksStand` | no `repair-order-revenue` |
| `AuditIsClean`, `SecondRunsDoNothing` | `AuditFindsNothing`, `RepairsSettle` | one request at a time, no `unbooked`, `touch_void`, `unbook`, `close_books` |
| `RepairsKeepPayments` | `PaymentsAreBooked`, `HeldWithinFee` | the same |
| `RepairsKeepCancelled` | `CancelledOwesNothing` | the same, no `by_items` |
| `RepairsRecogniseOnce`, `RepairsKeepSettling` | `RevenueRecognisedOnce`, `HandOverSettles` | as `AuditIsClean` and as without the commands, no `repair-deposit-balance` |
| `OrderDesk_proofs`: `DeskTyped` | `TypeOK` | - |
| `CopiesAgree` | `ListAgrees` | no `same_position`, `stale_patch`, `drop_blanks` |
| `HandedOverFinished` | `FinishedWithItsItems` | no `late_items`, `counter_sale` |
| `ClaimsPassByGivingUp` | `ImplementsOrderClaim` | no patch names the holder |
| `CashDrawer_proofs`: `FirstCountStands` | `ClosedStands` | - |
| `ReportAddsUp` | `SnapshotExplainsClosing` | no `moving_count` |
| `OneDrawerAtMost` | that at most one drawer is open | no `two_openers` |
| `BooksAgree`, `CountsStandInTheBooks` | `BooksMatchDrawer`, `CountsAreBooked` | no practice of the drawer |
| `Customers_proofs`: `CustomersTyped`, `MergesKeepPhones`, `AddressesStay` | `TypeOK`, `MergeKeepsPhones`, `UsedPairsStay` | - |
| `SummaryStaysCurrent` | `SummaryIsCurrent` | no `two_edits` |
| `Expenses_proofs`: `ExpensesStayBooked` | `ExpensesAreBooked` | no practice of expenses but `second_debt`, `edit_settled` |
| `VendorsAreOwed`, `SettledDebtsClear` | `VendorOwed`, `SettledIsCleared` | no practice of expenses |
| `AuditTellsFailures` | `AuditTells` | no practice of expenses |
| `SchemaStart_proofs`: `StartTyped`, `RecordedStaysDone`, `NothingTwice` | `TypeOK`, `RecordedIsDone`, `BackfilledOnce` | - |

**Stock.** `LotCountsMatch` alone is not inductive: to know that taking items off a lot keeps its
counter right one needs that the items taken are available, each once, of lots that exist, in a
well-typed database. `IInv` says that both databases, `db` and `tx`, are `Sound` (typed, and lots
count their items) and that requests and the write phase are typed, so that whatever `Begin` takes
from a stale read is still a line, an order or a movement. The argument goes bottom up: consuming
items, releasing items and creating a lot keep a database sound (the lemmas with cardinalities);
then each service iteration, being built of these; then each action. `ConsumptionStaysRecorded`
adds that every consumed item names a recorded outflow of its option (`Recorded`). Its hard step is
an edit: items are released by the first statement and the movements deleted by a later one, so the
invariant says of a write phase with `forget` that no item names a sale of its order any more.

**The accounts of the stock.** `OrderlyShop` (in `StockLedger`) is what the four theorems take for
granted, for any number of options, orders, forms and lines and any bounds: one request at a time
(disagreement 1), no practice of stock, options with a price chip (disagreement 6), lines that take
from stock (disagreement 7), and each option on one line of an order. The form and line lists of
`stock_shop` satisfy it, which TLC evaluates (`OrderlyInstance`).

None of the four invariants is inductive, nor are they together: they speak of what is committed,
and of sums. `Reckoned(d)` says row by row what makes the sums come out. `Books(d)`: an order has at
most one sale, one oversold row and one restoration of each option; a restoration is of the whole
sale; a sale consumed what it did not oversell; the balance row of an option is the total of the
oversold rows that are not given back (`Owed`), and its shelf is the total of the rows that count
less that. `Settled(d)`: each order `Stands` as its status says - a live order has a sale for each
line and none else, a cancelled one a restoration for each sale, a new one no row. `Stands` takes
what is still to do as arguments, the lines to deduct and the sales to restore, so that the same
predicate describes the middle of a loop: `Phase` says that a write phase has left the other orders
alone (`Apart`), that the books are right after each of its statements, and that the order stands as
its coming status says, but for what is left to do. `ShopInv` joins these, with what a request has
read being still so (`Fresh`). An edit releases the items of the old sales first and deletes the
sales later, with books that are wrong in between: `Phase` is then of the database without those
sales (`Working`). That no line raises in a loop whose exceptions are caught is the delicate part:
the lines were looked at before the loop, and each deduction leaves the stock of the other options
alone (`DeductLineBooks`), which is where one line of an option is needed; for the edit, releasing
brings back no less than there was (`MoreRaisesNone`).

From `ShopInv` the invariants follow order by order: `RowsOfOrder` lists the three shapes that the
rows of one order and option have, `HeldIs` and `ConsumedOfOrder` compute on them, and `SumByKind`
and `SumPlus` sum over the orders. In the refinement the net position of an option is the total of
its rows but the oversold ones (`NetIs`), so a stock request, which adds a row of no order, moves it
alone (`RecordMoves`), and a commit that left all orders but one alone moves it by what that order
holds (`HoldMoves`); all other steps leave `db` and stutter. That nobody ever holds less than
nothing, which `StockPosition` asks for, is `HeldIs`.

**Counting.** `StockLedger_proofs` extends `StockCount` too (whose names differ from those of
`BakeryStock` for that reason), as its tables are those of the theorems above and more: `Shelf(d)`
is the part the lemmas above speak of. `CostExplainsStock` sums movements, entries and items.
`Gap(d)` is what was bought less what is booked and what is in stock; each statement moves it by a
number known (`Drifts`): a movement, an entry, items taken or brought, a balance written; and those
of a request come to nothing. Two facts about rows are needed that the sums do not say. A cancelled
order gives back what its sale took and the cost its delivery booked, so an order that is delivered
has one of each, of the same quantity, and one not taken has none (`Handed`). And a submission sells
first and wastes after: waste finds its units as long as the lines are of distinct options and none
sells more than is missing (`Sheet`), which holds however the stock has moved since the lines were
checked, as the code looks at the tables again (`Wastable`); so neither `CountTyped` nor
`CostsStayExplained` needs `moves_while_counting` left out. The four loops over the lines and the
one over the units are folds over sets in the order that `CHOOSE` gives; `FoldKeeps` says that a
fold keeps what its steps keep, a property that may depend on the lines already passed.

The other two theorems say what a submission leaves of each position, oversold options included.
`EachPass` says that a pass over the lines makes of an option what that option's own line makes of
it: the lines are of distinct options, so each finds its option as the pass found it and is the last
to touch it (`SameAt`). `LineCounts` is what the four passes make of one option together (what was
found comes in less the `k` that makes up for balances, what was missing goes out), `SubmitGood`
shows it of any submission and `Submitted` of those in a reachable state. `OffsetTotal` and
`Balances` are about the rows of a balance: ids are unique, so a row offset takes exactly what it
was offset by off the total, and nothing comes back as stock before the first row is made up.
`FindsAreNetted` compares the tables before and after, so it holds whatever moves while counting;
`CountsStand` compares the tables left with the sheet, which was written from a position read
earlier, and needs that this is the position the submission finds.

**Money.** `LockedEntriesStand`: `Follows(d, d2)` says that entries keep their columns, with ids up
to the counter (so a new entry never coincides with a locked one), and that the locked entries of
`d` are in `d2`; it composes, and each helper of `Journal`, hence each sync of `OrderJournal`, gives
a database that follows the one it got. An edit has a loop with a commit at its end, so `BooksInv`
relates `tx` to `db` while it runs. The delicate cases are the two where the code deletes or updates
an entry: the update branch of `SyncPayment` is guarded by the lock of the entry it found, and
`ReverseOrDelete` by that of its argument. `BooksTyped` types what a late write brings.

The theorems about balances are of requests one at a time (`OneAtATime`) before any period is closed
(`NeverClosed`): both are needed. Then every source of the journal has at most one unreversed entry
(`Tidy`), `Phase` says how far an edit's loop has come, and `CalmInv` joins them. On it stand
`BookedInv` (each payment's cash in the entries of its key), `HeldInv` (what is held by the payments
that are not yet synced again stays within the fee), `CancelInv` and `RevenueInv` (which of revenue,
receivable and deposits may be booked in which status).

**The hand-over.** `HandOverSettles` needs all the invariants of the money and one more, for the
four balances of a hand-over are about how each payment was split when it was last synced, under a
fee that may have changed since. `EvenInv` says it: each entry of a payment is worth that payment,
deposits and shipping together (`Split`); either the payments hold the fee in full, or each of them
holds all it can (`Filled`, which while an edit's loop runs leaves out the payments still to come);
a bus order has no refund (`Refundless`); and nobody was given back more than was paid (`Repaid`).
Then deposits and shipping together are what was paid (`PaidIsBooked`, a sum over the entries set
against one over the rows), what the bus is given is what was held, and the entry of the revenue
takes the rest. That `Filled` survives a correction is the hard step: a smaller fee must not leave a
payment that could hold more, nor a smaller payment others that could take its place, which is where
`unpay` is left out. Two conditions are on the state and not on a practice, `Priced` and
`FreeUnrefunded`, and TLC finds the property violated without either: the reconciliation of an
unpaid order whose total is 0 leaves the revenue it finds, and a refund made while a bus order had
no fee left the deposits only, when a later fee holds part of what they came from. All states of
`order_books` satisfy both.

**Repair.** With the commands beside the routes two things are to be shown of a command: what it has
read is still so when it writes (`FreshRepair`), and what it does to books that are in order is some
of the syncs of the routes, on a subset of the entries of the order and its release (`Mends`). Most
flag nothing on such books or do what a hand-over has done; so each invariant above is kept as it is
by a hand-over (`RepairsKeep`). The one that is not is `RevenueInv` under `repair-deposit-balance`,
which recognises the revenue of an overdue order that is still open (the last of the three things
above): it is left out of the two theorems that need it. For the audit every entry that a helper
posts is `Proper`: its lines sum to nothing, and what a revenue entry takes out of the deposits is
its revenue. `JournalBalances` is then a sum over accounts against one over entries, and `BookedInv`
says the rest of `AuditFindsNothing`.

`RepairsTyped` and `RepairsRespectLocks` ask nothing of the way of working, and use `Follows` again.
The commands with a loop are recursive functions here, and a recursive function is only what its
definition chooses: that there is one with these values is shown turn by turn (`Iterates`), that the
chosen one has them follows, and that each value follows the books at the start is `Turns`. Only
`RepairRevenue` deletes without a look at the lock (disagreement 10), so it keeps types and not
locks.

`SecondRunsDoNothing` is about one state and two runs of a command on it. It needs of the state only
that its entries belong together (`Tidy`) and are `Proper`, and both survive when an entry is taken
away: so the theorem speaks of books with a gap as well, and `Priced` and the like are not needed.
What a reconciliation posts is a function of the order and the entries it reads (`Given`), and books
that hold this are left as they are (`GivenStays`, `ReconcileTwice`). What remains is that a command
does not move what it reads: of all helpers only the revenue entry takes from the deposits, by what
`Proper` says it may (`MovingIsRevenue`), so after it no receivable is due a second time
(`RevenueSettles`). A command with a loop leaves every payment it flagged in order, turn by turn
(`Resynced`, `Unbooked`), and so flags none again.

**The order desk.** The refinement mapping of `ClaimsPassByGivingUp` is the identity on the holder.
A step must either leave the holder, or be a claim by staff of an order nobody holds, or give it up:
`Keeps` and `Yields` name the cases. `ClaimInv` says what a late write may find in `pending`: claims
are by staff and patches leave the holder alone.

`FinishedWithItsItems` relates the order's status to those of its items, which different routes
write. A step either `Stays` (the status is kept and no main item appears or leaves its status), or
gives the order a status after cascading it (`CascadeFinishes`, a case per target), or derives it
from the items (`DerivedIsFinished`: the least live status is the highest only if all are). The hard
step is the edit of the whole list, whose rows are taken by position: `PutStays`.

`ListAgrees` compares the copy on the order and its total with the rows. The code writes the copy in
two ways: from the rows, or from a patch, whose tally must then be what the rows come to. `ListInv`
says that positions are apart and that a pending patch is of an order that exists; under it the rows
after an edit are the patch read by position (`PutRowsAre`, a bijection between indices and rows),
equal tallies and equal sums follow, the sum by way of `SumByKind`. With `same_position` two rows
answer to one index and the bijection fails, as the code does.

**The drawer.** `Stands(d, d2)` says that what `d` has closed is closed in `d2` on the same count;
it composes, and each write is shown to stand, the automatic closing of several days and the opening
built on it included. Two facts of the code carry it: the UPDATE of a closing matches an open row
only, and the automatic closing of a row that is closed already takes its snapshot anew and no more.
`ReportAddsUp` splits the sum of a drawer's entries into its categories (`SumByKind`). `BooksAgree`
rests on `Matched`: at most one drawer is open, and what it should hold, by its opening and the
entries linked to it, is the balance of account 1101; a closing moves both by the same difference.

**Customers.** `Sound(d)` says that the rows are typed, that customers with phones have a main one,
and that whatever refers to a customer refers to one that is there; `RequestOK` types what a request
has read, of which the theorems use little: an order is there as long as the database and keeps its
year. Each operation is shown to keep `Sound`. `CurrentBut(d, but)` is `SummaryIsCurrent` but for
the volumes in `but`, the pairs of customer and year that a write has still to compute. As in the
property, the number of orders is to agree for every pair and what they come to for those not in
`db.stale`, to which a change of items adds its order's and from which `Recompute` takes. An order
saved makes those of its old and its new customer stale (`OrderSaved`), `Recompute` takes one out
(`RecomputeKeeps`), a merge makes those of both customers stale, computes the target's for every
year it has orders in, and deletes the other's (`MergeIntoKeeps`). The write of a moved order
computes anew the volume of the customer it *was read with*: that this is the one it has is what
`two_edits` gives up. The loops (`Marked`, `CopyPhones`, `MergeAll`) are folds of the community
modules. `FoldGoes` unrolls one into the sequence of its intermediate values, from its definition,
as the sums below are; an argument from turn to turn is then one about a set of indices (`Turns`).
`RecomputeAllIs` gives the closed form of the fold over the years, in whatever order.

**Expenses.** An entry is found by its source and what it is of, so the journal falls into one set
of entries for each such key, and each primitive changes the set of one key (`Changes`). `Orderly`
says what such a set looks like while its expense or settlement lives: one entry, or a latest one
that is no reversal and others that come to nothing, one of them locked. Without the part about the
reversal the invariant is not inductive: the code takes the entry with the highest id for the one
that stands, and a reversal found there is overwritten, which is disagreement 13. `ResyncStands` and
`UnsyncGone` are the two facts about a key; a period closed in between keeps both (`LockedStay`).
`Upkeep` says of every expense that its set is orderly and stands as the row says, or has no entry
where the books do not know the category, unless its sync failed; that one whose sync failed was not
corrected, unless it was to be taken back, and stands as some expense of the form; and that a
deleted one comes to nothing and keeps entries only of a closed period (`Gone`), unless the sync of
its deletion failed. `Requests` types what the requests read, which the guards on `Practices` tie to
the row that is there. The repair has two branches, delete and book anew or book what is missing;
that it makes up for a failed sync (`RepairKeeps`) rests on the missed expense having no reversal.
That its order is of no account follows from there being one event to repair, the model's bound of
one expense's failed sync at a time.

`VendorOwed` sums the journal of a vendor over all keys. `DebtsKept` gives each settlement number to
one debt: a number no debt lists has no entry and is not in `lost`. One that a living debt lists
stands as listed (`SettlementStanding`) if its source is one the books know and its sync did not
fail, and has no entry if not; one that a deleted debt lists is gone, or stands if the sync that was
to take it back failed. It has at most one debt with settlements, which is all that `second_debt`
leaves when every debt counts from 1 (the finding of `second_debt` is the next one). Then the
journal is summed by source and key (`SourceNet`, from `SumByKind`), the debts' part against the
settlements' part event by event (`SumPlus`), where only the settlements from known sources count
(`SettledIs`); `SettledDebtsClear` is a consequence. The deletion of a debt takes its settlements
back in a loop of which any turn may fail, a recursive function that `TakenBackExists` shows to
exist and `UnsettledGone` follows from one to the next.

`AuditTells` needs no more invariant than these two. While nothing is locked, `Orderly` and `Gone`
leave each key one entry or none (`OneOrNone`, `EntryOfExpense`, `EntryOfSettlement`), so a sync
would leave an expense as it is exactly when it is `Correct` (`AsSyncedIsCorrect`): booked as its
row says, or gone with it. In the same way the settlements are as a debt lists them exactly when
each of a living debt has its entry and none of a deleted one has (`Tidy`, by `AsListedIsTidy`). The
total of all debits, over entries and accounts, is what the expenses come to event by event
(`ExpensesDebited`), the gap is therefore that of the one event whose sync failed (`GapOfMissed`).
The gap of the settlements is that of the one debt that has any: it is the sum of those listed
without an entry while the debt lives and of those left behind once it is deleted, and as every
amount is positive it is nothing exactly when the debt is `Tidy` (`SettlementsBalance`). A failure
that leaves no gap and the right account credited has left the right lines (`LinesTell`), and a
deletion that left its entry is found (`PassesGone`): no two errors cancel out here, which holds of
one missing expense and one settled debt and would not of two.

**Migrations.** What is assumed of the registry is named and evaluated by TLC on the 104 versions:
no script writes a row that counts, and no callable writes one before an `executescript` of its own
or after a look that may end it (`RegistryAssumption`); the databases found hold what they record,
and their columns are of tables (`DatabasesAssumption`). Under it a version's row writes and its
record are one transaction, though its tables and columns are committed piece by piece. `StartInv`
says so of what is committed, and of each process that migrates that what it sees has the row writes
before its place in the program of its version, and of a version not recorded none after it. The
delicate case is a second process that read the version before the first one recorded it: it writes
the same rows again. `Repeated` says that it then sees the version recorded already, so that its own
record breaks the primary key and all it has written is rolled back; and a script, which would
commit, is over by then. Neither practice left out of `start_up` is left out here: they keep the
server from coming up, not the rows right.

**Sums.** The library has no theorem about its folds, and its induction over finite sets takes an
operator as a parameter, which the installed provers cannot instantiate. `SumTheorems` proves what
the accounts need of `SumFunctionOnSet` from its definition: a sum that disagrees has a smallest set
on which it does (`SmallestSubset`, by well-foundedness of finite subsets), and one element taken
out of it gives the contradiction. From this come `SumUnion`, `SumByKind` (kind by kind is the
whole), `SumPlus` (termwise), `SumConstant` and sums along a bijection. `FoldKeeps` is the
counterpart for a loop over a set, `Turns` and `Iterates` for loops over numbers, by a least
counterexample.

**Only model-checked.** `ServesTheSchema` compares what 104 versions make and drop, a computation on
the registry and not an argument. Liveness (`ComesUp`) and ENABLED are out of the prover's reach.

## What is abstracted

- Stock: prices, product names and attributes; a line that is not a display product or is a gift
  does not touch this stock and is left out of an order's lines. Restocked times follow row ids.
  In `StockCount` every unit costs 1, so which cost a unit resolves to (`cost_resolver.py`) and the
  cost of gifts are left out; sales there are of one line and all delivered at once. A sheet
  has one line per option: the route also takes several, each checked against the same expected
  count (`reconciliations.py:656`, a hazard no property covers), so what is checked and proved of
  counts is of sheets like those the application sends.
- Edits: `BakeryStock` has patches of the items, `OrderBooks` of price, fee or delivery type one at
  a time, `OrderDesk` of items, fee and holder, `Customers` of total, place or customer. A patch of
  `source`, notes or dates is left out.
- Money: dates, actors and descriptions, of which only the prefix the code searches by is kept
  (`text`). Assets 11xx and 12xx are one account outside `CashDrawer`, which in turn keeps account
  1101 alone. The types deposit, payment and full payment are one type, booked alike. A locked
  period reaches from the first entry to now. Amounts are whole numbers (the columns are REAL, the
  shop's amounts whole dong), so rounding is not modelled.
- A journal sync raises when an account is missing from the chart. In `Expenses` the sync of an
  expense, posted or taken back, may fail for at most one expense at a time, and that of any
  settlement; of payment sources only whether the books know them is kept. In `OrderBooks` no sync
  fails, but `RepairsSettle` takes each entry away.
- Order statuses `in_progress` and `ready` are left out of `OrderBooks`: no journal step tells them
  from `confirmed`. `OrderDesk` has all of them; its run asks for those where a property may fail.
- Items: what the staff type in is a form, with what it costs; several fields are one. A blank's
  own quantity is left out. Completing an order needs it to be paid for, which is not looked at.
- The drawer: the proposals the API asks to confirm are confirmed or dropped. Reports are read-only.
- Repair: the `--all` form; the commands run one order at a time over the books of one order.
- Customers: names and phones are in normal form, a form has at most two phones and none of them is
  blank, though the routes take both. A library entry is its pair of address and link;
  those without a link meet no order, and the PATCH of an entry is left out. Orders keep the year
  they were taken in.
- Migrations: texts of seeds, indexes and the values a backfill computes. SQLite's wait for a lock
  of five seconds is a choice between waiting and failing. Files outside the database are left out.
- In `stock_shop` each option is on one line of an order. With two lines of one option a
  cancellation loses the items of the second (hazard at `order_stock.py:357`).

## Not modelled

- Authentication and roles (`api/auth.py`): token and password checks by libraries, and counters of
  failed logins in memory. They decide who may call a route; the one role that matters here, the
  admin who may give up an order, is the constant `Admins`.
- `commands/repair.py` is shadowed by the package `commands/repair/`: Python imports the package,
  and nothing can run the module. Four of the package's commands treat one past incident each.
- Cash flow and reports (`services/cashflow.py`, `api/reports/`, `commands/report.py`): queries.
- Reference data (checklist, knowledge, templates, categories, products, attributes,
  configuration): single statements, each a transaction of its own.
- Printing and receipts: I/O and layout. The Flutter application: a client of the same operations,
  whose retries appear as repeated requests.

## Plan

Done, in the order of importance: stock and its handlers; the order's money and its handlers; items
and claims; drawer; expenses; audit and repair; counts; customers; migrations; the theorems above.

What is left, in the order of what it would add:

1. Races on one payment (two invalidations; a method change against a correction) as properties of
   `OrderBooks` with two threads, which needs a smaller instance of the rest.
2. Costs of goods beyond one per unit: `cost_resolver.py`, gifts, and `repair-inventory-cogs`.
