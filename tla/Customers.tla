----------------------------- MODULE Customers -----------------------------
(***************************************************************************)
(* The customers of the shop, with their phones, orders, yearly volume and *)
(* addresses: api/customers.py, models/customer.py, customer_resolver.py,  *)
(* address_library.py, and what api/orders.py calls of them.               *)
(*                                                                         *)
(* Names and phones are compared in their normal form, and an entry of the *)
(* address library is its pair of address and link; entries without a link *)
(* meet no order and are left out.  A request reads, and writes later in   *)
(* one transaction that a foreign key may undo: in pending[w] is what it   *)
(* has read.  The field stale of the database is no column: it tells which *)
(* volumes a change of an order's items came after.                        *)
(***************************************************************************)
EXTENDS Integers, SequencesExt

CONSTANTS
  Workers,       \* request threads
  Names,         \* what customers are called
  Phones,        \* their phone numbers
  Addresses,     \* where orders are delivered to
  Links,         \* map links of addresses
  Totals,        \* what orders come to
  NewTotals,     \* what new ones come to, of Totals
  MaxCustomers,  \* bound on the customers ever created
  MaxOrders,     \* bound on the orders ever taken
  MaxRequests,   \* bound on the requests started, but for new customers
  MaxYear,       \* bound on the years that pass
  Practices      \* what the staff do, of AllPractices

\* Editing an order as another request gives it to another customer.
AllPractices == {"two_edits"}

None == "none"          \* no phone, no name, no link
WalkIn == "walk_in"     \* "Khách lẻ"
Nameless == "nameless"  \* "Khách"

ASSUME CustomersAssumption ==
  /\ {None, WalkIn, Nameless} \intersect (Names \union Phones \union Links) = {}
  /\ Totals \subseteq Nat /\ NewTotals \subseteq Totals
  /\ MaxCustomers \in Nat /\ MaxOrders \in Nat /\ MaxRequests \in Nat /\ MaxYear \in Nat
  /\ Practices \subseteq AllPractices

VARIABLES
  db,       \* the committed database
  year,     \* the year of the clock
  started,  \* such requests so far
  pending   \* what each worker's request has read, or Idle

vars == <<db, year, started, pending>>

Idle == [op |-> "idle"]
NoCustomer == 0

\* f with the value v for x.
Put(f, x, v) == [y \in DOMAIN f \union {x} |-> IF y = x THEN v ELSE f[y]]

Pair == Addresses \X Links
PhoneRow == [phone : Phones, primary : BOOLEAN]

Init ==
  /\ db = [customers |-> <<>>, lastCustomer |-> 0, orders |-> <<>>, summary |-> <<>>,
           library |-> {}, links |-> {}, stale |-> {}]
  /\ year = 1 /\ started = 0
  /\ pending = [w \in Workers |-> Idle]

-----------------------------------------------------------------------------
(***************************************************************************)
(* Phones                                                                  *)
(***************************************************************************)
PhonesOf(rows) == {rows[i].phone : i \in DOMAIN rows}

\* Those that are a main number, or are none.
Marked(rows, primary) ==
  LET Keep(kept, row) == IF row.primary = primary THEN Append(kept, row) ELSE kept
  IN  FoldLeft(Keep, <<>>, rows)

\* ORDER BY is_primary DESC, id ASC.
PrimaryFirst(rows) == Marked(rows, TRUE) \o Marked(rows, FALSE)

\* _primary_phone of the rows.
PrimaryPhone(rows) == IF rows = <<>> THEN None ELSE PrimaryFirst(rows)[1].phone

OnePhone(p) == IF p = None THEN <<>> ELSE <<[phone |-> p, primary |-> TRUE]>>

TwoPhones(p, q) == OnePhone(p) \o <<[phone |-> q, primary |-> FALSE]>>

\* What a request may give for phones, each number once.  Merges make longer lists.
PhoneLists ==
  {OnePhone(p) : p \in Phones \union {None}} \union
  {TwoPhones(x[1], x[2]) : x \in {x \in Phones \X Phones : x[1] # x[2]}}

-----------------------------------------------------------------------------
(***************************************************************************)
(* The customer of an order                                                *)
(***************************************************************************)
Ids(d) == DOMAIN d.customers
OrdersOf(d, c) == {i \in DOMAIN d.orders : d.orders[i].customer = c}

Named(d, name) == {c \in Ids(d) : d.customers[c].name = name}
Owners(d, phone) == {c \in Ids(d) : phone \in PhonesOf(d.customers[c].phones)}
LegacyOwners(d, phone) == {c \in Ids(d) : d.customers[c].phone = phone}

FirstId(S) == IF S = {} THEN NoCustomer ELSE Min(S)

\* Of several owners, the one who ordered first.
EarliestOrder(d, owners) ==
  LET theirs == UNION {OrdersOf(d, c) : c \in owners}
  IN  IF Cardinality(owners) = 1 \/ theirs = {} THEN Min(owners)
      ELSE d.orders[Min(theirs)].customer

\* _resolve_customer_id_by_phone.
ResolveByPhone(d, phone, name) ==
  IF phone = None THEN NoCustomer
  ELSE IF Owners(d, phone) # {} THEN EarliestOrder(d, Owners(d, phone))
  ELSE IF LegacyOwners(d, phone) # {} THEN FirstId(LegacyOwners(d, phone))
  ELSE IF name = None THEN NoCustomer ELSE FirstId(Named(d, name))

\* NoCustomer if one is to be created.
Resolve(d, phone, name) ==
  IF phone = None /\ name = None THEN FirstId(Named(d, WalkIn))
  ELSE ResolveByPhone(d, phone, name)

SaveCustomer(d, name, phone, rows) ==
  LET c == d.lastCustomer + 1
  IN  [d EXCEPT !.lastCustomer = c,
                !.customers = Put(@, c, [name |-> name, phone |-> phone, phones |-> rows])]

CreatedName(phone, name) ==
  IF name # None THEN name ELSE IF phone # None THEN Nameless ELSE WalkIn

\* A request's customer: found when it read, or created as it writes.
WithCustomer(d, who) ==
  IF who.customer # NoCustomer THEN d
  ELSE SaveCustomer(d, CreatedName(who.phone, who.name), who.phone, OnePhone(who.phone))

CustomerOf(d, who) ==
  IF who.customer # NoCustomer THEN who.customer ELSE d.lastCustomer

-----------------------------------------------------------------------------
(***************************************************************************)
(* Volume by year                                                          *)
(***************************************************************************)
OrdersIn(d, c, y) == {i \in OrdersOf(d, c) : d.orders[i].year = y}

Volume(d, c, y) ==
  [count |-> Cardinality(OrdersIn(d, c, y)),
   total |-> MapThenSumSet(LAMBDA i : d.orders[i].total, OrdersIn(d, c, y))]

\* _recompute_customer_year_summary.
Recompute(d, c, y) ==
  IF c = NoCustomer THEN d
  ELSE [d EXCEPT !.summary = Put(@, <<c, y>>, Volume(d, c, y)), !.stale = @ \ {<<c, y>>}]

RecomputeAll(d, c, years) == FoldSet(LAMBDA y, d1 : Recompute(d1, c, y), d, years)

-----------------------------------------------------------------------------
(***************************************************************************)
(* The address library                                                     *)
(***************************************************************************)
\* The pair that an order to the door refers to, if any.
PairOf(order) ==
  IF order.door /\ order.link # None THEN {<<order.address, order.link>>} ELSE {}

\* sync_on_order_save.
UpsertPairs(d, pairs, c) ==
  [d EXCEPT !.library = @ \union pairs, !.links = @ \union ({c} \X pairs)]

\* delete_library_entry, with the links to it.
DeletePairs(d, pairs) ==
  [d EXCEPT !.library = @ \ pairs, !.links = {x \in @ : x[2] \notin pairs}]

UsedByOthers(d, i) == UNION {PairOf(d.orders[j]) : j \in DOMAIN d.orders \ {i}}

\* Mutant: nobody asks for other orders that are delivered there.
DropPair(d, i, pairs) == DeletePairs(d, pairs)

\* _maybe_delete_library_pair.
MaybeDeletePair(d, i, pairs) == DeletePairs(d, pairs \ UsedByOthers(d, i))

\* sync_on_order_edit.
SyncOnEdit(d, i, old, new, c) ==
  UpsertPairs(MaybeDeletePair(d, i, PairOf(old) \ PairOf(new)), PairOf(new), c)

-----------------------------------------------------------------------------
(***************************************************************************)
(* _merge_customer_into_target.  A source that is gone has nothing.        *)
(***************************************************************************)
\* The phones a customer is reached at: the rows, or else the column.
ReachedAt(customer) ==
  IF customer.phones # <<>> THEN PrimaryFirst(customer.phones) ELSE OnePhone(customer.phone)

PhonesOfId(d, c) == IF c \in Ids(d) THEN ReachedAt(d.customers[c]) ELSE <<>>

\* Mutant: the number that the target had in its column alone is lost.
KeepRows(customer) == customer.phones

\* The rows of the target, or the number in its column made one.
Materialized(customer) ==
  IF customer.phones # <<>> THEN customer.phones ELSE OnePhone(customer.phone)

\* The first copied is the main number of a target that had none.
CopyPhones(mine, theirs) ==
  LET Copy(rows, row) ==
        IF row.phone \in PhonesOf(rows) THEN rows
        ELSE Append(rows, [phone |-> row.phone, primary |-> rows = <<>>])
  IN  FoldLeft(Copy, mine, theirs)

Relink(d, s, t) ==
  [d EXCEPT !.orders = [i \in DOMAIN @ |-> IF @[i].customer = s
                                           THEN [@[i] EXCEPT !.customer = t] ELSE @[i]]]

\* The rows that refer to a customer go with it.
DeleteCustomerRow(d, c) ==
  [d EXCEPT !.customers = Restrict(@, DOMAIN @ \ {c}),
            !.summary = Restrict(@, {k \in DOMAIN @ : k[1] # c}),
            !.links = {x \in @ : x[1] # c}]

YearsOf(d, c) == {d.orders[i].year : i \in OrdersOf(d, c)}

MergeInto(d, t, s) ==
  LET phones == CopyPhones(Materialized(d.customers[t]), PhonesOfId(d, s))
      relinked == Relink(d, s, t)
      recomputed == RecomputeAll(relinked, t, YearsOf(relinked, t))
  IN  [DeleteCustomerRow(recomputed, s) EXCEPT
         !.customers[t].phones = phones, !.customers[t].phone = PrimaryPhone(phones)]

\* One source after the other.
MergeAll(d, t, sources) == FoldLeft(LAMBDA d1, s : MergeInto(d1, t, s), d, sources)

-----------------------------------------------------------------------------
(***************************************************************************)
(* Requests                                                                *)
(***************************************************************************)
MayStart(w) == started < MaxRequests /\ pending[w] = Idle

Starts(w, request) ==
  /\ started' = started + 1
  /\ pending' = [pending EXCEPT ![w] = request]
  /\ UNCHANGED <<db, year>>

Commits(w, d) ==
  /\ db' = d
  /\ pending' = [pending EXCEPT ![w] = Idle]
  /\ UNCHANGED <<year, started>>

Touches(p) == p.op = "move" \/ (p.op = "edit" /\ "total" \in DOMAIN p.data)

\* What a foreign key or a row that is gone forbids when the request writes.
Refused(d, p) ==
  \/ p.op = "update" /\ p.c \notin Ids(d)
  \/ p.op = "delete" /\ OrdersOf(d, p.c) # {}
  \/ p.op = "merge" /\ p.t \notin Ids(d)
  \/ p.op \in {"order", "edit", "move"} /\ p.who.customer \notin Ids(d) \union {NoCustomer}
  \/ Touches(p) /\ p.row.customer \notin Ids(d)

\* Then nothing of it is written, as when the database is busy.
Undo(w) ==
  /\ Refused(db, pending[w])
  /\ Commits(w, db)

\* A request that reads nothing it acts on.
Serves(d) ==
  /\ started < MaxRequests
  /\ started' = started + 1
  /\ db' = d
  /\ UNCHANGED <<year, pending>>

RoomForCustomer == db.lastCustomer < MaxCustomers

\* A number in the column alone, if the list of numbers is sent empty.
CreateCustomer(name, phone, rows) ==
  /\ RoomForCustomer
  /\ db' = SaveCustomer(db, name, IF rows = <<>> THEN phone ELSE PrimaryPhone(rows), rows)
  /\ UNCHANGED <<year, started, pending>>

ReadUpdateCustomer(w, c, data) ==
  /\ c \in Ids(db)
  /\ Starts(w, [op |-> "update", c |-> c, data |-> data,
                row |-> [db.customers[c] EXCEPT !.phones = PrimaryFirst(@)]])

\* A number alone replaces the main one, the first where none is marked.
Replaced(rows, phone) ==
  IF rows = <<>> THEN <<[phone |-> phone, primary |-> TRUE]>>
  ELSE [rows EXCEPT ![1].phone = phone]

\* What of the row the request does not change is written as it was read.
WriteUpdateCustomer(w) ==
  LET p == pending[w] IN
  /\ p.op = "update" /\ ~Refused(db, p)
  /\ LET row == p.row
         rows == IF "phones" \in DOMAIN p.data THEN p.data.phones
                 ELSE IF "phone" \in DOMAIN p.data THEN Replaced(row.phones, p.data.phone)
                 ELSE db.customers[p.c].phones
         main == IF "name" \in DOMAIN p.data \/ rows = <<>> THEN row.phone
                 ELSE PrimaryPhone(rows)
         name == IF "name" \in DOMAIN p.data THEN p.data.name ELSE row.name
     IN  Commits(w, [db EXCEPT !.customers[p.c] =
                       [name |-> name, phone |-> main, phones |-> rows]])

ReadDeleteCustomer(w, c) ==
  /\ c \in Ids(db) /\ OrdersOf(db, c) = {}
  /\ Starts(w, [op |-> "delete", c |-> c])

\* Mutant: an order taken meanwhile does not hold the customer.
WriteDeleteUnheld(w) ==
  /\ pending[w].op = "delete"
  /\ Commits(w, DeleteCustomerRow(db, pending[w].c))

WriteDeleteCustomer(w) ==
  /\ pending[w].op = "delete" /\ ~Refused(db, pending[w])
  /\ Commits(w, DeleteCustomerRow(db, pending[w].c))

\* merge_customer, and batch_merge_customer of several.
ReadMerge(w, t, sources) ==
  /\ t \in Ids(db) /\ sources # <<>> /\ IsInjective(sources)
  /\ Range(sources) \subseteq Ids(db) \ {t}
  /\ Starts(w, [op |-> "merge", t |-> t, sources |-> sources])

WriteMerge(w) ==
  LET p == pending[w] IN
  /\ p.op = "merge" /\ ~Refused(db, p)
  /\ Commits(w, MergeAll(db, p.t, p.sources))

-----------------------------------------------------------------------------
(***************************************************************************)
(* Orders.  The customer of a request is one that exists, or what a phone  *)
(* and a name resolve to.                                                  *)
(***************************************************************************)
Chosen(c) == [customer |-> c, phone |-> None, name |-> None]

Resolved(phone, name) ==
  LET c == Resolve(db, phone, name)
  IN  IF c # NoCustomer THEN Chosen(c)
      ELSE [customer |-> NoCustomer, phone |-> phone, name |-> name]

Requested ==
  {Chosen(c) : c \in Ids(db)} \union
  {Resolved(phone, name) : phone \in Phones \union {None}, name \in Names \union {None}}

Room(who) == who.customer = NoCustomer => RoomForCustomer

ReadCreateOrder(w, who, order) ==
  /\ Len(db.orders) < MaxOrders
  /\ Starts(w, [op |-> "order", who |-> who, order |-> order])

WriteCreateOrder(w) ==
  LET p == pending[w] IN
  /\ p.op = "order" /\ ~Refused(db, p) /\ Len(db.orders) < MaxOrders /\ Room(p.who)
  /\ LET found == WithCustomer(db, p.who)
         c == CustomerOf(found, p.who)
         order == Put(Put(p.order, "customer", c), "year", year)
         created == [found EXCEPT !.orders = Append(@, order)]
     IN  Commits(w, UpsertPairs(Recompute(created, c, year), PairOf(order), c))

\* What an edit sends: the fields that it gives a new value.
NoData == [field \in {} |-> None]

ReadEditOrder(w, i, data) ==
  Starts(w, [op |-> "edit", i |-> i, data |-> data, row |-> db.orders[i],
             who |-> Chosen(db.orders[i].customer)])

ReadMoveOrder(w, i, who) ==
  Starts(w, [op |-> "move", i |-> i, data |-> NoData, row |-> db.orders[i], who |-> who])

\* Mutant: the customer that the order is taken from keeps its volume.
RecomputeNew(d, old, new, y) == Recompute(d, new, y)

\* The customer the order had when it was read, and the one it has now.
RecomputeBoth(d, old, new, y) == Recompute(Recompute(d, old, y), new, y)

\* The order with the fields of data.
Edited(order, data) ==
  [field \in DOMAIN order |-> IF field \in DOMAIN data THEN data[field] ELSE order[field]]

Moved(p, c) == IF p.op = "move" THEN [customer |-> c] ELSE p.data

WriteEditOrder(w) ==
  LET p == pending[w] IN
  /\ p.op \in {"edit", "move"} /\ ~Refused(db, p) /\ Room(p.who)
  /\ \/ db.orders[p.i].customer = p.row.customer
     \/ "two_edits" \in Practices
     \/ p.row.customer \notin Ids(db)
  /\ LET found == WithCustomer(db, p.who)
         c == CustomerOf(found, p.who)
         edited == [found EXCEPT !.orders[p.i] = Edited(@, Moved(p, c))]
         recomputed == IF Touches(p) THEN RecomputeBoth(edited, p.row.customer, c, p.row.year)
                       ELSE edited
     IN  Commits(w, SyncOnEdit(recomputed, p.i, p.row, Edited(p.row, p.data), c))

\* A work item added, changed or taken away: the order comes to another total.
EditItems(i, total) ==
  LET order == db.orders[i] IN
  /\ total # order.total
  /\ Serves([db EXCEPT !.orders[i].total = total,
                       !.stale = @ \union {<<order.customer, order.year>>}])

-----------------------------------------------------------------------------
(***************************************************************************)
(* The library's own requests                                              *)
(***************************************************************************)
CreateEntry(pair) == Serves([db EXCEPT !.library = @ \union {pair}])

DeleteEntry(pair) == pair \in db.library /\ Serves(DeletePairs(db, {pair}))

NewYear ==
  /\ year < MaxYear
  /\ year' = year + 1
  /\ UNCHANGED <<db, started, pending>>

-----------------------------------------------------------------------------
\* Of a new order: to the door with a link, or to be fetched.  Edits reach the others.
NewOrders ==
  {[door |-> link # None, address |-> address, link |-> link, total |-> total] :
     address \in Addresses, link \in Links \union {None}, total \in NewTotals}

CustomerData ==
  [name : Names] \union [phone : Phones] \union [phones : PhoneLists]

OrderData ==
  [total : Totals] \union [door : BOOLEAN] \union [address : Addresses]
    \union [link : Links \union {None}]

SourceLists == {<<c>> : c \in Ids(db)} \union (Ids(db) \X Ids(db))

ReadCustomers(w) ==
  \E c \in Ids(db) :
    \/ \E data \in CustomerData : ReadUpdateCustomer(w, c, data)
    \/ ReadDeleteCustomer(w, c)
    \/ \E sources \in SourceLists : ReadMerge(w, c, sources)

ReadOrders(w) ==
  \/ \E who \in Requested :
       \/ \E order \in NewOrders : ReadCreateOrder(w, who, order)
       \/ \E i \in DOMAIN db.orders : ReadMoveOrder(w, i, who)
  \/ \E i \in DOMAIN db.orders, data \in OrderData : ReadEditOrder(w, i, data)

Write(w) ==
  \/ WriteUpdateCustomer(w) \/ WriteDeleteCustomer(w) \/ WriteMerge(w)
  \/ WriteCreateOrder(w) \/ WriteEditOrder(w)

Next ==
  \/ \E w \in Workers :
       \/ MayStart(w) /\ (ReadCustomers(w) \/ ReadOrders(w))
       \/ Write(w) \/ Undo(w)
  \/ \E name \in Names, rows \in PhoneLists, phone \in Phones :
       CreateCustomer(name, phone, rows)
  \/ \E i \in DOMAIN db.orders, total \in Totals : EditItems(i, total)
  \/ \E pair \in Pair : CreateEntry(pair) \/ DeleteEntry(pair)
  \/ NewYear

Spec == Init /\ [][Next]_vars

-----------------------------------------------------------------------------
(***************************************************************************)
(* Properties                                                              *)
(***************************************************************************)
(* Every row is well formed, and whatever refers to a customer refers to   *)
(* one that is there: an order taken as its customer is deleted or merged. *)
TypeOK ==
  /\ Ids(db) \subseteq 1..db.lastCustomer
  /\ \A c \in Ids(db) :
       /\ db.customers[c].name \in Names \union {WalkIn, Nameless}
       /\ db.customers[c].phone \in Phones \union {None}
       /\ db.customers[c].phones \in Seq(PhoneRow)
  /\ \A i \in DOMAIN db.orders : db.orders[i].customer \in Ids(db)
  /\ \A k \in DOMAIN db.summary : k[1] \in Ids(db)
  /\ db.library \subseteq Pair /\ db.links \subseteq Ids(db) \X db.library

\* What a customer's page says of a year.
SummaryOf(d, c, y) ==
  IF <<c, y>> \in DOMAIN d.summary THEN d.summary[<<c, y>>] ELSE [count |-> 0, total |-> 0]

(* Through every order taken, edited or moved and every merge, a customer's *)
(* page counts the orders of a year, and gives what they come to: unless   *)
(* items of one of them were changed since the last request that the       *)
(* volume was recomputed for.                                              *)
SummaryIsCurrent ==
  \A c \in Ids(db), y \in 1..MaxYear :
    /\ SummaryOf(db, c, y).count = Volume(db, c, y).count
    /\ <<c, y>> \notin db.stale => SummaryOf(db, c, y).total = Volume(db, c, y).total

(* "The row is deleted then re-inserted so it always reflects the current  *)
(* state of orders", _recompute_customer_year_summary.                     *)
VolumeIsCurrent ==
  \A c \in Ids(db), y \in 1..MaxYear : SummaryOf(db, c, y) = Volume(db, c, y)

Merges(w, p) == p.op = "merge" /\ pending'[w] = Idle /\ db' # db

(* Whoever was reached at a number before a merge is reached at it by the  *)
(* customer they were merged into, who has a main number if any: the next  *)
(* order from that phone creates no second customer.                       *)
MergeKeepsPhones ==
  [][\A w \in Workers : Merges(w, pending[w]) =>
       LET p == pending[w]
           merged == db'.customers[p.t].phones
       IN  /\ \A c \in {p.t} \union Range(p.sources) :
                PhonesOf(PhonesOfId(db, c)) \subseteq PhonesOf(merged)
           /\ merged # <<>> => \E i \in DOMAIN merged : merged[i].primary]_vars

UsedPairs(d) == UNION {PairOf(d.orders[i]) : i \in DOMAIN d.orders}

(* Saving an order takes no pair out of the library that an order to the   *)
(* door still refers to: its own, or another's (AC8).                      *)
UsedPairsStay ==
  [][\A w \in Workers : pending[w].op \in {"order", "edit", "move"} /\ pending'[w] = Idle =>
       db.library \intersect UsedPairs(db') \subseteq db'.library]_vars

=============================================================================
