----------------------------- MODULE WorkItems -----------------------------
(***************************************************************************)
(* One order and its work items: the tables orders, order_items and        *)
(* order_item_blanks, and what api/work_items.py, api/orders.py and        *)
(* services/order_lifecycle.py do to them.                                 *)
(*                                                                         *)
(* A database is a record d with the fields                                *)
(*   order      [status, fee, total, listed, holder]: listed is orders.    *)
(*              items, the JSON copy of the items, as how often each entry *)
(*              occurs; holder is assigned_staff_id                        *)
(*   items      the rows of order_items, a function of their ids           *)
(*   lastItem   the autoincrement counter of order_items                   *)
(*   assigned   the rows of order_item_blanks                              *)
(*   blanks     the ids in blanks                                          *)
(* The form of an item is what the staff typed in: its kind (is_extra and  *)
(* is_gift) and quantity * unit_price, with the cash fee of its            *)
(* attributes.  Names, notes, birthdays and prices apart are left out.     *)
(***************************************************************************)
EXTENDS Integers, Sequences, FiniteSetsExt, Functions

CONSTANTS
  Staff,   \* staff records that can hold an order for delivery
  NoStaff  \* assigned_staff_id IS NULL

ASSUME StaffAssumption == NoStaff \notin Staff

Kinds == {"main", "extra", "gift"}
Form == [kind : Kinds, amount : Nat]

ItemRank == [pending |-> 0, confirmed |-> 1, working |-> 2, ready |-> 3,
             delivered |-> 4, cancelled |-> 5]
ItemStatuses == DOMAIN ItemRank

OrderStatusOf == [pending |-> "new", confirmed |-> "confirmed",
                  working |-> "in_progress", ready |-> "ready",
                  delivered |-> "delivered", cancelled |-> "cancelled"]

\* There is no item status for a completed order.
ItemStatusOf == [new |-> "pending", confirmed |-> "confirmed",
                 in_progress |-> "working", ready |-> "ready",
                 delivered |-> "delivered", cancelled |-> "cancelled"]

OrderStatuses == DOMAIN ItemStatusOf \union {"completed"}

WorkItem == [pos : Nat, form : Form, status : ItemStatuses]

-----------------------------------------------------------------------------
MainItems(d) == {i \in DOMAIN d.items : d.items[i].form.kind = "main"}
ExtraItems(d) == DOMAIN d.items \ MainItems(d)

\* A gift is not charged for.
Charge(form) == IF form.kind = "gift" THEN 0 ELSE form.amount

Subtotal(forms) == FoldFunction(LAMBDA form, sum : sum + Charge(form), 0, forms)

Forms(d) == [i \in DOMAIN d.items |-> d.items[i].form]

BlanksOf(d, i) == {[blank |-> a.blank, qty |-> a.qty] : a \in {b \in d.assigned : b.item = i}}

\* How often each value of a function occurs.
Tally(f) == [e \in Range(f) |-> Cardinality({x \in DOMAIN f : f[x] = e})]

Entry(form, blanks) == [form |-> form, blanks |-> blanks]

TableListing(d) ==
  Tally([i \in DOMAIN d.items |-> Entry(d.items[i].form, BlanksOf(d, i))])

\* The items of a request's body carry no blanks.
BodyListing(forms) == Tally([k \in DOMAIN forms |-> Entry(forms[k], {})])

\* _sync_order_items_json.
SyncOrderItemsJson(d) ==
  [d EXCEPT !.order.listed = TableListing(d),
            !.order.total = Subtotal(Forms(d)) + d.order.fee]

-----------------------------------------------------------------------------
InsertItem(d, form, pos) ==
  [d EXCEPT
     !.lastItem = @ + 1,
     !.items = [i \in DOMAIN d.items \union {d.lastItem + 1} |->
                  IF i \in DOMAIN d.items THEN d.items[i]
                  ELSE [pos |-> pos, form |-> form, status |-> "pending"]]]

\* Mutant: the assignments stay.
DeleteRowsOnly(d, S) == [d EXCEPT !.items = Restrict(@, DOMAIN @ \ S)]

\* order_item_blanks goes by ON DELETE CASCADE.
DeleteItems(d, S) ==
  [d EXCEPT !.items = Restrict(@, DOMAIN @ \ S),
            !.assigned = {a \in @ : a.item \notin S}]

\* The item an edit takes for position p: the last of those that have it.
ItemAt(d, p) == {i \in DOMAIN d.items : /\ d.items[i].pos = p
                                        /\ \A j \in DOMAIN d.items :
                                             d.items[j].pos = p => j <= i}

\* The positions of a list at which there is no item, and the id each gets.
Unfilled(d, forms) == {p \in 0..Len(forms) - 1 : ItemAt(d, p) = {}}

InsertedId(d, forms, p) ==
  d.lastItem + Cardinality({q \in Unfilled(d, forms) : q <= p})

InsertedRow(d, forms, i) ==
  LET p == CHOOSE q \in Unfilled(d, forms) : InsertedId(d, forms, q) = i
  IN  [pos |-> p, form |-> forms[p + 1], status |-> "pending"]

\* The k-th item of a list has position k - 1: it is updated in place, or inserted.
Takes(d, forms, i) ==
  d.items[i].pos < Len(forms) /\ i \in ItemAt(d, d.items[i].pos)

PutRow(d, forms, i) ==
  IF i \notin DOMAIN d.items THEN InsertedRow(d, forms, i)
  ELSE IF Takes(d, forms, i) THEN [d.items[i] EXCEPT !.form = forms[d.items[i].pos + 1]]
  ELSE d.items[i]

PutItems(d, forms) ==
  LET inserted == {InsertedId(d, forms, p) : p \in Unfilled(d, forms)}
  IN  [d EXCEPT !.items = [i \in DOMAIN d.items \union inserted |-> PutRow(d, forms, i)],
                !.lastItem = @ + Cardinality(Unfilled(d, forms))]

\* _sync_order_items_table.
SyncOrderItemsTable(d, forms) ==
  DeleteItems(PutItems(d, forms),
              {i \in DOMAIN d.items : /\ d.items[i].pos >= Len(forms)
                                      /\ i \in ItemAt(d, d.items[i].pos)})

-----------------------------------------------------------------------------
SetItems(d, S, s) ==
  [d EXCEPT !.items = [i \in DOMAIN @ |->
                         IF i \in S THEN [@[i] EXCEPT !.status = s] ELSE @[i]]]

MainIn(d, statuses) == {i \in MainItems(d) : d.items[i].status \in statuses}

\* Mutant: completing an order leaves its items.
CascadeToDelivered(d, target) ==
  CASE target = "confirmed" -> SetItems(d, MainIn(d, {"pending"}), "confirmed")
    [] target = "delivered" ->
         SetItems(d, MainIn(d, ItemStatuses \ {"cancelled"}), "delivered")
    [] target = "cancelled" -> SetItems(d, MainItems(d), "cancelled")
    [] OTHER -> d

\* cascade_main_items_to_status: a cancelled item is never resurrected.
CascadeMainItems(d, target) ==
  CASE target = "confirmed" -> SetItems(d, MainIn(d, {"pending"}), "confirmed")
    [] target \in {"delivered", "completed"} ->
         SetItems(d, MainIn(d, ItemStatuses \ {"cancelled"}), "delivered")
    [] target = "cancelled" -> SetItems(d, MainItems(d), "cancelled")
    [] OTHER -> d

\* sync_extras_to_order_status: forward only, past no cancelled item.
SyncExtras(d, target) ==
  IF target \notin DOMAIN ItemStatusOf THEN d
  ELSE SetItems(d, {i \in ExtraItems(d) :
                      ItemRank[d.items[i].status] < ItemRank[ItemStatusOf[target]]},
                ItemStatusOf[target])

Least(statuses) ==
  CHOOSE s \in statuses : \A t \in statuses : ItemRank[s] <= ItemRank[t]

LiveMainStatuses(d) == {d.items[i].status : i \in MainItems(d)} \ {"cancelled"}

\* _derive_order_status, for an order that has main items.
DeriveOrderStatus(d) ==
  IF LiveMainStatuses(d) = {} THEN "cancelled"
  ELSE OrderStatusOf[Least(LiveMainStatuses(d))]

=============================================================================
