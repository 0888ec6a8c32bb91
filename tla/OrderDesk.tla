----------------------------- MODULE OrderDesk -----------------------------
(***************************************************************************)
(* The requests that work on one order and its items, running              *)
(* concurrently over one database: api/orders.py (create, edit, status,    *)
(* assign, unassign), api/work_items.py and the deletion of a blank in     *)
(* api/blanks.py.  Stock and journal are BakeryStock's and OrderBooks'.    *)
(*                                                                         *)
(* A request has a read phase and a write phase, as in BakeryStock.  The   *)
(* write phase is alone and no step of it can be seen, so it is one action *)
(* here; a request whose reads decide nothing that its writes do not check *)
(* again is one action altogether.                                         *)
(***************************************************************************)
EXTENDS WorkItems

CONSTANTS
  Workers,       \* request threads
  Admins,        \* the staff whose role is admin
  Blanks,        \* ids that blanks may have
  ItemForms,     \* the forms items are given
  Lists,         \* the lists of forms orders are created with
  Patches,       \* the patches of an order, [items, fee, holder]
  Same,          \* a field that a patch leaves alone
  Fees,          \* shipping fees
  ItemTargets,   \* statuses asked for items
  OrderTargets,  \* statuses asked for the order
  MaxItems,      \* bound on the items ever inserted, past which none is
  MaxQty,        \* bound on the quantity of a blank assigned to an item
  Practices      \* what the staff do, of AllPractices

(***************************************************************************)
(* Ways of working that the API accepts and a run may rule out:            *)
(*   same_position  putting two items at one position (the default is 0)   *)
(*   late_items     adding items to an order handed over or cancelled, or  *)
(*                  making main items of its extras                        *)
(*   counter_sale   creating an order delivered                            *)
(*   stale_patch    patching the items, or the fee, while another request  *)
(*                  changes the other of them                              *)
(*   drop_blanks    giving the items of an order anew when blanks are      *)
(*                  assigned to them, deleting a blank that is assigned    *)
(*   reassign       patching who holds the order                           *)
(***************************************************************************)
AllPractices == {"same_position", "late_items", "counter_sale", "stale_patch",
                 "drop_blanks", "reassign"}

ASSUME DeskAssumption ==
  /\ Admins \subseteq Staff
  /\ ItemForms \subseteq Form /\ Lists \subseteq Seq(ItemForms)
  /\ Patches \subseteq [items : Seq(ItemForms) \union {Same}, fee : Nat \union {Same},
                        holder : Staff \union {NoStaff, Same}]
  /\ Fees \subseteq Nat
  /\ ItemTargets \subseteq ItemStatuses /\ OrderTargets \subseteq OrderStatuses
  /\ MaxItems \in Nat /\ MaxQty \in Nat
  /\ Practices \subseteq AllPractices

VARIABLES
  db,      \* the committed database
  pending  \* what each worker's request has read, or Idle

vars == <<db, pending>>

Idle == [op |-> "idle"]

Absent == [status |-> "absent", fee |-> 0, total |-> 0, listed |-> <<>>,
           holder |-> NoStaff]

Init ==
  /\ db = [order |-> Absent, items |-> <<>>, lastItem |-> 0, assigned |-> {},
           blanks |-> {}]
  /\ pending = [w \in Workers |-> Idle]

-----------------------------------------------------------------------------
Exists == db.order.status # "absent"
HandedOver(status) == status \in {"delivered", "completed"}
Terminal(status) == HandedOver(status) \/ status = "cancelled"

Reads(w, request) ==
  /\ pending[w] = Idle
  /\ pending' = [pending EXCEPT ![w] = request]
  /\ UNCHANGED db

Answers(w, d) == db' = d /\ pending' = [pending EXCEPT ![w] = Idle]

\* A request that is one action finds a thread.
Serves(d) ==
  /\ \E w \in Workers : pending[w] = Idle
  /\ db' = d
  /\ UNCHANGED pending

Fits(n) == db.lastItem + n <= MaxItems

-----------------------------------------------------------------------------
(***************************************************************************)
(* create_order: the items are pending, whatever the order's status.       *)
(***************************************************************************)
CreateOrder(forms, fee, status) ==
  LET new == [db EXCEPT !.order = [Absent EXCEPT !.status = status, !.fee = fee,
                                                 !.listed = BodyListing(forms),
                                                 !.total = Subtotal(forms) + fee]]
  IN
  /\ ~Exists /\ Fits(Len(forms))
  /\ status = "delivered" => "counter_sale" \in Practices
  /\ Serves(PutItems(new, forms))

-----------------------------------------------------------------------------
(***************************************************************************)
(* api/work_items.py, items and the blanks assigned to them.  A request    *)
(* that finds its item or blank gone when it writes fails and is undone.   *)
(***************************************************************************)
FreePosition(i, pos) ==
  \A j \in DOMAIN db.items \ {i} : db.items[j].pos # pos

AddsMain(form) == Terminal(db.order.status) /\ form.kind = "main"

CreateWorkItem(form, pos) ==
  /\ Exists /\ Fits(1)
  /\ FreePosition(0, pos) \/ "same_position" \in Practices
  /\ AddsMain(form) => "late_items" \in Practices
  /\ Serves(SyncOrderItemsJson(InsertItem(db, form, pos)))

UpdateWorkItem(i, form, pos) ==
  /\ FreePosition(i, pos) \/ "same_position" \in Practices
  /\ AddsMain(form) /\ i \notin MainItems(db) => "late_items" \in Practices
  /\ Serves(SyncOrderItemsJson(
       [db EXCEPT !.items[i].form = form, !.items[i].pos = pos]))

\* The order's status is not derived anew.
DeleteWorkItem(i) == Serves(SyncOrderItemsJson(DeleteItems(db, {i})))

\* Mutant: the JSON copy is left as it was.
AssignOnly(i, b, q) ==
  /\ b \in db.blanks
  /\ Serves([db EXCEPT !.assigned = {a \in @ : a.item # i \/ a.blank # b}
                          \union {[item |-> i, blank |-> b, qty |-> q]}])

\* Of a blank the item has already, the quantity: so does the PATCH.
AssignBlank(i, b, q) ==
  /\ b \in db.blanks
  /\ Serves(SyncOrderItemsJson(
       [db EXCEPT !.assigned = {a \in @ : a.item # i \/ a.blank # b}
                     \union {[item |-> i, blank |-> b, qty |-> q]}]))

UnassignBlank(i, b) ==
  /\ \E a \in db.assigned : a.item = i /\ a.blank = b
  /\ Serves(SyncOrderItemsJson(
       [db EXCEPT !.assigned = {a \in @ : a.item # i \/ a.blank # b}]))

CreateBlank(b) == b \notin db.blanks /\ Serves([db EXCEPT !.blanks = @ \union {b}])

\* Its assignments go by ON DELETE CASCADE; no order's JSON is regenerated.
DeleteBlank(b) ==
  /\ b \in db.blanks
  /\ (\E a \in db.assigned : a.blank = b) => "drop_blanks" \in Practices
  /\ Serves([db EXCEPT !.blanks = @ \ {b}, !.assigned = {a \in @ : a.blank # b}])

-----------------------------------------------------------------------------
(***************************************************************************)
(* transition_work_item_status: the item is read before the transaction.   *)
(* A move back has a reason.                                               *)
(***************************************************************************)
ReadMove(w, i, target) ==
  /\ db.items[i].status # "cancelled"
  /\ Reads(w, [op |-> "move", item |-> i, target |-> target])

FollowItems(d) ==
  LET derived == DeriveOrderStatus(d)
  IN  IF MainItems(d) = {} \/ derived = d.order.status THEN d
      ELSE SyncExtras([d EXCEPT !.order.status = derived], derived)

WriteMove(w) ==
  LET r == pending[w] IN
  /\ r.op = "move"
  /\ r.item \in DOMAIN db.items
  /\ Answers(w, FollowItems(SetItems(db, {r.item}, r.target)))

(***************************************************************************)
(* transition_status, with what apply_post_update_side_effects does to the *)
(* items.  Whether a completed order is paid for is not looked at here.    *)
(***************************************************************************)
TransitionStatus(target) ==
  /\ Exists
  /\ Serves(SyncExtras(CascadeMainItems([db EXCEPT !.order.status = target], target),
                       target))

-----------------------------------------------------------------------------
(***************************************************************************)
(* edit_order.  The row is read before the transaction: the status, and    *)
(* the fee and items that a patch of the other is added to.                *)
(***************************************************************************)
ListedSubtotal(listed) ==
  MapThenSumSet(LAMBDA e : listed[e] * Charge(e.form), DOMAIN listed)

ReadPatch(w, patch) ==
  /\ Exists /\ db.order.status # "cancelled"
  /\ patch.holder # Same => "reassign" \in Practices
  /\ Reads(w, [op |-> "edit", patch |-> patch, fee |-> db.order.fee,
               subtotal |-> ListedSubtotal(db.order.listed)])

\* What the patch is added to is still so.
Current(r) ==
  /\ r.patch.fee = Same => r.fee = db.order.fee
  /\ r.patch.items = Same => r.subtotal = ListedSubtotal(db.order.listed)

PatchedOrder(r) ==
  LET p == r.patch
      o == db.order
      fee == IF p.fee = Same THEN r.fee ELSE p.fee
      subtotal == IF p.items = Same THEN r.subtotal ELSE Subtotal(p.items)
  IN  [o EXCEPT
         !.fee = IF p.fee = Same THEN @ ELSE p.fee,
         !.listed = IF p.items = Same THEN @ ELSE BodyListing(p.items),
         !.total = IF p.items = Same /\ p.fee = Same THEN @ ELSE subtotal + fee,
         !.holder = IF p.holder = Same THEN @ ELSE p.holder]

\* The main items the list adds to those there are.
AddsMainItems(forms) ==
  \E k \in DOMAIN forms : /\ forms[k].kind = "main"
                          /\ ItemAt(db, k - 1) \subseteq ExtraItems(db)

PatchPractised(r) ==
  /\ Current(r) \/ "stale_patch" \in Practices
  /\ r.patch.items # Same =>
       /\ Terminal(db.order.status) /\ AddsMainItems(r.patch.items)
            => "late_items" \in Practices
       /\ db.assigned # {} => "drop_blanks" \in Practices

WritePatch(w) ==
  LET r == pending[w]
      patched == [db EXCEPT !.order = PatchedOrder(r)]
  IN
  /\ r.op = "edit" /\ PatchPractised(r)
  /\ r.patch.items # Same => Fits(Cardinality(Unfilled(db, r.patch.items)))
  /\ Answers(w, IF r.patch.items = Same THEN patched
                ELSE SyncOrderItemsTable(patched, r.patch.items))

-----------------------------------------------------------------------------
(***************************************************************************)
(* assign_order: the UPDATE matches only a row that nobody holds, so of    *)
(* two claims one is refused.  The status is not looked at again.          *)
(***************************************************************************)
ReadAssign(w, s) ==
  /\ Exists /\ ~Terminal(db.order.status)
  /\ db.order.holder = NoStaff
  /\ Reads(w, [op |-> "assign", by |-> s])

\* Mutant: the UPDATE matches whatever is there.
OverwriteAssign(w) ==
  /\ pending[w].op = "assign"
  /\ Answers(w, [db EXCEPT !.order.holder = pending[w].by])

WriteAssign(w) ==
  /\ pending[w].op = "assign"
  /\ db.order.holder = NoStaff
  /\ Answers(w, [db EXCEPT !.order.holder = pending[w].by])

\* unassign_order: the UPDATE matches whoever holds the order by then.
ReadUnassign(w, s) ==
  /\ Exists /\ db.order.holder # NoStaff
  /\ s = db.order.holder \/ s \in Admins
  /\ Reads(w, [op |-> "unassign", by |-> s])

WriteUnassign(w) ==
  /\ pending[w].op = "unassign"
  /\ Answers(w, [db EXCEPT !.order.holder = NoStaff])

\* Refused, undone by the stock services, or the lock is not had in time.
Drop(w) == pending[w] # Idle /\ Answers(w, db)

-----------------------------------------------------------------------------
Items == DOMAIN db.items
Positions == 0..MaxItems - 1

Next ==
  \/ \E forms \in Lists, fee \in Fees, status \in {"new", "delivered"} :
       CreateOrder(forms, fee, status)
  \/ \E form \in ItemForms, pos \in Positions : CreateWorkItem(form, pos)
  \/ \E i \in Items, form \in ItemForms, pos \in Positions : UpdateWorkItem(i, form, pos)
  \/ \E i \in Items : DeleteWorkItem(i)
  \/ \E i \in Items, b \in Blanks :
       UnassignBlank(i, b) \/ \E q \in 0..MaxQty : AssignBlank(i, b, q)
  \/ \E b \in Blanks : CreateBlank(b) \/ DeleteBlank(b)
  \/ \E w \in Workers, i \in Items, target \in ItemTargets : ReadMove(w, i, target)
  \/ \E target \in OrderTargets : TransitionStatus(target)
  \/ \E w \in Workers, patch \in Patches : ReadPatch(w, patch)
  \/ \E w \in Workers, s \in Staff : ReadAssign(w, s) \/ ReadUnassign(w, s)
  \/ \E w \in Workers : \/ WriteMove(w) \/ WritePatch(w)
                        \/ WriteAssign(w) \/ WriteUnassign(w) \/ Drop(w)

Spec == Init /\ [][Next]_vars

-----------------------------------------------------------------------------
(***************************************************************************)
(* Types                                                                   *)
(***************************************************************************)
Patch == [items : Seq(Form) \union {Same}, fee : Nat \union {Same},
          holder : Staff \union {NoStaff, Same}]

MoveRequest == [op : {"move"}, item : Nat, target : ItemStatuses]
EditRequest == [op : {"edit"}, patch : Patch, fee : Nat, subtotal : Nat]
ClaimRequest == [op : {"assign", "unassign"}, by : Staff]

(***************************************************************************)
(* Rows and requests hold values of their columns and fields, and a blank  *)
(* is assigned once to an item, both being there.                          *)
(***************************************************************************)
TypeOK ==
  /\ db.order.status \in OrderStatuses \union {"absent"}
  /\ db.order.fee \in Nat /\ db.order.total \in Nat
  /\ db.order.holder \in Staff \union {NoStaff}
  /\ \A i \in Items : i \in 1..db.lastItem /\ db.items[i] \in WorkItem
  /\ \A a \in db.assigned :
       /\ a.item \in Items /\ a.blank \in db.blanks /\ a.qty \in Nat
       /\ \A b \in db.assigned : a.item = b.item /\ a.blank = b.blank => a = b
  /\ pending \in [Workers ->
       {Idle} \union MoveRequest \union EditRequest \union ClaimRequest]

-----------------------------------------------------------------------------
(***************************************************************************)
(* Safety                                                                  *)
(***************************************************************************)

(***************************************************************************)
(* orders.items, which tickets and receipts are printed from, lists the    *)
(* rows of order_items with their blanks, which the kitchen works by, and  *)
(* total_price is what those rows come to with the shipping: though edits, *)
(* items and blanks are written by three modules, each with a way of its   *)
(* own to regenerate the copy.                                             *)
(***************************************************************************)
ListAgrees ==
  Exists => /\ db.order.listed = TableListing(db)
            /\ db.order.total = Subtotal(Forms(db)) + db.order.fee

(***************************************************************************)
(* An order is handed over only with no main item left to make, and        *)
(* cancelled only with all of them cancelled: whether its status was asked *)
(* for or derived, and whatever was read before another request changed it.*)
(***************************************************************************)
FinishedWithItsItems ==
  \A i \in MainItems(db) :
    /\ HandedOver(db.order.status) => db.items[i].status \in {"delivered", "cancelled"}
    /\ db.order.status = "cancelled" => db.items[i].status = "cancelled"

(***************************************************************************)
(* However claims race, an order passes from one member of staff to        *)
(* another only after it was given up.                                     *)
(***************************************************************************)
Claims == INSTANCE OrderClaim WITH holder <- db.order.holder

ImplementsOrderClaim == Claims!Spec

(***************************************************************************)
(* Only the one who holds an order, or an admin, gives it up               *)
(* (unassign_order's docstring).                                           *)
(***************************************************************************)
ReleasedBy(s) == \E w \in Workers : /\ pending[w].op = "unassign"
                                    /\ pending[w].by = s
                                    /\ pending'[w] = Idle

GivenUpByRight ==
  [][db.order.holder # NoStaff /\ db'.order.holder = NoStaff
       => \E s \in Admins \union {db.order.holder} : ReleasedBy(s)]_vars

=============================================================================
