-------------------------- MODULE OrderDesk_proofs --------------------------
(***************************************************************************)
(* That claims on an order pass from hand to hand as OrderClaim says, in   *)
(* every instance in which no patch names the holder; that an order handed *)
(* over or cancelled has no work left, in every instance in which no item  *)
(* is added late and no order is taken already handed over; that the desk  *)
(* is typed, in every instance; and that the copy of the items and the     *)
(* total an order carries are those of its items, in every instance in     *)
(* which no two items are given one position, no patch is overtaken by one *)
(* of the other part and no blank that is assigned is dropped.             *)
(***************************************************************************)
EXTENDS OrderDesk, SumTheorems

(***************************************************************************)
(* Typed(d): d has its tables and the order its columns.  Keeps(d, d2): d2 *)
(* has them too, and the holder is who it was.                             *)
(***************************************************************************)
Tables == {"order", "items", "lastItem", "assigned", "blanks"}
Columns == {"status", "fee", "total", "listed", "holder"}

Typed(d) ==
  /\ d = [t \in Tables |-> d[t]]
  /\ d.order = [c \in Columns |-> d.order[c]]

Keeps(d, d2) == Typed(d2) /\ d2.order.holder = d.order.holder

-----------------------------------------------------------------------------
(***************************************************************************)
(* What WorkItems does to the items leaves the holder alone.               *)
(***************************************************************************)

\* Rows are inserted into order_items only.
LEMMA InsertKeeps ==
  ASSUME NEW d, Typed(d), NEW form, NEW pos
  PROVE  Keeps(d, InsertItem(d, form, pos))
BY DEF Typed, Keeps, InsertItem, Tables

\* Rows are deleted from order_items and order_item_blanks only.
LEMMA DeleteKeeps ==
  ASSUME NEW d, Typed(d), NEW S
  PROVE  Keeps(d, DeleteItems(d, S))
BY DEF Typed, Keeps, DeleteItems, Tables

\* A status is set in order_items only.
LEMMA SetItemsKeeps ==
  ASSUME NEW d, Typed(d), NEW S, NEW s
  PROVE  Keeps(d, SetItems(d, S, s))
BY DEF Typed, Keeps, SetItems, Tables

\* The copy of the items and the total are regenerated in columns of their own.
LEMMA SyncJsonKeeps ==
  ASSUME NEW d, Typed(d)
  PROVE  Keeps(d, SyncOrderItemsJson(d))
BY DEF Typed, Keeps, SyncOrderItemsJson, Tables, Columns

\* The rows an edit puts replace rows of order_items.
LEMMA PutKeeps ==
  ASSUME NEW d, Typed(d), NEW forms
  PROVE  Keeps(d, PutItems(d, forms))
<1>1. ASSUME NEW x, NEW y PROVE Keeps(d, [d EXCEPT !.items = x, !.lastItem = y])
  BY DEF Typed, Keeps, Tables
<1> QED
  BY <1>1, Zenon DEF PutItems

\* So do those it deletes.
LEMMA SyncTableKeeps ==
  ASSUME NEW d, Typed(d), NEW forms
  PROVE  Keeps(d, SyncOrderItemsTable(d, forms))
<1>1. Keeps(d, PutItems(d, forms))
  BY PutKeeps
<1>2. ASSUME NEW S PROVE Keeps(PutItems(d, forms), DeleteItems(PutItems(d, forms), S))
  BY <1>1, DeleteKeeps DEF Keeps
<1> QED
  BY <1>1, <1>2 DEF Keeps, SyncOrderItemsTable

\* The cascade of a status goes to the items.
LEMMA CascadeKeeps ==
  ASSUME NEW d, Typed(d), NEW target
  PROVE  Keeps(d, CascadeMainItems(d, target))
<1>1. Keeps(d, d)
  BY DEF Keeps
<1>2. ASSUME NEW S, NEW s PROVE Keeps(d, SetItems(d, S, s))
  BY SetItemsKeeps
<1> QED
  BY <1>1, <1>2 DEF CascadeMainItems

\* So does that to the extras.
LEMMA ExtrasKeep ==
  ASSUME NEW d, Typed(d), NEW target
  PROVE  Keeps(d, SyncExtras(d, target))
<1>1. Keeps(d, d)
  BY DEF Keeps
<1>2. ASSUME NEW S, NEW s PROVE Keeps(d, SetItems(d, S, s))
  BY SetItemsKeeps
<1> QED
  BY <1>1, <1>2 DEF SyncExtras

\* Keeping is transitive.
LEMMA KeepsOn ==
  ASSUME NEW d, NEW d1, NEW d2, Keeps(d, d1), Keeps(d1, d2)
  PROVE  Keeps(d, d2)
BY DEF Keeps

\* A status is a column of its own.
LEMMA StatusKeeps ==
  ASSUME NEW d, Typed(d), NEW s
  PROVE  Keeps(d, [d EXCEPT !.order.status = s])
BY DEF Typed, Keeps, Tables, Columns

\* An order that follows its items has the holder it had.
LEMMA FollowKeeps ==
  ASSUME NEW d, Typed(d)
  PROVE  Keeps(d, FollowItems(d))
<1> DEFINE d1 == [d EXCEPT !.order.status = DeriveOrderStatus(d)]
<1>1. Keeps(d, d)
  BY DEF Keeps
<1>2. Keeps(d, d1)
  BY StatusKeeps
<1>3. Keeps(d1, SyncExtras(d1, DeriveOrderStatus(d)))
  BY <1>2, ExtrasKeep DEF Keeps
<1>4. Keeps(d, SyncExtras(d1, DeriveOrderStatus(d)))
  BY <1>2, <1>3, KeepsOn
<1> QED
  BY <1>1, <1>4 DEF FollowItems

-----------------------------------------------------------------------------
(***************************************************************************)
(* The invariant: a claim that is pending is one of the staff's, and a     *)
(* patch that is pending leaves the holder alone.                          *)
(***************************************************************************)
ClaimInv ==
  /\ Typed(db) /\ db.order.holder \in Staff \union {NoStaff}
  /\ pending = [w \in Workers |-> pending[w]]
  /\ \A w \in Workers :
       /\ pending[w].op = "assign" => pending[w].by \in Staff
       /\ pending[w].op = "edit" => pending[w].patch.holder = Same

\* What a step may do to the holder.
Passes == Claims!Next \/ UNCHANGED db.order.holder

\* A database a request may leave: the holder stays or gives the order up.
Yields(d) == Typed(d) /\ d.order.holder \in {db.order.holder, NoStaff}

\* A request that is one action.
LEMMA ServeStep ==
  ASSUME ClaimInv, NEW d, Yields(d), Serves(d)
  PROVE  ClaimInv' /\ Passes
BY DEF ClaimInv, Yields, Serves, Passes, Typed, Claims!Next, Claims!GiveUp

\* The write phase of a request.
LEMMA AnswerStep ==
  ASSUME ClaimInv, NEW w \in Workers, NEW d, Yields(d), Answers(w, d)
  PROVE  ClaimInv' /\ Passes
<1>1. Typed(db)' /\ (db.order.holder \in Staff \union {NoStaff})' /\ Passes
  BY DEF ClaimInv, Yields, Answers, Passes, Typed, Claims!Next, Claims!GiveUp
<1>2. pending' = [pending EXCEPT ![w] = Idle]
  BY DEF Answers
<1> QED
  BY <1>1, <1>2 DEF ClaimInv, Idle

\* The read phase of a request takes note of what it needs.
LEMMA ReadStep ==
  ASSUME ClaimInv, NEW w \in Workers, NEW r, Reads(w, r),
         r.op = "assign" => r.by \in Staff,
         r.op = "edit" => r.patch.holder = Same
  PROVE  ClaimInv' /\ Passes
<1>1. db' = db /\ pending' = [pending EXCEPT ![w] = r]
  BY DEF Reads
<1>2. Typed(db)' /\ Passes
  BY <1>1 DEF ClaimInv, Passes, Typed
<1> QED
  BY <1>1, <1>2 DEF ClaimInv

\* Keeping the holder is one way to yield.
LEMMA KeepsYields ==
  ASSUME NEW d, Keeps(db, d)
  PROVE  Yields(d)
BY DEF Keeps, Yields

-----------------------------------------------------------------------------
(***************************************************************************)
(* One step per action, in the order of Next.                              *)
(***************************************************************************)

\* A new order is held by nobody.
LEMMA CreateStep ==
  ASSUME ClaimInv, NEW forms, NEW fee, NEW status, CreateOrder(forms, fee, status)
  PROVE  ClaimInv' /\ Passes
<1> DEFINE row == [Absent EXCEPT !.status = status, !.fee = fee,
                                 !.listed = BodyListing(forms),
                                 !.total = Subtotal(forms) + fee]
           new == [db EXCEPT !.order = row]
<1>1. row = [c \in Columns |-> row[c]] /\ row.holder = NoStaff
  BY DEF Columns, Absent
<1>2. Serves(PutItems(new, forms))
  BY DEF CreateOrder
<1> HIDE DEF row
<1>3. Typed(new) /\ new.order.holder = NoStaff
  BY <1>1 DEF ClaimInv, Typed, Tables
<1>4. Yields(PutItems(new, forms))
  BY <1>3, PutKeeps DEF Keeps, Yields
<1> QED
  BY <1>2, <1>4, ServeStep

\* The copy of the items is regenerated after each change of a row.
LEMMA RowsStep ==
  ASSUME ClaimInv, NEW d, Keeps(db, d), Serves(SyncOrderItemsJson(d))
  PROVE  ClaimInv' /\ Passes
<1>1. Keeps(d, SyncOrderItemsJson(d))
  BY SyncJsonKeeps DEF Keeps
<1>2. Keeps(db, SyncOrderItemsJson(d))
  BY <1>1, KeepsOn
<1> QED
  BY <1>2, KeepsYields, ServeStep

LEMMA ItemStep ==
  ASSUME ClaimInv,
         \/ \E form, pos : CreateWorkItem(form, pos)
         \/ \E i, form, pos : UpdateWorkItem(i, form, pos)
         \/ \E i : DeleteWorkItem(i)
  PROVE  ClaimInv' /\ Passes
<1>1. Typed(db)
  BY DEF ClaimInv
<1>2. CASE \E form, pos : CreateWorkItem(form, pos)
  BY <1>1, <1>2, InsertKeeps, RowsStep DEF CreateWorkItem
<1>3. CASE \E i, form, pos : UpdateWorkItem(i, form, pos)
  <2>1. PICK i, form, pos : UpdateWorkItem(i, form, pos)
    BY <1>3
  <2> DEFINE d1 == [db EXCEPT !.items[i].form = form]
             d2 == [d1 EXCEPT !.items[i].pos = pos]
  <2>2. Keeps(db, d1)
    BY <1>1 DEF Typed, Keeps, Tables
  <2>3. Serves(SyncOrderItemsJson(d2))
    BY <2>1, Zenon DEF UpdateWorkItem
  <2> HIDE DEF d1
  <2>4. Keeps(d1, d2)
    BY <2>2 DEF Typed, Keeps, Tables
  <2> HIDE DEF d2
  <2> QED
    BY <2>2, <2>3, <2>4, KeepsOn, RowsStep
<1>4. CASE \E i : DeleteWorkItem(i)
  BY <1>1, <1>4, DeleteKeeps, RowsStep DEF DeleteWorkItem
<1> QED
  BY <1>2, <1>3, <1>4

\* Blanks and their assignments are tables of their own.
LEMMA BlankStep ==
  ASSUME ClaimInv,
         \/ \E i, b : UnassignBlank(i, b) \/ \E q : AssignBlank(i, b, q)
         \/ \E b : CreateBlank(b) \/ DeleteBlank(b)
  PROVE  ClaimInv' /\ Passes
<1>1. Typed(db)
  BY DEF ClaimInv
<1>2. ASSUME NEW S PROVE Keeps(db, [db EXCEPT !.assigned = S])
  BY <1>1 DEF Typed, Keeps, Tables
<1>3. ASSUME NEW S, NEW B PROVE Keeps(db, [db EXCEPT !.blanks = B, !.assigned = S])
  BY <1>1 DEF Typed, Keeps, Tables
<1>4. ASSUME NEW B PROVE Keeps(db, [db EXCEPT !.blanks = B])
  BY <1>1 DEF Typed, Keeps, Tables
<1>5. CASE \E i, b : UnassignBlank(i, b)
  BY <1>2, <1>5, RowsStep, Zenon DEF UnassignBlank
<1>6. CASE \E i, b, q : AssignBlank(i, b, q)
  BY <1>2, <1>6, RowsStep, Zenon DEF AssignBlank
<1>7. CASE \E b : CreateBlank(b)
  BY <1>4, <1>7, KeepsYields, ServeStep, Zenon DEF CreateBlank
<1>8. CASE \E b : DeleteBlank(b)
  BY <1>3, <1>8, KeepsYields, ServeStep, Zenon DEF DeleteBlank
<1> QED
  BY <1>5, <1>6, <1>7, <1>8

\* An item that moves takes the order's status along.
LEMMA MoveStep ==
  ASSUME ClaimInv, NEW w \in Workers,
         \/ \E i, target : ReadMove(w, i, target)
         \/ WriteMove(w)
  PROVE  ClaimInv' /\ Passes
<1>1. CASE \E i, target : ReadMove(w, i, target)
  <2>1. PICK i, target : ReadMove(w, i, target)
    BY <1>1
  <2> QED
    BY <2>1, ReadStep DEF ReadMove
<1>2. CASE WriteMove(w)
  <2> DEFINE r == pending[w]
             moved == SetItems(db, {r.item}, r.target)
  <2>1. Answers(w, FollowItems(moved))
    BY <1>2 DEF WriteMove
  <2>2. Keeps(db, moved)
    BY SetItemsKeeps DEF ClaimInv
  <2> HIDE DEF moved
  <2>3. Keeps(moved, FollowItems(moved))
    BY <2>2, FollowKeeps DEF Keeps
  <2>4. Keeps(db, FollowItems(moved))
    BY <2>2, <2>3, KeepsOn
  <2> QED
    BY <2>1, <2>4, KeepsYields, AnswerStep
<1> QED
  BY <1>1, <1>2

\* A status asked for is cascaded to the items and the extras.
LEMMA TransitionStep ==
  ASSUME ClaimInv, NEW target, TransitionStatus(target)
  PROVE  ClaimInv' /\ Passes
<1> DEFINE d1 == [db EXCEPT !.order.status = target]
           d2 == CascadeMainItems(d1, target)
<1>1. Serves(SyncExtras(d2, target))
  BY DEF TransitionStatus
<1>2. Keeps(db, d1)
  BY StatusKeeps DEF ClaimInv
<1> HIDE DEF d1
<1>3. Keeps(d1, d2)
  BY <1>2, CascadeKeeps DEF Keeps
<1> HIDE DEF d2
<1>4. Keeps(d2, SyncExtras(d2, target))
  BY <1>3, ExtrasKeep DEF Keeps
<1>5. Keeps(db, SyncExtras(d2, target))
  BY <1>2, <1>3, <1>4, KeepsOn
<1> QED
  BY <1>1, <1>5, KeepsYields, ServeStep

\* An edit leaves the holder alone unless its patch names one.
LEMMA EditStep ==
  ASSUME ClaimInv, "reassign" \notin Practices, NEW w \in Workers,
         \/ \E patch : ReadPatch(w, patch)
         \/ WritePatch(w)
  PROVE  ClaimInv' /\ Passes
<1>1. CASE \E patch : ReadPatch(w, patch)
  <2>1. PICK patch : ReadPatch(w, patch)
    BY <1>1
  <2> QED
    BY <2>1, ReadStep DEF ReadPatch
<1>2. CASE WritePatch(w)
  <2> DEFINE r == pending[w]
             patched == [db EXCEPT !.order = PatchedOrder(r)]
  <2>1. \/ Answers(w, patched)
        \/ Answers(w, SyncOrderItemsTable(patched, r.patch.items))
    BY <1>2 DEF WritePatch
  <2>2. r.patch.holder = Same
    BY <1>2 DEF WritePatch, ClaimInv
  <2>3. /\ PatchedOrder(r) = [c \in Columns |-> PatchedOrder(r)[c]]
        /\ PatchedOrder(r).holder = db.order.holder
    BY <2>2 DEF PatchedOrder, ClaimInv, Typed, Columns
  <2>4. Keeps(db, patched)
    BY <2>3 DEF Keeps, ClaimInv, Typed, Tables
  <2> HIDE DEF patched
  <2>5. Keeps(patched, SyncOrderItemsTable(patched, r.patch.items))
    BY <2>4, SyncTableKeeps DEF Keeps
  <2>6. Keeps(db, SyncOrderItemsTable(patched, r.patch.items))
    BY <2>4, <2>5, KeepsOn
  <2> QED
    BY <2>1, <2>4, <2>6, KeepsYields, AnswerStep
<1> QED
  BY <1>1, <1>2

\* A claim is written only while nobody holds the order.
LEMMA AssignStep ==
  ASSUME ClaimInv, NEW w \in Workers,
         \/ \E s \in Staff : ReadAssign(w, s)
         \/ WriteAssign(w)
  PROVE  ClaimInv' /\ Passes
<1>1. CASE \E s \in Staff : ReadAssign(w, s)
  BY <1>1, ReadStep DEF ReadAssign
<1>2. CASE WriteAssign(w)
  <2> DEFINE s == pending[w].by
  <2>1. /\ s \in Staff /\ db.order.holder = NoStaff
        /\ db' = [db EXCEPT !.order.holder = s]
        /\ pending' = [pending EXCEPT ![w] = Idle]
    BY <1>2 DEF WriteAssign, ClaimInv, Answers
  <2> HIDE DEF s
  <2>2. Typed(db)' /\ db'.order.holder = s
    BY <2>1 DEF ClaimInv, Typed, Tables, Columns
  <2>3. ClaimInv'
    BY <2>1, <2>2 DEF ClaimInv, Idle
  <2>4. Claims!Claim(s)
    BY <2>1, <2>2 DEF Claims!Claim
  <2> QED
    BY <2>1, <2>3, <2>4 DEF Passes, Claims!Next
<1> QED
  BY <1>1, <1>2

\* Whoever holds the order by then, it is given up.
LEMMA UnassignStep ==
  ASSUME ClaimInv, NEW w \in Workers,
         \/ \E s \in Staff : ReadUnassign(w, s)
         \/ WriteUnassign(w) \/ Drop(w)
  PROVE  ClaimInv' /\ Passes
<1>1. CASE \E s \in Staff : ReadUnassign(w, s)
  BY <1>1, ReadStep DEF ReadUnassign
<1>2. CASE WriteUnassign(w)
  <2>1. Yields([db EXCEPT !.order.holder = NoStaff])
    BY DEF Yields, ClaimInv, Typed, Tables, Columns
  <2> QED
    BY <1>2, <2>1, AnswerStep DEF WriteUnassign
<1>3. CASE Drop(w)
  <2>1. Yields(db)
    BY DEF Yields, ClaimInv
  <2> QED
    BY <1>3, <2>1, AnswerStep DEF Drop
<1> QED
  BY <1>1, <1>2, <1>3

-----------------------------------------------------------------------------
\* The desk opens with no order, so nobody holds it.
LEMMA InitClaim == Init => ClaimInv /\ Claims!Init
<1> SUFFICES ASSUME Init PROVE ClaimInv /\ Claims!Init
  OBVIOUS
<1>1. Typed(db) /\ db.order.holder = NoStaff
  BY DEF Init, Typed, Tables, Columns, Absent
<1>2. pending = [w \in Workers |-> Idle]
  BY DEF Init
<1> QED
  BY <1>1, <1>2 DEF ClaimInv, Claims!Init, Idle

\* Every step keeps the invariant and is a step, or a stutter, of OrderClaim.
LEMMA NextClaim ==
  ASSUME ClaimInv, "reassign" \notin Practices, [Next]_vars
  PROVE  ClaimInv' /\ Passes
<1>1. CASE UNCHANGED vars
  BY <1>1 DEF vars, ClaimInv, Typed, Passes
<1>2. CASE Next
  <2>1. CASE \E forms \in Lists, fee \in Fees, status \in {"new", "delivered"} :
                CreateOrder(forms, fee, status)
    BY <2>1, CreateStep
  <2>2. CASE \/ \E form \in ItemForms, pos \in Positions : CreateWorkItem(form, pos)
             \/ \E i \in Items, form \in ItemForms, pos \in Positions :
                  UpdateWorkItem(i, form, pos)
             \/ \E i \in Items : DeleteWorkItem(i)
    BY <2>2, ItemStep
  <2>3. CASE \/ \E i \in Items, b \in Blanks :
                  UnassignBlank(i, b) \/ \E q \in 0..MaxQty : AssignBlank(i, b, q)
             \/ \E b \in Blanks : CreateBlank(b) \/ DeleteBlank(b)
    BY <2>3, BlankStep
  <2>4. CASE \/ \E w \in Workers, i \in Items, target \in ItemTargets :
                  ReadMove(w, i, target)
             \/ \E w \in Workers : WriteMove(w)
    BY <2>4, MoveStep
  <2>5. CASE \E target \in OrderTargets : TransitionStatus(target)
    BY <2>5, TransitionStep
  <2>6. CASE \/ \E w \in Workers, patch \in Patches : ReadPatch(w, patch)
             \/ \E w \in Workers : WritePatch(w)
    BY <2>6, EditStep
  <2>7. CASE \/ \E w \in Workers, s \in Staff : ReadAssign(w, s)
             \/ \E w \in Workers : WriteAssign(w)
    BY <2>7, AssignStep
  <2>8. CASE \/ \E w \in Workers, s \in Staff : ReadUnassign(w, s)
             \/ \E w \in Workers : WriteUnassign(w) \/ Drop(w)
    BY <2>8, UnassignStep
  <2> QED
    BY <1>2, <2>1, <2>2, <2>3, <2>4, <2>5, <2>6, <2>7, <2>8 DEF Next
<1> QED
  BY <1>1, <1>2

(***************************************************************************)
(* However many claim, move, edit and hand over one order, and with any    *)
(* staff, blanks, items and bounds: unless a patch names the holder, the   *)
(* order passes from one member of staff to another only after it was      *)
(* given up, as OrderClaim says.                                           *)
(***************************************************************************)
THEOREM ClaimsPassByGivingUp ==
  ASSUME "reassign" \notin Practices
  PROVE  Spec => ImplementsOrderClaim
<1>1. Init => ClaimInv /\ Claims!Init
  BY InitClaim
<1>2. ClaimInv /\ [Next]_vars => ClaimInv' /\ [Claims!Next]_(db.order.holder)
  BY NextClaim DEF Passes
<1> QED
  BY <1>1, <1>2, PTL DEF Spec, ImplementsOrderClaim, Claims!Spec

-----------------------------------------------------------------------------
(***************************************************************************)
(* The second theorem.  Rows(d): the rows of order_items have their ids    *)
(* and columns.  Finished(d) is FinishedWithItsItems of a database d.      *)
(* Stays(d, d2): the status is what it was, and if it is one that ends the *)
(* order, the main items are among those of d, with their statuses.        *)
(***************************************************************************)
ItemColumns == {"pos", "form", "status"}

Row(r) ==
  /\ r = [c \in ItemColumns |-> r[c]]
  /\ r.pos \in Nat /\ r.status \in ItemStatuses

Rows(d) ==
  /\ d.lastItem \in Nat
  /\ d.items = [i \in DOMAIN d.items |-> d.items[i]]
  /\ \A i \in DOMAIN d.items : i \in Nat /\ Row(d.items[i])

Finished(d) ==
  \A i \in MainItems(d) :
    /\ HandedOver(d.order.status) => d.items[i].status \in {"delivered", "cancelled"}
    /\ d.order.status = "cancelled" => d.items[i].status = "cancelled"

Stays(d, d2) ==
  /\ Rows(d2)
  /\ d2.order.status = d.order.status
  /\ Terminal(d.order.status) =>
       \A i \in MainItems(d2) : /\ i \in MainItems(d)
                                /\ d2.items[i].status = d.items[i].status

\* The table of items and the status of the order are untouched.
Untouched(d, d2) ==
  d2.items = d.items /\ d2.lastItem = d.lastItem /\ d2.order.status = d.order.status

-----------------------------------------------------------------------------
\* What ended an order finished is finished when it stays.
LEMMA StaysFinished ==
  ASSUME NEW d, NEW d2, Finished(d), Stays(d, d2)
  PROVE  Finished(d2)
BY DEF Finished, Stays, Terminal, HandedOver

\* Staying is transitive.
LEMMA StaysOn ==
  ASSUME NEW d, NEW d1, NEW d2, Stays(d, d1), Stays(d1, d2)
  PROVE  Stays(d, d2)
BY DEF Stays

\* A database stays when other tables and columns are written.
LEMMA UntouchedStays ==
  ASSUME NEW d, NEW d2, Rows(d), Untouched(d, d2)
  PROVE  Stays(d, d2)
BY DEF Stays, Untouched, Rows, MainItems

\* An order that has not ended stays whatever its items are.
LEMMA OpenStays ==
  ASSUME NEW d, NEW d2, Rows(d2), d2.order.status = d.order.status,
         ~Terminal(d.order.status)
  PROVE  Stays(d, d2)
BY DEF Stays

-----------------------------------------------------------------------------
(***************************************************************************)
(* Statuses derived, and set                                               *)
(***************************************************************************)

\* Of some statuses there is a least.
LEMMA LeastStatusIs ==
  ASSUME NEW S \in SUBSET ItemStatuses, S # {}
  PROVE  Least(S) \in S /\ \A t \in S : ItemRank[Least(S)] <= ItemRank[t]
<1>1. \E s \in S : \A t \in S : ItemRank[s] <= ItemRank[t]
  <2>1. CASE "pending" \in S
    BY <2>1 DEF ItemStatuses, ItemRank
  <2>2. CASE "pending" \notin S /\ "confirmed" \in S
    BY <2>2 DEF ItemStatuses, ItemRank
  <2>3. CASE S \subseteq {"working", "ready", "delivered", "cancelled"} /\ "working" \in S
    BY <2>3 DEF ItemStatuses, ItemRank
  <2>4. CASE S \subseteq {"ready", "delivered", "cancelled"} /\ "ready" \in S
    BY <2>4 DEF ItemStatuses, ItemRank
  <2>5. CASE S \subseteq {"delivered", "cancelled"}
    BY <2>5 DEF ItemStatuses, ItemRank
  <2> QED
    BY <2>1, <2>2, <2>3, <2>4, <2>5 DEF ItemStatuses, ItemRank
<1> QED
  BY <1>1 DEF Least

\* A derived status ends an order only when the main items are finished.
LEMMA DerivedIsFinished ==
  ASSUME NEW d, Rows(d), d.order.status = DeriveOrderStatus(d)
  PROVE  Finished(d)
<1> DEFINE live == LiveMainStatuses(d)
<1>1. \A i \in MainItems(d) : d.items[i].status \in live \/ d.items[i].status = "cancelled"
  BY DEF LiveMainStatuses
<1>2. live \subseteq ItemStatuses \ {"cancelled"}
  <2>1. \A i \in MainItems(d) : d.items[i].status \in ItemStatuses
    BY DEF MainItems, Rows, Row
  <2> QED
    BY <2>1 DEF LiveMainStatuses
<1>3. CASE live = {}
  BY <1>1, <1>3 DEF Finished, DeriveOrderStatus, HandedOver
<1>4. CASE live # {}
  <2>1. Least(live) \in live /\ \A t \in live : ItemRank[Least(live)] <= ItemRank[t]
    BY <1>2, <1>4, LeastStatusIs
  <2>2. d.order.status = OrderStatusOf[Least(live)]
    BY <1>4 DEF DeriveOrderStatus
  <2>3. d.order.status # "cancelled" /\ d.order.status # "completed"
    BY <1>2, <2>1, <2>2 DEF OrderStatusOf, ItemStatuses, ItemRank
  <2>4. d.order.status = "delivered" => Least(live) = "delivered"
    BY <1>2, <2>1, <2>2 DEF OrderStatusOf, ItemStatuses, ItemRank
  <2>5. Least(live) = "delivered" => live = {"delivered"}
    BY <1>2, <2>1 DEF ItemStatuses, ItemRank
  <2> QED
    BY <1>1, <2>3, <2>4, <2>5 DEF Finished, HandedOver
<1> QED
  BY <1>3, <1>4

\* Setting a status leaves the items and their forms.
LEMMA SetItemsRows ==
  ASSUME NEW d, Typed(d), Rows(d), NEW S, NEW s \in ItemStatuses
  PROVE  LET d2 == SetItems(d, S, s)
         IN  /\ Rows(d2) /\ MainItems(d2) = MainItems(d)
             /\ d2.order = d.order
             /\ \A i \in DOMAIN d.items :
                  d2.items[i].status = IF i \in S THEN s ELSE d.items[i].status
<1> DEFINE d2 == SetItems(d, S, s)
<1>1. /\ d2.order = d.order /\ d2.lastItem = d.lastItem
      /\ d2.items = [i \in DOMAIN d.items |->
                       IF i \in S THEN [d.items[i] EXCEPT !.status = s] ELSE d.items[i]]
  BY DEF SetItems, Typed, Tables
<1> HIDE DEF d2
<1>2. ASSUME NEW i \in DOMAIN d.items
      PROVE  /\ Row(d2.items[i]) /\ d2.items[i].form = d.items[i].form
             /\ d2.items[i].status = IF i \in S THEN s ELSE d.items[i].status
  <2>1. Row(d.items[i])
    BY DEF Rows
  <2>2. CASE i \in S
    <3>1. d2.items[i] = [d.items[i] EXCEPT !.status = s]
      BY <1>1, <2>2
    <3> QED
      BY <2>1, <2>2, <3>1 DEF Row, ItemColumns
  <2>3. CASE i \notin S
    BY <1>1, <2>1, <2>3
  <2> QED
    BY <2>2, <2>3
<1>3. Rows(d2)
  BY <1>1, <1>2 DEF Rows
<1>4. MainItems(d2) = MainItems(d)
  BY <1>1, <1>2 DEF MainItems
<1> QED
  BY <1>1, <1>2, <1>3, <1>4 DEF d2

\* The extras following the order leave it, and its main items, alone.
LEMMA ExtrasStay ==
  ASSUME NEW d, Typed(d), Rows(d), NEW target
  PROVE  Stays(d, SyncExtras(d, target))
<1>1. CASE target \notin DOMAIN ItemStatusOf
  BY <1>1, UntouchedStays DEF SyncExtras, Untouched
<1>2. CASE target \in DOMAIN ItemStatusOf
  <2> DEFINE S == {i \in ExtraItems(d) :
                     ItemRank[d.items[i].status] < ItemRank[ItemStatusOf[target]]}
             s == ItemStatusOf[target]
             d2 == SetItems(d, S, s)
  <2>1. SyncExtras(d, target) = d2
    BY <1>2 DEF SyncExtras
  <2>2. s \in ItemStatuses
    BY <1>2 DEF ItemStatusOf, ItemStatuses, ItemRank
  <2>3. S \intersect MainItems(d) = {}
    BY DEF ExtraItems
  <2> HIDE DEF S, s
  <2>4. /\ Rows(d2) /\ MainItems(d2) = MainItems(d) /\ d2.order = d.order
        /\ \A i \in DOMAIN d.items :
             d2.items[i].status = IF i \in S THEN s ELSE d.items[i].status
    BY <2>2, SetItemsRows
  <2>5. MainItems(d) \subseteq DOMAIN d.items
    BY DEF MainItems
  <2> HIDE DEF d2
  <2>6. Stays(d, d2)
    BY <2>3, <2>4, <2>5 DEF Stays
  <2> QED
    BY <2>1, <2>6
<1> QED
  BY <1>1, <1>2

\* A move of an item: the order has the status of its items, or had it.
LEMMA FollowFinishes ==
  ASSUME NEW d, Typed(d), Rows(d)
  PROVE  Rows(FollowItems(d)) /\ Finished(FollowItems(d))
<1> DEFINE derived == DeriveOrderStatus(d)
           d1 == [d EXCEPT !.order.status = derived]
<1>1. CASE MainItems(d) = {}
  BY <1>1 DEF FollowItems, Finished
<1>2. CASE derived = d.order.status
  <2>1. Finished(d)
    BY <1>2, DerivedIsFinished
  <2> QED
    BY <1>2, <2>1, Zenon DEF FollowItems
<1>3. CASE MainItems(d) # {} /\ derived # d.order.status
  <2>1. FollowItems(d) = SyncExtras(d1, derived)
    BY <1>3 DEF FollowItems
  <2>2. Typed(d1)
    BY StatusKeeps DEF Keeps
  <2>3. d1.items = d.items /\ d1.lastItem = d.lastItem /\ d1.order.status = derived
    BY DEF Typed, Tables, Columns
  <2> HIDE DEF d1
  <2>4. Rows(d1)
    BY <2>3 DEF Rows
  <2>5. DeriveOrderStatus(d1) = derived
    BY <2>3 DEF DeriveOrderStatus, LiveMainStatuses, MainItems
  <2>6. Finished(d1)
    BY <2>3, <2>4, <2>5, DerivedIsFinished
  <2>7. Stays(d1, SyncExtras(d1, derived))
    BY <2>2, <2>4, ExtrasStay
  <2> QED
    BY <2>1, <2>6, <2>7, StaysFinished DEF Stays
<1> QED
  BY <1>1, <1>2, <1>3

\* The cascade finishes the main items of an order that a status ends.
LEMMA CascadeFinishes ==
  ASSUME NEW d, Typed(d), Rows(d), d.order.status \in OrderStatuses
  PROVE  LET d2 == CascadeMainItems(d, d.order.status)
         IN  Rows(d2) /\ Finished(d2)
<1> DEFINE target == d.order.status
           live == MainIn(d, ItemStatuses \ {"cancelled"})
<1>1. CASE target = "confirmed"
  <2> DEFINE d2 == SetItems(d, MainIn(d, {"pending"}), "confirmed")
  <2>1. CascadeMainItems(d, target) = d2
    BY <1>1 DEF CascadeMainItems
  <2>2. Rows(d2) /\ d2.order = d.order
    BY SetItemsRows DEF ItemStatuses, ItemRank
  <2> HIDE DEF d2
  <2> QED
    BY <1>1, <2>1, <2>2 DEF Finished, HandedOver
<1>2. CASE HandedOver(target)
  <2> DEFINE d2 == SetItems(d, live, "delivered")
  <2>1. CascadeMainItems(d, target) = d2
    BY <1>2 DEF CascadeMainItems, HandedOver
  <2>2. /\ Rows(d2) /\ MainItems(d2) = MainItems(d) /\ d2.order = d.order
        /\ \A i \in DOMAIN d.items :
             d2.items[i].status = IF i \in live THEN "delivered" ELSE d.items[i].status
    BY SetItemsRows DEF ItemStatuses, ItemRank
  <2>3. \A i \in MainItems(d) : i \in DOMAIN d.items /\ d.items[i].status \in ItemStatuses
    BY DEF MainItems, Rows, Row
  <2>4. \A i \in MainItems(d) : i \in live \/ d.items[i].status = "cancelled"
    BY <2>3 DEF MainIn
  <2> HIDE DEF d2, live
  <2>5. Finished(d2)
    BY <1>2, <2>2, <2>3, <2>4 DEF Finished, HandedOver
  <2> QED
    BY <2>1, <2>2, <2>5
<1>3. CASE target = "cancelled"
  <2> DEFINE S == MainItems(d)
             d2 == SetItems(d, S, "cancelled")
  <2>1. CascadeMainItems(d, target) = d2
    BY <1>3 DEF CascadeMainItems
  <2>2. /\ Rows(d2) /\ MainItems(d2) = S /\ d2.order = d.order
        /\ \A i \in DOMAIN d.items :
             d2.items[i].status = IF i \in S THEN "cancelled" ELSE d.items[i].status
    BY SetItemsRows DEF ItemStatuses, ItemRank
  <2>3. S \subseteq DOMAIN d.items
    BY DEF MainItems
  <2> HIDE DEF d2, S
  <2>4. Finished(d2)
    BY <1>3, <2>2, <2>3 DEF Finished, HandedOver
  <2> QED
    BY <2>1, <2>2, <2>4
<1>4. CASE target \notin {"confirmed", "cancelled"} /\ ~HandedOver(target)
  <2>1. CascadeMainItems(d, target) = d
    BY <1>4 DEF CascadeMainItems, HandedOver
  <2> QED
    BY <1>4, <2>1 DEF Finished
<1> QED
  BY <1>1, <1>2, <1>3, <1>4

-----------------------------------------------------------------------------
(***************************************************************************)
(* Rows inserted, changed and deleted                                      *)
(***************************************************************************)

\* A row that is inserted is an order's main item only if its form says so.
LEMMA InsertStays ==
  ASSUME NEW d, Typed(d), Rows(d), NEW form, NEW pos \in Nat,
         Terminal(d.order.status) => form.kind # "main"
  PROVE  Stays(d, InsertItem(d, form, pos))
<1> DEFINE d2 == InsertItem(d, form, pos)
           row == [pos |-> pos, form |-> form, status |-> "pending"]
<1>1. /\ d2.lastItem = d.lastItem + 1 /\ d2.order = d.order
      /\ d2.items = [i \in DOMAIN d.items \union {d.lastItem + 1} |->
                       IF i \in DOMAIN d.items THEN d.items[i] ELSE row]
  BY DEF InsertItem, Typed, Tables
<1>2. Row(row) /\ row.form = form
  BY DEF Row, ItemColumns, ItemStatuses, ItemRank
<1> HIDE DEF d2, row
<1>3. Rows(d2)
  BY <1>1, <1>2 DEF Rows
<1>4. Terminal(d.order.status) =>
        \A i \in MainItems(d2) : i \in MainItems(d) /\ d2.items[i] = d.items[i]
  BY <1>1, <1>2 DEF MainItems
<1> QED
  BY <1>1, <1>3, <1>4 DEF Stays, d2

\* So is a row that is changed.
LEMMA UpdateStays ==
  ASSUME NEW d, Typed(d), Rows(d), NEW i \in DOMAIN d.items, NEW form, NEW pos \in Nat,
         Terminal(d.order.status) /\ form.kind = "main" => i \in MainItems(d)
  PROVE  Stays(d, [d EXCEPT !.items[i].form = form, !.items[i].pos = pos])
<1> DEFINE d1 == [d EXCEPT !.items[i].form = form]
           d2 == [d1 EXCEPT !.items[i].pos = pos]
           r1 == [d.items[i] EXCEPT !.form = form]
           r2 == [r1 EXCEPT !.pos = pos]
<1>1. Row(d.items[i])
  BY DEF Rows
<1>2. Row(r2) /\ r2.form = form /\ r2.status = d.items[i].status
  BY <1>1 DEF Row, ItemColumns
<1>3. /\ Typed(d1) /\ d1.lastItem = d.lastItem /\ d1.order = d.order
      /\ d1.items = [d.items EXCEPT ![i] = r1]
  BY DEF Typed, Tables
<1> HIDE DEF d1, r1
<1>4. /\ d2.lastItem = d1.lastItem /\ d2.order = d1.order
      /\ d2.items = [d1.items EXCEPT ![i].pos = pos]
  BY <1>3 DEF Typed, Tables
<1> HIDE DEF d2
<1>5. d1.items[i] = r1 /\ DOMAIN d1.items = DOMAIN d.items
  BY <1>3 DEF Rows
<1>6. d2.items = [d.items EXCEPT ![i] = r2]
  BY <1>3, <1>4, <1>5 DEF Rows
<1> HIDE DEF r2
<1>7. Rows(d2)
  BY <1>2, <1>3, <1>4, <1>6 DEF Rows
<1>8. Terminal(d.order.status) =>
        \A j \in MainItems(d2) :
          j \in MainItems(d) /\ d2.items[j].status = d.items[j].status
  BY <1>2, <1>6 DEF MainItems, Rows
<1>9. Stays(d, d2)
  BY <1>3, <1>4, <1>7, <1>8 DEF Stays
<1> QED
  BY <1>9, Zenon DEF d1, d2

\* The rows that a deletion leaves are those there were.
LEMMA DeleteStays ==
  ASSUME NEW d, Typed(d), Rows(d), NEW S
  PROVE  Stays(d, DeleteItems(d, S))
<1> DEFINE d2 == DeleteItems(d, S)
<1>1. /\ d2.lastItem = d.lastItem /\ d2.order = d.order
      /\ d2.items = [i \in DOMAIN d.items \ S |-> d.items[i]]
  BY DEF DeleteItems, Restrict, Typed, Tables
<1> HIDE DEF d2
<1>2. Rows(d2)
  BY <1>1 DEF Rows
<1> QED
  BY <1>1, <1>2 DEF Stays, MainItems, d2

\* The ids that an edit inserts rows under are numbers.
LEMMA InsertedIds ==
  ASSUME NEW d, Rows(d), NEW forms, Len(forms) \in Nat
  PROVE  /\ Cardinality(Unfilled(d, forms)) \in Nat
         /\ \A p \in Unfilled(d, forms) : InsertedId(d, forms, p) \in Nat
<1>1. IsFiniteSet(0..Len(forms) - 1)
  BY FS_Interval
<1>2. IsFiniteSet(Unfilled(d, forms))
  BY <1>1, FS_Subset DEF Unfilled
<1>3. ASSUME NEW p PROVE Cardinality({q \in Unfilled(d, forms) : q <= p}) \in Nat
  BY <1>2, FS_Subset, FS_CardinalityType
<1>4. ASSUME NEW p PROVE InsertedId(d, forms, p) \in Nat
  <2> DEFINE n == Cardinality({q \in Unfilled(d, forms) : q <= p})
  <2>1. n \in Nat /\ d.lastItem \in Nat
    BY <1>3 DEF Rows
  <2>2. InsertedId(d, forms, p) = d.lastItem + n
    BY DEF InsertedId
  <2> HIDE DEF n
  <2> QED
    BY <2>1, <2>2
<1> QED
  BY <1>2, <1>4, FS_CardinalityType

\* An item of a list is inserted pending, or takes the place of one.
LEMMA PutRowIs ==
  ASSUME NEW d, Rows(d), NEW forms, Len(forms) \in Nat,
         Terminal(d.order.status) =>
           \A k \in 1..Len(forms) : forms[k].kind = "main" =>
             \E j \in MainItems(d) : j \in ItemAt(d, k - 1),
         NEW i,
         i \in DOMAIN d.items \/ \E p \in Unfilled(d, forms) : i = InsertedId(d, forms, p)
  PROVE  LET r == PutRow(d, forms, i)
         IN  /\ i \in Nat /\ Row(r)
             /\ Terminal(d.order.status) /\ r.form.kind = "main" =>
                  i \in MainItems(d) /\ r.status = d.items[i].status
<1> DEFINE r == PutRow(d, forms, i)
<1>1. CASE i \notin DOMAIN d.items
  <2> DEFINE p == CHOOSE q \in Unfilled(d, forms) : InsertedId(d, forms, q) = i
  <2>1. p \in Unfilled(d, forms) /\ InsertedId(d, forms, p) = i
    BY <1>1
  <2>2. r = [pos |-> p, form |-> forms[p + 1], status |-> "pending"]
    BY <1>1 DEF PutRow, InsertedRow
  <2> HIDE DEF p
  <2>3. p \in 0..Len(forms) - 1 /\ ItemAt(d, p) = {}
    BY <2>1 DEF Unfilled
  <2>4. p \in Nat /\ p + 1 \in 1..Len(forms) /\ (p + 1) - 1 = p
    BY <2>3
  <2>5. Terminal(d.order.status) => forms[p + 1].kind # "main"
    BY <2>3, <2>4
  <2>6. Row(r)
    BY <2>2, <2>4 DEF Row, ItemColumns, ItemStatuses, ItemRank
  <2>7. r.form = forms[p + 1]
    BY <2>2
  <2> QED
    BY <2>1, <2>5, <2>6, <2>7, InsertedIds
<1>2. CASE i \in DOMAIN d.items /\ Takes(d, forms, i)
  <2> DEFINE form == forms[d.items[i].pos + 1]
  <2>1. i \in Nat /\ Row(d.items[i])
    BY <1>2 DEF Rows
  <2>2. r = [d.items[i] EXCEPT !.form = form]
    BY <1>2 DEF PutRow
  <2> HIDE DEF form
  <2>3. Row(r) /\ r.form = form /\ r.status = d.items[i].status
    BY <2>1, <2>2 DEF Row, ItemColumns
  <2>4. ASSUME Terminal(d.order.status), form.kind = "main"
        PROVE  i \in MainItems(d)
    <3> DEFINE k == d.items[i].pos + 1
    <3>1. k \in 1..Len(forms) /\ k - 1 = d.items[i].pos
      BY <1>2, <2>1 DEF Takes, Row
    <3>2. forms[k].kind = "main"
      BY <2>4 DEF form
    <3>3. PICK j \in MainItems(d) : j \in ItemAt(d, d.items[i].pos)
      BY <2>4, <3>1, <3>2
    <3>4. i \in ItemAt(d, d.items[i].pos)
      BY <1>2 DEF Takes
    <3>5. i <= j /\ j <= i /\ j \in DOMAIN d.items
      BY <3>3, <3>4 DEF ItemAt
    <3>6. i = j
      BY <2>1, <3>5 DEF Rows
    <3> QED
      BY <3>3, <3>6
  <2> QED
    BY <2>1, <2>3, <2>4
<1>3. CASE i \in DOMAIN d.items /\ ~Takes(d, forms, i)
  <2>1. r = d.items[i]
    BY <1>3 DEF PutRow
  <2> QED
    BY <1>3, <2>1 DEF Rows, MainItems
<1> QED
  BY <1>1, <1>2, <1>3

\* A list put on an order that has ended adds no main item to it.
LEMMA PutStays ==
  ASSUME NEW d, Typed(d), Rows(d), NEW forms, Len(forms) \in Nat,
         Terminal(d.order.status) =>
           \A k \in 1..Len(forms) : forms[k].kind = "main" =>
             \E j \in MainItems(d) : j \in ItemAt(d, k - 1)
  PROVE  Stays(d, PutItems(d, forms))
<1> DEFINE inserted == {InsertedId(d, forms, p) : p \in Unfilled(d, forms)}
           n == Cardinality(Unfilled(d, forms))
           d2 == PutItems(d, forms)
<1>1. /\ d2.order = d.order /\ d2.lastItem = d.lastItem + n
      /\ d2.items = [i \in DOMAIN d.items \union inserted |-> PutRow(d, forms, i)]
  BY DEF PutItems, Typed, Tables
<1>2. n \in Nat
  BY InsertedIds
<1>3. ASSUME NEW i \in DOMAIN d.items \union inserted
      PROVE  /\ i \in Nat /\ Row(PutRow(d, forms, i))
             /\ Terminal(d.order.status) /\ PutRow(d, forms, i).form.kind = "main" =>
                  i \in MainItems(d) /\ PutRow(d, forms, i).status = d.items[i].status
  BY PutRowIs
<1> HIDE DEF inserted, n, d2
<1>4. Rows(d2)
  BY <1>1, <1>2, <1>3 DEF Rows
<1>5. Terminal(d.order.status) =>
        \A i \in MainItems(d2) :
          i \in MainItems(d) /\ d2.items[i].status = d.items[i].status
  BY <1>1, <1>3 DEF MainItems
<1> QED
  BY <1>1, <1>4, <1>5 DEF Stays, d2

-----------------------------------------------------------------------------
(***************************************************************************)
(* The invariant: what is asked of an item is a status of items, and a     *)
(* patch is one of Patches, for as long as it is pending.                  *)
(***************************************************************************)
FinishInv ==
  /\ Typed(db) /\ Rows(db) /\ Finished(db)
  /\ pending = [w \in Workers |-> pending[w]]
  /\ \A w \in Workers :
       /\ pending[w].op = "move" => pending[w].target \in ItemStatuses
       /\ pending[w].op = "edit" => pending[w].patch \in Patches

\* A database a request may leave.
Sound(d) == Typed(d) /\ Rows(d) /\ Finished(d)

LEMMA StaysSound ==
  ASSUME FinishInv, NEW d, Typed(d), Stays(db, d)
  PROVE  Sound(d)
BY StaysFinished DEF FinishInv, Sound, Stays

\* A request that is one action.
LEMMA SoundServe ==
  ASSUME FinishInv, NEW d, Sound(d), Serves(d)
  PROVE  FinishInv'
<1>1. Sound(db)'
  BY DEF Serves, Sound, Typed, Rows, Finished, MainItems
<1> QED
  BY <1>1 DEF FinishInv, Sound, Serves

\* The write phase of a request.
LEMMA SoundAnswer ==
  ASSUME FinishInv, NEW w \in Workers, NEW d, Sound(d), Answers(w, d)
  PROVE  FinishInv'
<1>1. Sound(db)'
  BY DEF Answers, Sound, Typed, Rows, Finished, MainItems
<1>2. pending' = [pending EXCEPT ![w] = Idle]
  BY DEF Answers
<1> QED
  BY <1>1, <1>2 DEF FinishInv, Sound, Idle

\* The read phase of a request takes note of what it needs.
LEMMA SoundRead ==
  ASSUME FinishInv, NEW w \in Workers, NEW r, Reads(w, r),
         r.op = "move" => r.target \in ItemStatuses,
         r.op = "edit" => r.patch \in Patches
  PROVE  FinishInv'
<1>1. db' = db /\ pending' = [pending EXCEPT ![w] = r]
  BY DEF Reads
<1>2. Sound(db)'
  BY <1>1 DEF FinishInv, Sound, Typed, Rows, Finished, MainItems
<1> QED
  BY <1>1, <1>2 DEF FinishInv, Sound

\* The copy of the items is regenerated after each change of a row.
LEMMA SoundRows ==
  ASSUME FinishInv, NEW d, Typed(d), Stays(db, d), Serves(SyncOrderItemsJson(d))
  PROVE  FinishInv'
<1> DEFINE d2 == SyncOrderItemsJson(d)
<1>1. Typed(d2)
  BY SyncJsonKeeps DEF Keeps
<1>2. Untouched(d, d2)
  BY DEF Untouched, SyncOrderItemsJson, Typed, Tables, Columns
<1>3. Stays(d, d2)
  BY <1>2, UntouchedStays DEF Stays
<1> HIDE DEF d2
<1>4. Sound(d2)
  BY <1>1, <1>3, StaysOn, StaysSound
<1> QED
  BY <1>4, SoundServe DEF d2

-----------------------------------------------------------------------------
(***************************************************************************)
(* One step per action, in the order of Next.                              *)
(***************************************************************************)

\* A new order is open.
LEMMA CreateFinished ==
  ASSUME FinishInv, "counter_sale" \notin Practices,
         NEW forms \in Lists, NEW fee, NEW status \in {"new", "delivered"},
         CreateOrder(forms, fee, status)
  PROVE  FinishInv'
<1> DEFINE row == [Absent EXCEPT !.status = status, !.fee = fee,
                                 !.listed = BodyListing(forms),
                                 !.total = Subtotal(forms) + fee]
           new == [db EXCEPT !.order = row]
<1>1. row = [c \in Columns |-> row[c]] /\ row.status = status
  BY DEF Columns, Absent
<1>2. Serves(PutItems(new, forms))
  BY DEF CreateOrder
<1>3. status = "new"
  BY DEF CreateOrder
<1>4. Len(forms) \in Nat
  BY DeskAssumption
<1> HIDE DEF row
<1>5. /\ Typed(new) /\ new.order.status = "new"
      /\ new.items = db.items /\ new.lastItem = db.lastItem
  BY <1>1, <1>3 DEF FinishInv, Typed, Tables
<1> HIDE DEF new
<1>6. Rows(new) /\ ~Terminal(new.order.status)
  BY <1>5 DEF FinishInv, Rows, Terminal, HandedOver
<1>7. Finished(new)
  BY <1>5 DEF Finished, HandedOver
<1>8. Stays(new, PutItems(new, forms))
  BY <1>4, <1>5, <1>6, PutStays
<1>9. Sound(PutItems(new, forms))
  BY <1>5, <1>7, <1>8, PutKeeps, StaysFinished DEF Keeps, Sound, Stays
<1> QED
  BY <1>2, <1>9, SoundServe

\* An order that has ended gets no main item.
LEMMA ItemFinished ==
  ASSUME FinishInv, "late_items" \notin Practices,
         \/ \E form \in ItemForms, pos \in Positions : CreateWorkItem(form, pos)
         \/ \E i \in Items, form \in ItemForms, pos \in Positions : UpdateWorkItem(i, form, pos)
         \/ \E i : DeleteWorkItem(i)
  PROVE  FinishInv'
<1>1. Typed(db) /\ Rows(db)
  BY DEF FinishInv
<1>2. Positions \subseteq Nat
  BY DeskAssumption DEF Positions
<1>3. CASE \E form \in ItemForms, pos \in Positions : CreateWorkItem(form, pos)
  <2>1. PICK form \in ItemForms, pos \in Positions : CreateWorkItem(form, pos)
    BY <1>3
  <2>2. Terminal(db.order.status) => form.kind # "main"
    BY <2>1 DEF CreateWorkItem, AddsMain
  <2>3. Stays(db, InsertItem(db, form, pos))
    BY <1>1, <1>2, <2>2, InsertStays
  <2> QED
    BY <1>1, <2>1, <2>3, InsertKeeps, SoundRows DEF CreateWorkItem, Keeps
<1>4. CASE \E i \in Items, form \in ItemForms, pos \in Positions : UpdateWorkItem(i, form, pos)
  <2>1. PICK i \in Items, form \in ItemForms, pos \in Positions : UpdateWorkItem(i, form, pos)
    BY <1>4
  <2> DEFINE d1 == [db EXCEPT !.items[i].form = form]
             d2 == [d1 EXCEPT !.items[i].pos = pos]
  <2>2. Terminal(db.order.status) /\ form.kind = "main" => i \in MainItems(db)
    BY <2>1 DEF UpdateWorkItem, AddsMain
  <2>3. i \in DOMAIN db.items
    BY DEF Items
  <2>4. Stays(db, d2)
    BY <1>1, <1>2, <2>2, <2>3, UpdateStays, Zenon
  <2>5. Serves(SyncOrderItemsJson(d2))
    BY <2>1, Zenon DEF UpdateWorkItem
  <2>6. Typed(d1)
    BY <1>1 DEF Typed, Tables
  <2> HIDE DEF d1
  <2>7. Typed(d2)
    BY <2>6 DEF Typed, Tables
  <2> HIDE DEF d2
  <2> QED
    BY <2>4, <2>5, <2>7, SoundRows
<1>5. CASE \E i : DeleteWorkItem(i)
  BY <1>1, <1>5, DeleteKeeps, DeleteStays, SoundRows DEF DeleteWorkItem, Keeps
<1> QED
  BY <1>3, <1>4, <1>5

\* Blanks and their assignments are tables of their own.
LEMMA BlankFinished ==
  ASSUME FinishInv,
         \/ \E i, b : UnassignBlank(i, b) \/ \E q : AssignBlank(i, b, q)
         \/ \E b : CreateBlank(b) \/ DeleteBlank(b)
  PROVE  FinishInv'
<1>1. Typed(db) /\ Rows(db)
  BY DEF FinishInv
<1>2. ASSUME NEW d, Typed(d), Untouched(db, d) PROVE Stays(db, d) /\ Sound(d)
  BY <1>1, <1>2, UntouchedStays, StaysSound
<1>3. ASSUME NEW S
      PROVE  Typed([db EXCEPT !.assigned = S]) /\ Untouched(db, [db EXCEPT !.assigned = S])
  BY <1>1 DEF Typed, Untouched, Tables
<1>4. ASSUME NEW S, NEW B
      PROVE  /\ Typed([db EXCEPT !.blanks = B, !.assigned = S])
             /\ Untouched(db, [db EXCEPT !.blanks = B, !.assigned = S])
  BY <1>1 DEF Typed, Untouched, Tables
<1>5. ASSUME NEW B
      PROVE  Typed([db EXCEPT !.blanks = B]) /\ Untouched(db, [db EXCEPT !.blanks = B])
  BY <1>1 DEF Typed, Untouched, Tables
<1>6. CASE \E i, b : UnassignBlank(i, b)
  BY <1>2, <1>3, <1>6, SoundRows, Zenon DEF UnassignBlank
<1>7. CASE \E i, b, q : AssignBlank(i, b, q)
  BY <1>2, <1>3, <1>7, SoundRows, Zenon DEF AssignBlank
<1>8. CASE \E b : CreateBlank(b)
  BY <1>2, <1>5, <1>8, SoundServe, Zenon DEF CreateBlank
<1>9. CASE \E b : DeleteBlank(b)
  BY <1>2, <1>4, <1>9, SoundServe, Zenon DEF DeleteBlank
<1> QED
  BY <1>6, <1>7, <1>8, <1>9

\* An item that moves takes the order's status along.
LEMMA MoveFinished ==
  ASSUME FinishInv, NEW w \in Workers,
         \/ \E i \in Items, target \in ItemTargets : ReadMove(w, i, target)
         \/ WriteMove(w)
  PROVE  FinishInv'
<1>1. CASE \E i \in Items, target \in ItemTargets : ReadMove(w, i, target)
  <2>1. PICK i \in Items, target \in ItemTargets : ReadMove(w, i, target)
    BY <1>1
  <2>2. target \in ItemStatuses
    BY DeskAssumption
  <2> QED
    BY <2>1, <2>2, SoundRead DEF ReadMove
<1>2. CASE WriteMove(w)
  <2> DEFINE r == pending[w]
             moved == SetItems(db, {r.item}, r.target)
  <2>1. Answers(w, FollowItems(moved)) /\ r.target \in ItemStatuses
    BY <1>2 DEF WriteMove, FinishInv
  <2>2. Typed(moved) /\ Rows(moved)
    BY <2>1, SetItemsKeeps, SetItemsRows DEF FinishInv, Keeps
  <2> HIDE DEF moved
  <2>3. Sound(FollowItems(moved))
    BY <2>2, FollowKeeps, FollowFinishes DEF Keeps, Sound
  <2> QED
    BY <2>1, <2>3, SoundAnswer
<1> QED
  BY <1>1, <1>2

\* A status asked for is cascaded to the main items, and leaves no work on one.
LEMMA TransitionFinished ==
  ASSUME FinishInv, NEW target \in OrderTargets, TransitionStatus(target)
  PROVE  FinishInv'
<1> DEFINE d1 == [db EXCEPT !.order.status = target]
           d2 == CascadeMainItems(d1, target)
           d3 == SyncExtras(d2, target)
<1>1. Serves(d3)
  BY DEF TransitionStatus
<1>2. /\ Typed(d1) /\ d1.order.status = target
      /\ d1.items = db.items /\ d1.lastItem = db.lastItem
  BY DEF FinishInv, Typed, Tables, Columns
<1>3. target \in OrderStatuses
  BY DeskAssumption
<1> HIDE DEF d1
<1>4. Rows(d1)
  BY <1>2 DEF FinishInv, Rows
<1>5. Typed(d2) /\ Rows(d2) /\ Finished(d2)
  BY <1>2, <1>3, <1>4, CascadeKeeps, CascadeFinishes DEF Keeps
<1> HIDE DEF d2
<1>6. Typed(d3) /\ Stays(d2, d3)
  BY <1>5, ExtrasKeep, ExtrasStay DEF Keeps
<1>7. Sound(d3)
  BY <1>5, <1>6, StaysFinished DEF Sound, Stays
<1> QED
  BY <1>1, <1>7, SoundServe

\* The items of a patch are a list, or left alone.
LEMMA EditFinished ==
  ASSUME FinishInv, "late_items" \notin Practices, NEW w \in Workers,
         \/ \E patch \in Patches : ReadPatch(w, patch)
         \/ WritePatch(w)
  PROVE  FinishInv'
<1>1. CASE \E patch \in Patches : ReadPatch(w, patch)
  BY <1>1, SoundRead DEF ReadPatch
<1>2. CASE WritePatch(w)
  <2> DEFINE r == pending[w]
             forms == r.patch.items
             patched == [db EXCEPT !.order = PatchedOrder(r)]
  <2>1. Answers(w, IF forms = Same THEN patched ELSE SyncOrderItemsTable(patched, forms))
    BY <1>2 DEF WritePatch
  <2>2. /\ PatchedOrder(r) = [c \in Columns |-> PatchedOrder(r)[c]]
        /\ PatchedOrder(r).status = db.order.status
    BY DEF PatchedOrder, FinishInv, Typed, Columns
  <2>3. Typed(patched) /\ Untouched(db, patched)
    BY <2>2 DEF FinishInv, Typed, Untouched, Tables
  <2>4. Rows(patched) /\ Stays(db, patched)
    <3> HIDE DEF patched
    <3> QED
      BY <2>3, UntouchedStays DEF FinishInv, Stays
  <2>5. CASE forms = Same
    <3>1. Answers(w, patched)
      BY <2>1, <2>5
    <3> HIDE DEF patched
    <3> QED
      BY <2>3, <2>4, <3>1, StaysSound, SoundAnswer
  <2>6. CASE forms # Same
    <3> DEFINE put == PutItems(patched, forms)
               gone == {i \in DOMAIN patched.items :
                          /\ patched.items[i].pos >= Len(forms)
                          /\ i \in ItemAt(patched, patched.items[i].pos)}
               d2 == DeleteItems(put, gone)
    <3>1. Answers(w, d2)
      BY <2>1, <2>6 DEF SyncOrderItemsTable
    <3>2. forms \in Seq(ItemForms)
      BY <1>2, <2>6, DeskAssumption DEF WritePatch, FinishInv
    <3>3. Len(forms) \in Nat /\ DOMAIN forms = 1..Len(forms)
      BY <3>2
    <3>4. Terminal(db.order.status) => ~AddsMainItems(forms)
      BY <1>2, <2>6 DEF WritePatch, PatchPractised
    <3> HIDE DEF forms, patched
    <3>5. \A k : ItemAt(patched, k) = ItemAt(db, k)
      BY <2>3 DEF Untouched, ItemAt
    <3>6. MainItems(patched) = MainItems(db) /\ patched.order.status = db.order.status
      BY <2>3 DEF Untouched, MainItems
    <3>7. \A k : ItemAt(db, k) \subseteq ExtraItems(db)
                   \/ \E j \in MainItems(db) : j \in ItemAt(db, k)
      BY DEF ItemAt, ExtraItems
    <3>8. Terminal(patched.order.status) =>
            \A k \in 1..Len(forms) : forms[k].kind = "main" =>
              \E j \in MainItems(patched) : j \in ItemAt(patched, k - 1)
      BY <3>3, <3>4, <3>5, <3>6, <3>7 DEF AddsMainItems
    <3>9. Typed(put) /\ Stays(patched, put)
      BY <2>3, <2>4, <3>3, <3>8, PutKeeps, PutStays DEF Keeps
    <3> HIDE DEF put, gone
    <3>10. Typed(d2) /\ Stays(put, d2)
      BY <3>9, DeleteKeeps, DeleteStays DEF Keeps, Stays
    <3>11. Stays(db, d2)
      BY <2>4, <3>9, <3>10, StaysOn
    <3> HIDE DEF d2
    <3> QED
      BY <3>1, <3>10, <3>11, StaysSound, SoundAnswer
  <2> QED
    BY <2>5, <2>6
<1> QED
  BY <1>1, <1>2

\* Who holds the order is a column of its own.
LEMMA HolderFinished ==
  ASSUME FinishInv, NEW w \in Workers,
         \/ \E s : ReadAssign(w, s) \/ ReadUnassign(w, s)
         \/ WriteAssign(w) \/ WriteUnassign(w) \/ Drop(w)
  PROVE  FinishInv'
<1>1. ASSUME NEW s PROVE Sound([db EXCEPT !.order.holder = s])
  <2> DEFINE d == [db EXCEPT !.order.holder = s]
  <2>1. Typed(d) /\ Untouched(db, d)
    BY DEF FinishInv, Typed, Untouched, Tables, Columns
  <2> HIDE DEF d
  <2>2. Sound(d)
    BY <2>1, UntouchedStays, StaysSound DEF FinishInv
  <2> QED
    BY <2>2 DEF d
<1>2. CASE \E s : ReadAssign(w, s) \/ ReadUnassign(w, s)
  BY <1>2, SoundRead DEF ReadAssign, ReadUnassign
<1>3. CASE WriteAssign(w) \/ WriteUnassign(w)
  BY <1>1, <1>3, SoundAnswer, Zenon DEF WriteAssign, WriteUnassign
<1>4. CASE Drop(w)
  BY <1>4, SoundAnswer DEF Drop, FinishInv, Sound
<1> QED
  BY <1>2, <1>3, <1>4

-----------------------------------------------------------------------------
\* The desk opens with no items.
LEMMA InitFinish == Init => FinishInv
<1> SUFFICES ASSUME Init PROVE FinishInv
  OBVIOUS
<1>1. Typed(db) /\ db.items = <<>> /\ db.lastItem = 0
  BY DEF Init, Typed, Tables, Columns, Absent
<1>2. Rows(db)
  BY <1>1 DEF Rows
<1>3. Finished(db)
  BY <1>1 DEF Finished, MainItems
<1>4. pending = [w \in Workers |-> Idle]
  BY DEF Init
<1> QED
  BY <1>1, <1>2, <1>3, <1>4 DEF FinishInv, Idle

\* Every step keeps the invariant.
LEMMA NextFinish ==
  ASSUME FinishInv, "late_items" \notin Practices, "counter_sale" \notin Practices,
         [Next]_vars
  PROVE  FinishInv'
<1>1. CASE UNCHANGED vars
  BY <1>1 DEF vars, FinishInv, Typed, Rows, Finished, MainItems
<1>2. CASE Next
  <2>1. CASE \E forms \in Lists, fee \in Fees, status \in {"new", "delivered"} :
                CreateOrder(forms, fee, status)
    BY <2>1, CreateFinished
  <2>2. CASE \/ \E form \in ItemForms, pos \in Positions : CreateWorkItem(form, pos)
             \/ \E i \in Items, form \in ItemForms, pos \in Positions :
                  UpdateWorkItem(i, form, pos)
             \/ \E i \in Items : DeleteWorkItem(i)
    BY <2>2, ItemFinished
  <2>3. CASE \/ \E i \in Items, b \in Blanks :
                  UnassignBlank(i, b) \/ \E q \in 0..MaxQty : AssignBlank(i, b, q)
             \/ \E b \in Blanks : CreateBlank(b) \/ DeleteBlank(b)
    BY <2>3, BlankFinished
  <2>4. CASE \/ \E w \in Workers, i \in Items, target \in ItemTargets :
                  ReadMove(w, i, target)
             \/ \E w \in Workers : WriteMove(w)
    BY <2>4, MoveFinished
  <2>5. CASE \E target \in OrderTargets : TransitionStatus(target)
    BY <2>5, TransitionFinished
  <2>6. CASE \/ \E w \in Workers, patch \in Patches : ReadPatch(w, patch)
             \/ \E w \in Workers : WritePatch(w)
    BY <2>6, EditFinished
  <2>7. CASE \/ \E w \in Workers, s \in Staff : ReadAssign(w, s) \/ ReadUnassign(w, s)
             \/ \E w \in Workers : WriteAssign(w) \/ WriteUnassign(w) \/ Drop(w)
    BY <2>7, HolderFinished
  <2> QED
    BY <1>2, <2>1, <2>2, <2>3, <2>4, <2>5, <2>6, <2>7 DEF Next
<1> QED
  BY <1>1, <1>2

(***************************************************************************)
(* However requests interleave, and with any items, lists, patches, staff, *)
(* blanks and bounds: unless main items are added to an order that is over *)
(* or an order is created delivered, no order is handed over with a main   *)
(* item to make, nor cancelled with one that is not.                       *)
(***************************************************************************)
THEOREM HandedOverFinished ==
  ASSUME "late_items" \notin Practices, "counter_sale" \notin Practices
  PROVE  Spec => []FinishedWithItsItems
<1>1. Init => FinishInv
  BY InitFinish
<1>2. FinishInv /\ [Next]_vars => FinishInv'
  BY NextFinish
<1>3. FinishInv => FinishedWithItsItems
  BY DEF FinishInv, Finished, FinishedWithItsItems
<1> QED
  BY <1>1, <1>2, <1>3, PTL DEF Spec

-----------------------------------------------------------------------------
(***************************************************************************)
(* The third part: the copy of the items, and the total.  Both the tally   *)
(* that is priced by a patch and the items that are priced by a list come  *)
(* to the same sum of charges.                                             *)
(***************************************************************************)
Priced(forms) == IsFiniteSet(DOMAIN forms) /\ \A x \in DOMAIN forms : forms[x] \in Form

Charges(forms) == [x \in DOMAIN forms |-> Charge(forms[x])]

LEMMA ChargeIs == ASSUME NEW form \in Form PROVE Charge(form) \in Nat
BY DEF Charge, Form

LEMMA ChargesAre ==
  ASSUME NEW forms, Priced(forms)
  PROVE  \A x \in DOMAIN forms : Charges(forms)[x] \in Nat /\ Charges(forms)[x] \in Int
BY ChargeIs DEF Charges, Priced

\* The fold of Subtotal, which adds on the other side.
ChargeStep(forms, S, g) ==
  g = [s \in SUBSET S |-> IF s = {} THEN 0 ELSE g[s \ {Pick(s)}] + Charge(forms[Pick(s)])]

LEMMA SubtotalIs ==
  ASSUME NEW forms, Priced(forms)
  PROVE  Subtotal(forms) = SumFunctionOnSet(Charges(forms), DOMAIN forms)
<1> DEFINE D == DOMAIN forms
           f == Charges(forms)
           G == [s \in SUBSET D |-> SumFunctionOnSet(f, s)]
           h == CHOOSE g : ChargeStep(forms, D, g)
<1>1. Subtotal(forms) = h[D]
  BY DEF Subtotal, FoldFunction, FoldFunctionOnSet, MapThenFoldSet, ChargeStep, Pick
<1>2. IsFiniteSet(D) /\ \A x \in D : f[x] \in Int /\ f[x] = Charge(forms[x])
  BY ChargesAre DEF Priced, Charges
<1> HIDE DEF D, f
<1>3. ASSUME NEW s \in SUBSET D, s # {}
      PROVE  /\ Pick(s) \in D /\ s \ {Pick(s)} \in SUBSET D
             /\ SumFunctionOnSet(f, s)
                  = SumFunctionOnSet(f, s \ {Pick(s)}) + Charge(forms[Pick(s)])
  <2>1. Pick(s) \in s /\ s \ {Pick(s)} \in SUBSET D
    BY <1>3, PickIs
  <2>2. IsFiniteSet(s) /\ IsFiniteSet(s \ {Pick(s)})
    BY <1>2, <2>1, FS_Subset
  <2>3. SumFunctionOnSet(f, s) = f[Pick(s)] + SumFunctionOnSet(f, s \ {Pick(s)})
    BY <1>3, <2>2, SumPicks
  <2>4. SumFunctionOnSet(f, s \ {Pick(s)}) \in Int
    BY <1>2, <2>1, <2>2, SumInt
  <2> QED
    BY <1>2, <2>1, <2>3, <2>4
<1>4. ChargeStep(forms, D, G)
  BY <1>3, SumOfNone DEF ChargeStep
<1>5. ChargeStep(forms, D, h)
  BY <1>4
<1> HIDE DEF h
<1>6. ASSUME NEW g, ChargeStep(forms, D, g), NEW s \in SUBSET D
      PROVE  g[s] = IF s = {} THEN 0 ELSE g[s \ {Pick(s)}] + Charge(forms[Pick(s)])
  BY <1>6 DEF ChargeStep
<1>7. ASSUME h[D] # G[D] PROVE FALSE
  <2> DEFINE P == {s \in SUBSET D : h[s] # G[s]}
  <2>1. P \in SUBSET (SUBSET D) /\ P # {}
    BY <1>7
  <2>2. PICK m \in P : \A t \in P : t \subseteq m => t = m
    <3> HIDE DEF P
    <3> QED
      BY <1>2, <2>1, SmallestSubset
  <2>3. m \in SUBSET D /\ h[m] # G[m]
    OBVIOUS
  <2> HIDE DEF G
  <2>4. m # {}
    BY <1>4, <1>5, <1>6, <2>3
  <2>5. Pick(m) \in m /\ m \ {Pick(m)} \in SUBSET D
    BY <1>3, <2>3, <2>4, PickIs
  <2>6. h[m \ {Pick(m)}] = G[m \ {Pick(m)}]
    BY <2>2, <2>5
  <2>7. h[m] = h[m \ {Pick(m)}] + Charge(forms[Pick(m)])
    BY <1>5, <1>6, <2>3, <2>4
  <2>8. G[m] = G[m \ {Pick(m)}] + Charge(forms[Pick(m)])
    BY <1>4, <1>6, <2>3, <2>4
  <2> QED
    BY <2>3, <2>6, <2>7, <2>8
<1>8. G[D] = SumFunctionOnSet(f, D)
  OBVIOUS
<1> QED
  BY <1>1, <1>7, <1>8 DEF D, f

LEMMA SubtotalWhole ==
  ASSUME NEW forms, Priced(forms)
  PROVE  Subtotal(forms) \in Nat
BY SubtotalIs, ChargesAre, SumNat DEF Priced

-----------------------------------------------------------------------------
\* How often an entry occurs is a number, and what it says of an item a form.
Listed(l) ==
  IsFiniteSet(DOMAIN l) /\ \A e \in DOMAIN l : l[e] \in Nat /\ e.form \in Form

Prices(l) == [e \in DOMAIN l |-> l[e] * Charge(e.form)]

LEMMA ListedIs ==
  ASSUME NEW l
  PROVE  ListedSubtotal(l) = SumFunctionOnSet(Prices(l), DOMAIN l)
<1> DEFINE f == Prices(l)
           S == DOMAIN l
<1>1. ListedSubtotal(l) = (CHOOSE g : SumStep(f, S, g))[S]
  BY DEF ListedSubtotal, MapThenSumSet, MapThenFoldSet, SumStep, Pick, Prices
<1>2. SumFunctionOnSet(f, S) = (CHOOSE g : SumStep(f, S, g))[S]
  BY DEF SumFunctionOnSet, FoldFunctionOnSet, MapThenFoldSet, SumStep, Pick
<1> QED
  BY <1>1, <1>2

LEMMA ListedWhole ==
  ASSUME NEW l, Listed(l)
  PROVE  ListedSubtotal(l) \in Nat
<1>1. \A e \in DOMAIN l : Prices(l)[e] \in Nat
  <2> SUFFICES ASSUME NEW e \in DOMAIN l PROVE Prices(l)[e] \in Nat
    OBVIOUS
  <2>1. l[e] \in Nat /\ Charge(e.form) \in Nat
    BY ChargeIs DEF Listed
  <2>2. \A m, n \in Nat : m * n \in Nat
    OBVIOUS
  <2> QED
    BY <2>1, <2>2 DEF Prices
<1> QED
  BY <1>1, ListedIs, SumNat DEF Listed

-----------------------------------------------------------------------------
(***************************************************************************)
(* A tally of entries.                                                     *)
(***************************************************************************)
Entries(F) == IsFiniteSet(DOMAIN F) /\ \A x \in DOMAIN F : F[x].form \in Form

Shares(F, e) == {x \in DOMAIN F : F[x] = e}

LEMMA TallyIs ==
  ASSUME NEW F, IsFiniteSet(DOMAIN F)
  PROVE  /\ IsFiniteSet(Range(F)) /\ DOMAIN Tally(F) = Range(F)
         /\ \A e \in Range(F) :
              /\ Tally(F)[e] = Cardinality(Shares(F, e)) /\ IsFiniteSet(Shares(F, e))
              /\ Tally(F)[e] \in Nat
<1>1. Range(F) = {F[x] : x \in DOMAIN F}
  BY DEF Range
<1>2. IsFiniteSet(Range(F))
  <2> DEFINE g == [x \in DOMAIN F |-> F[x]]
  <2>1. g \in Surjection(DOMAIN F, Range(F))
    BY <1>1 DEF Surjection
  <2> QED
    BY <2>1, FS_Surjection
<1>3. ASSUME NEW e PROVE IsFiniteSet(Shares(F, e)) /\ Cardinality(Shares(F, e)) \in Nat
  <2>1. Shares(F, e) \in SUBSET DOMAIN F
    BY DEF Shares
  <2> QED
    BY <2>1, FS_Subset, FS_CardinalityType
<1> QED
  BY <1>2, <1>3 DEF Tally, Shares

LEMMA TallyListed ==
  ASSUME NEW F, Entries(F)
  PROVE  Listed(Tally(F))
<1>1. \A e \in Range(F) : e.form \in Form
  BY DEF Entries, Range
<1> QED
  BY <1>1, TallyIs DEF Listed, Entries

\* Entry by entry or item by item, the charges come to the same.
LEMMA TallyCharges ==
  ASSUME NEW F, Entries(F),
         NEW forms, DOMAIN forms = DOMAIN F, \A x \in DOMAIN F : forms[x] = F[x].form
  PROVE  Subtotal(forms) = ListedSubtotal(Tally(F))
<1> DEFINE D == DOMAIN F
           f == Charges(forms)
           g == Prices(Tally(F))
<1>1. Priced(forms)
  BY DEF Priced, Entries
<1>2. IsFiniteSet(D) /\ \A x \in D : f[x] \in Int
  BY <1>1, ChargesAre DEF Entries
<1>3. IsFiniteSet(Range(F)) /\ \A x \in D : F[x] \in Range(F)
  BY <1>2, TallyIs DEF Range
<1>4. ASSUME NEW e \in Range(F)
      PROVE  g[e] = SumFunctionOnSet(f, OfKind(D, F, e))
  <2>1. OfKind(D, F, e) = Shares(F, e)
    BY DEF OfKind, Shares
  <2>2. e.form \in Form
    BY DEF Entries, Range
  <2>3. \A x \in Shares(F, e) : f[x] = Charge(e.form)
    BY DEF Shares, Charges
  <2>4. IsFiniteSet(Shares(F, e)) /\ Charge(e.form) \in Int
    BY <1>2, <2>2, TallyIs, ChargeIs
  <2> HIDE DEF f
  <2>5. SumFunctionOnSet(f, Shares(F, e)) = Cardinality(Shares(F, e)) * Charge(e.form)
    BY <2>3, <2>4, SumConstant
  <2>6. g[e] = Tally(F)[e] * Charge(e.form)
    BY <1>2, TallyIs DEF Prices
  <2> QED
    BY <1>2, <2>1, <2>5, <2>6, TallyIs
<1>5. SumFunctionOnSet(g, Range(F)) = SumFunctionOnSet(f, D)
  <2> HIDE DEF D, f, g
  <2> QED
    BY <1>2, <1>3, <1>4, SumByKind
<1>6. Subtotal(forms) = SumFunctionOnSet(f, D)
  BY <1>1, SubtotalIs
<1>7. ListedSubtotal(Tally(F)) = SumFunctionOnSet(g, Range(F))
  BY <1>2, ListedIs, TallyIs
<1> QED
  BY <1>5, <1>6, <1>7

\* The same entries under other indices tally the same.
LEMMA TallySame ==
  ASSUME NEW F, NEW G, IsFiniteSet(DOMAIN F), NEW h \in [DOMAIN F -> DOMAIN G],
         \A x, y \in DOMAIN F : h[x] = h[y] => x = y,
         \A z \in DOMAIN G : \E x \in DOMAIN F : z = h[x],
         \A x \in DOMAIN F : G[h[x]] = F[x]
  PROVE  Tally(F) = Tally(G)
<1>1. Range(F) = Range(G)
  BY DEF Range
<1>2. ASSUME NEW e \in Range(F)
      PROVE  Cardinality(Shares(F, e)) = Cardinality(Shares(G, e))
  <2> DEFINE k == [x \in Shares(F, e) |-> h[x]]
  <2>1. Shares(F, e) \in SUBSET DOMAIN F
    BY DEF Shares
  <2>2. k \in [Shares(F, e) -> Shares(G, e)]
    BY DEF Shares
  <2>3. \A z \in Shares(G, e) : \E x \in Shares(F, e) : k[x] = z
    BY DEF Shares
  <2>4. \A x, y \in Shares(F, e) : k[x] = k[y] => x = y
    BY DEF Shares
  <2> HIDE DEF k
  <2>5. k \in Bijection(Shares(F, e), Shares(G, e))
    BY <2>2, <2>3, <2>4 DEF Bijection, Injection, Surjection, IsInjective
  <2>6. ExistsBijection(Shares(F, e), Shares(G, e))
    BY <2>5 DEF ExistsBijection
  <2>7. IsFiniteSet(Shares(F, e))
    BY <2>1, FS_Subset
  <2> QED
    BY <2>6, <2>7, FS_Bijection
<1> QED
  BY <1>1, <1>2 DEF Tally, Shares

-----------------------------------------------------------------------------
(***************************************************************************)
(* Desk(d): the rows of d hold values of their columns.  Tidy(d): no two   *)
(* items have one position, and of an order that exists the copy and the   *)
(* total are those of the items.                                           *)
(***************************************************************************)
OrderRow(o) ==
  /\ o.status \in OrderStatuses \union {"absent"} /\ o.fee \in Nat /\ o.total \in Nat
  /\ o.holder \in Staff \union {NoStaff} /\ Listed(o.listed)

Table(d) ==
  /\ d.lastItem \in Nat
  /\ d.items = [i \in DOMAIN d.items |-> d.items[i]]
  /\ \A i \in DOMAIN d.items : i \in 1..d.lastItem /\ d.items[i] \in WorkItem

Assigns(S, items, blanks) ==
  \A a \in S :
    /\ a.item \in items /\ a.blank \in blanks /\ a.qty \in Nat
    /\ \A b \in S : a.item = b.item /\ a.blank = b.blank => a = b

Assignments(d) == Assigns(d.assigned, DOMAIN d.items, d.blanks)

Desk(d) == Typed(d) /\ OrderRow(d.order) /\ Table(d) /\ Assignments(d)

Exist(d) == d.order.status # "absent"

NoTwoAt(d) ==
  \A i, j \in DOMAIN d.items : d.items[i].pos = d.items[j].pos => i = j

Agrees(d) ==
  /\ d.order.listed = TableListing(d)
  /\ d.order.total = Subtotal(Forms(d)) + d.order.fee

Tidy(d) == NoTwoAt(d) /\ IF Exist(d) THEN Agrees(d) ELSE DOMAIN d.items = {}

\* Positions, forms and blanks of the items are as they were, and what the order says.
SameGoods(d, d2) ==
  /\ DOMAIN d2.items = DOMAIN d.items
  /\ \A i \in DOMAIN d.items : /\ d2.items[i].pos = d.items[i].pos
                               /\ d2.items[i].form = d.items[i].form
  /\ d2.assigned = d.assigned
  /\ d2.order.listed = d.order.listed
  /\ d2.order.total = d.order.total /\ d2.order.fee = d.order.fee

Carries(d, d2) == Desk(d2) /\ SameGoods(d, d2) /\ (Exist(d) => Exist(d2))

LEMMA CarriesOn ==
  ASSUME NEW d, NEW d1, NEW d2, Carries(d, d1), Carries(d1, d2)
  PROVE  Carries(d, d2)
BY DEF Carries, SameGoods

LEMMA CarriesSelf == ASSUME NEW d, Desk(d) PROVE Carries(d, d)
BY DEF Carries, SameGoods

LEMMA SameListing ==
  ASSUME NEW d, NEW d2, SameGoods(d, d2)
  PROVE  TableListing(d2) = TableListing(d) /\ Forms(d2) = Forms(d)
<1>1. \A i : BlanksOf(d2, i) = BlanksOf(d, i)
  BY DEF SameGoods, BlanksOf
<1>2. [i \in DOMAIN d2.items |-> Entry(d2.items[i].form, BlanksOf(d2, i))]
        = [i \in DOMAIN d.items |-> Entry(d.items[i].form, BlanksOf(d, i))]
  BY <1>1 DEF SameGoods
<1>3. Forms(d2) = Forms(d)
  BY DEF SameGoods, Forms
<1> QED
  BY <1>2, <1>3 DEF TableListing

LEMMA CarriesTidy ==
  ASSUME NEW d, NEW d2, Tidy(d), Carries(d, d2),
         Exist(d) \/ d2.order.status = d.order.status
  PROVE  Tidy(d2)
<1>1. NoTwoAt(d2)
  BY DEF Tidy, NoTwoAt, Carries, SameGoods
<1>2. Agrees(d) => Agrees(d2)
  BY SameListing DEF Agrees, Carries, SameGoods
<1> QED
  BY <1>1, <1>2 DEF Tidy, Carries, SameGoods, Exist

-----------------------------------------------------------------------------
\* There are finitely many items, and their forms have prices.
LEMMA TablePriced ==
  ASSUME NEW d, Table(d)
  PROVE  /\ IsFiniteSet(DOMAIN d.items) /\ Priced(Forms(d))
         /\ Listed(TableListing(d)) /\ Subtotal(Forms(d)) \in Nat
         /\ Subtotal(Forms(d)) = ListedSubtotal(TableListing(d))
<1> DEFINE F == [i \in DOMAIN d.items |-> Entry(d.items[i].form, BlanksOf(d, i))]
<1>1. IsFiniteSet(1..d.lastItem) /\ DOMAIN d.items \in SUBSET (1..d.lastItem)
  BY FS_Interval DEF Table
<1>2. IsFiniteSet(DOMAIN d.items)
  BY <1>1, FS_Subset
<1>3. \A i \in DOMAIN d.items : d.items[i].form \in Form
  BY DEF Table, WorkItem
<1>4. Priced(Forms(d)) /\ DOMAIN Forms(d) = DOMAIN d.items
  BY <1>2, <1>3 DEF Priced, Forms
<1>5. DOMAIN F = DOMAIN d.items /\ \A i \in DOMAIN F : F[i].form = Forms(d)[i]
  BY DEF Entry, Forms
<1>6. TableListing(d) = Tally(F)
  BY DEF TableListing
<1> HIDE DEF F
<1>7. Entries(F)
  BY <1>2, <1>4, <1>5 DEF Entries, Priced
<1> QED
  BY <1>2, <1>4, <1>5, <1>6, <1>7, TallyListed, TallyCharges, SubtotalWhole

\* So do those of a list.
LEMMA BodyPriced ==
  ASSUME NEW forms \in Seq(Form)
  PROVE  /\ Listed(BodyListing(forms)) /\ Subtotal(forms) \in Nat
         /\ Subtotal(forms) = ListedSubtotal(BodyListing(forms))
<1> DEFINE F == [k \in DOMAIN forms |-> Entry(forms[k], {})]
<1>1. IsFiniteSet(DOMAIN forms) /\ \A k \in DOMAIN forms : forms[k] \in Form
  BY FS_Interval
<1>2. DOMAIN F = DOMAIN forms /\ \A k \in DOMAIN F : F[k].form = forms[k]
  BY DEF Entry
<1>3. BodyListing(forms) = Tally(F)
  BY DEF BodyListing
<1> HIDE DEF F
<1>4. Entries(F) /\ Priced(forms)
  BY <1>1, <1>2 DEF Entries, Priced
<1> QED
  BY <1>2, <1>3, <1>4, TallyListed, TallyCharges, SubtotalWhole

\* Regenerating the copy and the total makes them agree.
LEMMA JsonDesk ==
  ASSUME NEW d, Desk(d)
  PROVE  LET d2 == SyncOrderItemsJson(d)
         IN  /\ Desk(d2) /\ d2.order.status = d.order.status
             /\ NoTwoAt(d) /\ Exist(d) => Tidy(d2)
<1> DEFINE d2 == SyncOrderItemsJson(d)
           l == TableListing(d)
           t == Subtotal(Forms(d)) + d.order.fee
<1>1. /\ d2.items = d.items /\ d2.lastItem = d.lastItem
      /\ d2.assigned = d.assigned /\ d2.blanks = d.blanks
      /\ d2.order = [d.order EXCEPT !.listed = l, !.total = t]
  BY DEF Desk, Typed, Tables, SyncOrderItemsJson
<1>2. Listed(l) /\ t \in Nat
  BY TablePriced DEF Desk, OrderRow
<1>3. Typed(d2)
  BY SyncJsonKeeps DEF Keeps, Desk
<1>4. /\ TableListing(d2) = l /\ Forms(d2) = Forms(d)
      /\ NoTwoAt(d2) = NoTwoAt(d) /\ Table(d2) = Table(d) /\ Assignments(d2) = Assignments(d)
  BY <1>1 DEF TableListing, Forms, BlanksOf, NoTwoAt, Table, Assignments, Assigns
<1> HIDE DEF d2, l
<1>5. /\ d2.order.listed = l /\ d2.order.total = t /\ d2.order.fee = d.order.fee
      /\ d2.order.status = d.order.status /\ d2.order.holder = d.order.holder
  BY <1>1 DEF Desk, Typed, Columns
<1>6. OrderRow(d2.order)
  BY <1>2, <1>5 DEF Desk, OrderRow
<1>7. Exist(d) => Agrees(d2)
  BY <1>4, <1>5 DEF Agrees
<1> QED
  BY <1>3, <1>4, <1>5, <1>6, <1>7 DEF Desk, Tidy, Exist, d2

\* Setting the status of items.
LEMMA SetItemsCarry ==
  ASSUME NEW d, Desk(d), NEW S, NEW s \in ItemStatuses
  PROVE  Carries(d, SetItems(d, S, s))
<1> DEFINE d2 == SetItems(d, S, s)
<1>1. /\ d2.order = d.order /\ d2.lastItem = d.lastItem
      /\ d2.assigned = d.assigned /\ d2.blanks = d.blanks
      /\ d2.items = [i \in DOMAIN d.items |->
                       IF i \in S THEN [d.items[i] EXCEPT !.status = s] ELSE d.items[i]]
  BY DEF SetItems, Desk, Typed, Tables
<1>2. Typed(d2)
  BY SetItemsKeeps DEF Keeps, Desk
<1> HIDE DEF d2
<1>3. ASSUME NEW i \in DOMAIN d.items
      PROVE  /\ d2.items[i] \in WorkItem /\ d2.items[i].form = d.items[i].form
             /\ d2.items[i].pos = d.items[i].pos
  <2>1. d.items[i] \in WorkItem
    BY DEF Desk, Table
  <2>2. CASE i \in S
    <3>1. d2.items[i] = [d.items[i] EXCEPT !.status = s]
      BY <1>1, <2>2
    <3> QED
      BY <2>1, <3>1 DEF WorkItem
  <2>3. CASE i \notin S
    BY <1>1, <2>1, <2>3
  <2> QED
    BY <2>2, <2>3
<1>4. DOMAIN d2.items = DOMAIN d.items
  BY <1>1
<1>5. Table(d2)
  BY <1>1, <1>3, <1>4 DEF Table, Desk
<1>6. Assignments(d2)
  BY <1>1, <1>4 DEF Assignments, Assigns, Desk
<1>7. SameGoods(d, d2)
  BY <1>1, <1>3, <1>4 DEF SameGoods
<1> QED
  BY <1>1, <1>2, <1>5, <1>6, <1>7 DEF Carries, Desk, Exist, d2

\* Setting the status of the order.
LEMMA StatusCarries ==
  ASSUME NEW d, Desk(d), NEW s \in OrderStatuses
  PROVE  Carries(d, [d EXCEPT !.order.status = s])
<1> DEFINE d2 == [d EXCEPT !.order.status = s]
<1>1. /\ d2.items = d.items /\ d2.lastItem = d.lastItem
      /\ d2.assigned = d.assigned /\ d2.blanks = d.blanks
      /\ d2.order = [d.order EXCEPT !.status = s]
  BY DEF Desk, Typed, Tables
<1>2. Typed(d2)
  BY StatusKeeps DEF Keeps, Desk
<1> HIDE DEF d2
<1>3. /\ d2.order.listed = d.order.listed /\ d2.order.total = d.order.total
      /\ d2.order.fee = d.order.fee /\ d2.order.status = s
      /\ d2.order.holder = d.order.holder
  BY <1>1 DEF Desk, Typed, Columns
<1>4. OrderRow(d2.order) /\ Exist(d2)
  BY <1>3 DEF Desk, OrderRow, Exist, OrderStatuses, ItemStatusOf
<1>5. Table(d2) /\ Assignments(d2) /\ SameGoods(d, d2)
  BY <1>1, <1>3 DEF Table, Assignments, Assigns, SameGoods, Desk
<1> QED
  BY <1>2, <1>4, <1>5 DEF Carries, Desk, d2

LEMMA CascadeCarries ==
  ASSUME NEW d, Desk(d), NEW target
  PROVE  Carries(d, CascadeMainItems(d, target))
<1>1. ASSUME NEW S PROVE Carries(d, SetItems(d, S, "confirmed"))
  BY SetItemsCarry DEF ItemStatuses, ItemRank
<1>2. ASSUME NEW S PROVE Carries(d, SetItems(d, S, "delivered"))
  BY SetItemsCarry DEF ItemStatuses, ItemRank
<1>3. ASSUME NEW S PROVE Carries(d, SetItems(d, S, "cancelled"))
  BY SetItemsCarry DEF ItemStatuses, ItemRank
<1> QED
  BY <1>1, <1>2, <1>3, CarriesSelf DEF CascadeMainItems

LEMMA ExtrasCarry ==
  ASSUME NEW d, Desk(d), NEW target
  PROVE  Carries(d, SyncExtras(d, target))
<1>1. CASE target \notin DOMAIN ItemStatusOf
  BY <1>1, CarriesSelf DEF SyncExtras
<1>2. CASE target \in DOMAIN ItemStatusOf
  <2> DEFINE s == ItemStatusOf[target]
  <2>1. s \in ItemStatuses
    BY <1>2 DEF ItemStatusOf, ItemStatuses, ItemRank
  <2>2. ASSUME NEW S PROVE Carries(d, SetItems(d, S, s))
    BY <2>1, SetItemsCarry
  <2> QED
    BY <1>2, <2>2 DEF SyncExtras
<1> QED
  BY <1>1, <1>2

\* The status derived from items is one of an order.
LEMMA FollowCarries ==
  ASSUME NEW d, Desk(d)
  PROVE  Carries(d, FollowItems(d))
<1> DEFINE derived == DeriveOrderStatus(d)
           live == LiveMainStatuses(d)
           d1 == [d EXCEPT !.order.status = derived]
<1>1. live \in SUBSET ItemStatuses
  BY DEF LiveMainStatuses, MainItems, Desk, Table, WorkItem
<1>2. derived \in OrderStatuses
  <2>1. CASE live = {}
    BY <2>1 DEF DeriveOrderStatus, OrderStatuses, ItemStatusOf
  <2>2. CASE live # {}
    <3>1. Least(live) \in ItemStatuses
      BY <1>1, <2>2, LeastStatusIs
    <3>2. derived = OrderStatusOf[Least(live)]
      BY <2>2 DEF DeriveOrderStatus
    <3> HIDE DEF live, derived
    <3> QED
      BY <3>1, <3>2 DEF OrderStatusOf, OrderStatuses, ItemStatusOf, ItemStatuses, ItemRank
  <2> QED
    BY <2>1, <2>2
<1> HIDE DEF derived
<1>3. Carries(d, d1)
  BY <1>2, StatusCarries
<1>4. Carries(d1, SyncExtras(d1, derived))
  BY <1>3, ExtrasCarry DEF Carries
<1>5. Carries(d, SyncExtras(d1, derived))
  BY <1>3, <1>4, CarriesOn
<1> QED
  BY <1>5, CarriesSelf, Zenon DEF FollowItems, derived

\* A row is inserted at its position, with an id of its own.
LEMMA InsertDesk ==
  ASSUME NEW d, Desk(d), NEW form \in Form, NEW pos \in Nat
  PROVE  LET d2 == InsertItem(d, form, pos)
         IN  /\ Desk(d2) /\ d2.order = d.order
             /\ NoTwoAt(d) /\ (\A i \in DOMAIN d.items : d.items[i].pos # pos)
                  => NoTwoAt(d2)
<1> DEFINE d2 == InsertItem(d, form, pos)
           row == [pos |-> pos, form |-> form, status |-> "pending"]
           id == d.lastItem + 1
<1>1. /\ d2.lastItem = id /\ d2.order = d.order
      /\ d2.assigned = d.assigned /\ d2.blanks = d.blanks
      /\ d2.items = [i \in DOMAIN d.items \union {id} |->
                       IF i \in DOMAIN d.items THEN d.items[i] ELSE row]
  BY DEF InsertItem, Desk, Typed, Tables
<1>2. row \in WorkItem /\ row.pos = pos
  BY DEF WorkItem, ItemStatuses, ItemRank
<1>3. Typed(d2)
  BY InsertKeeps DEF Keeps, Desk
<1>4. d.lastItem \in Nat /\ id \in Nat /\ id \in 1..id
  BY DEF Desk, Table
<1>5. \A i \in DOMAIN d.items : i \in 1..d.lastItem /\ d.items[i] \in WorkItem
  BY DEF Desk, Table
<1> HIDE DEF d2, row
<1>6. Table(d2)
  <2>1. \A i \in DOMAIN d.items : i \in 1..id
    BY <1>4, <1>5 DEF id
  <2> HIDE DEF id
  <2> QED
    BY <1>1, <1>2, <1>4, <1>5, <2>1 DEF Table
<1>7. Assignments(d2)
  BY <1>1 DEF Assignments, Assigns, Desk
<1>8. ASSUME NoTwoAt(d), \A i \in DOMAIN d.items : d.items[i].pos # pos
      PROVE  NoTwoAt(d2)
  <2> HIDE DEF id
  <2> QED
    BY <1>1, <1>2, <1>8 DEF NoTwoAt
<1> QED
  BY <1>1, <1>3, <1>6, <1>7, <1>8 DEF Desk, d2

\* A row is changed in place.
LEMMA UpdateDesk ==
  ASSUME NEW d, Desk(d), NEW i \in DOMAIN d.items, NEW form \in Form, NEW pos \in Nat
  PROVE  LET d2 == [d EXCEPT !.items[i].form = form, !.items[i].pos = pos]
         IN  /\ Desk(d2) /\ d2.order = d.order
             /\ NoTwoAt(d) /\ (\A j \in DOMAIN d.items \ {i} : d.items[j].pos # pos)
                  => NoTwoAt(d2)
<1> DEFINE d1 == [d EXCEPT !.items[i].form = form]
           d2 == [d1 EXCEPT !.items[i].pos = pos]
           r1 == [d.items[i] EXCEPT !.form = form]
           r2 == [r1 EXCEPT !.pos = pos]
<1>1. d.items[i] \in WorkItem
  BY DEF Desk, Table
<1>2. r2 \in WorkItem /\ r2.pos = pos
  BY <1>1 DEF WorkItem
<1>3. /\ Typed(d1) /\ d1.lastItem = d.lastItem /\ d1.order = d.order
      /\ d1.assigned = d.assigned /\ d1.blanks = d.blanks
      /\ d1.items = [d.items EXCEPT ![i] = r1]
  BY DEF Desk, Typed, Tables
<1> HIDE DEF d1, r1
<1>4. /\ Typed(d2) /\ d2.lastItem = d1.lastItem /\ d2.order = d1.order
      /\ d2.assigned = d1.assigned /\ d2.blanks = d1.blanks
      /\ d2.items = [d1.items EXCEPT ![i].pos = pos]
  BY <1>3 DEF Typed, Tables
<1> HIDE DEF d2
<1>5. d.items = [j \in DOMAIN d.items |-> d.items[j]]
  BY DEF Desk, Table
<1>6. d1.items[i] = r1 /\ DOMAIN d1.items = DOMAIN d.items
  BY <1>3, <1>5
<1>7. d2.items = [d.items EXCEPT ![i] = r2]
  BY <1>3, <1>4, <1>5, <1>6
<1> HIDE DEF r2
<1>8. Table(d2)
  BY <1>2, <1>3, <1>4, <1>5, <1>7 DEF Table, Desk
<1>9. DOMAIN d2.items = DOMAIN d.items
  BY <1>7
<1>10. Assignments(d2)
  BY <1>3, <1>4, <1>9 DEF Assignments, Assigns, Desk
<1>11. NoTwoAt(d) /\ (\A j \in DOMAIN d.items \ {i} : d.items[j].pos # pos) => NoTwoAt(d2)
  BY <1>2, <1>5, <1>7 DEF NoTwoAt
<1>12. /\ Desk(d2) /\ d2.order = d.order
       /\ NoTwoAt(d) /\ (\A j \in DOMAIN d.items \ {i} : d.items[j].pos # pos)
            => NoTwoAt(d2)
  BY <1>3, <1>4, <1>8, <1>10, <1>11 DEF Desk
<1> QED
  BY <1>12, Zenon DEF d1, d2

\* The rows that a deletion leaves are those there were, with their blanks.
LEMMA DeleteDesk ==
  ASSUME NEW d, Desk(d), NEW S
  PROVE  LET d2 == DeleteItems(d, S)
         IN  /\ Desk(d2) /\ d2.order = d.order
             /\ d2.items = [i \in DOMAIN d.items \ S |-> d.items[i]]
             /\ d2.assigned = {a \in d.assigned : a.item \notin S}
             /\ NoTwoAt(d) => NoTwoAt(d2)
<1> DEFINE d2 == DeleteItems(d, S)
<1>1. /\ d2.lastItem = d.lastItem /\ d2.order = d.order /\ d2.blanks = d.blanks
      /\ d2.assigned = {a \in d.assigned : a.item \notin S}
      /\ d2.items = [i \in DOMAIN d.items \ S |-> d.items[i]]
  BY DEF DeleteItems, Restrict, Desk, Typed, Tables
<1>2. Typed(d2)
  BY DeleteKeeps DEF Keeps, Desk
<1> HIDE DEF d2
<1>3. Table(d2) /\ Assignments(d2)
  BY <1>1 DEF Table, Assignments, Assigns, Desk
<1>4. NoTwoAt(d) => NoTwoAt(d2)
  BY <1>1 DEF NoTwoAt
<1> QED
  BY <1>1, <1>2, <1>3, <1>4 DEF Desk, d2

\* Assignments and blanks.
Blanked(d, B, S) == [d EXCEPT !.blanks = B, !.assigned = S]

LEMMA BlanksDesk ==
  ASSUME NEW d, Desk(d), NEW S, NEW B, Assigns(S, DOMAIN d.items, B)
  PROVE  /\ Desk(Blanked(d, B, S)) /\ Blanked(d, B, S).order = d.order
         /\ Blanked(d, B, S).items = d.items /\ Blanked(d, B, S).assigned = S
<1> DEFINE d2 == Blanked(d, B, S)
<1>1. /\ d2.items = d.items /\ d2.lastItem = d.lastItem /\ d2.order = d.order
      /\ d2.assigned = S /\ d2.blanks = B /\ Typed(d2)
  BY DEF Desk, Typed, Tables, Blanked
<1> HIDE DEF d2
<1>2. Table(d2) /\ Assignments(d2)
  BY <1>1 DEF Table, Assignments, Desk
<1> QED
  BY <1>1, <1>2 DEF Desk, d2

\* The row of the order.
LEMMA OrderDeskRow ==
  ASSUME NEW d, Desk(d), NEW o, o = [c \in Columns |-> o[c]], OrderRow(o),
         NEW d2, d2 = [d EXCEPT !.order = o]
  PROVE  /\ Desk(d2) /\ d2.order = o /\ d2.items = d.items /\ d2.lastItem = d.lastItem
         /\ d2.assigned = d.assigned
<1>1. /\ d2.items = d.items /\ d2.lastItem = d.lastItem /\ d2.order = o
      /\ d2.assigned = d.assigned /\ d2.blanks = d.blanks /\ Typed(d2)
  BY DEF Desk, Typed, Tables
<1>2. Table(d2) /\ Assignments(d2)
  BY <1>1 DEF Table, Assignments, Assigns, Desk
<1> QED
  BY <1>1, <1>2 DEF Desk

-----------------------------------------------------------------------------
(***************************************************************************)
(* An edit of the whole list.                                              *)
(***************************************************************************)

\* The ids that are given out follow the last, in the order of the positions.
LEMMA IdsInserted ==
  ASSUME NEW d, d.lastItem \in Nat, NEW forms \in Seq(Form)
  PROVE  LET U == Unfilled(d, forms)
         IN  /\ Cardinality(U) \in Nat
             /\ \A p \in U :
                  /\ p \in Nat /\ p + 1 \in 1..Len(forms) /\ ItemAt(d, p) = {}
                  /\ InsertedId(d, forms, p) \in d.lastItem + 1 .. d.lastItem + Cardinality(U)
                  /\ \A q \in U : InsertedId(d, forms, p) = InsertedId(d, forms, q) => p = q
<1> DEFINE U == Unfilled(d, forms)
           Upto(p) == {q \in U : q <= p}
<1>1. U \in SUBSET (0..Len(forms) - 1) /\ \A p \in U : ItemAt(d, p) = {}
  BY DEF Unfilled
<1>2. Len(forms) \in Nat /\ IsFiniteSet(0..Len(forms) - 1)
  <2>1. Len(forms) \in Nat
    OBVIOUS
  <2>2. 0 \in Int /\ Len(forms) - 1 \in Int
    BY <2>1
  <2> QED
    BY <2>1, <2>2, FS_Interval
<1>3. IsFiniteSet(U) /\ Cardinality(U) \in Nat
  BY <1>1, <1>2, FS_Subset, FS_CardinalityType
<1>4. \A p \in U : InsertedId(d, forms, p) = d.lastItem + Cardinality(Upto(p))
  BY DEF InsertedId
<1>5. \A p \in U : p \in Nat /\ p + 1 \in 1..Len(forms)
  BY <1>1, <1>2
<1> HIDE DEF U
<1>6. ASSUME NEW p \in U
      PROVE  /\ IsFiniteSet(Upto(p)) /\ Cardinality(Upto(p)) \in 1..Cardinality(U)
  <2>1. Upto(p) \in SUBSET U /\ p \in Upto(p)
    BY <1>5
  <2>2. IsFiniteSet(Upto(p)) /\ Cardinality(Upto(p)) \in Nat
        /\ Cardinality(Upto(p)) <= Cardinality(U)
    BY <1>3, <2>1, FS_Subset, FS_CardinalityType
  <2>3. Cardinality(Upto(p)) # 0
    BY <2>1, <2>2, FS_EmptySet
  <2> HIDE DEF Upto
  <2> QED
    BY <1>3, <2>2, <2>3
<1>7. ASSUME NEW p \in U, NEW q \in U, p < q
      PROVE  Cardinality(Upto(p)) # Cardinality(Upto(q))
  <2>1. Upto(p) \in SUBSET Upto(q)
    BY <1>5, <1>7
  <2>2. Upto(p) # Upto(q)
    BY <1>5, <1>7
  <2> HIDE DEF Upto
  <2> QED
    BY <1>6, <2>1, <2>2, FS_Subset
<1> HIDE DEF Upto
<1>8. ASSUME NEW p \in U
      PROVE  InsertedId(d, forms, p) \in d.lastItem + 1 .. d.lastItem + Cardinality(U)
  <2>1. Cardinality(Upto(p)) \in 1..Cardinality(U)
    BY <1>6
  <2> HIDE DEF U
  <2> QED
    BY <1>3, <1>4, <2>1
<1>9. ASSUME NEW p \in U, NEW q \in U, InsertedId(d, forms, p) = InsertedId(d, forms, q)
      PROVE  p = q
  <2>1. Cardinality(Upto(p)) \in Nat /\ Cardinality(Upto(q)) \in Nat
    BY <1>6
  <2>2. Cardinality(Upto(p)) = Cardinality(Upto(q))
    BY <1>4, <1>9, <2>1
  <2>3. p \in Nat /\ q \in Nat
    BY <1>5
  <2> QED
    BY <1>7, <2>2, <2>3
<1> QED
  BY <1>1, <1>3, <1>5, <1>8, <1>9 DEF U

\* What each row of the edited table is: inserted, taken for the list, or left.
LEMMA PutRowsAre ==
  ASSUME NEW d, Desk(d), NEW forms \in Seq(Form)
  PROVE  LET d2 == PutItems(d, forms)
             U == Unfilled(d, forms)
         IN  /\ d2.order = d.order /\ d2.assigned = d.assigned /\ d2.blanks = d.blanks
             /\ d2.lastItem = d.lastItem + Cardinality(U)
             /\ d2.items = [i \in DOMAIN d2.items |-> d2.items[i]]
             /\ DOMAIN d2.items = DOMAIN d.items
                                    \union {InsertedId(d, forms, p) : p \in U}
             /\ \A p \in U :
                  /\ InsertedId(d, forms, p) \notin DOMAIN d.items
                  /\ d2.items[InsertedId(d, forms, p)] \in WorkItem
                  /\ d2.items[InsertedId(d, forms, p)].pos = p
                  /\ d2.items[InsertedId(d, forms, p)].form = forms[p + 1]
             /\ \A i \in DOMAIN d.items :
                  /\ d2.items[i] \in WorkItem /\ d2.items[i].pos = d.items[i].pos
                  /\ Takes(d, forms, i) => d2.items[i].form = forms[d.items[i].pos + 1]
<1> DEFINE d2 == PutItems(d, forms)
           U == Unfilled(d, forms)
           inserted == {InsertedId(d, forms, p) : p \in U}
<1>1. /\ d2.order = d.order /\ d2.lastItem = d.lastItem + Cardinality(U)
      /\ d2.assigned = d.assigned /\ d2.blanks = d.blanks
      /\ d2.items = [i \in DOMAIN d.items \union inserted |-> PutRow(d, forms, i)]
  BY DEF PutItems, Desk, Typed, Tables
<1>2. d.lastItem \in Nat /\ \A i \in DOMAIN d.items : i \in 1..d.lastItem
  BY DEF Desk, Table
<1>3. \A k \in 1..Len(forms) : forms[k] \in Form
  OBVIOUS
<1> HIDE DEF d2, U
<1>4. ASSUME NEW p \in U
      PROVE  /\ InsertedId(d, forms, p) \notin DOMAIN d.items
             /\ d2.items[InsertedId(d, forms, p)] \in WorkItem
             /\ d2.items[InsertedId(d, forms, p)].pos = p
             /\ d2.items[InsertedId(d, forms, p)].form = forms[p + 1]
  <2> DEFINE i == InsertedId(d, forms, p)
             q == CHOOSE r \in U : InsertedId(d, forms, r) = i
  <2>1. /\ i \in d.lastItem + 1 .. d.lastItem + Cardinality(U) /\ Cardinality(U) \in Nat
        /\ \A r \in U : InsertedId(d, forms, r) = i => r = p
        /\ p \in Nat /\ p + 1 \in 1..Len(forms)
    BY <1>2, IdsInserted DEF U
  <2>2. i \in inserted /\ q \in U /\ InsertedId(d, forms, q) = i
    OBVIOUS
  <2>3. q = p
    BY <2>1, <2>2
  <2>4. PutRow(d, forms, i) = IF i \in DOMAIN d.items THEN PutRow(d, forms, i)
                              ELSE [pos |-> q, form |-> forms[q + 1], status |-> "pending"]
    BY DEF PutRow, InsertedRow, U
  <2> HIDE DEF i, q, inserted
  <2>5. i \notin DOMAIN d.items
    BY <1>2, <2>1
  <2>6. d2.items[i] = [pos |-> p, form |-> forms[p + 1], status |-> "pending"]
    BY <1>1, <2>2, <2>3, <2>4, <2>5
  <2>7. forms[p + 1] \in Form /\ "pending" \in ItemStatuses
    BY <1>3, <2>1 DEF ItemStatuses, ItemRank
  <2>8. d2.items[i] \in WorkItem /\ d2.items[i].pos = p /\ d2.items[i].form = forms[p + 1]
    BY <2>1, <2>6, <2>7 DEF WorkItem
  <2> QED
    BY <2>5, <2>8 DEF i
<1>5. ASSUME NEW i \in DOMAIN d.items
      PROVE  /\ d2.items[i] \in WorkItem /\ d2.items[i].pos = d.items[i].pos
             /\ Takes(d, forms, i) => d2.items[i].form = forms[d.items[i].pos + 1]
  <2>1. d.items[i] \in WorkItem
    BY DEF Desk, Table
  <2>2. d2.items[i] = PutRow(d, forms, i)
    BY <1>1
  <2>3. CASE Takes(d, forms, i)
    <3> DEFINE k == d.items[i].pos + 1
    <3>1. k \in 1..Len(forms)
      <4>1. d.items[i].pos \in Nat /\ d.items[i].pos < Len(forms) /\ Len(forms) \in Nat
        BY <2>1, <2>3 DEF Takes, WorkItem
      <4> QED
        BY <4>1
    <3>2. forms[k] \in Form
      BY <1>3, <3>1
    <3>3. d2.items[i] = [d.items[i] EXCEPT !.form = forms[k]]
      BY <2>2, <2>3 DEF PutRow
    <3> HIDE DEF k
    <3>4. /\ d2.items[i] \in WorkItem /\ d2.items[i].pos = d.items[i].pos
          /\ d2.items[i].form = forms[k]
      BY <2>1, <3>2, <3>3 DEF WorkItem
    <3> QED
      BY <3>4 DEF k
  <2>4. CASE ~Takes(d, forms, i)
    BY <2>1, <2>2, <2>4 DEF PutRow
  <2> QED
    BY <2>3, <2>4
<1>6. DOMAIN d2.items = DOMAIN d.items \union inserted
      /\ d2.items = [i \in DOMAIN d2.items |-> d2.items[i]]
  BY <1>1
<1> QED
  BY <1>1, <1>4, <1>5, <1>6 DEF d2, U

\* The rows of an edited table are well-typed, and their positions apart as before.
LEMMA PutDesk ==
  ASSUME NEW d, Desk(d), NEW forms \in Seq(Form)
  PROVE  LET d2 == PutItems(d, forms)
         IN  Desk(d2) /\ (NoTwoAt(d) => NoTwoAt(d2))
<1> DEFINE d2 == PutItems(d, forms)
           U == Unfilled(d, forms)
           n == Cardinality(U)
           inserted == {InsertedId(d, forms, p) : p \in U}
<1>1. /\ d2.order = d.order /\ d2.assigned = d.assigned /\ d2.blanks = d.blanks
      /\ d2.lastItem = d.lastItem + n
      /\ d2.items = [i \in DOMAIN d2.items |-> d2.items[i]]
      /\ DOMAIN d2.items = DOMAIN d.items \union inserted
      /\ \A p \in U : /\ d2.items[InsertedId(d, forms, p)] \in WorkItem
                      /\ d2.items[InsertedId(d, forms, p)].pos = p
      /\ \A i \in DOMAIN d.items :
           d2.items[i] \in WorkItem /\ d2.items[i].pos = d.items[i].pos
  BY PutRowsAre
<1>2. d.lastItem \in Nat /\ \A i \in DOMAIN d.items : i \in 1..d.lastItem
  BY DEF Desk, Table
<1>3. n \in Nat /\ \A i \in inserted : i \in d.lastItem + 1 .. d.lastItem + n
  BY <1>2, IdsInserted
<1>4. \A p \in U : \A i \in DOMAIN d.items : d.items[i].pos # p \/ NoTwoAt(d) = FALSE
  <2> SUFFICES ASSUME NEW p \in U, NEW i \in DOMAIN d.items, d.items[i].pos = p, NoTwoAt(d)
               PROVE  FALSE
    BY DEF NoTwoAt
  <2>1. i \in ItemAt(d, p)
    BY <1>2 DEF ItemAt, NoTwoAt
  <2> QED
    BY <2>1 DEF Unfilled
<1>5. \A i \in inserted : \E p \in U : i = InsertedId(d, forms, p)
  OBVIOUS
<1> HIDE DEF d2, U, n, inserted
<1>6. ASSUME NEW i \in DOMAIN d2.items
      PROVE  i \in 1..d2.lastItem /\ d2.items[i] \in WorkItem
  <2>1. CASE i \in DOMAIN d.items
    BY <1>1, <1>2, <1>3, <2>1
  <2>2. CASE i \in inserted
    BY <1>1, <1>2, <1>3, <1>5, <2>2
  <2> QED
    BY <1>1, <2>1, <2>2
<1>7. Table(d2)
  BY <1>1, <1>2, <1>3, <1>6 DEF Table
<1>8. Assignments(d2)
  BY <1>1 DEF Assignments, Assigns, Desk
<1>9. Typed(d2)
  BY PutKeeps DEF Keeps, Desk, d2
<1>10. ASSUME NoTwoAt(d), NEW i \in DOMAIN d2.items, NEW j \in DOMAIN d2.items,
              d2.items[i].pos = d2.items[j].pos
       PROVE  i = j
  <2>1. CASE i \in DOMAIN d.items /\ j \in DOMAIN d.items
    BY <1>1, <1>10, <2>1 DEF NoTwoAt
  <2>2. CASE i \in DOMAIN d.items /\ j \in inserted
    BY <1>1, <1>4, <1>5, <1>10, <2>2
  <2>3. CASE i \in inserted /\ j \in DOMAIN d.items
    BY <1>1, <1>4, <1>5, <1>10, <2>3
  <2>4. CASE i \in inserted /\ j \in inserted
    BY <1>1, <1>5, <1>10, <2>4
  <2> QED
    BY <1>1, <2>1, <2>2, <2>3, <2>4
<1>11. NoTwoAt(d) => NoTwoAt(d2)
  BY <1>10 DEF NoTwoAt
<1>12. Desk(d2)
  BY <1>1, <1>7, <1>8, <1>9 DEF Desk
<1> QED
  BY <1>11, <1>12 DEF d2

LEMMA PutPositions ==
  ASSUME NEW d, Desk(d), NEW forms \in Seq(Form), NEW e \in DOMAIN d.items
  PROVE  PutItems(d, forms).items[e].pos = d.items[e].pos
<1> DEFINE d2 == PutItems(d, forms)
           U == Unfilled(d, forms)
<1>1. /\ d2.order = d.order /\ d2.assigned = d.assigned /\ d2.blanks = d.blanks
      /\ d2.lastItem = d.lastItem + Cardinality(U)
      /\ d2.items = [i \in DOMAIN d2.items |-> d2.items[i]]
      /\ DOMAIN d2.items = DOMAIN d.items
                             \union {InsertedId(d, forms, p) : p \in U}
      /\ \A p \in U :
           /\ InsertedId(d, forms, p) \notin DOMAIN d.items
           /\ d2.items[InsertedId(d, forms, p)] \in WorkItem
           /\ d2.items[InsertedId(d, forms, p)].pos = p
           /\ d2.items[InsertedId(d, forms, p)].form = forms[p + 1]
      /\ \A i \in DOMAIN d.items :
           /\ d2.items[i] \in WorkItem /\ d2.items[i].pos = d.items[i].pos
           /\ Takes(d, forms, i) => d2.items[i].form = forms[d.items[i].pos + 1]
  BY PutRowsAre
<1> QED
  BY <1>1

\* Positions apart, the list has an item at each of its positions.
LEMMA PutFills ==
  ASSUME NEW d, Desk(d), NoTwoAt(d), NEW forms \in Seq(Form)
  PROVE  LET d2 == PutItems(d, forms)
         IN  /\ \A i \in DOMAIN d2.items :
                  /\ d2.items[i].pos < Len(forms) =>
                       /\ d2.items[i].pos + 1 \in DOMAIN forms
                       /\ d2.items[i].form = forms[d2.items[i].pos + 1]
                  /\ ~(d2.items[i].pos < Len(forms)) =>
                       i \in DOMAIN d.items /\ d2.items[i].pos = d.items[i].pos
             /\ \A k \in DOMAIN forms :
                  \E i \in DOMAIN d2.items : d2.items[i].pos + 1 = k
<1> DEFINE d2 == PutItems(d, forms)
           U == Unfilled(d, forms)
           inserted == {InsertedId(d, forms, p) : p \in U}
<1>1. /\ d2.order = d.order /\ d2.assigned = d.assigned /\ d2.blanks = d.blanks
      /\ d2.lastItem = d.lastItem + Cardinality(U)
      /\ d2.items = [i \in DOMAIN d2.items |-> d2.items[i]]
      /\ DOMAIN d2.items = DOMAIN d.items
                             \union {InsertedId(d, forms, p) : p \in U}
      /\ \A p \in U :
           /\ InsertedId(d, forms, p) \notin DOMAIN d.items
           /\ d2.items[InsertedId(d, forms, p)] \in WorkItem
           /\ d2.items[InsertedId(d, forms, p)].pos = p
           /\ d2.items[InsertedId(d, forms, p)].form = forms[p + 1]
      /\ \A i \in DOMAIN d.items :
           /\ d2.items[i] \in WorkItem /\ d2.items[i].pos = d.items[i].pos
           /\ Takes(d, forms, i) => d2.items[i].form = forms[d.items[i].pos + 1]
  BY PutRowsAre
<1>2. d.lastItem \in Nat
      /\ \A i \in DOMAIN d.items : i \in 1..d.lastItem /\ d.items[i].pos \in Nat
  BY DEF Desk, Table, WorkItem
<1>3. \A p \in U : p \in Nat /\ p + 1 \in 1..Len(forms)
  BY <1>2, IdsInserted
<1>4. Len(forms) \in Nat /\ DOMAIN forms = 1..Len(forms)
  OBVIOUS
<1>5. \A i \in DOMAIN d.items : i \in ItemAt(d, d.items[i].pos)
  BY <1>2 DEF ItemAt, NoTwoAt
<1>6. \A i \in inserted : \E p \in U : i = InsertedId(d, forms, p)
  OBVIOUS
<1>7. \A p \in 0..Len(forms) - 1 : p \in U \/ \E i \in DOMAIN d.items : d.items[i].pos = p
  BY DEF Unfilled, ItemAt
<1>8. /\ \A p \in U : InsertedId(d, forms, p) \in inserted
      /\ DOMAIN d2.items = DOMAIN d.items \union inserted
  BY <1>1
<1> HIDE DEF d2, U, inserted
<1>9. ASSUME NEW i \in DOMAIN d2.items
      PROVE  /\ d2.items[i].pos < Len(forms) =>
                  /\ d2.items[i].pos + 1 \in DOMAIN forms
                  /\ d2.items[i].form = forms[d2.items[i].pos + 1]
             /\ ~(d2.items[i].pos < Len(forms)) =>
                  i \in DOMAIN d.items /\ d2.items[i].pos = d.items[i].pos
  <2>1. CASE i \in DOMAIN d.items
    <3>1. d.items[i].pos < Len(forms) => Takes(d, forms, i)
      BY <1>5, <2>1 DEF Takes
    <3>2. d.items[i].pos \in Nat
      BY <1>2, <2>1
    <3> QED
      BY <1>1, <1>4, <2>1, <3>1, <3>2
  <2>2. CASE i \in inserted
    <3>1. PICK p \in U : i = InsertedId(d, forms, p)
      BY <1>6, <2>2
    <3>2. d2.items[i].pos = p /\ d2.items[i].form = forms[p + 1]
      BY <1>1, <3>1
    <3>3. p + 1 \in DOMAIN forms /\ p < Len(forms)
      BY <1>3, <1>4
    <3> QED
      BY <3>2, <3>3
  <2> QED
    BY <1>8, <2>1, <2>2
<1>10. ASSUME NEW k \in DOMAIN forms
       PROVE  \E i \in DOMAIN d2.items : d2.items[i].pos + 1 = k
  <2>1. k - 1 \in 0..Len(forms) - 1 /\ (k - 1) + 1 = k
    BY <1>4
  <2>2. CASE k - 1 \in U
    BY <1>1, <1>8, <2>1, <2>2
  <2>3. CASE \E i \in DOMAIN d.items : d.items[i].pos = k - 1
    BY <1>1, <2>1, <2>3
  <2> QED
    BY <1>7, <2>1, <2>2, <2>3
<1> QED
  BY <1>9, <1>10 DEF d2

\* Items that are at the positions of a list, with its forms and no blanks, are listed as it is.
LEMMA ListedAsBody ==
  ASSUME NEW d, Desk(d), NoTwoAt(d), d.assigned = {}, NEW forms \in Seq(Form),
         \A i \in DOMAIN d.items : /\ d.items[i].pos + 1 \in DOMAIN forms
                                   /\ d.items[i].form = forms[d.items[i].pos + 1],
         \A k \in DOMAIN forms : \E i \in DOMAIN d.items : d.items[i].pos + 1 = k
  PROVE  /\ TableListing(d) = BodyListing(forms)
         /\ Subtotal(Forms(d)) = Subtotal(forms)
<1> DEFINE F == [i \in DOMAIN d.items |-> Entry(d.items[i].form, BlanksOf(d, i))]
           G == [k \in DOMAIN forms |-> Entry(forms[k], {})]
           h == [i \in DOMAIN d.items |-> d.items[i].pos + 1]
<1>1. \A i : BlanksOf(d, i) = {}
  BY DEF BlanksOf
<1>2. \A i \in DOMAIN d.items : d.items[i].pos \in Nat
  BY DEF Desk, Table, WorkItem
<1>3. h \in [DOMAIN F -> DOMAIN G] /\ IsFiniteSet(DOMAIN F)
  BY TablePriced DEF Desk
<1>4. \A x, y \in DOMAIN F : h[x] = h[y] => x = y
  <2>1. SUFFICES ASSUME NEW x \in DOMAIN d.items, NEW y \in DOMAIN d.items, h[x] = h[y]
                 PROVE  x = y
    OBVIOUS
  <2>2. d.items[x].pos + 1 = d.items[y].pos + 1
    BY <2>1
  <2>3. d.items[x].pos = d.items[y].pos
    BY <1>2, <2>2
  <2> QED BY <2>3 DEF NoTwoAt
<1>5. \A z \in DOMAIN G : \E x \in DOMAIN F : z = h[x]
  OBVIOUS
<1>6. \A x \in DOMAIN F : G[h[x]] = F[x]
  BY <1>1
<1>7. TableListing(d) = Tally(F) /\ BodyListing(forms) = Tally(G)
  BY DEF TableListing, BodyListing
<1> HIDE DEF F, G, h
<1>8. Tally(F) = Tally(G)
  BY <1>3, <1>4, <1>5, <1>6, TallySame
<1>9. TableListing(d) = BodyListing(forms)
  BY <1>7, <1>8
<1> QED
  BY <1>9, TablePriced, BodyPriced DEF Desk

\* The table that an edit of the list leaves.
LEMMA TableDesk ==
  ASSUME NEW d, Desk(d), NEW forms \in Seq(Form)
  PROVE  LET d2 == SyncOrderItemsTable(d, forms)
         IN  /\ Desk(d2) /\ d2.order = d.order
             /\ NoTwoAt(d) => NoTwoAt(d2)
             /\ NoTwoAt(d) /\ d.assigned = {} =>
                  /\ TableListing(d2) = BodyListing(forms)
                  /\ Subtotal(Forms(d2)) = Subtotal(forms)
<1> DEFINE put == PutItems(d, forms)
           gone == {i \in DOMAIN d.items : /\ d.items[i].pos >= Len(forms)
                                           /\ i \in ItemAt(d, d.items[i].pos)}
           d2 == DeleteItems(put, gone)
<1>1. SyncOrderItemsTable(d, forms) = d2
  BY DEF SyncOrderItemsTable
<1>2. Desk(put) /\ (NoTwoAt(d) => NoTwoAt(put)) /\ put.order = d.order
      /\ put.assigned = d.assigned
  <2>1. Desk(put) /\ (NoTwoAt(d) => NoTwoAt(put))
    BY PutDesk
  <2>2. put.order = d.order /\ put.assigned = d.assigned
    BY PutRowsAre
  <2> QED
    BY <2>1, <2>2
<1>3. \A i \in DOMAIN d.items : i \in 1..d.lastItem /\ d.items[i].pos \in Nat
  BY DEF Desk, Table, WorkItem
<1>4. d.lastItem \in Nat /\ Len(forms) \in Nat
  BY DEF Desk, Table
<1>5. NoTwoAt(d) => gone = {i \in DOMAIN d.items : ~(d.items[i].pos < Len(forms))}
  <2>1. ASSUME NoTwoAt(d), NEW i \in DOMAIN d.items PROVE i \in ItemAt(d, d.items[i].pos)
    BY <1>3, <2>1 DEF ItemAt, NoTwoAt
  <2>2. ASSUME NEW i \in DOMAIN d.items
        PROVE  d.items[i].pos >= Len(forms) <=> ~(d.items[i].pos < Len(forms))
    BY <1>3, <1>4
  <2> QED
    BY <2>1, <2>2
<1>6. NoTwoAt(d) =>
        /\ \A i \in DOMAIN put.items :
             /\ put.items[i].pos < Len(forms) =>
                  /\ put.items[i].pos + 1 \in DOMAIN forms
                  /\ put.items[i].form = forms[put.items[i].pos + 1]
             /\ ~(put.items[i].pos < Len(forms)) =>
                  i \in DOMAIN d.items /\ put.items[i].pos = d.items[i].pos
        /\ \A k \in DOMAIN forms :
             \E i \in DOMAIN put.items : put.items[i].pos + 1 = k
  BY PutFills
<1>7. \A i \in DOMAIN d.items : put.items[i].pos = d.items[i].pos
  BY PutPositions
<1> HIDE DEF put, gone
<1>8. /\ Desk(d2) /\ d2.order = put.order
      /\ d2.items = [i \in DOMAIN put.items \ gone |-> put.items[i]]
      /\ d2.assigned = {a \in put.assigned : a.item \notin gone}
      /\ NoTwoAt(put) => NoTwoAt(d2)
  BY <1>2, DeleteDesk
<1> HIDE DEF d2
<1>9. ASSUME NoTwoAt(d), d.assigned = {}
      PROVE  /\ TableListing(d2) = BodyListing(forms)
             /\ Subtotal(Forms(d2)) = Subtotal(forms)
  <2>1. d2.assigned = {} /\ NoTwoAt(d2)
    BY <1>2, <1>8, <1>9
  <2>2. ASSUME NEW i \in DOMAIN d2.items
        PROVE  /\ d2.items[i].pos + 1 \in DOMAIN forms
               /\ d2.items[i].form = forms[d2.items[i].pos + 1]
    <3>1. i \in DOMAIN put.items /\ i \notin gone /\ d2.items[i] = put.items[i]
      BY <1>8
    <3>2. put.items[i].pos < Len(forms)
      BY <1>5, <1>6, <1>9, <3>1
    <3> QED
      BY <1>6, <1>9, <3>1, <3>2
  <2>3. ASSUME NEW k \in DOMAIN forms
        PROVE  \E i \in DOMAIN d2.items : d2.items[i].pos + 1 = k
    <3>1. PICK i \in DOMAIN put.items : put.items[i].pos + 1 = k
      BY <1>6, <1>9
    <3>2. k \in 1..Len(forms)
      OBVIOUS
    <3>3. put.items[i].pos \in Nat
      BY <1>2 DEF Desk, Table, WorkItem
    <3>4. put.items[i].pos < Len(forms)
      BY <1>4, <3>1, <3>2, <3>3
    <3>5. i \notin gone
      BY <1>5, <1>7, <1>9, <3>4
    <3> QED
      BY <1>8, <3>1, <3>5
  <2> QED
    BY <1>8, <2>1, <2>2, <2>3, ListedAsBody
<1>10. NoTwoAt(d) => NoTwoAt(d2)
  BY <1>2, <1>8
<1> QED
  BY <1>1, <1>2, <1>8, <1>9, <1>10

-----------------------------------------------------------------------------
(***************************************************************************)
(* The invariants: of any desk, and of a careful one, on which a patch     *)
(* that is pending is of an order that exists.                             *)
(***************************************************************************)
Requests == {Idle} \union MoveRequest \union EditRequest \union ClaimRequest

DeskInv == Desk(db) /\ pending \in [Workers -> Requests]

ListInv ==
  /\ Tidy(db)
  /\ \A w \in Workers : pending[w].op = "edit" => Exist(db)

Careful == /\ "same_position" \notin Practices /\ "stale_patch" \notin Practices
           /\ "drop_blanks" \notin Practices

Stay == DeskInv' /\ (Careful /\ ListInv => ListInv')

\* A database a request may leave.
Leaves(d) ==
  /\ Desk(d)
  /\ Careful /\ ListInv => Tidy(d) /\ (Exist(db) => Exist(d))

LEMMA IdleRequest == Idle \in Requests /\ Idle.op = "idle"
BY DEF Requests, Idle

LEMMA RequestIs ==
  ASSUME NEW r \in Requests
  PROVE  /\ r.op = "move" => r \in MoveRequest
         /\ r.op = "edit" => r \in EditRequest
         /\ r.op \in {"assign", "unassign"} => r \in ClaimRequest
BY DEF Requests, Idle, MoveRequest, EditRequest, ClaimRequest

LEMMA LeavesServe ==
  ASSUME DeskInv, NEW d, Leaves(d), Serves(d)
  PROVE  Stay
<1>1. db' = d /\ pending' = pending
  BY DEF Serves
<1>2. Desk(db') /\ (Careful /\ ListInv => Tidy(db') /\ (Exist(db) => Exist(db')))
  BY <1>1 DEF Leaves
<1>3. DeskInv'
  BY <1>1, <1>2 DEF DeskInv
<1>4. Careful /\ ListInv => ListInv'
  BY <1>1, <1>2 DEF ListInv
<1> QED
  BY <1>3, <1>4 DEF Stay

LEMMA LeavesAnswer ==
  ASSUME DeskInv, NEW w \in Workers, NEW d, Leaves(d), Answers(w, d)
  PROVE  Stay
<1>1. db' = d /\ pending' = [pending EXCEPT ![w] = Idle]
  BY DEF Answers
<1>2. Desk(db') /\ (Careful /\ ListInv => Tidy(db') /\ (Exist(db) => Exist(db')))
  BY <1>1 DEF Leaves
<1>3. pending' \in [Workers -> Requests]
      /\ \A v \in Workers : pending'[v].op = "edit" => pending[v].op = "edit"
  BY <1>1, IdleRequest DEF DeskInv
<1>4. DeskInv'
  BY <1>2, <1>3 DEF DeskInv
<1>5. Careful /\ ListInv => ListInv'
  BY <1>2, <1>3 DEF ListInv
<1> QED
  BY <1>4, <1>5 DEF Stay

LEMMA LeavesRead ==
  ASSUME DeskInv, NEW w \in Workers, NEW r \in Requests, Reads(w, r),
         r.op = "edit" => Exist(db)
  PROVE  Stay
<1>1. db' = db /\ pending' = [pending EXCEPT ![w] = r]
  BY DEF Reads
<1>2. Desk(db') /\ (ListInv => Tidy(db') /\ (Exist(db) => Exist(db')))
  BY <1>1 DEF DeskInv, ListInv
<1>3. pending' \in [Workers -> Requests]
  BY <1>1 DEF DeskInv
<1>4. ListInv => \A v \in Workers : pending'[v].op = "edit" => Exist(db)
  BY <1>1 DEF DeskInv, ListInv
<1>5. DeskInv'
  BY <1>2, <1>3 DEF DeskInv
<1>6. Careful /\ ListInv => ListInv'
  BY <1>2, <1>4 DEF ListInv
<1> QED
  BY <1>5, <1>6 DEF Stay

\* What leaves the goods alone.
LEMMA CarriesLeaves ==
  ASSUME DeskInv, NEW d, Carries(db, d),
         Exist(db) \/ d.order.status = db.order.status
  PROVE  Leaves(d)
BY CarriesTidy DEF Leaves, ListInv, Carries

\* The copy regenerated from rows that were changed.
LEMMA JsonLeaves ==
  ASSUME NEW d, Desk(d), d.order = db.order,
         Careful /\ ListInv => NoTwoAt(d) /\ Exist(db)
  PROVE  Leaves(SyncOrderItemsJson(d))
<1>1. Exist(d) = Exist(db)
  BY DEF Exist
<1>2. /\ Desk(SyncOrderItemsJson(d))
      /\ SyncOrderItemsJson(d).order.status = d.order.status
      /\ NoTwoAt(d) /\ Exist(d) => Tidy(SyncOrderItemsJson(d))
  BY JsonDesk
<1> QED
  BY <1>1, <1>2 DEF Leaves, Exist

-----------------------------------------------------------------------------
(***************************************************************************)
(* One step per action, in the order of Next.                              *)
(***************************************************************************)

\* A new order has the items of its list and no others.
LEMMA CreateStays ==
  ASSUME DeskInv,
         NEW forms \in Lists, NEW fee \in Fees, NEW status \in {"new", "delivered"},
         CreateOrder(forms, fee, status)
  PROVE  Stay
<1> DEFINE row == [Absent EXCEPT !.status = status, !.fee = fee,
                                 !.listed = BodyListing(forms),
                                 !.total = Subtotal(forms) + fee]
           new == [db EXCEPT !.order = row]
           d2 == PutItems(new, forms)
<1>1. Serves(d2) /\ ~Exist(db)
  BY DEF CreateOrder, Exists, Exist
<1>2. forms \in Seq(Form) /\ fee \in Nat
  <2>1. forms \in Seq(ItemForms) /\ ItemForms \subseteq Form /\ fee \in Nat
    BY DeskAssumption
  <2> QED
    BY <2>1
<1>3. /\ row = [c \in Columns |-> row[c]] /\ row.status = status /\ row.fee = fee
      /\ row.listed = BodyListing(forms) /\ row.total = Subtotal(forms) + fee
      /\ row.holder = NoStaff
  BY DEF Columns, Absent
<1> HIDE DEF row
<1>4. OrderRow(row) /\ row.status # "absent"
  <2>1. Subtotal(forms) + fee \in Nat /\ Listed(BodyListing(forms))
    BY <1>2, BodyPriced
  <2>2. status \in OrderStatuses
    BY DEF OrderStatuses, ItemStatusOf
  <2> QED
    BY <1>2, <1>3, <2>1, <2>2 DEF OrderRow
<1>5. /\ Desk(new) /\ new.order = row /\ new.items = db.items
      /\ new.lastItem = db.lastItem /\ new.assigned = db.assigned
  BY <1>3, <1>4, OrderDeskRow DEF DeskInv
<1> HIDE DEF new
<1>6. Desk(d2) /\ (NoTwoAt(new) => NoTwoAt(d2))
  BY <1>2, <1>5, PutDesk
<1>7. d2.order = row /\ d2.assigned = db.assigned
  BY <1>2, <1>5, PutRowsAre
<1>8. ASSUME ListInv PROVE Tidy(d2)
  <2>1. DOMAIN new.items = {}
    BY <1>1, <1>5, <1>8 DEF ListInv, Tidy
  <2>2. db.assigned = {}
    BY <1>5, <2>1 DEF Desk, Assignments, Assigns
  <2>3. NoTwoAt(new)
    BY <2>1 DEF NoTwoAt
  <2>4. /\ \A i \in DOMAIN d2.items :
             /\ d2.items[i].pos < Len(forms) =>
                  /\ d2.items[i].pos + 1 \in DOMAIN forms
                  /\ d2.items[i].form = forms[d2.items[i].pos + 1]
             /\ ~(d2.items[i].pos < Len(forms)) =>
                  i \in DOMAIN new.items /\ d2.items[i].pos = new.items[i].pos
        /\ \A k \in DOMAIN forms :
             \E i \in DOMAIN d2.items : d2.items[i].pos + 1 = k
    BY <1>2, <1>5, <2>3, PutFills
  <2> HIDE DEF d2
  <2>5. /\ TableListing(d2) = BodyListing(forms)
        /\ Subtotal(Forms(d2)) = Subtotal(forms)
    <3>1. d2.assigned = {} /\ NoTwoAt(d2)
      BY <1>6, <1>7, <2>2, <2>3
    <3>2. /\ \A i \in DOMAIN d2.items : /\ d2.items[i].pos + 1 \in DOMAIN forms
                                        /\ d2.items[i].form = forms[d2.items[i].pos + 1]
          /\ \A k \in DOMAIN forms : \E i \in DOMAIN d2.items : d2.items[i].pos + 1 = k
      BY <2>1, <2>4
    <3> QED
      BY <1>2, <1>6, <3>1, <3>2, ListedAsBody
  <2>6. Agrees(d2)
    BY <1>3, <1>7, <2>5 DEF Agrees
  <2> QED
    BY <1>4, <1>6, <1>7, <2>3, <2>6 DEF Tidy, Exist
<1> HIDE DEF d2
<1>9. Leaves(d2)
  BY <1>1, <1>6, <1>8 DEF Leaves
<1> QED
  BY <1>1, <1>9, LeavesServe

\* Items created, changed and deleted one by one.
LEMMA ItemStays ==
  ASSUME DeskInv,
         \/ \E form \in ItemForms, pos \in Positions : CreateWorkItem(form, pos)
         \/ \E i \in Items, form \in ItemForms, pos \in Positions : UpdateWorkItem(i, form, pos)
         \/ \E i \in Items : DeleteWorkItem(i)
  PROVE  Stay
<1>1. Positions \subseteq Nat /\ ItemForms \subseteq Form
  BY DeskAssumption DEF Positions
<1>2. Desk(db) /\ (ListInv => NoTwoAt(db) /\ \A i \in DOMAIN db.items : Exist(db))
  BY DEF DeskInv, ListInv, Tidy
<1>3. CASE \E form \in ItemForms, pos \in Positions : CreateWorkItem(form, pos)
  <2>1. PICK form \in ItemForms, pos \in Positions : CreateWorkItem(form, pos)
    BY <1>3
  <2> DEFINE d2 == InsertItem(db, form, pos)
  <2>2. Serves(SyncOrderItemsJson(d2)) /\ Exist(db)
    BY <2>1 DEF CreateWorkItem, Exists, Exist
  <2>3. Careful => \A i \in DOMAIN db.items : db.items[i].pos # pos
    <3>1. \A i \in DOMAIN db.items : i # 0
      BY <1>2 DEF Desk, Table
    <3> QED
      BY <2>1, <3>1 DEF CreateWorkItem, Careful, FreePosition
  <2>4. /\ Desk(d2) /\ d2.order = db.order
        /\ NoTwoAt(db) /\ (\A i \in DOMAIN db.items : db.items[i].pos # pos)
             => NoTwoAt(d2)
    <3>1. form \in Form /\ pos \in Nat
      BY <1>1
    <3> QED
      BY <1>2, <3>1, InsertDesk
  <2> HIDE DEF d2
  <2> QED
    BY <1>2, <2>2, <2>3, <2>4, JsonLeaves, LeavesServe
<1>4. CASE \E i \in Items, form \in ItemForms, pos \in Positions : UpdateWorkItem(i, form, pos)
  <2>1. PICK i \in Items, form \in ItemForms, pos \in Positions : UpdateWorkItem(i, form, pos)
    BY <1>4
  <2> DEFINE d2 == [db EXCEPT !.items[i].form = form, !.items[i].pos = pos]
  <2>2. Serves(SyncOrderItemsJson(d2))
    BY <2>1, Zenon DEF UpdateWorkItem
  <2>3. Careful => \A j \in DOMAIN db.items \ {i} : db.items[j].pos # pos
    BY <2>1 DEF UpdateWorkItem, Careful, FreePosition
  <2>4. i \in DOMAIN db.items /\ form \in Form /\ pos \in Nat
    BY <1>1 DEF Items
  <2>5. /\ Desk(d2) /\ d2.order = db.order
        /\ NoTwoAt(db) /\ (\A j \in DOMAIN db.items \ {i} : db.items[j].pos # pos)
             => NoTwoAt(d2)
    BY <1>2, <2>4, UpdateDesk, Zenon
  <2> HIDE DEF d2
  <2> QED
    BY <1>2, <2>2, <2>3, <2>4, <2>5, JsonLeaves, LeavesServe
<1>5. CASE \E i \in Items : DeleteWorkItem(i)
  <2>1. PICK i \in Items : DeleteWorkItem(i)
    BY <1>5
  <2> DEFINE d2 == DeleteItems(db, {i})
  <2>2. Serves(SyncOrderItemsJson(d2))
    BY <2>1 DEF DeleteWorkItem
  <2>3. Desk(d2) /\ d2.order = db.order /\ (NoTwoAt(db) => NoTwoAt(d2))
    BY <1>2, DeleteDesk
  <2>4. i \in DOMAIN db.items
    BY DEF Items
  <2> HIDE DEF d2
  <2> QED
    BY <1>2, <2>2, <2>3, <2>4, JsonLeaves, LeavesServe
<1> QED
  BY <1>3, <1>4, <1>5

\* Blanks: the copy is regenerated, or no item has the one that goes.
LEMMA BlankStays ==
  ASSUME DeskInv,
         \/ \E i \in Items, b \in Blanks :
              UnassignBlank(i, b) \/ \E q \in 0..MaxQty : AssignBlank(i, b, q)
         \/ \E b \in Blanks : CreateBlank(b) \/ DeleteBlank(b)
  PROVE  Stay
<1>1. Desk(db) /\ (ListInv => NoTwoAt(db) /\ \A i \in DOMAIN db.items : Exist(db))
  BY DEF DeskInv, ListInv, Tidy
<1>2. Assigns(db.assigned, DOMAIN db.items, db.blanks)
  BY <1>1 DEF Desk, Assignments
<1>3. \A S : [db EXCEPT !.assigned = S] = Blanked(db, db.blanks, S)
  BY <1>1 DEF Desk, Typed, Tables, Blanked
<1>4. CASE \E i \in Items, b \in Blanks : UnassignBlank(i, b)
  <2>1. PICK i \in Items, b \in Blanks : UnassignBlank(i, b)
    BY <1>4
  <2> DEFINE S == {a \in db.assigned : a.item # i \/ a.blank # b}
             d2 == [db EXCEPT !.assigned = S]
  <2>2. Serves(SyncOrderItemsJson(d2))
    BY <2>1 DEF UnassignBlank
  <2>3. Assigns(S, DOMAIN db.items, db.blanks)
    BY <1>2 DEF Assigns
  <2> HIDE DEF S
  <2>4. Desk(d2) /\ d2.order = db.order /\ d2.items = db.items
    <3>1. d2 = Blanked(db, db.blanks, S)
      BY <1>3
    <3> QED
      BY <1>1, <2>3, <3>1, BlanksDesk
  <2> HIDE DEF d2
  <2>5. NoTwoAt(db) => NoTwoAt(d2)
    BY <2>4 DEF NoTwoAt
  <2>6. i \in DOMAIN db.items
    BY DEF Items
  <2> QED
    BY <1>1, <2>2, <2>4, <2>5, <2>6, JsonLeaves, LeavesServe
<1>5. CASE \E i \in Items, b \in Blanks, q \in 0..MaxQty : AssignBlank(i, b, q)
  <2>1. PICK i \in Items, b \in Blanks, q \in 0..MaxQty : AssignBlank(i, b, q)
    BY <1>5
  <2> DEFINE new == [item |-> i, blank |-> b, qty |-> q]
             S == {a \in db.assigned : a.item # i \/ a.blank # b} \union {new}
             d2 == [db EXCEPT !.assigned = S]
  <2>2. Serves(SyncOrderItemsJson(d2)) /\ b \in db.blanks
    BY <2>1 DEF AssignBlank
  <2>3. i \in DOMAIN db.items /\ q \in Nat
    BY DeskAssumption DEF Items
  <2>4. new.item = i /\ new.blank = b /\ new.qty = q
    OBVIOUS
  <2> HIDE DEF new
  <2>5. Assigns(S, DOMAIN db.items, db.blanks)
    BY <1>2, <2>2, <2>3, <2>4 DEF Assigns
  <2> HIDE DEF S
  <2>6. Desk(d2) /\ d2.order = db.order /\ d2.items = db.items
    <3>1. d2 = Blanked(db, db.blanks, S)
      BY <1>3
    <3> QED
      BY <1>1, <2>5, <3>1, BlanksDesk
  <2> HIDE DEF d2
  <2>7. NoTwoAt(db) => NoTwoAt(d2)
    BY <2>6 DEF NoTwoAt
  <2> QED
    BY <1>1, <2>2, <2>3, <2>6, <2>7, JsonLeaves, LeavesServe
<1>6. CASE \E b \in Blanks : CreateBlank(b)
  <2>1. PICK b \in Blanks : CreateBlank(b)
    BY <1>6
  <2> DEFINE B == db.blanks \union {b}
             d2 == [db EXCEPT !.blanks = B]
  <2>2. Serves(d2)
    BY <2>1 DEF CreateBlank
  <2>3. d2 = Blanked(db, B, db.assigned)
    BY <1>1 DEF Desk, Typed, Tables, Blanked
  <2>4. Assigns(db.assigned, DOMAIN db.items, B)
    BY <1>2 DEF Assigns
  <2> HIDE DEF B
  <2> HIDE DEF d2
  <2>5. Desk(d2) /\ d2.order = db.order /\ d2.items = db.items /\ d2.assigned = db.assigned
    BY <1>1, <2>3, <2>4, BlanksDesk
  <2>6. Carries(db, d2)
    BY <2>5 DEF Carries, SameGoods, Exist
  <2> QED
    BY <2>2, <2>5, <2>6, CarriesLeaves, LeavesServe
<1>7. CASE \E b \in Blanks : DeleteBlank(b)
  <2>1. PICK b \in Blanks : DeleteBlank(b)
    BY <1>7
  <2> DEFINE B == db.blanks \ {b}
             S == {a \in db.assigned : a.blank # b}
             d2 == [db EXCEPT !.blanks = B, !.assigned = S]
  <2>2. Serves(d2)
    BY <2>1 DEF DeleteBlank
  <2>3. Assigns(S, DOMAIN db.items, B)
    BY <1>2 DEF Assigns
  <2>4. Careful => S = db.assigned
    BY <2>1 DEF DeleteBlank, Careful
  <2> HIDE DEF S, B
  <2>5. Desk(d2) /\ d2.order = db.order /\ d2.items = db.items /\ d2.assigned = S
    <3>1. d2 = Blanked(db, B, S)
      BY DEF Blanked
    <3> QED
      BY <1>1, <2>3, <3>1, BlanksDesk
  <2> HIDE DEF d2
  <2>6. Careful => Carries(db, d2)
    BY <2>4, <2>5 DEF Carries, SameGoods, Exist
  <2>7. Leaves(d2)
    BY <2>5, <2>6, CarriesLeaves DEF Leaves
  <2> QED
    BY <2>2, <2>7, LeavesServe
<1> QED
  BY <1>4, <1>5, <1>6, <1>7

\* Statuses of items and of the order leave the goods alone.
LEMMA MoveStays ==
  ASSUME DeskInv, NEW w \in Workers,
         \/ \E i \in Items, target \in ItemTargets : ReadMove(w, i, target)
         \/ WriteMove(w)
  PROVE  Stay
<1>1. CASE \E i \in Items, target \in ItemTargets : ReadMove(w, i, target)
  <2>1. PICK i \in Items, target \in ItemTargets : ReadMove(w, i, target)
    BY <1>1
  <2> DEFINE r == [op |-> "move", item |-> i, target |-> target]
  <2>2. i \in Nat /\ target \in ItemStatuses
    BY DeskAssumption DEF Items, DeskInv, Desk, Table
  <2>3. r \in Requests /\ r.op # "edit"
    BY <2>2 DEF Requests, MoveRequest
  <2>4. Reads(w, r)
    BY <2>1 DEF ReadMove
  <2> HIDE DEF r
  <2> QED
    BY <2>3, <2>4, LeavesRead
<1>2. CASE WriteMove(w)
  <2> DEFINE r == pending[w]
             moved == SetItems(db, {r.item}, r.target)
  <2>1. /\ Answers(w, FollowItems(moved)) /\ r.op = "move"
        /\ r.item \in DOMAIN db.items
    BY <1>2 DEF WriteMove
  <2>2. r \in MoveRequest
    BY <2>1, RequestIs DEF DeskInv
  <2>3. r.target \in ItemStatuses
    BY <2>2 DEF MoveRequest
  <2>4. Carries(db, moved)
    BY <2>3, SetItemsCarry DEF DeskInv
  <2> HIDE DEF moved
  <2>5. Carries(db, FollowItems(moved))
    BY <2>4, FollowCarries, CarriesOn DEF Carries
  <2>6. ListInv => Exist(db)
    BY <2>1 DEF ListInv, Tidy
  <2>7. Leaves(FollowItems(moved))
    BY <2>5, <2>6, CarriesLeaves DEF Leaves, Carries
  <2> QED
    BY <2>1, <2>7, LeavesAnswer
<1> QED
  BY <1>1, <1>2

LEMMA TransitionStays ==
  ASSUME DeskInv, NEW target \in OrderTargets, TransitionStatus(target)
  PROVE  Stay
<1> DEFINE d1 == [db EXCEPT !.order.status = target]
           d2 == CascadeMainItems(d1, target)
           d3 == SyncExtras(d2, target)
<1>1. Serves(d3) /\ Exist(db)
  BY DEF TransitionStatus, Exists, Exist
<1>2. target \in OrderStatuses
  BY DeskAssumption
<1>3. Carries(db, d1)
  BY <1>2, StatusCarries DEF DeskInv
<1> HIDE DEF d1
<1>4. Carries(d1, d2)
  BY <1>3, CascadeCarries DEF Carries
<1> HIDE DEF d2
<1>5. Carries(d2, d3)
  BY <1>4, ExtrasCarry DEF Carries
<1> HIDE DEF d3
<1>6. Carries(db, d3)
  BY <1>3, <1>4, <1>5, CarriesOn
<1> QED
  BY <1>1, <1>6, CarriesLeaves, LeavesServe

\* The patch of a request, read when the order existed.
LEMMA ReadPatchStays ==
  ASSUME DeskInv, NEW w \in Workers, NEW patch \in Patches, ReadPatch(w, patch)
  PROVE  Stay
<1> DEFINE r == [op |-> "edit", patch |-> patch, fee |-> db.order.fee,
                 subtotal |-> ListedSubtotal(db.order.listed)]
<1>1. Reads(w, r) /\ Exist(db)
  BY DEF ReadPatch, Exists, Exist
<1>2. db.order.fee \in Nat /\ ListedSubtotal(db.order.listed) \in Nat
  BY ListedWhole DEF DeskInv, Desk, OrderRow
<1>3. patch \in Patch
  <2>1. Seq(ItemForms) \subseteq Seq(Form)
    BY DeskAssumption
  <2> QED
    BY <2>1, DeskAssumption DEF Patch
<1>4. r \in Requests
  BY <1>2, <1>3 DEF Requests, EditRequest
<1> HIDE DEF r
<1> QED
  BY <1>1, <1>4, LeavesRead

\* An edit prices what it gives anew by the other part as it still is.
LEMMA WritePatchStays ==
  ASSUME DeskInv, NEW w \in Workers, WritePatch(w)
  PROVE  Stay
<1> DEFINE r == pending[w]
           p == r.patch
           o == db.order
           fee == IF p.fee = Same THEN r.fee ELSE p.fee
           subtotal == IF p.items = Same THEN r.subtotal ELSE Subtotal(p.items)
           o2 == PatchedOrder(r)
           patched == [db EXCEPT !.order = o2]
<1>1. /\ Answers(w, IF p.items = Same THEN patched ELSE SyncOrderItemsTable(patched, p.items))
      /\ r.op = "edit" /\ PatchPractised(r)
  BY DEF WritePatch
<1>2. r \in EditRequest
  BY <1>1, RequestIs DEF DeskInv
<1>3. /\ r.fee \in Nat /\ r.subtotal \in Nat
      /\ p.items \in Seq(Form) \union {Same} /\ p.fee \in Nat \union {Same}
      /\ p.holder \in Staff \union {NoStaff, Same}
  BY <1>2 DEF EditRequest, Patch
<1>4. p.items # Same => /\ p.items \in Seq(Form) /\ Subtotal(p.items) \in Nat
                        /\ Listed(BodyListing(p.items))
  BY <1>3, BodyPriced
<1>5. Desk(db) /\ OrderRow(o) /\ o = [c \in Columns |-> o[c]]
  BY DEF DeskInv, Desk, Typed
<1>6. /\ o2 = [c \in Columns |-> o2[c]] /\ o2.status = o.status
      /\ o2.fee = IF p.fee = Same THEN o.fee ELSE p.fee
      /\ o2.listed = IF p.items = Same THEN o.listed ELSE BodyListing(p.items)
      /\ o2.total = IF p.items = Same /\ p.fee = Same THEN o.total ELSE subtotal + fee
      /\ o2.holder = IF p.holder = Same THEN o.holder ELSE p.holder
  BY <1>5 DEF PatchedOrder, Columns
<1>7. fee \in Nat /\ subtotal \in Nat
  BY <1>3, <1>4
<1>8. ASSUME Careful, ListInv
      PROVE  /\ Exist(db) /\ NoTwoAt(db) /\ Agrees(db)
             /\ p.fee = Same => r.fee = o.fee
             /\ p.items = Same => r.subtotal = Subtotal(Forms(db))
             /\ p.items # Same => db.assigned = {}
  <2>1. Exist(db) /\ NoTwoAt(db) /\ Agrees(db)
    BY <1>1, <1>8 DEF ListInv, Tidy
  <2>2. ListedSubtotal(o.listed) = Subtotal(Forms(db))
    BY <1>5, <2>1, TablePriced DEF Agrees, Desk
  <2> QED
    BY <1>1, <1>8, <2>1, <2>2 DEF PatchPractised, Current, Careful
<1> HIDE DEF o2, fee, subtotal
<1>9. OrderRow(o2)
  <2>1. o2.fee \in Nat /\ o2.total \in Nat /\ Listed(o2.listed)
    BY <1>3, <1>4, <1>5, <1>6, <1>7 DEF OrderRow
  <2>2. o2.holder \in Staff \union {NoStaff}
    BY <1>3, <1>5, <1>6 DEF OrderRow
  <2> QED
    BY <1>5, <1>6, <2>1, <2>2 DEF OrderRow
<1>10. /\ Desk(patched) /\ patched.order = o2 /\ patched.items = db.items
       /\ patched.lastItem = db.lastItem /\ patched.assigned = db.assigned
  BY <1>5, <1>6, <1>9, OrderDeskRow
<1> HIDE DEF patched
<1>11. /\ Exist(patched) = Exist(db) /\ NoTwoAt(patched) = NoTwoAt(db)
       /\ TableListing(patched) = TableListing(db) /\ Forms(patched) = Forms(db)
  BY <1>6, <1>10 DEF Exist, NoTwoAt, TableListing, Forms, BlanksOf
<1>12. CASE p.items = Same
  <2>1. ASSUME Careful, ListInv PROVE Tidy(patched)
    <3>1. o.listed = TableListing(db) /\ o.total = Subtotal(Forms(db)) + o.fee
      BY <1>8, <2>1 DEF Agrees
    <3>2. o2.total = Subtotal(Forms(db)) + o2.fee
      BY <1>6, <1>8, <1>12, <2>1, <3>1 DEF fee, subtotal
    <3> QED
      BY <1>6, <1>8, <1>10, <1>11, <1>12, <2>1, <3>1, <3>2 DEF Tidy, Agrees
  <2>2. Leaves(patched)
    BY <1>10, <1>11, <2>1 DEF Leaves
  <2> QED
    BY <1>1, <1>12, <2>2, LeavesAnswer
<1>13. CASE p.items # Same
  <2> DEFINE forms == p.items
             d2 == SyncOrderItemsTable(patched, forms)
  <2>1. forms \in Seq(Form)
    BY <1>4, <1>13
  <2>2. /\ Desk(d2) /\ d2.order = o2 /\ (NoTwoAt(db) => NoTwoAt(d2))
        /\ NoTwoAt(db) /\ db.assigned = {} =>
             /\ TableListing(d2) = BodyListing(forms)
             /\ Subtotal(Forms(d2)) = Subtotal(forms)
    <3>1. /\ Desk(d2) /\ d2.order = patched.order
          /\ NoTwoAt(patched) => NoTwoAt(d2)
          /\ NoTwoAt(patched) /\ patched.assigned = {} =>
               /\ TableListing(d2) = BodyListing(forms)
               /\ Subtotal(Forms(d2)) = Subtotal(forms)
      BY <1>10, <2>1, TableDesk
    <3> QED
      BY <1>10, <1>11, <3>1
  <2> HIDE DEF d2
  <2>3. ASSUME Careful, ListInv PROVE Tidy(d2) /\ Exist(d2)
    <3>1. o2.total = Subtotal(forms) + o2.fee /\ o2.listed = BodyListing(forms)
      BY <1>6, <1>8, <1>13, <2>3 DEF fee, subtotal
    <3>2. Exist(db) /\ NoTwoAt(db) /\ db.assigned = {}
      BY <1>8, <1>13, <2>3
    <3>3. Exist(d2) /\ NoTwoAt(d2)
      BY <1>6, <2>2, <3>2 DEF Exist
    <3>4. Agrees(d2)
      BY <2>2, <3>1, <3>2 DEF Agrees
    <3> QED
      BY <3>3, <3>4 DEF Tidy
  <2>4. Leaves(d2)
    BY <2>2, <2>3 DEF Leaves
  <2> QED
    BY <1>1, <1>13, <2>4, LeavesAnswer DEF d2
<1> QED
  BY <1>12, <1>13

\* Who holds the order is a column of its own.
LEMMA HolderStays ==
  ASSUME DeskInv, NEW w \in Workers,
         \/ \E s \in Staff : ReadAssign(w, s) \/ ReadUnassign(w, s)
         \/ WriteAssign(w) \/ WriteUnassign(w) \/ Drop(w)
  PROVE  Stay
<1>1. ASSUME NEW s \in Staff \union {NoStaff} PROVE Leaves([db EXCEPT !.order.holder = s])
  <2> DEFINE o2 == [db.order EXCEPT !.holder = s]
             d2 == [db EXCEPT !.order = o2]
  <2>1. /\ o2 = [c \in Columns |-> o2[c]] /\ o2.status = db.order.status
        /\ o2.fee = db.order.fee /\ o2.total = db.order.total /\ o2.holder = s
        /\ o2.listed = db.order.listed
    BY DEF DeskInv, Desk, Typed, Columns
  <2>2. [db EXCEPT !.order.holder = s] = d2
    OBVIOUS
  <2> HIDE DEF o2
  <2>3. OrderRow(o2)
    BY <1>1, <2>1 DEF DeskInv, Desk, OrderRow
  <2>4. Desk(d2) /\ d2.order = o2 /\ d2.items = db.items /\ d2.assigned = db.assigned
    BY <2>1, <2>3, OrderDeskRow DEF DeskInv
  <2> HIDE DEF d2
  <2>5. Carries(db, d2)
    BY <2>1, <2>4 DEF Carries, SameGoods, Exist
  <2> QED
    BY <2>1, <2>2, <2>4, <2>5, CarriesLeaves
<1>2. CASE \E s \in Staff : ReadAssign(w, s) \/ ReadUnassign(w, s)
  <2>1. PICK s \in Staff, op \in {"assign", "unassign"} : Reads(w, [op |-> op, by |-> s])
    BY <1>2 DEF ReadAssign, ReadUnassign
  <2> DEFINE r == [op |-> op, by |-> s]
  <2>2. r \in Requests /\ r.op # "edit"
    BY DEF Requests, ClaimRequest
  <2> HIDE DEF r
  <2> QED
    BY <2>1, <2>2, LeavesRead DEF r
<1>3. CASE WriteAssign(w)
  <2>1. pending[w].op = "assign" /\ Answers(w, [db EXCEPT !.order.holder = pending[w].by])
    BY <1>3 DEF WriteAssign
  <2>2. pending[w].by \in Staff
    BY <2>1, RequestIs DEF DeskInv, ClaimRequest
  <2> QED
    BY <1>1, <2>1, <2>2, LeavesAnswer
<1>4. CASE WriteUnassign(w)
  <2>1. Answers(w, [db EXCEPT !.order.holder = NoStaff])
    BY <1>4 DEF WriteUnassign
  <2> QED
    BY <1>1, <2>1, LeavesAnswer
<1>5. CASE Drop(w)
  <2>1. Answers(w, db)
    BY <1>5 DEF Drop
  <2>2. Carries(db, db)
    BY CarriesSelf DEF DeskInv
  <2>3. Leaves(db)
    BY <2>2, CarriesLeaves
  <2> QED
    BY <2>1, <2>3, LeavesAnswer
<1> QED
  BY <1>2, <1>3, <1>4, <1>5

-----------------------------------------------------------------------------
\* The desk opens with no order and no items.
LEMMA InitStays == Init => DeskInv /\ ListInv
<1> SUFFICES ASSUME Init PROVE DeskInv /\ ListInv
  OBVIOUS
<1>1. /\ Typed(db) /\ db.items = <<>> /\ db.lastItem = 0 /\ db.assigned = {}
      /\ db.order = Absent
  BY DEF Init, Typed, Tables, Columns, Absent
<1>2. OrderRow(Absent) /\ Absent.status = "absent"
  <2>1. Listed(<<>>)
    BY FS_EmptySet DEF Listed
  <2> QED
    BY <2>1 DEF OrderRow, Absent
<1>3. Table(db) /\ Assignments(db) /\ DOMAIN db.items = {}
  BY <1>1 DEF Table, Assignments, Assigns
<1>4. Desk(db) /\ Tidy(db)
  BY <1>1, <1>2, <1>3 DEF Desk, Tidy, NoTwoAt, Exist
<1>5. pending = [w \in Workers |-> Idle]
  BY DEF Init
<1> QED
  BY <1>4, <1>5, IdleRequest DEF DeskInv, ListInv

\* Every step keeps the invariants.
LEMMA NextStays ==
  ASSUME DeskInv, [Next]_vars
  PROVE  Stay
<1>1. CASE UNCHANGED vars
  <2>1. db' = db /\ pending' = pending
    BY <1>1 DEF vars
  <2>2. DeskInv'
    BY <2>1 DEF DeskInv
  <2>3. ListInv => ListInv'
    BY <2>1 DEF ListInv
  <2> QED
    BY <2>2, <2>3 DEF Stay
<1>2. CASE Next
  <2>1. CASE \E forms \in Lists, fee \in Fees, status \in {"new", "delivered"} :
                CreateOrder(forms, fee, status)
    BY <2>1, CreateStays
  <2>2. CASE \/ \E form \in ItemForms, pos \in Positions : CreateWorkItem(form, pos)
             \/ \E i \in Items, form \in ItemForms, pos \in Positions :
                  UpdateWorkItem(i, form, pos)
             \/ \E i \in Items : DeleteWorkItem(i)
    BY <2>2, ItemStays
  <2>3. CASE \/ \E i \in Items, b \in Blanks :
                  UnassignBlank(i, b) \/ \E q \in 0..MaxQty : AssignBlank(i, b, q)
             \/ \E b \in Blanks : CreateBlank(b) \/ DeleteBlank(b)
    BY <2>3, BlankStays
  <2>4. CASE \/ \E w \in Workers, i \in Items, target \in ItemTargets :
                  ReadMove(w, i, target)
             \/ \E w \in Workers : WriteMove(w)
    BY <2>4, MoveStays
  <2>5. CASE \E target \in OrderTargets : TransitionStatus(target)
    BY <2>5, TransitionStays
  <2>6. CASE \/ \E w \in Workers, patch \in Patches : ReadPatch(w, patch)
             \/ \E w \in Workers : WritePatch(w)
    BY <2>6, ReadPatchStays, WritePatchStays
  <2>7. CASE \/ \E w \in Workers, s \in Staff : ReadAssign(w, s) \/ ReadUnassign(w, s)
             \/ \E w \in Workers : WriteAssign(w) \/ WriteUnassign(w) \/ Drop(w)
    BY <2>7, HolderStays
  <2> QED
    BY <1>2, <2>1, <2>2, <2>3, <2>4, <2>5, <2>6, <2>7 DEF Next
<1> QED
  BY <1>1, <1>2

(***************************************************************************)
(* However requests interleave and whatever the staff do, the order, its   *)
(* items, their blanks and what every request has read hold values of      *)
(* their columns, and a blank is assigned once to an item that is there.   *)
(***************************************************************************)
THEOREM DeskTyped ==
  Spec => []TypeOK
<1>1. DeskInv /\ [Next]_vars => DeskInv'
  BY NextStays DEF Stay
<1>2. DeskInv => TypeOK
  BY DEF DeskInv, Desk, OrderRow, Table, Assignments, Assigns, TypeOK, Items, Requests
<1> QED
  BY InitStays, <1>1, <1>2, PTL DEF Spec

(***************************************************************************)
(* The copy of the items that tickets are printed from lists the rows the  *)
(* kitchen works by, and the total is what they come to, whatever is       *)
(* edited, added, deleted, moved, assigned and patched by any number of    *)
(* requests at once: unless two items are put at one position, a patch is  *)
(* overtaken by another of the other part, or blanks that are assigned are *)
(* deleted or edited away.                                                 *)
(***************************************************************************)
THEOREM CopiesAgree ==
  ASSUME "same_position" \notin Practices, "stale_patch" \notin Practices,
         "drop_blanks" \notin Practices
  PROVE  Spec => []ListAgrees
<1>1. DeskInv /\ ListInv /\ [Next]_vars => DeskInv' /\ ListInv'
  BY NextStays DEF Stay, Careful
<1>2. ListInv => ListAgrees
  BY DEF ListInv, Tidy, Agrees, ListAgrees, Exists, Exist
<1> QED
  BY InitStays, <1>1, <1>2, PTL DEF Spec

=============================================================================
