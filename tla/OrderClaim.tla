----------------------------- MODULE OrderClaim -----------------------------
(***************************************************************************)
(* What claiming an order for delivery promises (api/orders.py, assign and *)
(* unassign): it is held by one member of staff at most, and passes to     *)
(* another only after it has been given up.                                *)
(***************************************************************************)
CONSTANTS Staff, NoStaff

VARIABLE holder

Init == holder = NoStaff

Claim(s) == holder = NoStaff /\ holder' = s

GiveUp == holder # NoStaff /\ holder' = NoStaff

Next == GiveUp \/ \E s \in Staff : Claim(s)

Spec == Init /\ [][Next]_holder

=============================================================================
