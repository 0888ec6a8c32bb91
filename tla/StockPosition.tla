---------------------------- MODULE StockPosition ----------------------------
(***************************************************************************)
(* What the stock tables promise, with lots, movements, balances and       *)
(* transactions left out: a net position for each option and what each     *)
(* order holds of it.  Only two things happen: stock comes in or goes out, *)
(* or one order changes what it holds and the position moves by exactly    *)
(* the difference.                                                         *)
(***************************************************************************)
EXTENDS Integers

CONSTANTS Options, Orders

VARIABLES net,   \* net_available_quantity of each option, over all its rows
          held   \* held[o][b]: what order o took of option b and still has

vars == <<net, held>>

Init ==
  /\ net = [b \in Options |-> 0]
  /\ held = [o \in Orders |-> [b \in Options |-> 0]]

\* Restock, waste and adjustment of option b, of any quantity.
Move(b) ==
  /\ net' \in [Options -> Int]
  /\ \A c \in Options \ {b} : net'[c] = net[c]
  /\ UNCHANGED held

\* Sale, edit and cancellation of order o.
Hold(o) ==
  /\ held' \in [Orders -> [Options -> Nat]]
  /\ \A p \in Orders \ {o} : held'[p] = held[p]
  /\ net' = [b \in Options |-> net[b] + held[o][b] - held'[o][b]]

Next == (\E b \in Options : Move(b)) \/ (\E o \in Orders : Hold(o))

Spec == Init /\ [][Next]_vars

=============================================================================
