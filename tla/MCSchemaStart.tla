--------------------------- MODULE MCSchemaStart ---------------------------
(***************************************************************************)
(* SchemaStart on databases of four ages: none, and those of a shop that   *)
(* last ran version 70, 94 or 96 with the CREATE TABLE statements of then. *)
(***************************************************************************)
EXTENDS SchemaStart

\* The row writes of the versions up to n.
DoneBy(n) == LET rows == WrittenIfRows IN UNION {rows[v] : v \in 1..n}
Aged(n, lost, gained) ==
    [content |-> [objects |-> (SchemaOf(n) \ lost) \cup gained, rows |-> DoneBy(n),
                  twice |-> {}, versions |-> 1..n],
     populated |-> TRUE]

Fresh ==
    [content |-> [objects |-> {}, rows |-> {}, twice |-> {}, versions |-> {}],
     populated |-> FALSE]

\* Before CREATE TABLE users had the role's CHECK and the later columns.
Shop70 == Aged(70, {<< "users", c >> : c \in {"role_check", "staff_id", "force_password_change"}}
                     \cup {<< "sessions", "staff_id" >>}, {})
\* While cash_drawer still kept its totals itself.
Shop94 == Aged(94, {<< "cash_drawer", c >> :
                       c \in {"closing_balance", "counted_opening_balance", "reconciled"}},
               {<< "cash_drawer", c >> :
                   c \in {"cash_sales", "owner_in", "owner_out", "cash_expenses"}})
Shop96 == Aged(96, {<< "cash_drawer", "reconciled" >>,
                    << "reconciliation_sale_rows", "linked_order_refs" >>}, {})

AllDatabases == {Fresh, Shop70, Shop94, Shop96}
=============================================================================
