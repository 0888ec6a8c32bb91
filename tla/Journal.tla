------------------------------ MODULE Journal ------------------------------
(***************************************************************************)
(* The journal of one order: the helpers of services/journal_sync/         *)
(* _common.py over journal_entries and journal_lines.                      *)
(*                                                                         *)
(* A database is a record d with, among others, the fields                 *)
(*   journal    set of [id, source, of, text, lines, locked]:              *)
(*              journal_entries with their lines; of is source_id, text    *)
(*              tells the description prefixes apart, and lines gives what *)
(*              the entry debits (or, negative, credits) each account      *)
(*   lastEntry  the autoincrement counter of journal_entries               *)
(* Dates, actors and the link to a cash drawer are left out.               *)
(***************************************************************************)
EXTENDS Integers, FiniteSetsExt

CONSTANT Accounts  \* the accounts of the chart that are told apart

\* source_id of the entries of the order itself.
TheOrder == 0

\* Mutant: only the accounts that are named.
NamedLines(amounts) == amounts

\* The lines of an entry, from its amounts on some accounts.
Lines(amounts) ==
  [a \in Accounts |-> IF a \in DOMAIN amounts THEN amounts[a] ELSE 0]

Debit(e, a) == IF e.lines[a] > 0 THEN e.lines[a] ELSE 0

\* Debits less credits of account a over the entries of S.
NetOf(S, a) == MapThenSumSet(LAMBDA e : e.lines[a], S)

-----------------------------------------------------------------------------
EntriesOf(d, source, of) == {e \in d.journal : e.source = source /\ e.of = of}

\* ORDER BY id DESC LIMIT 1.
Latest(S) == CHOOSE e \in S : \A f \in S : f.id <= e.id

Insert(d, source, of, text, lines) ==
  [d EXCEPT
     !.lastEntry = @ + 1,
     !.journal = @ \union {[id |-> d.lastEntry + 1, source |-> source, of |-> of,
                            text |-> text, lines |-> lines, locked |-> FALSE]}]

DeleteCascade(d, e) == [d EXCEPT !.journal = @ \ {e}]

\* A reversal has the source of the entry it reverses, and its lines swapped.
Reverse(d, e) ==
  Insert(d, e.source, e.of, "reversal", [a \in Accounts |-> -e.lines[a]])

\* Mutant: the period's lock is not looked at.
AlwaysDelete(d, e) == DeleteCascade(d, e)

ReverseOrDelete(d, e) == IF e.locked THEN Reverse(d, e) ELSE DeleteCascade(d, e)

UpdateInPlace(d, e, text, lines) ==
  [d EXCEPT !.journal = (@ \ {e}) \union {[e EXCEPT !.text = text, !.lines = lines]}]

\* JournalEntry.lock_range, for a period that reaches to now.
LockRange(d) == [d EXCEPT !.journal = {[e EXCEPT !.locked = TRUE] : e \in @}]

=============================================================================
