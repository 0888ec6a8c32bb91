---------------------------- MODULE SchemaStart ----------------------------
(***************************************************************************)
(* How a process of the program brings the database up to its schema:      *)
(* ensure_schema (db/schema/registry.py), run by the group callback of     *)
(* every command (cli.py), by the server the service manager starts and    *)
(* restarts (nix/module.nix) and by the commands an operator types.        *)
(*                                                                         *)
(* SQLite's part (db/connection.py opens each connection with Python's     *)
(* deferred transactions): a row write opens a transaction if none is      *)
(* open, a statement on tables or columns commits by itself unless one     *)
(* is, executescript commits first, and one connection writes at a time:   *)
(* another one waits, and fails when it has waited five seconds.           *)
(***************************************************************************)
EXTENDS Migrations

CONSTANTS
    Tools,          \* processes that run commands
    Server,         \* the process of the service
    Databases,      \* the databases the program may find
    Commands,       \* of "query" (any that has nothing to do here), "migrate", "dry_run"
    MaxCommands,    \* bound: commands run
    MaxCrashes,     \* bound: processes killed
    Practices       \* of "interrupted_script", "overlapping_start"

Processes == Tools \cup {Server}
Free == "nobody"

ASSUME StartAssumption ==
    /\ Commands \subseteq {"query", "migrate", "dry_run"}
    /\ Server \notin Tools /\ Free \notin Processes
    /\ MaxCommands \in Nat /\ MaxCrashes \in Nat
    /\ Practices \subseteq {"interrupted_script", "overlapping_start"}

(***************************************************************************)
(* What the versions look like, on which the recovery from a crash rests:  *)
(* a script writes no row that counts (SQLite commits its statements one   *)
(* by one), a callable none before an executescript of its own and none    *)
(* after a look that may end it, and neither records the version.          *)
(***************************************************************************)
RowOps == {"write", "backfill", "write_while"}
Statements ==
    [op : STRING, table : STRING, columns : SUBSET STRING]
      \cup [op : {"rename"}, table : STRING, to : STRING, columns : SUBSET STRING]
ScriptIsRepeatable(s) ==
    \A i \in DOMAIN s : s[i].op \notin RowOps \cup {"record", "commit", "skip_if"}
CallableIsAtomic(c) ==
    \A i \in DOMAIN c :
        /\ c[i].op # "record"
        /\ c[i].op = "commit" => \A j \in 1..(i - 1) : c[j].op \notin RowOps
        /\ c[i].op = "skip_if" => \A j \in i..Len(c) : c[j].op \notin RowOps
ASSUME RegistryAssumption ==
    /\ Registry \in Seq([script : Seq(Statements), callable : Seq(Statements)])
    /\ \A v \in 1..Len(Registry) : /\ ScriptIsRepeatable(Registry[v].script)
                                   /\ CallableIsAtomic(Registry[v].callable)

VARIABLES
    db,         \* what is committed: its objects (a table, or a column of one),
                \* the row writes done, those done again, the versions recorded
    populated,  \* whether the tables have the rows that backfills treat
    writer,     \* who has a write transaction open
    draft,      \* what its transaction sees; what is committed when there is none
    pc,         \* per process: "down", "migrating", "second", "up", "done", "failed"
    command, at, backup, commands, crashes,
    outdated    \* per process: the schema it found was an older one

vars == << db, populated, writer, draft, pc, command, outdated, at, backup, commands, crashes >>

Latest == Len(Registry)
\* SELECT MAX(version), 0 without a row.
Newest(content) ==
    CHOOSE v \in content.versions \cup {0} :
        \A w \in (v + 1)..Latest : w \notin content.versions

Table(t) == << t, "" >>
Objects(s) == {<< s.table, c >> : c \in s.columns}
OfTable(content, t) == {o \in content.objects : o[1] = t}
\* What a DROP takes along: the columns, or the table with all it has.
Lost(s, content) ==
    {o \in OfTable(content, s.table) : o[2] \in s.columns \/ "" \in s.columns}

\* Mutant: the version's row is written before its callable runs.
RecordFirst ==
    LET registry == Registry
    IN  [v \in DOMAIN registry |->
            << Commit >> \o registry[v].script \o << Statement("record", "schema_version", {}) >>
                \o registry[v].callable]
        \o << >>
\* What is run for a version: executescript, the callable, the version's row.
Record == Statement("record", "schema_version", {})
\* (The concatenations with << >> make TLC tabulate the function once.)
Programs ==
    LET registry == Registry
    IN  [v \in DOMAIN registry |->
            << Commit >> \o registry[v].script \o registry[v].callable \o << Record >>]
        \o << >>
Beginning(v) == [version |-> v, index |-> 1, checked |-> FALSE]
Current(p) == Programs[at[p].version][at[p].index]

(***************************************************************************)
(* What a statement finds, and what it does to the content it sees.        *)
(***************************************************************************)
TableExists(s, content) == Table(s.table) \in content.objects
ColumnExists(s, content) == Objects(s) \cap content.objects # {}

Guarded(s) == s.op \in {"guard_add", "guard_drop", "write_while"}

\* IF NOT EXISTS, a PRAGMA that finds nothing to do, a SELECT without rows.
NothingToDo(s, content) ==
    \/ s.op = "create" /\ TableExists(s, content)
    \/ s.op = "guard_add" /\ ColumnExists(s, content)
    \/ s.op \in {"guard_drop", "write_while"} /\ ~ ColumnExists(s, content)
    \/ s.op = "backfill" /\ ~ populated

\* What SQLite raises an error for.
Broken(s, content, version) ==
    \/ s.op \in {"add", "guard_add"} /\ ColumnExists(s, content)
    \/ s.op \in {"guard_drop", "write_while"} /\ ~ ColumnExists(s, content)
    \/ s.op = "create_new" /\ TableExists(s, content)
    \/ s.op = "backfill" /\ ~ (Objects(s) \subseteq content.objects)
    \/ s.op = "record" /\ version \in content.versions
    \/ s.op \notin {"create", "create_new", "guard_drop"} /\ ~ TableExists(s, content)

Written(content, row) ==
    [content EXCEPT !.rows = @ \cup {row},
                    !.twice = @ \cup ({row} \cap content.rows)]

Changed(s, content, row) ==
    CASE s.op \in {"create", "create_new"} ->
            [content EXCEPT !.objects = @ \cup {Table(s.table)} \cup Objects(s)]
      [] s.op \in {"add", "guard_add"} ->
            [content EXCEPT !.objects = @ \cup Objects(s)]
      [] s.op = "guard_drop" -> [content EXCEPT !.objects = @ \ Lost(s, content)]
      [] s.op = "drop" -> [content EXCEPT !.objects = @ \ OfTable(content, s.table)]
      [] s.op = "rename" ->
            [content EXCEPT !.objects =
                (@ \ OfTable(content, s.table))
                    \cup {Table(s.to)} \cup {<< s.to, c >> : c \in s.columns}]
      [] s.op \in RowOps -> Written(content, row)
      [] s.op = "record" -> [content EXCEPT !.versions = @ \cup {row[1]}]
      [] OTHER -> content

\* Mutant: the row writes of a callable commit one by one.
OnlyRecordOpens(s) == s.op = "record"
OpensTransaction(s) == s.op \in RowOps \cup {"record"}

(***************************************************************************)
(* The practices the passing run leaves out.  A version whose script has   *)
(* committed an unguarded ALTER, or half of a rebuild, but not its row     *)
(* cannot be run again; and two processes may only migrate at once while   *)
(* every pending version merely adds.                                      *)
(***************************************************************************)
StatementsOf ==
    LET programs == Programs
    IN  [v \in DOMAIN programs |-> {programs[v][i] : i \in DOMAIN programs[v]}] \o << >>
Unguarded ==
    LET statements == StatementsOf
    IN  [v \in DOMAIN statements |->
            UNION {Objects(s) : s \in {t \in statements[v] : t.op = "add"}}
              \cup {Table(s.table) : s \in {t \in statements[v] : t.op = "create_new"}}]
        \o << >>
HalfRun ==
    \E v \in (Newest(db) + 1)..Latest : Unguarded[v] \cap db.objects # {}
MayStop == "interrupted_script" \in Practices \/ ~ HalfRun

NotOnlyAdding ==
    LET statements == StatementsOf
    IN  {v \in DOMAIN statements :
        \E s \in statements[v] : s.op \in {"add", "guard_drop", "create_new"}}
MayStart(p) ==
    \/ "overlapping_start" \in Practices
    \/ \A q \in Processes \ {p} : pc[q] # "migrating"
    \/ \A v \in NotOnlyAdding : v <= Newest(db)

(***************************************************************************)
(* The run of a process.                                                   *)
(***************************************************************************)
View(p) == IF writer = p THEN draft ELSE db
AutoCommit(content) == db' = content /\ draft' = content /\ UNCHANGED writer
InTransaction(p, content) == writer' = p /\ draft' = content /\ UNCHANGED db
CommitOf(p) ==
    IF writer = p THEN writer' = Free /\ db' = draft /\ UNCHANGED draft
                  ELSE UNCHANGED << db, writer, draft >>
RollbackOf(p) ==
    IF writer = p THEN writer' = Free /\ draft' = db /\ UNCHANGED db
                  ELSE UNCHANGED << db, writer, draft >>

GoTo(p, place) == at' = [at EXCEPT ![p] = place]
Advance(p) ==
    GoTo(p, IF at[p].index = Len(Programs[at[p].version])
              THEN Beginning(at[p].version + 1)
              ELSE [at[p] EXCEPT !.index = @ + 1, !.checked = FALSE])
\* The callable returns: only the version's row is left.
Return(p) == GoTo(p, [at[p] EXCEPT !.index = Len(Programs[at[p].version])])

Running(p) == pc[p] = "migrating" /\ at[p].version <= Latest

\* The command line's group callback: ensure_schema reads the version.
Begin(p) ==
    /\ pc' = [pc EXCEPT ![p] = "migrating"]
    /\ outdated' = [outdated EXCEPT ![p] = Newest(db) < Latest]
    /\ GoTo(p, Beginning(Newest(db) + 1))

\* Mutant: the service manager does not restart what failed.
StartOnce ==
    /\ pc[Server] = "down"
    /\ MayStart(Server)
    /\ Begin(Server)
    /\ UNCHANGED << db, populated, writer, draft, command, backup, commands, crashes >>
StartServer ==
    /\ pc[Server] \in {"down", "failed"}
    /\ MayStart(Server)
    /\ Begin(Server)
    /\ UNCHANGED << db, populated, writer, draft, command, backup, commands, crashes >>

RunCommand(p, c) ==
    /\ p \in Tools /\ pc[p] \in {"down", "done", "failed"}
    /\ commands < MaxCommands
    /\ MayStart(p)
    /\ Begin(p)
    /\ command' = [command EXCEPT ![p] = c]
    /\ commands' = commands + 1
    /\ UNCHANGED << db, populated, writer, draft, backup, crashes >>

StatementDone == UNCHANGED << populated, pc, command, outdated, backup, commands, crashes >>

\* executescript commits what the connection has written so far.
CommitFirst(p) ==
    /\ Running(p) /\ Current(p).op = "commit"
    /\ CommitOf(p)
    /\ Advance(p)
    /\ StatementDone

\* The callable of the rebuild leaves when the table is missing or already has
\* its constraint.
Look(p) ==
    /\ Running(p) /\ Current(p).op = "skip_if"
    /\ IF TableExists(Current(p), View(p)) /\ ~ ColumnExists(Current(p), View(p))
         THEN Advance(p)
         ELSE Return(p)
    /\ UNCHANGED << db, writer, draft >>
    /\ StatementDone

\* A statement without effect.
PassOver(p) ==
    /\ Running(p) /\ Current(p).op \notin {"commit", "skip_if"}
    /\ ~ at[p].checked /\ NothingToDo(Current(p), View(p))
    /\ Advance(p)
    /\ UNCHANGED << db, writer, draft >>
    /\ StatementDone

\* PRAGMA table_info says the ALTER TABLE is needed.
Check(p) ==
    /\ Running(p) /\ Guarded(Current(p))
    /\ ~ at[p].checked /\ ~ NothingToDo(Current(p), View(p))
    /\ GoTo(p, [at[p] EXCEPT !.checked = TRUE])
    /\ UNCHANGED << db, writer, draft >>
    /\ StatementDone

\* The next statement writes.
Writing(p) ==
    /\ Running(p) /\ Current(p).op \notin {"commit", "skip_if"}
    /\ IF Guarded(Current(p)) THEN at[p].checked ELSE ~ NothingToDo(Current(p), View(p))

\* It has the write lock.
MayWrite(p) == Writing(p) /\ writer \in {Free, p}

Execute(p) ==
    LET content == Changed(Current(p), View(p), << at[p].version, at[p].index >>)
    IN  /\ MayWrite(p)
        /\ ~ Broken(Current(p), View(p), at[p].version)
        /\ IF writer = p \/ OpensTransaction(Current(p))
             THEN InTransaction(p, content)
             ELSE AutoCommit(content)
        /\ Advance(p)
        /\ StatementDone

\* Mutant: a process that ends leaves its transaction open.
StopWithoutRollback(p) ==
    /\ UNCHANGED << db, writer, draft >>
    /\ pc' = [pc EXCEPT ![p] = "failed"]
    /\ outdated' = [outdated EXCEPT ![p] = FALSE]
    /\ GoTo(p, Beginning(1))
    /\ UNCHANGED << populated, command, backup, commands >>
Stop(p) ==
    /\ RollbackOf(p)
    /\ pc' = [pc EXCEPT ![p] = "failed"]
    /\ outdated' = [outdated EXCEPT ![p] = FALSE]
    /\ GoTo(p, Beginning(1))
    /\ UNCHANGED << populated, command, backup, commands >>

\* The statement raises, or waited for the lock too long: get_db rolls back and
\* the process ends with the exception.
Fail(p) ==
    /\ \/ MayWrite(p) /\ Broken(Current(p), View(p), at[p].version)
       \/ Writing(p) /\ writer \notin {Free, p}
    /\ Stop(p)
    /\ UNCHANGED crashes

\* Mutant: the last version is left uncommitted.
FinishUncommitted(p) ==
    /\ pc[p] = "migrating" /\ at[p].version > Latest
    /\ RollbackOf(p)
    /\ pc' = [pc EXCEPT ![p] =
                IF p = Server THEN "up"
                ELSE IF command[p] = "query" THEN "done" ELSE "second"]
    /\ UNCHANGED << populated, command, outdated, at, backup, commands, crashes >>
\* ensure_schema commits; the server serves, the command runs.
Finish(p) ==
    /\ pc[p] = "migrating" /\ at[p].version > Latest
    /\ CommitOf(p)
    /\ pc' = [pc EXCEPT ![p] =
                IF p = Server THEN "up"
                ELSE IF command[p] = "query" THEN "done" ELSE "second"]
    /\ UNCHANGED << populated, command, outdated, at, backup, commands, crashes >>

\* baker db migrate: what is pending is shown, copied to a backup and applied.
DbMigrate(p) ==
    LET pending == Newest(db) < Latest
    IN  /\ pc[p] = "second"
        /\ backup' = (backup \/ (pending /\ command[p] = "migrate"))
        /\ IF pending /\ command[p] = "migrate"
             THEN /\ pc' = [pc EXCEPT ![p] = "migrating"]
                  /\ GoTo(p, Beginning(Newest(db) + 1))
             ELSE pc' = [pc EXCEPT ![p] = "done"] /\ UNCHANGED at
        /\ UNCHANGED << db, populated, writer, draft, command, outdated, commands, crashes >>

\* The process is killed, or the machine stops.
Crash(p) ==
    /\ pc[p] \in {"migrating", "second", "up"}
    /\ crashes < MaxCrashes
    /\ MayStop
    /\ crashes' = crashes + 1
    /\ Stop(p)

Step(p) ==
    \/ CommitFirst(p) \/ Look(p) \/ PassOver(p) \/ Check(p) \/ Execute(p)
    \/ Fail(p) \/ Finish(p) \/ DbMigrate(p)

Init ==
    /\ \E found_db \in Databases :
          db = found_db.content /\ draft = db /\ populated = found_db.populated
    /\ writer = Free
    /\ pc = [p \in Processes |-> "down"]
    /\ command = [p \in Processes |-> "query"]
    /\ outdated = [p \in Processes |-> FALSE]
    /\ at = [p \in Processes |-> Beginning(1)]
    /\ backup = FALSE
    /\ commands = 0 /\ crashes = 0

Next ==
    \/ StartServer
    \/ \E p \in Tools, c \in Commands : RunCommand(p, c)
    \/ \E p \in Processes : Step(p) \/ Crash(p)

\* The service manager starts the server and starts it again when it failed;
\* a running process runs.
Fairness == WF_vars(StartServer) /\ \A p \in Processes : WF_vars(Step(p))

Spec == Init /\ [][Next]_vars /\ Fairness

(***************************************************************************)
(* Properties.                                                             *)
(***************************************************************************)
\* The type of the state.
Contents(content) ==
    /\ content.versions \subseteq 1..Latest
    /\ content.twice \subseteq content.rows
    /\ \A o \in content.objects : Table(o[1]) \in content.objects
TypeOK ==
    /\ Contents(db)
    /\ IF writer = Free THEN draft = db
       ELSE writer \in Processes /\ pc[writer] = "migrating" /\ Contents(draft)
    /\ \A p \in Processes :
          /\ pc[p] \in {"down", "migrating", "second", "up", "done", "failed"}
          /\ command[p] \in Commands \cup {"query"}
          /\ outdated[p] \in BOOLEAN
          /\ at[p].version \in 1..(Latest + 1)
    /\ backup \in BOOLEAN
    /\ commands \in 0..MaxCommands /\ crashes \in 0..MaxCrashes

\* A version's row is committed together with, or after, everything the version
\* does: once it is there, a crash, an error or another process has left none of
\* its row writes out (registry.py records a version after its callable).
RowsOf(ops) ==
    LET programs == Programs
    IN  [v \in DOMAIN programs |->
            {<< v, i >> : i \in {j \in DOMAIN programs[v] : programs[v][j].op \in ops}}]
        \o << >>
AlwaysWritten == RowsOf({"write"})
WrittenIfRows == RowsOf({"write", "backfill"})
RecordedIsDone ==
    \A v \in db.versions :
        (IF populated THEN WrittenIfRows[v] ELSE AlwaysWritten[v]) \subseteq db.rows

\* The databases found are whole: a version is recorded with its row writes, and
\* a column is found in a table.
ASSUME DatabasesAssumption ==
    \A f \in Databases :
        /\ f.populated \in BOOLEAN
        /\ f.content \in [objects : SUBSET (STRING \X STRING),
                          rows : SUBSET (Nat \X Nat), twice : {{}},
                          versions : SUBSET (1..Len(Registry))]
        /\ \A o \in f.content.objects : Table(o[1]) \in f.content.objects
        /\ \A r \in f.content.rows : r[1] \in f.content.versions
        /\ \A v \in f.content.versions :
              (IF f.populated THEN WrittenIfRows[v] ELSE AlwaysWritten[v])
                  \subseteq f.content.rows

\* No row write of a migration is ever committed twice, whatever crashes, restarts
\* and overlapping starts happen (the callables' "idempotent": v12 and v38 insert
\* without a unique key, v60 and v75 aggregate).
BackfilledOnce == db.twice = {}

\* The tables and columns of the last version: what some version makes and no
\* later one drops.
Made(statements) ==
    UNION {Objects(s) : s \in {t \in statements : t.op \in {"create", "add", "guard_add"}}}
      \cup {Table(s.table) : s \in {t \in statements : t.op = "create"}}
Dropped(statements) ==
    UNION {Objects(s) : s \in {t \in statements : t.op = "guard_drop"}}
SchemaOf(n) ==
    LET statements == StatementsOf
        made == [v \in 1..n |-> Made(statements[v])] \o << >>
        dropped == [v \in 1..n |-> Dropped(statements[v])] \o << >>
    IN  UNION {made[v] \ UNION {dropped[w] : w \in (v + 1)..n} : v \in 1..n}
Schema == SchemaOf(Latest)

\* The server serves only the schema of the last version, and the same one from
\* every database it may have found and along every path: a fresh install, an
\* upgrade, a restart half way (a column dropped by v36, v80, v83 or v95 does not
\* come back, one that CREATE TABLE has since gained is added by its guard).
ServesTheSchema ==
    pc[Server] = "up" => db.versions = 1..Latest /\ db.objects = Schema

\* With the service manager's restarts, and after the last crash, the server comes
\* up and stays up.
ComesUp == <>[](pc[Server] = "up")

\* "Automatically backs up the database before running migrations" (db migrate,
\* commands/db.py): when it is done and the schema was old when it began, there is
\* a backup.
BackedUpFirst ==
    \A p \in Tools :
        pc[p] = "done" /\ command[p] = "migrate" /\ outdated[p] => backup
=============================================================================
