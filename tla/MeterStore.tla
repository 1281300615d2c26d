------------------------------ MODULE MeterStore ------------------------------
(***************************************************************************)
(* The gateway's database file, used by several processes at once: a       *)
(* record process, the tunnel process, and a consumer that pulls the rows  *)
(* page by page.  An insert is several statements, each of which SQLite    *)
(* runs by itself; there is no transaction around them.                    *)
(*                                                                         *)
(* The values of a reading are left out.  Its kind is the names of its     *)
(* values: meters that report the same names are of one kind here.         *)
(***************************************************************************)
EXTENDS Integers, SequencesExt

CONSTANTS
    Process,
    Kind,           \* the sets of names meters report
    KindOf,         \* KindOf[p]: what the meter of process p reports
    NoTable,
    Limit,          \* rows of a page at most
    MaxRow,         \* bound: rows in the file
    MaxTime         \* bound: the clock, which may be set back

ASSUME KindAssumption == KindOf \in [Process -> Kind] /\ NoTable \notin Kind
ASSUME LimitAssumption == Limit \in Nat \ {0}
ASSUME BoundAssumption == MaxRow \in Nat /\ MaxTime \in Nat

VARIABLES
    table,          \* the kind of meter the table has columns for, if there is a table
    rows,           \* the table; a row's id is its place
    stage,          \* stage[p]: the statement process p's insert comes to next
    beaten,         \* beaten[p]: p's readings lost to another process creating the table
    after,          \* the consumer's cursor
    seen            \* the rows the consumer was given

vars == <<table, rows, stage, beaten, after, seen>>

Row == [kind : Kind, ts : 0 .. MaxTime]

TypeOK ==
    /\ table \in Kind \cup {NoTable}
    /\ rows \in Seq(Row)
    /\ stage \in [Process -> {"idle", "create", "index", "check", "insert"}]
    /\ beaten \in [Process -> Nat]
    /\ after \in Nat
    /\ seen \in Seq(Row)

Init ==
    /\ table = NoTable
    /\ rows = <<>>
    /\ stage = [p \in Process |-> "idle"]
    /\ beaten = [p \in Process |-> 0]
    /\ after = 0
    /\ seen = <<>>

-----------------------------------------------------------------------------
(* insert *)

Goto(p, next) == stage' = [stage EXCEPT ![p] = next]

\* Mistake: a process that found no table remembers that, and creates it again.
LookStale(p) ==
    /\ stage[p] = "idle"
    /\ Len(rows) < MaxRow
    /\ Goto(p, IF table # NoTable /\ beaten[p] = 0 THEN "check" ELSE "create")
    /\ UNCHANGED <<table, rows, beaten, after, seen>>

\* ensure_table asks for the columns; without a table it will create one.
Look(p) ==
    /\ stage[p] = "idle"
    /\ Len(rows) < MaxRow
    /\ Goto(p, IF table # NoTable THEN "check" ELSE "create")
    /\ UNCHANGED <<table, rows, beaten, after, seen>>

\* CREATE TABLE.
CreateTable(p) ==
    /\ stage[p] = "create"
    /\ table = NoTable
    /\ table' = KindOf[p]
    /\ Goto(p, "index")
    /\ UNCHANGED <<rows, beaten, after, seen>>

\* CREATE TABLE finds that another process has just created it: the insert is given up.
CreateTableFails(p) ==
    /\ stage[p] = "create"
    /\ table # NoTable
    /\ beaten' = [beaten EXCEPT ![p] = @ + 1]
    /\ Goto(p, "idle")
    /\ UNCHANGED <<table, rows, after, seen>>

\* CREATE INDEX.
CreateIndex(p) ==
    /\ stage[p] = "index"
    /\ Goto(p, "check")
    /\ UNCHANGED <<table, rows, beaten, after, seen>>

\* Mistake: any table is taken to have the reading's columns.
CheckNothing(p) ==
    /\ stage[p] = "check"
    /\ Goto(p, "insert")
    /\ UNCHANGED <<table, rows, beaten, after, seen>>

\* check_schema_matches: an insert of another kind is given up.
CheckSchemaMatches(p) ==
    /\ stage[p] = "check"
    /\ Goto(p, IF table = KindOf[p] THEN "insert" ELSE "idle")
    /\ UNCHANGED <<table, rows, beaten, after, seen>>

\* Mistake: a clock before 1970 gives a time below 0.
InsertBeforeEpoch(p) ==
    /\ stage[p] = "insert"
    /\ Len(rows) < MaxRow
    /\ \E ts \in -1 .. MaxTime : rows' = Append(rows, [kind |-> KindOf[p], ts |-> ts])
    /\ Goto(p, "idle")
    /\ UNCHANGED <<table, beaten, after, seen>>

\* Mistake: an INSERT that was slow to return is run once more.
InsertTwice(p) ==
    /\ stage[p] = "insert"
    /\ Len(rows) < MaxRow
    /\ \E ts \in 0 .. MaxTime :
          LET row == [kind |-> KindOf[p], ts |-> ts]
          IN  rows' \in {Append(rows, row), rows \o <<row, row>>}
    /\ Goto(p, "idle")
    /\ UNCHANGED <<table, beaten, after, seen>>

\* INSERT; the time is what the clock shows, 0 if that is before 1970.
Insert(p) ==
    /\ stage[p] = "insert"
    /\ Len(rows) < MaxRow
    /\ \E ts \in 0 .. MaxTime : rows' = Append(rows, [kind |-> KindOf[p], ts |-> ts])
    /\ Goto(p, "idle")
    /\ UNCHANGED <<table, beaten, after, seen>>

\* A statement fails, or the process stops between two of them.
Fail(p) ==
    /\ stage[p] # "idle"
    /\ Goto(p, "idle")
    /\ UNCHANGED <<table, rows, beaten, after, seen>>

-----------------------------------------------------------------------------
(* since_id *)

\* How many rows there are in the page after `id`.
PageLength(id) == IF Len(rows) <= id + Limit THEN Len(rows) - id ELSE Limit

\* Mistake: the oldest rows by their time, for the same number of rows.
SinceIdByTime(id) ==
    SubSeq(SortSeq(rows, LAMBDA r, s : r.ts < s.ts), id + 1, id + PageLength(id))

\* Rows above `id` in the order of their ids.
SinceId(id) == SubSeq(rows, id + 1, id + PageLength(id))

\* The consumer asks again, from the id of the last row it was given.
Pull ==
    /\ seen' = seen \o SinceId(after)
    /\ after' = after + Len(SinceId(after))
    /\ UNCHANGED <<table, rows, stage, beaten>>

-----------------------------------------------------------------------------

Next ==
    \/ \E p \in Process :
          \/ Look(p) \/ CreateTable(p) \/ CreateTableFails(p) \/ CreateIndex(p)
          \/ CheckSchemaMatches(p) \/ Insert(p) \/ Fail(p)
    \/ Pull

Spec == Init /\ [][Next]_vars

-----------------------------------------------------------------------------
(* Properties *)

\* A file holds readings of one kind of meter, the one its table was created for,
\* whichever processes write to it; and check_schema_matches always finds the table
\* it expects (the expect there).
SchemaFixed ==
    /\ \A n \in DOMAIN rows : rows[n].kind = table
    /\ \A p \in Process : stage[p] \in {"index", "check", "insert"} => table # NoTable

\* A consumer that passes the id of the last row it was given is given every row
\* once, in the order of their insertion, also if the clock is set back (the comment
\* on since_id).
EveryRowOnce == seen = SubSeq(rows, 1, after) /\ after <= Len(rows)

\* The ids whose rows the consumer has as they are in the file.
Copied == {n \in DOMAIN seen : n \in DOMAIN rows /\ seen[n] = rows[n]}

\* The file has a history of its own, and every page a consumer pulls continues its copy
\* of it with no row left out: what HistoryTransfer says of the server and a gateway's
\* files holds for a consumer of this one (since_id, insert).
Transfer == INSTANCE HistoryTransfer WITH
    File   <- {1},
    length <- [f \in {1} |-> Len(rows)],
    copied <- {[file |-> 1, idx |-> n] : n \in Copied}

CopiesRows == Transfer!Spec

\* Whoever is first to create the table, every other process loses one reading to
\* that at most (ensure_table).
LosesOneAtMost == \A p \in Process : beaten[p] <= 1

=============================================================================
