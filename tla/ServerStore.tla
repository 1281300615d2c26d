----------------------------- MODULE ServerStore -----------------------------
(***************************************************************************)
(* The server's database: record_batch statement by statement, inside its  *)
(* transaction, for gateways that report different values.                 *)
(*                                                                         *)
(* A statement may be refused, may fail, and the server may stop between   *)
(* any two of them; the transaction is then rolled back and the session    *)
(* asks for the same rows again.                                           *)
(*                                                                         *)
(* Abstracted: a value is whether it is there; each gateway has one        *)
(* session, and a page of its readings is taken in the step in which       *)
(* record_batch begins (PullProtocol has the way a page travels).  Row ids *)
(* of the server are left out.                                             *)
(***************************************************************************)
EXTENDS Naturals, Sequences, FiniteSets

CONSTANTS
    Gateway,
    None,           \* no gateway
    Field,          \* what a measurement may hold besides index and time
    Name,           \* those that are numbers under a valid name
    Folded,         \* Folded[n]: name n without regard to case
    Barred,         \* valid names SQLite takes for no column: "order"; "Idx", as there is idx
    Reports,        \* Reports[g]: the sets of fields a measurement of g may have
    MaxColumns,     \* MAX_VALUE_COLUMNS
    Batch,          \* rows of a reply at most
    MaxRow,         \* bound: readings in a gateway's file
    MaxTime         \* bound: the clock

ASSUME NoneAssumption == None \notin Gateway
ASSUME NameAssumption == Name \subseteq Field /\ Barred \subseteq Name
ASSUME ReportsAssumption == Reports \in [Gateway -> SUBSET SUBSET Field]
ASSUME SizeAssumption == MaxColumns \in Nat /\ Batch \in Nat \ {0}
ASSUME BoundAssumption == MaxRow \in Nat /\ MaxTime \in Nat \ {0}

VARIABLES
    \* the gateways
    history,        \* history[g]: the readings in g's file
    clock,          \* clock[g]: g's time
    file,           \* file[g]: how many files g has had
    \* the sessions
    lastIndex,      \* last_index
    \* the database
    readings, columns, cursor,
    \* the transaction of record_batch, if there is one
    owner,          \* the gateway whose rows they are
    stage,          \* which statements come next
    batch,          \* the rows to record
    latest,         \* latest_index of the reply
    at,             \* how many rows the statements of this stage have handled
    txReadings, txColumns, txCursor, \* the tables as the transaction sees them
    calm            \* from here on nothing fails

gateways == <<history, clock, file>>
tables   == <<readings, columns, cursor>>
progress == <<owner, stage, batch, latest, at>>
txTables == <<txReadings, txColumns, txCursor>>
vars     == <<gateways, lastIndex, tables, progress, txTables, calm>>

Reading == [ts : 1 .. MaxTime, file : Nat \ {0}, fields : SUBSET Field]
Row     == [gateway : Gateway, idx : Nat \ {0}, ts : 1 .. MaxTime, file : Nat \ {0},
            names : SUBSET Name]

\* What the database promises.
Promise == INSTANCE ReadingStore
               WITH Schema <- {cols \in SUBSET Name : Cardinality(cols) <= MaxColumns}

TypeOK ==
    /\ history \in [Gateway -> Seq(Reading)]
    /\ clock \in [Gateway -> 1 .. MaxTime] /\ file \in [Gateway -> Nat \ {0}]
    /\ lastIndex \in [Gateway -> Nat]
    /\ readings \subseteq Row /\ txReadings \subseteq Row
    /\ columns \subseteq Name /\ txColumns \subseteq Name
    /\ Cardinality(columns) <= MaxColumns /\ Cardinality(txColumns) <= MaxColumns
    /\ cursor \in [Gateway -> Nat] /\ txCursor \in [Gateway -> Nat]
    /\ owner \in Gateway \cup {None}
    /\ stage \in {"columns", "rows", "commit"}
    /\ batch \in Seq(Row) /\ latest \in Nat /\ at \in 0 .. Len(batch)
    /\ calm \in BOOLEAN

Init ==
    /\ history = [g \in Gateway |-> <<>>]
    /\ clock = [g \in Gateway |-> 1]
    /\ file = [g \in Gateway |-> 1]
    /\ lastIndex = [g \in Gateway |-> 0]
    /\ readings = {} /\ columns = {} /\ cursor = [g \in Gateway |-> 0]
    /\ owner = None /\ stage = "columns" /\ batch = <<>> /\ latest = 0 /\ at = 0
    /\ txReadings = {} /\ txColumns = {} /\ txCursor = cursor
    /\ calm = FALSE

-----------------------------------------------------------------------------
(* The gateways *)

TakeReading(g) ==
    /\ Len(history[g]) < MaxRow
    /\ \E fields \in Reports[g] :
          history' = [history EXCEPT ![g] =
                         Append(@, [ts |-> clock[g], file |-> file[g], fields |-> fields])]
    /\ UNCHANGED <<clock, file, lastIndex, tables, progress, txTables, calm>>

\* The operator deletes the file; the gateway, started anew after some time, creates it.
RecreateDatabase(g) ==
    /\ clock[g] < MaxTime
    /\ clock' = [clock EXCEPT ![g] = @ + 1]
    /\ file' = [file EXCEPT ![g] = @ + 1]
    /\ history' = [history EXCEPT ![g] = <<>>]
    /\ UNCHANGED <<lastIndex, tables, progress, txTables, calm>>

-----------------------------------------------------------------------------
(* record_data and record_batch *)

\* Fields that are no numbers or whose names are not valid are dropped.
MeasurementToRow(g, i) ==
    [gateway |-> g, idx |-> i, ts |-> history[g][i].ts, file |-> history[g][i].file,
     names |-> history[g][i].fields \cap Name]

\* The rows of g's file after index `after`, one reply's worth.
PageLength(g, after) ==
    IF Len(history[g]) <= after THEN 0
    ELSE IF Len(history[g]) <= after + Batch THEN Len(history[g]) - after
    ELSE Batch

\* A reply has arrived: the lock is taken, the transaction begins.
Begin(g) ==
    /\ owner = None
    /\ owner' = g
    /\ stage' = "columns"
    /\ batch' = [n \in 1 .. PageLength(g, lastIndex[g]) |-> MeasurementToRow(g, lastIndex[g] + n)]
    /\ latest' = Len(history[g])
    /\ at' = 0
    /\ txReadings' = readings /\ txColumns' = columns /\ txCursor' = cursor
    /\ UNCHANGED <<gateways, lastIndex, tables, calm>>

\* ALTER TABLE takes the new names: each is one for a column, and no other column has it,
\* whatever its case.
AlterTableTakes(names, cols) ==
    \A n \in names \ cols :
        /\ n \notin Barred
        /\ \A m \in names \cup cols : Folded[m] = Folded[n] => m = n

\* Mistake: room for one more.
FitsOneMore(names, cols) ==
    /\ AlterTableTakes(names, cols)
    /\ names \subseteq cols \/ Cardinality(names \cup cols) <= MaxColumns + 1

\* Mistake: a full table takes no row, known names or not.
FitsUnlessFull(names, cols) ==
    /\ AlterTableTakes(names, cols)
    /\ Cardinality(cols) < MaxColumns
    /\ Cardinality(names \cup cols) <= MaxColumns

\* The columns a row still needs can be added.
Fits(names, cols) ==
    /\ AlterTableTakes(names, cols)
    /\ names \subseteq cols \/ Cardinality(names \cup cols) <= MaxColumns

\* ensure_columns for one row.
EnsureColumns ==
    /\ owner # None
    /\ stage = "columns"
    /\ at < Len(batch)
    /\ Fits(batch[at + 1].names, txColumns)
    /\ txColumns' = txColumns \cup batch[at + 1].names
    /\ at' = at + 1
    /\ UNCHANGED <<gateways, lastIndex, tables, owner, stage, batch, latest,
                   txReadings, txCursor, calm>>

ColumnsDone ==
    /\ owner # None
    /\ stage = "columns"
    /\ at = Len(batch)
    /\ stage' = "rows"
    /\ at' = 0
    /\ UNCHANGED <<gateways, lastIndex, tables, owner, batch, latest, txTables, calm>>

\* Mistake: rows are told apart by gateway and index alone.
InsertRowByIndex ==
    /\ owner # None
    /\ stage = "rows"
    /\ at < Len(batch)
    /\ batch[at + 1].names # {}
    /\ txReadings' =
          IF \E r \in txReadings : r.gateway = batch[at + 1].gateway /\ r.idx = batch[at + 1].idx
          THEN txReadings ELSE txReadings \cup {batch[at + 1]}
    /\ at' = at + 1
    /\ UNCHANGED <<gateways, lastIndex, tables, owner, stage, batch, latest,
                   txColumns, txCursor, calm>>

\* Mistake: no transaction, every row is there at once.
InsertRowAtOnce ==
    /\ owner # None
    /\ stage = "rows"
    /\ at < Len(batch)
    /\ batch[at + 1].names # {}
    /\ txReadings' = txReadings \cup {batch[at + 1]}
    /\ readings' = readings \cup {batch[at + 1]}
    /\ at' = at + 1
    /\ UNCHANGED <<gateways, lastIndex, columns, cursor, owner, stage, batch, latest,
                   txColumns, txCursor, calm>>

\* INSERT OR IGNORE for one row; with no value at all the statement is no SQL.
InsertRow ==
    /\ owner # None
    /\ stage = "rows"
    /\ at < Len(batch)
    /\ batch[at + 1].names # {}
    /\ txReadings' =
          IF \E r \in txReadings : Promise!Key(r) = Promise!Key(batch[at + 1])
          THEN txReadings ELSE txReadings \cup {batch[at + 1]}
    /\ at' = at + 1
    /\ UNCHANGED <<gateways, lastIndex, tables, owner, stage, batch, latest,
                   txColumns, txCursor, calm>>

\* The cursor, which moves to the last row of the batch, also if that was ignored.
SetCursor ==
    /\ owner # None
    /\ stage = "rows"
    /\ at = Len(batch)
    /\ txCursor' = [txCursor EXCEPT ![owner] = lastIndex[owner] + Len(batch)]
    /\ stage' = "commit"
    /\ UNCHANGED <<gateways, lastIndex, tables, owner, batch, latest, at,
                   txReadings, txColumns, calm>>

\* No transaction any more.
Finish ==
    /\ owner' = None
    /\ stage' = "columns"
    /\ batch' = <<>>
    /\ latest' = 0
    /\ at' = 0

\* The transaction is committed; then the index for the next pull moves on, or is
\* reset if the gateway's history has shrunk.
Commit ==
    /\ owner # None
    /\ stage = "commit"
    /\ readings' = txReadings /\ columns' = txColumns /\ cursor' = txCursor
    /\ lastIndex' = [lastIndex EXCEPT ![owner] = IF latest < @ THEN 0 ELSE @ + Len(batch)]
    /\ Finish
    /\ UNCHANGED <<gateways, txTables, calm>>

\* Mistake: the rows are there for good, though not the cursor.
RollbackCursor ==
    /\ Finish
    /\ readings' = txReadings /\ columns' = txColumns
    /\ txReadings' = readings' /\ txColumns' = columns' /\ txCursor' = cursor
    /\ UNCHANGED <<gateways, cursor>>

Rollback ==
    /\ Finish
    /\ txReadings' = readings /\ txColumns' = columns /\ txCursor' = cursor
    /\ UNCHANGED <<gateways, tables>>

\* A statement that SQLite or ensure_columns refuses.
Refuse ==
    /\ owner # None
    /\ at < Len(batch)
    /\ \/ stage = "columns" /\ ~Fits(batch[at + 1].names, txColumns)
       \/ stage = "rows" /\ batch[at + 1].names = {}
    /\ Rollback
    /\ UNCHANGED <<lastIndex, calm>>

\* A statement or the commit fails: a full disk, a database that stays locked.
Fail ==
    /\ owner # None
    /\ ~calm
    /\ Rollback
    /\ UNCHANGED <<lastIndex, calm>>

\* The server stops, in a transaction or not, and is started again.
Restart ==
    /\ ~calm
    /\ Rollback
    /\ lastIndex' = cursor
    /\ UNCHANGED calm

\* A new tunnel; its session reads the stored cursor.
NewSession(g) ==
    /\ owner = None
    /\ lastIndex' = [lastIndex EXCEPT ![g] = cursor[g]]
    /\ UNCHANGED <<gateways, tables, progress, txTables, calm>>

CalmDown ==
    /\ ~calm
    /\ calm' = TRUE
    /\ UNCHANGED <<gateways, lastIndex, tables, progress, txTables>>

-----------------------------------------------------------------------------

Statement == EnsureColumns \/ ColumnsDone \/ InsertRow \/ SetCursor \/ Commit \/ Refuse

Next ==
    \/ \E g \in Gateway : TakeReading(g) \/ RecreateDatabase(g) \/ Begin(g) \/ NewSession(g)
    \/ Statement
    \/ Fail \/ Restart \/ CalmDown

\* Statements end; a session that pulls every few seconds gets the lock; faults come to an end.
Fairness ==
    /\ WF_vars(Statement) /\ WF_vars(CalmDown)
    /\ \A g \in Gateway : SF_vars(Begin(g))

Spec == Init /\ [][Next]_vars /\ Fairness

-----------------------------------------------------------------------------
(* Properties *)

\* Batches are recorded whole or not at all, together with their cursor, each
\* reading once, in columns that are there and no more than the maximum, and
\* without touching what other gateways stored (record_batch).
RecordsBatches == Promise!Spec

\* Re-pulled rows are told apart from a recreated file's rows of the same
\* index: after a batch was recorded, each of its readings is in the store itself
\* (the module comment on the key of a row).
RunsToldApart == [][Commit => \A n \in DOMAIN batch : batch[n] \in readings']_vars

\* As long as a gateway has its first file, its rows in the database are its first
\* readings, up to the stored cursor and no other, whichever statements failed and
\* however often the server was started (record_batch, record_data, spawn_session).
FirstFileCopied ==
    \A g \in Gateway : file[g] = 1 =>
        {r \in readings : r.gateway = g} = {MeasurementToRow(g, i) : i \in 1 .. cursor[g]}

\* A gateway all of whose values have their columns and whose measurements each have one.
KnownKind(g) ==
    \A fields \in Reports[g] : fields \cap Name # {} /\ fields \cap Name \subseteq columns

\* Reading i of g's first file is there; it is in the database.
Taken(g, i)  == file[g] = 1 /\ i <= Len(history[g])
Stored(g, i) == \E r \in readings : r.gateway = g /\ r.idx = i

\* Batches that can never be stored, because of a full table or a value without
\* a column, do not hold up a gateway all of whose values are known.
KnownKindsRecorded ==
    \A g \in Gateway : \A i \in 1 .. MaxRow :
        KnownKind(g) /\ Taken(g, i) ~> Stored(g, i) \/ file[g] # 1

\* What the module comment says of nullable columns: they let two different meter
\* kinds share one file.  So while the maximum has room for all values, every
\* reading with a value is stored in the end.
KindsShareFile ==
    Cardinality(Name) <= MaxColumns
    => \A g \in Gateway : \A i \in 1 .. MaxRow :
          Taken(g, i) /\ (\A fields \in Reports[g] : fields \cap Name # {})
          ~> Stored(g, i) \/ file[g] # 1

\* What the comment on is_valid_value_name says: fields that are no good are dropped
\* from a measurement, and the batch is not lost to them.  So the measurements after one
\* without a single good field are stored too.
BadFieldsDropped ==
    Cardinality(Name) <= MaxColumns
    => \A g \in Gateway : \A i \in 1 .. MaxRow :
          Taken(g, i) /\ history[g][i].fields \cap Name # {} ~> Stored(g, i) \/ file[g] # 1

=============================================================================
