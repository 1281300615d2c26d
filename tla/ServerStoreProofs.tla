--------------------------- MODULE ServerStoreProofs ---------------------------
(***************************************************************************)
(* Proofs about ServerStore, for any gateways, names, kinds of             *)
(* measurements, sizes of batches and numbers of columns.                  *)
(*                                                                         *)
(* What the transaction has written so far is tied to the tables as they   *)
(* are (TxInv), so that the commit is one step of ReadingStore; and the    *)
(* rows that exist anywhere are tied to the gateways' files (FilesInv), so *)
(* that no reading is taken for another.  A first file is then copied row  *)
(* by row (FirstInv), up to the first measurement that cannot be stored    *)
(* (StorableInv).                                                          *)
(***************************************************************************)
EXTENDS ServerStore, FiniteSetTheorems, TLAPS

Key(r) == Promise!Key(r)

\* Row i of gateway g is among the rows.
Has(rows, g, i) == \E r \in rows : r.gateway = g /\ r.idx = i

\* The batch follows the session's index.
BatchInv ==
    /\ owner = None => batch = <<>>
    /\ owner # None =>
          \A n \in 1 .. Len(batch) : batch[n].gateway = owner /\ batch[n].idx = lastIndex[owner] + n

\* Every value has its column; those of the batch, as far as ensure_columns has come.
ColumnsInv ==
    /\ \A r \in readings : r.names \subseteq columns
    /\ columns \subseteq txColumns
    /\ \A r \in txReadings : r.names \subseteq txColumns
    /\ \A n \in 1 .. Len(batch) : stage # "columns" \/ n <= at => batch[n].names \subseteq txColumns

\* The transaction adds rows of the batch, each once.
RowsInv ==
    /\ readings \subseteq txReadings
    /\ stage = "columns" => txReadings = readings
    /\ \A r \in txReadings \ readings :
          /\ \E n \in 1 .. Len(batch) : r = batch[n]
          /\ \A s \in txReadings : Key(r) = Key(s) => r = s
    /\ \A n \in 1 .. Len(batch) :
          stage = "commit" \/ (stage = "rows" /\ n <= at) => Has(txReadings, owner, lastIndex[owner] + n)

\* No row is missing up to an index that is stored or asked from.
CursorInv ==
    /\ \A g \in Gateway : \A i \in 1 .. cursor[g] : Has(readings, g, i)
    /\ \A g \in Gateway : \A i \in 1 .. lastIndex[g] : Has(readings, g, i)
    /\ txCursor = IF owner # None /\ stage = "commit"
                  THEN [cursor EXCEPT ![owner] = lastIndex[owner] + Len(batch)]
                  ELSE cursor

TxInv == BatchInv /\ ColumnsInv /\ RowsInv /\ CursorInv

\* The inductive invariant for the promise of the store.
IInv == TypeOK /\ TxInv
-----------------------------------------------------------------------------
(* Pages *)

\* A page holds the rows that follow the index asked from, as they are in the file.
LEMMA Page ==
    ASSUME TypeOK, NEW g \in Gateway, Begin(g)
    PROVE  /\ batch' \in Seq(Row)
           /\ Len(batch') = PageLength(g, lastIndex[g])
           /\ \A n \in 1 .. Len(batch') :
                 /\ lastIndex[g] + n \in 1 .. Len(history[g])
                 /\ batch'[n] = MeasurementToRow(g, lastIndex[g] + n)
<1> DEFINE k == PageLength(g, lastIndex[g])
<1>1. /\ history[g] \in Seq(Reading) /\ Len(history[g]) \in Nat
      /\ lastIndex[g] \in Nat /\ Batch \in Nat \ {0}
    BY SizeAssumption DEF TypeOK
<1>2. k \in Nat /\ \A n \in 1 .. k : lastIndex[g] + n \in 1 .. Len(history[g])
    BY <1>1 DEF PageLength
<1>3. batch' = [n \in 1 .. k |-> MeasurementToRow(g, lastIndex[g] + n)]
    BY DEF Begin
<1> HIDE DEF k
<1>4. ASSUME NEW i \in 1 .. Len(history[g]) PROVE MeasurementToRow(g, i) \in Row
    <2>1. history[g][i] \in Reading
        BY <1>1
    <2> QED
        BY <2>1 DEF MeasurementToRow, Reading, Row
<1>5. batch' \in [1 .. k -> Row]
    BY <1>2, <1>3, <1>4
<1>6. batch' \in Seq(Row) /\ Len(batch') = k
    BY <1>2, <1>5
<1> QED
    BY <1>2, <1>3, <1>6 DEF k

-----------------------------------------------------------------------------
(* Type correctness *)

LEMMA TypeInit == Init => TypeOK
<1>1. Cardinality({}) <= MaxColumns
    BY FS_EmptySet, SizeAssumption
<1>2. <<>> \in Seq(Reading) /\ <<>> \in Seq(Row) /\ Len(<<>>) = 0
    OBVIOUS
<1>3. 1 \in 1 .. MaxTime /\ 1 \in Nat \ {0} /\ 0 \in Nat
    BY BoundAssumption
<1>4. ASSUME Init
      PROVE  /\ history \in [Gateway -> Seq(Reading)]
             /\ clock \in [Gateway -> 1 .. MaxTime] /\ file \in [Gateway -> Nat \ {0}]
             /\ lastIndex \in [Gateway -> Nat] /\ cursor \in [Gateway -> Nat]
    BY <1>2, <1>3, <1>4 DEF Init
<1>5. ASSUME Init
      PROVE  /\ txCursor \in [Gateway -> Nat]
             /\ readings \subseteq Row /\ txReadings \subseteq Row
             /\ columns \subseteq Name /\ txColumns \subseteq Name
             /\ Cardinality(columns) <= MaxColumns /\ Cardinality(txColumns) <= MaxColumns
             /\ owner \in Gateway \cup {None} /\ stage \in {"columns", "rows", "commit"}
    BY <1>1, <1>4, <1>5 DEF Init
<1>6. ASSUME Init
      PROVE  batch \in Seq(Row) /\ latest \in Nat /\ at \in 0 .. Len(batch) /\ calm \in BOOLEAN
    <2>1. batch = <<>> /\ latest = 0 /\ at = 0 /\ calm = FALSE
        BY <1>6 DEF Init
    <2>2. at \in 0 .. Len(batch)
        BY <1>2, <2>1
    <2> QED
        BY <1>2, <2>1, <2>2
<1> QED
    BY <1>4, <1>5, <1>6 DEF TypeOK

LEMMA TypeStep ==
    ASSUME TypeOK, [Next]_vars
    PROVE  TypeOK'
<1>1. ASSUME NEW g \in Gateway, TakeReading(g) PROVE TypeOK'
    <2>1. PICK fields \in Reports[g] :
             history' = [history EXCEPT ![g] =
                            Append(@, [ts |-> clock[g], file |-> file[g], fields |-> fields])]
        BY <1>1 DEF TakeReading
    <2>2. [ts |-> clock[g], file |-> file[g], fields |-> fields] \in Reading
        BY ReportsAssumption DEF Reading, TypeOK
    <2>3. history' \in [Gateway -> Seq(Reading)]
        BY <2>1, <2>2 DEF TypeOK
    <2> QED
        BY <1>1, <2>3 DEF TakeReading, TypeOK, tables, progress, txTables
<1>2. ASSUME NEW g \in Gateway, RecreateDatabase(g) PROVE TypeOK'
    <2>1. clock' \in [Gateway -> 1 .. MaxTime] /\ file' \in [Gateway -> Nat \ {0}]
        BY <1>2, BoundAssumption DEF RecreateDatabase, TypeOK
    <2>2. history' \in [Gateway -> Seq(Reading)]
        BY <1>2 DEF RecreateDatabase, TypeOK
    <2> QED
        BY <1>2, <2>1, <2>2 DEF RecreateDatabase, TypeOK, tables, progress, txTables
<1>3. ASSUME NEW g \in Gateway, Begin(g) PROVE TypeOK'
    <2>1. batch' \in Seq(Row) /\ latest' \in Nat /\ at' \in 0 .. Len(batch')
        <3>1. batch' \in Seq(Row)
            BY <1>3, Page
        <3>2. latest' = Len(history[g]) /\ history[g] \in Seq(Reading) /\ at' = 0
            BY <1>3 DEF Begin, TypeOK
        <3> QED
            BY <3>1, <3>2
    <2> QED
        BY <1>3, <2>1 DEF Begin, TypeOK, gateways, tables
<1>4. ASSUME NEW g \in Gateway, NewSession(g) PROVE TypeOK'
    BY <1>4 DEF NewSession, TypeOK, gateways, tables, progress, txTables
<1>5. ASSUME at < Len(batch)
      PROVE  batch[at + 1] \in Row /\ at + 1 \in 1 .. Len(batch)
    BY <1>5 DEF TypeOK
<1>6. CASE EnsureColumns
    <2> DEFINE names == batch[at + 1].names
    <2>1. names \subseteq Name /\ at' \in 0 .. Len(batch)
        BY <1>5, <1>6 DEF EnsureColumns, Row
    <2>2. Cardinality(txColumns \cup names) <= MaxColumns
        <3>1. CASE names \subseteq txColumns
            <4>1. txColumns \cup names = txColumns
                BY <3>1
            <4> QED
                BY <4>1 DEF TypeOK
        <3> QED
            BY <1>6, <3>1 DEF EnsureColumns, Fits
    <2> QED
        BY <1>6, <2>1, <2>2 DEF EnsureColumns, TypeOK, gateways, tables
<1>7. CASE ColumnsDone
    BY <1>7 DEF ColumnsDone, TypeOK, gateways, tables, txTables
<1>8. CASE InsertRow
    BY <1>5, <1>8 DEF InsertRow, TypeOK, gateways, tables
<1>9. CASE SetCursor
    <2>1. txCursor' \in [Gateway -> Nat]
        BY <1>9 DEF SetCursor, TypeOK
    <2> QED
        BY <1>9, <2>1 DEF SetCursor, TypeOK, gateways, tables
<1>10. ASSUME Finish PROVE /\ owner' \in Gateway \cup {None}
                           /\ stage' \in {"columns", "rows", "commit"}
                           /\ batch' \in Seq(Row) /\ latest' \in Nat /\ at' \in 0 .. Len(batch')
    BY <1>10 DEF Finish
<1>11. CASE Commit
    <2>1. lastIndex' \in [Gateway -> Nat]
        BY <1>11 DEF Commit, TypeOK
    <2> QED
        BY <1>10, <1>11, <2>1 DEF Commit, TypeOK, gateways, txTables
<1>12. ASSUME Rollback, lastIndex' \in [Gateway -> Nat], calm' = calm PROVE TypeOK'
    BY <1>10, <1>12 DEF Rollback, TypeOK, gateways, tables
<1>13. CASE Refuse \/ Fail \/ Restart
    BY <1>12, <1>13 DEF Refuse, Fail, Restart, TypeOK
<1>14. CASE CalmDown
    BY <1>14 DEF CalmDown, TypeOK, gateways, tables, progress, txTables
<1>15. CASE UNCHANGED vars
    BY <1>15 DEF vars, TypeOK, gateways, tables, progress, txTables
<1> QED
    BY <1>1, <1>2, <1>3, <1>4, <1>6, <1>7, <1>8, <1>9, <1>11, <1>13, <1>14, <1>15 DEF Next, Statement

\* Every reachable state has the right types; in particular the table never has more
\* columns than its maximum, committed or not.
THEOREM TypeCorrect == Spec => []TypeOK
    BY TypeInit, TypeStep, PTL DEF Spec
-----------------------------------------------------------------------------
(* The transaction and the tables *)

LEMMA TxInit == Init => TxInv
<1> SUFFICES ASSUME Init PROVE TxInv
    OBVIOUS
<1>1. /\ owner = None /\ batch = <<>> /\ Len(batch) = 0 /\ stage = "columns"
      /\ readings = {} /\ txReadings = {} /\ columns = {} /\ txColumns = {} /\ txCursor = cursor
      /\ \A g \in Gateway : cursor[g] = 0 /\ lastIndex[g] = 0
    BY DEF Init
<1> QED
    BY <1>1 DEF TxInv, BatchInv, ColumnsInv, RowsInv, CursorInv

\* Without a transaction nothing of it is left.
LEMMA Over ==
    ASSUME Finish, TypeOK', txReadings' = readings', txColumns' = columns', txCursor' = cursor',
           \A r \in readings' : r.names \subseteq columns',
           \A g \in Gateway : \A i \in 1 .. cursor'[g] : Has(readings', g, i),
           \A g \in Gateway : \A i \in 1 .. lastIndex'[g] : Has(readings', g, i)
    PROVE  TxInv'
<1>1. owner' = None /\ batch' = <<>> /\ Len(batch') = 0 /\ stage' = "columns"
    BY DEF Finish
<1>2. BatchInv' /\ ColumnsInv'
    BY <1>1 DEF BatchInv, ColumnsInv
<1>3. RowsInv'
    BY <1>1 DEF RowsInv
<1>4. CursorInv'
    BY <1>1 DEF CursorInv, Has
<1> QED
    BY <1>2, <1>3, <1>4 DEF TxInv

LEMMA RollbackStep ==
    ASSUME IInv, TypeOK', Rollback, lastIndex' = lastIndex \/ lastIndex' = cursor
    PROVE  TxInv'
<1>1. readings' = readings /\ columns' = columns /\ cursor' = cursor
    BY DEF Rollback, tables
<1>2. /\ \A r \in readings' : r.names \subseteq columns'
      /\ \A g \in Gateway : \A i \in 1 .. cursor'[g] : Has(readings', g, i)
      /\ \A g \in Gateway : \A i \in 1 .. lastIndex'[g] : Has(readings', g, i)
    BY <1>1 DEF IInv, TxInv, ColumnsInv, CursorInv
<1> QED
    BY <1>1, <1>2, Over DEF Rollback

LEMMA NewSessionStep ==
    ASSUME IInv, NEW g \in Gateway, NewSession(g)
    PROVE  TxInv'
<1>1. /\ owner = None /\ owner' = None /\ UNCHANGED <<tables, progress, txTables>>
      /\ lastIndex' = [lastIndex EXCEPT ![g] = cursor[g]]
      /\ lastIndex \in [Gateway -> Nat]
      /\ batch = <<>> /\ Len(batch) = 0
    BY DEF NewSession, IInv, TypeOK, TxInv, BatchInv, progress
<1>2. BatchInv' /\ ColumnsInv'
    BY <1>1 DEF IInv, TxInv, BatchInv, ColumnsInv, tables, progress, txTables
<1>3. RowsInv'
    BY <1>1 DEF IInv, TxInv, RowsInv, tables, progress, txTables
<1>4. CursorInv'
    BY <1>1 DEF IInv, TxInv, CursorInv, Has, tables, progress, txTables
<1> QED
    BY <1>2, <1>3, <1>4 DEF TxInv

LEMMA BeginStep ==
    ASSUME IInv, NEW g \in Gateway, Begin(g)
    PROVE  TxInv'
<1>1. /\ owner' = g /\ owner' # None /\ stage' = "columns" /\ at' = 0
      /\ lastIndex' = lastIndex
      /\ readings' = readings /\ columns' = columns /\ cursor' = cursor
      /\ txReadings' = readings /\ txColumns' = columns /\ txCursor' = cursor
    BY NoneAssumption DEF Begin, tables
<1>2. \A n \in 1 .. Len(batch') : batch'[n].gateway = g /\ batch'[n].idx = lastIndex[g] + n
    <2> SUFFICES ASSUME NEW n \in 1 .. Len(batch')
                 PROVE  batch'[n].gateway = g /\ batch'[n].idx = lastIndex[g] + n
        OBVIOUS
    <2>1. batch'[n] = MeasurementToRow(g, lastIndex[g] + n)
        BY Page DEF IInv
    <2> QED
        BY <2>1 DEF MeasurementToRow
<1>3. BatchInv'
    BY <1>1, <1>2 DEF BatchInv
<1>4. ColumnsInv'
    BY <1>1 DEF IInv, TxInv, ColumnsInv
<1>5. RowsInv'
    BY <1>1 DEF RowsInv
<1>6. CursorInv'
    BY <1>1 DEF IInv, TxInv, CursorInv, Has
<1> QED
    BY <1>3, <1>4, <1>5, <1>6 DEF TxInv

LEMMA EnsureColumnsStep ==
    ASSUME IInv, EnsureColumns
    PROVE  TxInv'
<1>1. /\ stage = "columns" /\ stage' = stage /\ owner' = owner /\ batch' = batch
      /\ lastIndex' = lastIndex /\ readings' = readings /\ columns' = columns /\ cursor' = cursor
      /\ txReadings' = txReadings /\ txCursor' = txCursor
      /\ txColumns' = txColumns \cup batch[at + 1].names /\ at' = at + 1 /\ at \in Nat
    BY DEF EnsureColumns, tables, IInv, TypeOK
<1>2. BatchInv' /\ CursorInv'
    BY <1>1 DEF IInv, TxInv, BatchInv, CursorInv, Has
<1>3. ColumnsInv'
    <2>1. ASSUME NEW n \in 1 .. Len(batch), n <= at + 1 PROVE batch[n].names \subseteq txColumns'
        <3>1. CASE n = at + 1
            BY <1>1, <3>1
        <3>2. CASE n <= at
            BY <1>1, <3>2 DEF IInv, TxInv, ColumnsInv
        <3> QED
            BY <1>1, <2>1, <3>1, <3>2
    <2> QED
        BY <1>1, <2>1 DEF IInv, TxInv, ColumnsInv
<1>4. RowsInv'
    BY <1>1 DEF IInv, TxInv, RowsInv
<1> QED
    BY <1>2, <1>3, <1>4 DEF TxInv

LEMMA ColumnsDoneStep ==
    ASSUME IInv, ColumnsDone
    PROVE  TxInv'
<1>1. /\ stage = "columns" /\ stage' = "rows" /\ at = Len(batch) /\ at' = 0
      /\ owner' = owner /\ batch' = batch /\ lastIndex' = lastIndex
      /\ UNCHANGED <<tables, txTables>>
    BY DEF ColumnsDone
<1>2. BatchInv' /\ CursorInv'
    BY <1>1 DEF IInv, TxInv, BatchInv, CursorInv, Has, tables, txTables
<1>3. ColumnsInv'
    BY <1>1 DEF IInv, TxInv, ColumnsInv, tables, txTables
<1>4. RowsInv'
    BY <1>1 DEF IInv, TxInv, RowsInv, tables, txTables
<1> QED
    BY <1>2, <1>3, <1>4 DEF TxInv

LEMMA InsertRowStep ==
    ASSUME IInv, InsertRow
    PROVE  TxInv'
<1> DEFINE row == batch[at + 1]
<1>1. /\ owner # None /\ stage = "rows" /\ stage' = stage /\ owner' = owner /\ batch' = batch
      /\ lastIndex' = lastIndex /\ readings' = readings /\ columns' = columns /\ cursor' = cursor
      /\ txColumns' = txColumns /\ txCursor' = txCursor
      /\ at' = at + 1 /\ at \in Nat /\ at + 1 \in 1 .. Len(batch)
    BY DEF InsertRow, tables, IInv, TypeOK
<1>2. row.gateway = owner /\ row.idx = lastIndex[owner] + (at + 1)
    BY <1>1 DEF IInv, TxInv, BatchInv
<1>3. \/ txReadings' = txReadings /\ \E r \in txReadings : Key(r) = Key(row)
      \/ txReadings' = txReadings \cup {row} /\ \A r \in txReadings : Key(r) # Key(row)
    BY DEF InsertRow, Key
<1> HIDE DEF row
<1>4. Has(txReadings', owner, lastIndex[owner] + (at + 1))
    BY <1>2, <1>3 DEF Has, Key, Promise!Key
<1>5. BatchInv' /\ CursorInv'
    BY <1>1 DEF IInv, TxInv, BatchInv, CursorInv, Has
<1>6. ColumnsInv'
    BY <1>1, <1>3 DEF IInv, TxInv, ColumnsInv, row
<1>7. RowsInv'
    <2>1. readings \subseteq txReadings'
        BY <1>3 DEF IInv, TxInv, RowsInv
    <2>2. ASSUME NEW r \in txReadings' \ readings
          PROVE  /\ \E n \in 1 .. Len(batch) : r = batch[n]
                 /\ \A s \in txReadings' : Key(r) = Key(s) => r = s
        BY <1>1, <1>3 DEF IInv, TxInv, RowsInv, row
    <2>3. ASSUME NEW n \in 1 .. Len(batch), n <= at + 1
          PROVE  Has(txReadings', owner, lastIndex[owner] + n)
        <3>1. CASE n = at + 1
            BY <1>4, <3>1
        <3>2. CASE n <= at
            <4>1. Has(txReadings, owner, lastIndex[owner] + n)
                BY <1>1, <3>2 DEF IInv, TxInv, RowsInv
            <4> QED
                BY <1>3, <4>1 DEF Has
        <3> QED
            BY <1>1, <2>3, <3>1, <3>2
    <2> QED
        BY <1>1, <2>1, <2>2, <2>3 DEF RowsInv
<1> QED
    BY <1>5, <1>6, <1>7 DEF TxInv

LEMMA SetCursorStep ==
    ASSUME IInv, SetCursor
    PROVE  TxInv'
<1>1. /\ owner # None /\ stage = "rows" /\ stage' = "commit" /\ at = Len(batch) /\ at' = at
      /\ owner' = owner /\ batch' = batch /\ lastIndex' = lastIndex
      /\ readings' = readings /\ columns' = columns /\ cursor' = cursor
      /\ txReadings' = txReadings /\ txColumns' = txColumns
      /\ txCursor = cursor /\ txCursor' = [txCursor EXCEPT ![owner] = lastIndex[owner] + Len(batch)]
    BY DEF SetCursor, tables, IInv, TxInv, CursorInv
<1>2. BatchInv' /\ CursorInv'
    BY <1>1 DEF IInv, TxInv, BatchInv, CursorInv, Has
<1>3. ColumnsInv'
    BY <1>1 DEF IInv, TxInv, ColumnsInv
<1>4. RowsInv'
    BY <1>1 DEF IInv, TxInv, RowsInv
<1> QED
    BY <1>2, <1>3, <1>4 DEF TxInv

\* What the commit makes of the cursor and of the rows.
LEMMA Committed ==
    ASSUME IInv, Commit
    PROVE  /\ owner \in Gateway
           /\ cursor' = [cursor EXCEPT ![owner] = lastIndex[owner] + Len(batch)]
           /\ readings' = txReadings /\ columns' = txColumns
           /\ readings \subseteq readings' /\ columns \subseteq columns'
           /\ \A i \in 1 .. lastIndex[owner] + Len(batch) : Has(readings', owner, i)
<1>1. /\ owner # None /\ owner \in Gateway /\ stage = "commit"
      /\ readings' = txReadings /\ columns' = txColumns /\ cursor' = txCursor
      /\ lastIndex[owner] \in Nat /\ Len(batch) \in Nat
    BY DEF Commit, IInv, TypeOK
<1>2. readings \subseteq readings' /\ columns \subseteq columns'
    BY <1>1 DEF IInv, TxInv, RowsInv, ColumnsInv
<1>3. ASSUME NEW i \in 1 .. lastIndex[owner] + Len(batch) PROVE Has(readings', owner, i)
    <2>1. CASE i <= lastIndex[owner]
        <3>1. Has(readings, owner, i)
            BY <1>1, <2>1 DEF IInv, TxInv, CursorInv
        <3> QED
            BY <1>2, <3>1 DEF Has
    <2>2. CASE lastIndex[owner] < i
        <3>1. i - lastIndex[owner] \in 1 .. Len(batch) /\ i = lastIndex[owner] + (i - lastIndex[owner])
            BY <1>1, <1>3, <2>2
        <3> QED
            BY <1>1, <3>1 DEF IInv, TxInv, RowsInv
    <2> QED
        BY <1>1, <1>3, <2>1, <2>2
<1> QED
    BY <1>1, <1>2, <1>3 DEF IInv, TxInv, CursorInv

LEMMA CommitStep ==
    ASSUME IInv, TypeOK', Commit
    PROVE  TxInv'
<1>1. /\ cursor \in [Gateway -> Nat] /\ lastIndex \in [Gateway -> Nat] /\ Len(batch) \in Nat
      /\ Finish /\ UNCHANGED txTables /\ cursor' = txCursor
      /\ lastIndex' = [lastIndex EXCEPT ![owner] = IF latest < @ THEN 0 ELSE @ + Len(batch)]
    BY DEF Commit, IInv, TypeOK
<1>2. txReadings' = readings' /\ txColumns' = columns' /\ txCursor' = cursor'
    BY <1>1, Committed DEF txTables
<1>3. \A r \in readings' : r.names \subseteq columns'
    BY Committed DEF IInv, TxInv, ColumnsInv
<1>4. ASSUME NEW g \in Gateway, NEW i \in Nat, Has(readings, g, i) PROVE Has(readings', g, i)
    BY <1>4, Committed DEF Has
<1>5. ASSUME NEW g \in Gateway, NEW i \in 1 .. cursor'[g] PROVE Has(readings', g, i)
    BY <1>1, <1>4, <1>5, Committed DEF IInv, TxInv, CursorInv
<1>6. ASSUME NEW g \in Gateway, NEW i \in 1 .. lastIndex'[g] PROVE Has(readings', g, i)
    BY <1>1, <1>4, <1>6, Committed DEF IInv, TxInv, CursorInv
<1> QED
    BY <1>1, <1>2, <1>3, <1>5, <1>6, Over

LEMMA TxStep ==
    ASSUME IInv, [Next]_vars
    PROVE  TxInv'
<1>1. TypeOK'
    BY TypeStep DEF IInv
<1>2. ASSUME UNCHANGED <<lastIndex, tables, progress, txTables>> PROVE TxInv'
    BY <1>2 DEF IInv, TxInv, BatchInv, ColumnsInv, RowsInv, CursorInv, Has, tables, progress, txTables
<1>3. ASSUME NEW g \in Gateway, TakeReading(g) \/ RecreateDatabase(g) PROVE TxInv'
    BY <1>2, <1>3 DEF TakeReading, RecreateDatabase
<1>4. CASE CalmDown \/ UNCHANGED vars
    BY <1>2, <1>4 DEF CalmDown, vars
<1>5. CASE Refuse \/ Fail \/ Restart
    BY <1>1, <1>5, RollbackStep DEF Refuse, Fail, Restart
<1> QED
    BY <1>1, <1>3, <1>4, <1>5, BeginStep, NewSessionStep, EnsureColumnsStep, ColumnsDoneStep,
       InsertRowStep, SetCursorStep, CommitStep DEF Next, Statement

LEMMA Invariance == Spec => []IInv
<1>1. Init => IInv
    BY TypeInit, TxInit DEF IInv
<1>2. IInv /\ [Next]_vars => IInv'
    BY TypeStep, TxStep DEF IInv
<1> QED
    BY <1>1, <1>2, PTL DEF Spec
-----------------------------------------------------------------------------
(* The database keeps its promise *)

StoreVars == <<readings, columns, cursor>>

LEMMA CommitRecords ==
    ASSUME IInv, TypeOK', Commit
    PROVE  Promise!Next
<1> DEFINE last == lastIndex[owner] + Len(batch)
<1>1. /\ owner \in Gateway /\ cursor \in [Gateway -> Nat]
      /\ cursor' = [cursor EXCEPT ![owner] = last] /\ cursor'[owner] = last
      /\ readings' = txReadings /\ columns' = txColumns
    BY Committed DEF IInv, TypeOK
<1>2. ASSUME NEW r \in readings' \ readings
      PROVE  /\ r.gateway = owner /\ r.idx <= last
             /\ \A s \in readings' : Promise!Key(r) = Promise!Key(s) => r = s
    <2>1. PICK n \in 1 .. Len(batch) : r = batch[n]
        BY <1>1, <1>2 DEF IInv, TxInv, RowsInv
    <2>2. r.gateway = owner /\ r.idx = lastIndex[owner] + n
        BY <2>1 DEF Commit, IInv, TxInv, BatchInv
    <2>3. lastIndex[owner] \in Nat /\ Len(batch) \in Nat
        BY <1>1 DEF IInv, TypeOK
    <2>4. \A s \in readings' : Promise!Key(r) = Promise!Key(s) => r = s
        BY <1>1, <1>2 DEF IInv, TxInv, RowsInv, Key
    <2> QED
        BY <2>2, <2>3, <2>4
<1>3. columns' \in {cols \in SUBSET Name : Cardinality(cols) <= MaxColumns}
    BY DEF TypeOK
<1>4. \A r \in readings' : r.names \subseteq columns'
    BY <1>1 DEF IInv, TxInv, ColumnsInv
<1>5. readings \subseteq readings' /\ columns \subseteq columns'
      /\ \A i \in 1 .. last : \E r \in readings' : r.gateway = owner /\ r.idx = i
    BY Committed DEF Has
<1> HIDE DEF last
<1>6. Promise!Record(owner)
    <2>1. cursor' = [cursor EXCEPT ![owner] = cursor'[owner]]
        BY <1>1
    <2>2. \A r \in readings' \ readings :
             /\ r.gateway = owner /\ r.idx <= cursor'[owner]
             /\ \A s \in readings' : Promise!Key(r) = Promise!Key(s) => r = s
        BY <1>1, <1>2
    <2>3. \A i \in 1 .. cursor'[owner] : \E r \in readings' : r.gateway = owner /\ r.idx = i
        BY <1>1, <1>5
    <2> QED
        BY <1>3, <1>4, <1>5, <2>1, <2>2, <2>3 DEF Promise!Record
<1> QED
    BY <1>1, <1>6 DEF Promise!Next

LEMMA PromiseStep ==
    ASSUME IInv, [Next]_vars
    PROVE  [Promise!Next]_StoreVars
<1>1. TypeOK'
    BY TypeStep DEF IInv
<1>2. CASE Commit
    BY <1>1, <1>2, CommitRecords
<1>3. ASSUME NEW g \in Gateway,
             TakeReading(g) \/ RecreateDatabase(g) \/ Begin(g) \/ NewSession(g)
      PROVE  UNCHANGED StoreVars
    BY <1>3 DEF TakeReading, RecreateDatabase, Begin, NewSession, tables, StoreVars
<1>4. CASE EnsureColumns \/ ColumnsDone \/ InsertRow \/ SetCursor
    BY <1>4 DEF EnsureColumns, ColumnsDone, InsertRow, SetCursor, tables, StoreVars
<1>5. CASE Refuse \/ Fail \/ Restart \/ CalmDown \/ UNCHANGED vars
    BY <1>5 DEF Refuse, Fail, Restart, Rollback, CalmDown, vars, tables, StoreVars
<1> QED
    BY <1>2, <1>3, <1>4, <1>5 DEF Next, Statement

\* record_batch is one step, or none, of the promise: whole batches with their cursor, each
\* reading once, within the columns there are.
THEOREM Refinement == Spec => RecordsBatches
<1>1. Init => Promise!Init
    BY DEF Init, Promise!Init
<1>2. IInv /\ [Next]_vars => [Promise!Next]_StoreVars
    BY PromiseStep
<1> QED
    BY <1>1, <1>2, Invariance, PTL DEF Spec, RecordsBatches, Promise!Spec, StoreVars

-----------------------------------------------------------------------------
(* Readings are told apart *)

\* The rows there are anywhere on the server.
Seen == readings \cup txReadings \cup {batch[n] : n \in 1 .. Len(batch)}

\* A row of the gateway's present file is as it is there; one of an earlier file is
\* older than all of the present one.
OfFile(r) ==
    /\ r.gateway \in Gateway
    /\ r.ts <= clock[r.gateway]
    /\ \/ /\ r.file = file[r.gateway]
          /\ r.idx \in 1 .. Len(history[r.gateway])
          /\ r = MeasurementToRow(r.gateway, r.idx)
       \/ /\ r.file < file[r.gateway]
          /\ r.ts < clock[r.gateway]
          /\ \A n \in 1 .. Len(history[r.gateway]) : r.ts < history[r.gateway][n].ts

\* Two rows of one gateway.
Agree(r, s) ==
    r.gateway = s.gateway
    => /\ r.file = s.file /\ r.idx = s.idx => r = s
       /\ r.file < s.file => r.ts < s.ts

RowsOfFiles ==
    /\ \A g \in Gateway : \A n \in 1 .. Len(history[g]) :
          history[g][n].file = file[g] /\ history[g][n].ts <= clock[g]
    /\ \A r \in Seen : OfFile(r)
    /\ \A r, s \in Seen : Agree(r, s)

\* The rows of the batch that have been handled are in the database themselves.
RowsThemselves ==
    \A n \in 1 .. Len(batch) :
        stage = "commit" \/ (stage = "rows" /\ n <= at) => batch[n] \in txReadings

\* The inductive invariant for telling readings apart.
FilesInv == IInv /\ RowsOfFiles /\ RowsThemselves
LEMMA SeenType ==
    ASSUME TypeOK, NEW r \in Seen
    PROVE  r \in Row
BY DEF TypeOK, Seen

LEMMA SeenShrinks ==
    ASSUME RowsOfFiles, Seen' \subseteq Seen, UNCHANGED gateways
    PROVE  RowsOfFiles'
BY DEF RowsOfFiles, OfFile, Agree, MeasurementToRow, gateways

LEMMA TakeReadingFiles ==
    ASSUME FilesInv, NEW g \in Gateway, TakeReading(g)
    PROVE  RowsOfFiles'
<1>1. PICK fields : history' = [history EXCEPT ![g] =
                                   Append(@, [ts |-> clock[g], file |-> file[g], fields |-> fields])]
    BY DEF TakeReading
<1>2. /\ history \in [Gateway -> Seq(Reading)] /\ clock \in [Gateway -> 1 .. MaxTime]
      /\ clock' = clock /\ file' = file
    BY DEF TakeReading, FilesInv, IInv, TypeOK
<1>3. Seen' = Seen
    BY DEF TakeReading, Seen, tables, progress, txTables
<1>4. ASSUME NEW h \in Gateway
      PROVE  /\ Len(history[h]) \in Nat /\ Len(history'[h]) \in Nat /\ Len(history[h]) <= Len(history'[h])
             /\ \A n \in 1 .. Len(history[h]) : history'[h][n] = history[h][n]
             /\ \A n \in 1 .. Len(history'[h]) : n \notin 1 .. Len(history[h]) =>
                    history'[h][n].ts = clock[h] /\ history'[h][n].file = file[h]
    <2>1. CASE h = g
        BY <1>1, <1>2, <2>1
    <2>2. CASE h # g
        BY <1>1, <1>2, <2>2
    <2> QED
        BY <2>1, <2>2
<1>5. ASSUME NEW h \in Gateway, NEW n \in 1 .. Len(history'[h])
      PROVE  history'[h][n].file = file'[h] /\ history'[h][n].ts <= clock'[h]
    <2>1. clock[h] \in Nat
        BY <1>2
    <2>2. CASE n \in 1 .. Len(history[h])
        BY <1>2, <1>4, <2>2 DEF FilesInv, RowsOfFiles
    <2>3. CASE n \notin 1 .. Len(history[h])
        BY <1>2, <1>4, <2>1, <2>3
    <2> QED
        BY <2>2, <2>3
<1>6. ASSUME NEW r \in Seen PROVE OfFile(r)'
    <2>1. OfFile(r) /\ r.gateway \in Gateway
        BY DEF FilesInv, RowsOfFiles, OfFile
    <2>2. CASE r.file = file[r.gateway] /\ r.idx \in 1 .. Len(history[r.gateway])
               /\ r = MeasurementToRow(r.gateway, r.idx)
        <3>1. r.idx \in 1 .. Len(history'[r.gateway])
            BY <1>4, <2>1, <2>2
        <3>2. MeasurementToRow(r.gateway, r.idx)' = MeasurementToRow(r.gateway, r.idx)
            BY <1>4, <2>1, <2>2 DEF MeasurementToRow
        <3> QED
            BY <1>2, <2>1, <2>2, <3>1, <3>2 DEF OfFile
    <2>3. CASE r.file < file[r.gateway] /\ r.ts < clock[r.gateway]
               /\ \A n \in 1 .. Len(history[r.gateway]) : r.ts < history[r.gateway][n].ts
        <3>1. \A n \in 1 .. Len(history'[r.gateway]) : r.ts < history'[r.gateway][n].ts
            BY <1>4, <2>1, <2>3
        <3> QED
            BY <1>2, <2>1, <2>3, <3>1 DEF OfFile
    <2> QED
        BY <2>1, <2>2, <2>3 DEF OfFile
<1> QED
    BY <1>3, <1>5, <1>6 DEF FilesInv, RowsOfFiles, Agree

LEMMA RecreateFiles ==
    ASSUME FilesInv, NEW g \in Gateway, RecreateDatabase(g)
    PROVE  RowsOfFiles'
<1>1. /\ clock \in [Gateway -> 1 .. MaxTime] /\ file \in [Gateway -> Nat \ {0}]
      /\ history \in [Gateway -> Seq(Reading)]
      /\ clock' = [clock EXCEPT ![g] = @ + 1] /\ file' = [file EXCEPT ![g] = @ + 1]
      /\ history' = [history EXCEPT ![g] = <<>>] /\ history'[g] = <<>> /\ Len(history'[g]) = 0
    BY DEF RecreateDatabase, FilesInv, IInv, TypeOK
<1>2. Seen' = Seen
    BY DEF RecreateDatabase, Seen, tables, progress, txTables
<1>3. ASSUME NEW h \in Gateway, NEW n \in 1 .. Len(history'[h])
      PROVE  history'[h][n].file = file'[h] /\ history'[h][n].ts <= clock'[h]
    <2>1. h # g
        BY <1>1, <1>3
    <2> QED
        BY <1>1, <1>3, <2>1 DEF FilesInv, RowsOfFiles
<1>4. ASSUME NEW r \in Seen PROVE OfFile(r)'
    <2>1. OfFile(r) /\ r.gateway \in Gateway /\ r.ts \in Nat
        BY SeenType DEF FilesInv, IInv, RowsOfFiles, OfFile, Row
    <2>2. CASE r.gateway = g
        <3>1. clock[g] \in Nat /\ file[g] \in Nat /\ clock'[g] = clock[g] + 1 /\ file'[g] = file[g] + 1
            BY <1>1
        <3>2. r.file \in Nat
            BY SeenType DEF FilesInv, IInv, Row
        <3>3. r.ts <= clock[g] /\ r.file <= file[g]
            BY <2>1, <2>2, <3>1, <3>2 DEF OfFile
        <3>4. r.ts < clock'[g] /\ r.ts <= clock'[g] /\ r.file < file'[g]
            BY <2>1, <3>1, <3>2, <3>3
        <3> QED
            BY <1>1, <2>1, <2>2, <3>4 DEF OfFile
    <2>3. CASE r.gateway # g
        <3>1. /\ clock'[r.gateway] = clock[r.gateway] /\ file'[r.gateway] = file[r.gateway]
              /\ history'[r.gateway] = history[r.gateway]
            BY <1>1, <2>1, <2>3
        <3> QED
            BY <2>1, <3>1 DEF OfFile, MeasurementToRow
    <2> QED
        BY <2>2, <2>3
<1> QED
    BY <1>2, <1>3, <1>4 DEF FilesInv, RowsOfFiles, Agree

LEMMA BeginFiles ==
    ASSUME FilesInv, NEW g \in Gateway, Begin(g)
    PROVE  RowsOfFiles'
<1> DEFINE Fresh == {r \in Row : \E i \in 1 .. Len(history[g]) : r = MeasurementToRow(g, i)}
<1>1. UNCHANGED gateways /\ Seen' \subseteq Seen \cup Fresh
    <2>1. readings' = readings /\ txReadings' = readings /\ UNCHANGED gateways
        BY DEF Begin, tables
    <2>2. ASSUME NEW n \in 1 .. Len(batch') PROVE batch'[n] \in Fresh
        BY Page DEF FilesInv, IInv
    <2> QED
        BY <2>1, <2>2 DEF Seen
<1>2. /\ file[g] \in Nat /\ clock[g] \in Nat /\ history[g] \in Seq(Reading)
    BY DEF FilesInv, IInv, TypeOK
<1>3. ASSUME NEW r \in Fresh
      PROVE  /\ r.gateway = g /\ r.file = file[g] /\ r.idx \in 1 .. Len(history[g])
             /\ r = MeasurementToRow(g, r.idx) /\ r.ts = history[g][r.idx].ts /\ r.ts <= clock[g]
    <2>1. PICK i \in 1 .. Len(history[g]) : r = MeasurementToRow(g, i)
        OBVIOUS
    <2>2. r.gateway = g /\ r.idx = i /\ r.ts = history[g][i].ts /\ r.file = history[g][i].file
        BY <2>1 DEF MeasurementToRow
    <2> QED
        BY <2>1, <2>2 DEF FilesInv, RowsOfFiles
<1>4. ASSUME NEW r \in Fresh PROVE OfFile(r)
    BY <1>3 DEF OfFile
<1>5. ASSUME NEW r \in Seen PROVE OfFile(r) /\ r \in Row
    BY SeenType DEF FilesInv, IInv, RowsOfFiles
<1>6. ASSUME NEW r \in Fresh, NEW s \in Seen \cup Fresh PROVE Agree(r, s) /\ Agree(s, r)
    <2>1. OfFile(s) /\ s.file \in Nat /\ s \in Row
        BY <1>4, <1>5 DEF Row
    <2>2. CASE s.gateway # g
        BY <1>3, <2>2 DEF Agree
    <2>3. CASE s.gateway = g /\ s.file = file[g]
        <3>1. s = MeasurementToRow(g, s.idx)
            BY <1>2, <2>1, <2>3 DEF OfFile
        <3> QED
            BY <1>2, <1>3, <2>3, <3>1 DEF Agree
    <2>4. CASE s.gateway = g /\ s.file # file[g]
        <3>1. s.file < file[g] /\ \A n \in 1 .. Len(history[g]) : s.ts < history[g][n].ts
            BY <2>1, <2>4 DEF OfFile
        <3>2. s.ts < r.ts /\ r.file = file[g]
            BY <1>3, <3>1
        <3> QED
            BY <1>2, <1>3, <2>1, <3>1, <3>2 DEF Agree
    <2> QED
        BY <2>2, <2>3, <2>4
<1> HIDE DEF Fresh
<1>7. ASSUME NEW r \in Seen' PROVE OfFile(r)'
    <2>1. OfFile(r)
        BY <1>1, <1>4, <1>5
    <2> QED
        BY <1>1, <2>1 DEF OfFile, MeasurementToRow, gateways
<1>8. \A r, s \in Seen' : Agree(r, s)
    BY <1>1, <1>6 DEF FilesInv, RowsOfFiles
<1> QED
    BY <1>1, <1>7, <1>8 DEF FilesInv, RowsOfFiles, gateways, Agree
\* A row of the batch is ignored only if it is in the database already.
LEMMA InsertRowThemselves ==
    ASSUME FilesInv, InsertRow
    PROVE  RowsThemselves'
<1> DEFINE row == batch[at + 1]
<1>1. /\ stage = "rows" /\ stage' = stage /\ batch' = batch /\ at' = at + 1
      /\ at \in Nat /\ at + 1 \in 1 .. Len(batch)
    BY DEF InsertRow, FilesInv, IInv, TypeOK
<1>2. \/ txReadings' = txReadings /\ \E r \in txReadings : Promise!Key(r) = Promise!Key(row)
      \/ txReadings' = txReadings \cup {row}
    BY DEF InsertRow
<1>3. row \in Seen /\ txReadings \subseteq Seen
    BY <1>1 DEF Seen
<1> HIDE DEF row
<1>4. ASSUME NEW r \in txReadings, Promise!Key(r) = Promise!Key(row) PROVE r = row
    <2>1. r.gateway = row.gateway /\ r.idx = row.idx /\ r.ts = row.ts
        BY <1>4 DEF Promise!Key
    <2>2. Agree(r, row) /\ Agree(row, r)
        BY <1>3 DEF FilesInv, RowsOfFiles
    <2>3. r \in Row /\ row \in Row
        BY <1>3, SeenType DEF FilesInv, IInv
    <2>4. r.file \in Nat /\ row.file \in Nat /\ r.ts \in Nat /\ row.ts \in Nat
        BY <2>3 DEF Row
    <2> QED
        BY <2>1, <2>2, <2>4 DEF Agree
<1>5. txReadings \subseteq txReadings' /\ row \in txReadings'
    BY <1>2, <1>4
<1>6. ASSUME NEW n \in 1 .. Len(batch), n <= at + 1 PROVE batch[n] \in txReadings'
    <2>1. CASE n = at + 1
        BY <1>5, <2>1 DEF row
    <2>2. CASE n <= at
        BY <1>1, <1>5, <2>2 DEF FilesInv, RowsThemselves
    <2> QED
        BY <1>1, <1>6, <2>1, <2>2
<1> QED
    BY <1>1, <1>6 DEF RowsThemselves

LEMMA FilesStep ==
    ASSUME FilesInv, [Next]_vars
    PROVE  FilesInv'
<1>1. IInv'
    BY TypeStep, TxStep DEF FilesInv, IInv
<1> SUFFICES RowsOfFiles' /\ RowsThemselves'
    BY <1>1 DEF FilesInv
<1>2. ASSUME UNCHANGED <<gateways, progress, readings, txReadings>>
      PROVE  RowsOfFiles' /\ RowsThemselves'
    <2>1. Seen' = Seen
        BY <1>2 DEF Seen, progress
    <2> QED
        BY <1>2, <2>1, SeenShrinks DEF FilesInv, RowsThemselves, progress
<1>3. ASSUME NEW g \in Gateway, NewSession(g) PROVE RowsOfFiles' /\ RowsThemselves'
    BY <1>2, <1>3 DEF NewSession, tables, txTables
<1>4. CASE CalmDown \/ UNCHANGED vars
    BY <1>2, <1>4 DEF CalmDown, vars, tables, txTables
<1>5. ASSUME NEW g \in Gateway, TakeReading(g) PROVE RowsOfFiles' /\ RowsThemselves'
    BY <1>5, TakeReadingFiles DEF TakeReading, FilesInv, RowsThemselves, progress, txTables
<1>6. ASSUME NEW g \in Gateway, RecreateDatabase(g) PROVE RowsOfFiles' /\ RowsThemselves'
    BY <1>6, RecreateFiles DEF RecreateDatabase, FilesInv, RowsThemselves, progress, txTables
<1>7. ASSUME NEW g \in Gateway, Begin(g) PROVE RowsOfFiles' /\ RowsThemselves'
    <2>1. stage' = "columns"
        BY <1>7 DEF Begin
    <2> QED
        BY <1>7, <2>1, BeginFiles DEF RowsThemselves
<1>8. ASSUME UNCHANGED <<gateways, readings, txReadings, batch>> PROVE RowsOfFiles'
    <2>1. Seen' = Seen
        BY <1>8 DEF Seen
    <2> QED
        BY <1>8, <2>1, SeenShrinks DEF FilesInv
<1>9. CASE EnsureColumns
    BY <1>8, <1>9 DEF EnsureColumns, tables, FilesInv, RowsThemselves
<1>10. CASE ColumnsDone
    <2>1. at' = 0 /\ stage' = "rows" /\ \A n \in 1 .. Len(batch') : ~(n <= at')
        BY <1>10 DEF ColumnsDone
    <2> QED
        BY <1>8, <1>10, <2>1 DEF ColumnsDone, tables, txTables, RowsThemselves
<1>11. CASE InsertRow
    <2>1. Seen' \subseteq Seen
        <3>1. at + 1 \in 1 .. Len(batch)
            BY <1>11 DEF InsertRow, FilesInv, IInv, TypeOK
        <3> QED
            BY <1>11, <3>1 DEF InsertRow, tables, Seen
    <2>2. RowsOfFiles'
        BY <1>11, <2>1, SeenShrinks DEF InsertRow, FilesInv
    <2> QED
        BY <1>11, <2>2, InsertRowThemselves
<1>12. CASE SetCursor
    <2>1. \A n \in 1 .. Len(batch) : batch[n] \in txReadings
        BY <1>12 DEF SetCursor, FilesInv, RowsThemselves
    <2> QED
        BY <1>8, <1>12, <2>1 DEF SetCursor, tables, RowsThemselves
<1>13. ASSUME Finish, UNCHANGED gateways, readings' \subseteq Seen, txReadings' \subseteq Seen
       PROVE  RowsOfFiles' /\ RowsThemselves'
    <2>1. batch' = <<>> /\ Len(batch') = 0
        BY <1>13 DEF Finish
    <2>2. Seen' \subseteq Seen
        BY <1>13, <2>1 DEF Seen
    <2> QED
        BY <1>13, <2>1, <2>2, SeenShrinks DEF FilesInv, RowsThemselves
<1>14. CASE Commit
    BY <1>13, <1>14 DEF Commit, txTables, Seen
<1>15. CASE Refuse \/ Fail \/ Restart
    BY <1>13, <1>15 DEF Refuse, Fail, Restart, Rollback, tables, Seen
<1> QED
    BY <1>3, <1>4, <1>5, <1>6, <1>7, <1>9, <1>10, <1>11, <1>12, <1>14, <1>15 DEF Next, Statement

LEMMA FilesInit == Init => FilesInv
<1> SUFFICES ASSUME Init PROVE FilesInv
    OBVIOUS
<1>1. IInv
    BY TypeInit, TxInit DEF IInv
<1>2. /\ Seen = {} /\ batch = <<>> /\ Len(batch) = 0
      /\ \A g \in Gateway : history[g] = <<>> /\ Len(history[g]) = 0
    BY DEF Init, Seen
<1> QED
    BY <1>1, <1>2 DEF FilesInv, RowsOfFiles, RowsThemselves

LEMMA FilesInvariance == Spec => []FilesInv
BY FilesInit, FilesStep, PTL DEF Spec

LEMMA CommitHas ==
    ASSUME FilesInv
    PROVE  Commit => \A n \in DOMAIN batch : batch[n] \in readings'
<1> SUFFICES ASSUME Commit, NEW n \in DOMAIN batch PROVE batch[n] \in readings'
    OBVIOUS
<1>1. n \in 1 .. Len(batch)
    BY DEF FilesInv, IInv, TypeOK
<1> QED
    BY <1>1 DEF Commit, FilesInv, RowsThemselves

\* After a batch was recorded each of its readings is in the database itself, also if an
\* earlier file of the gateway had a row of the same index.
THEOREM ToldApart == Spec => RunsToldApart
BY FilesInvariance, CommitHas, PTL DEF Spec, RunsToldApart

-----------------------------------------------------------------------------
(* A first file is copied *)

\* A session asks from the stored cursor, which is never ahead of the file.
FirstInv ==
    \A g \in Gateway : file[g] = 1 =>
        /\ lastIndex[g] = cursor[g] /\ cursor[g] <= Len(history[g])
        /\ owner = g => lastIndex[g] + Len(batch) <= latest /\ latest <= Len(history[g])
        /\ \A r \in readings : r.gateway = g => r.idx <= cursor[g]

LEMMA FirstSame ==
    ASSUME FirstInv, UNCHANGED <<file, history, lastIndex, cursor, owner, batch, latest, readings>>
    PROVE  FirstInv'
BY DEF FirstInv

\* No transaction, and sessions that ask from where they did or from the stored cursor.
LEMMA FirstNoOwner ==
    ASSUME IInv, FirstInv, owner' = None, UNCHANGED <<file, history, cursor, readings>>,
           \A g \in Gateway : lastIndex'[g] \in {lastIndex[g], cursor[g]}
    PROVE  FirstInv'
<1>1. \A g \in Gateway : owner' # g
    BY NoneAssumption
<1> QED
    BY <1>1 DEF FirstInv

LEMMA FirstTakeReading ==
    ASSUME IInv, FirstInv, NEW g \in Gateway, TakeReading(g)
    PROVE  FirstInv'
<1>1. PICK r : history' = [history EXCEPT ![g] = Append(@, r)]
    BY DEF TakeReading
<1>2. UNCHANGED <<file, lastIndex, cursor, owner, batch, latest, readings>>
    BY DEF TakeReading, tables, progress
<1>3. history \in [Gateway -> Seq(Reading)] /\ cursor \in [Gateway -> Nat] /\ latest \in Nat
    BY DEF IInv, TypeOK
<1>4. ASSUME NEW h \in Gateway PROVE Len(history[h]) \in Nat /\ Len(history'[h]) \in Nat /\ Len(history[h]) <= Len(history'[h])
    BY <1>1, <1>3
<1> QED
    BY <1>2, <1>3, <1>4 DEF FirstInv

LEMMA FirstBegin ==
    ASSUME IInv, FirstInv, NEW g \in Gateway, Begin(g)
    PROVE  FirstInv'
<1>1. UNCHANGED <<file, history, lastIndex, cursor, readings>> /\ owner' = g /\ latest' = Len(history[g])
    BY DEF Begin, gateways, tables
<1>2. Len(batch') = PageLength(g, lastIndex[g])
    BY Page DEF IInv
<1>3. history[g] \in Seq(Reading) /\ Len(history[g]) \in Nat /\ lastIndex[g] \in Nat /\ Batch \in Nat \ {0}
    BY SizeAssumption DEF IInv, TypeOK
<1>4. lastIndex[g] <= Len(history[g]) => lastIndex[g] + Len(batch') <= Len(history[g])
    BY <1>2, <1>3 DEF PageLength
<1> QED
    BY <1>1, <1>3, <1>4 DEF FirstInv

LEMMA FirstCommit ==
    ASSUME IInv, FirstInv, Commit
    PROVE  FirstInv'
<1>1. /\ owner \in Gateway /\ owner' = None /\ UNCHANGED <<file, history>>
      /\ lastIndex' = [lastIndex EXCEPT ![owner] = IF latest < @ THEN 0 ELSE @ + Len(batch)]
      /\ cursor' = [cursor EXCEPT ![owner] = lastIndex[owner] + Len(batch)]
      /\ readings' = txReadings
    BY Committed DEF Commit, Finish, gateways
<1>2. /\ lastIndex \in [Gateway -> Nat] /\ cursor \in [Gateway -> Nat] /\ latest \in Nat
      /\ Len(batch) \in Nat /\ history \in [Gateway -> Seq(Reading)]
      /\ \A g \in Gateway : Len(history[g]) \in Nat
    BY DEF IInv, TypeOK
<1>3. ASSUME NEW r \in readings' \ readings
      PROVE  r.gateway = owner /\ r.idx \in Nat /\ r.idx <= lastIndex[owner] + Len(batch)
    <2>1. PICK n \in 1 .. Len(batch) : r = batch[n]
        BY <1>1, <1>3 DEF IInv, TxInv, RowsInv
    <2>2. r.gateway = owner /\ r.idx = lastIndex[owner] + n
        BY <2>1 DEF Commit, IInv, TxInv, BatchInv
    <2> QED
        BY <1>1, <1>2, <2>2
<1>4. ASSUME NEW r \in readings PROVE r.idx \in Nat
    BY DEF IInv, TypeOK, Row
<1>5. ASSUME NEW g \in Gateway, file[g] = 1
      PROVE  /\ lastIndex'[g] = cursor'[g] /\ cursor'[g] <= Len(history[g])
             /\ \A r \in readings' : r.gateway = g => r.idx <= cursor'[g]
    <2>1. CASE g = owner
        <3>1. lastIndex[g] + Len(batch) <= latest /\ latest <= Len(history[g])
            BY <1>5, <2>1 DEF FirstInv
        <3>2. ~(latest < lastIndex[g])
            BY <1>2, <3>1
        <3>3. lastIndex'[g] = lastIndex[g] + Len(batch) /\ cursor'[g] = lastIndex[g] + Len(batch)
            BY <1>1, <1>2, <2>1, <3>2
        <3>4. cursor[g] = lastIndex[g] /\ \A r \in readings : r.gateway = g => r.idx <= cursor[g]
            BY <1>5 DEF FirstInv
        <3>5. ASSUME NEW r \in readings', r.gateway = g PROVE r.idx <= lastIndex[g] + Len(batch)
            <4>1. CASE r \in readings
                BY <1>2, <1>4, <3>4, <3>5, <4>1
            <4>2. CASE r \notin readings
                BY <1>3, <2>1, <4>2
            <4> QED
                BY <4>1, <4>2
        <3> QED
            BY <1>2, <3>1, <3>3, <3>5
    <2>2. CASE g # owner
        <3>1. lastIndex'[g] = lastIndex[g] /\ cursor'[g] = cursor[g]
            BY <1>1, <1>2, <2>2
        <3> QED
            BY <1>3, <1>5, <2>2, <3>1 DEF FirstInv
    <2> QED
        BY <2>1, <2>2
<1>6. \A g \in Gateway : owner' # g
    BY <1>1, NoneAssumption
<1> QED
    BY <1>1, <1>5, <1>6 DEF FirstInv

LEMMA FirstStep ==
    ASSUME IInv, FirstInv, [Next]_vars
    PROVE  FirstInv'
<1>1. ASSUME NEW g \in Gateway, RecreateDatabase(g) PROVE FirstInv'
    <2>1. /\ file' = [file EXCEPT ![g] = @ + 1] /\ history' = [history EXCEPT ![g] = <<>>]
          /\ UNCHANGED <<lastIndex, cursor, owner, batch, latest, readings>>
        BY <1>1 DEF RecreateDatabase, tables, progress
    <2>2. file \in [Gateway -> Nat \ {0}] /\ history \in [Gateway -> Seq(Reading)]
        BY DEF IInv, TypeOK
    <2>3. file'[g] # 1 /\ \A h \in Gateway \ {g} : file'[h] = file[h] /\ history'[h] = history[h]
        BY <2>1, <2>2
    <2> QED
        BY <2>1, <2>3 DEF FirstInv
<1>2. ASSUME NEW g \in Gateway, NewSession(g) PROVE FirstInv'
    <2>1. owner' = None /\ UNCHANGED <<file, history, cursor, readings>>
        BY <1>2 DEF NewSession, gateways, tables, progress
    <2>2. \A h \in Gateway : lastIndex'[h] \in {lastIndex[h], cursor[h]}
        BY <1>2 DEF NewSession, IInv, TypeOK
    <2> QED
        BY <2>1, <2>2, FirstNoOwner
<1>3. CASE EnsureColumns \/ ColumnsDone \/ InsertRow \/ SetCursor \/ CalmDown \/ UNCHANGED vars
    <2>1. UNCHANGED <<file, history, lastIndex, cursor, owner, batch, latest, readings>>
        BY <1>3 DEF EnsureColumns, ColumnsDone, InsertRow, SetCursor, CalmDown, vars, gateways, tables, progress
    <2> QED
        BY <2>1, FirstSame
<1>4. CASE Refuse \/ Fail \/ Restart
    <2>1. owner' = None /\ UNCHANGED <<file, history, cursor, readings>>
        BY <1>4 DEF Refuse, Fail, Restart, Rollback, Finish, gateways, tables
    <2>2. \A h \in Gateway : lastIndex'[h] \in {lastIndex[h], cursor[h]}
        BY <1>4 DEF Refuse, Fail, Restart
    <2> QED
        BY <2>1, <2>2, FirstNoOwner
<1> QED
    BY <1>1, <1>2, <1>3, <1>4, FirstTakeReading, FirstBegin, FirstCommit DEF Next, Statement

LEMMA FirstInit == Init => FirstInv
<1> SUFFICES ASSUME Init, NEW g \in Gateway
             PROVE  /\ lastIndex[g] = cursor[g] /\ cursor[g] <= Len(history[g])
                    /\ owner # g /\ readings = {}
    BY DEF FirstInv
<1>1. history[g] = <<>> /\ Len(history[g]) = 0 /\ lastIndex[g] = 0 /\ cursor[g] = 0
    BY DEF Init
<1> QED
    BY <1>1, NoneAssumption DEF Init

LEMMA FirstCopied ==
    ASSUME FilesInv, FirstInv
    PROVE  FirstFileCopied
<1> SUFFICES ASSUME NEW g \in Gateway, file[g] = 1
             PROVE  {r \in readings : r.gateway = g} = {MeasurementToRow(g, i) : i \in 1 .. cursor[g]}
    BY DEF FirstFileCopied
<1>1. ASSUME NEW r \in readings, r.gateway = g
      PROVE  r.idx \in 1 .. cursor[g] /\ r = MeasurementToRow(g, r.idx)
    <2>1. r \in Seen /\ r \in Row
        BY SeenType DEF Seen, FilesInv, IInv
    <2>2. OfFile(r) /\ r.file \in Nat \ {0} /\ r.idx \in Nat \ {0} /\ cursor[g] \in Nat
        BY <2>1 DEF FilesInv, IInv, TypeOK, RowsOfFiles, Row
    <2>3. ~(r.file < file[g])
        BY <2>2
    <2>4. r = MeasurementToRow(g, r.idx)
        BY <1>1, <2>2, <2>3 DEF OfFile
    <2> QED
        BY <1>1, <2>2, <2>4 DEF FirstInv
<1>2. ASSUME NEW i \in 1 .. cursor[g]
      PROVE  MeasurementToRow(g, i) \in readings /\ MeasurementToRow(g, i).gateway = g
    <2>1. PICK r \in readings : r.gateway = g /\ r.idx = i
        BY DEF FilesInv, IInv, TxInv, CursorInv, Has
    <2> QED
        BY <1>1, <2>1
<1> QED
    BY <1>1, <1>2

\* A gateway's first file is copied row by row: the database holds its readings up to the
\* stored cursor, as they are in the file, and nothing else of that gateway.
THEOREM FirstFile == Spec => []FirstFileCopied
<1>1. Init => FirstInv
    BY FirstInit
<1>2. FilesInv /\ FirstInv /\ [Next]_vars => FirstInv'
    BY FirstStep DEF FilesInv
<1>3. FilesInv /\ FirstInv => FirstFileCopied
    BY FirstCopied
<1> QED
    BY <1>1, <1>2, <1>3, FilesInvariance, PTL DEF Spec

-----------------------------------------------------------------------------
(* What is never recorded *)

\* No two names that SQLite takes for the same.
Distinct(cols) == \A m, n \in cols : Folded[m] = Folded[n] => m = n

\* Every row has a value; the columns are told apart, and SQLite takes their names.
StorableInv ==
    /\ \A r \in readings \cup txReadings : r.names # {}
    /\ Distinct(columns) /\ Distinct(txColumns)
    /\ columns \cap Barred = {} /\ txColumns \cap Barred = {}

\* Measurements that no statement can store: all fields were dropped, or a name is none for a
\* column, or it differs from that of a column in nothing but case.
Unstorable(fields) ==
    \/ fields \cap Name = {}
    \/ fields \cap Name \cap Barred # {}
    \/ \E n \in fields \cap Name : \E m \in columns : m # n /\ Folded[m] = Folded[n]

\* The cursor has passed none of them.
NonePassed ==
    \A g \in Gateway : file[g] = 1 =>
        \A i \in 1 .. cursor[g] : ~Unstorable(history[g][i].fields)

LEMMA StorableStep == StorableInv /\ [Next]_vars => StorableInv'
<1> SUFFICES ASSUME StorableInv, [Next]_vars PROVE StorableInv'
    OBVIOUS
<1>1. CASE UNCHANGED <<readings, txReadings, columns, txColumns>>
    BY <1>1 DEF StorableInv
<1>2. ASSUME NEW g \in Gateway, Begin(g) PROVE StorableInv'
    BY <1>2 DEF Begin, tables, StorableInv
<1>3. CASE EnsureColumns
    <2>1. PICK names : /\ AlterTableTakes(names, txColumns) /\ txColumns' = txColumns \cup names
                       /\ UNCHANGED <<readings, txReadings, columns>>
        BY <1>3 DEF EnsureColumns, Fits, tables
    <2>2. Distinct(txColumns)'
        BY <2>1 DEF AlterTableTakes, StorableInv, Distinct
    <2>3. txColumns' \cap Barred = {}
        BY <2>1 DEF AlterTableTakes, StorableInv
    <2> QED
        BY <2>1, <2>2, <2>3 DEF StorableInv
<1>4. CASE InsertRow
    <2>1. /\ batch[at + 1].names # {}
          /\ txReadings' \subseteq txReadings \cup {batch[at + 1]}
          /\ UNCHANGED <<readings, columns, txColumns>>
        BY <1>4 DEF InsertRow, tables
    <2> QED
        BY <2>1 DEF StorableInv
<1>5. CASE Commit
    BY <1>5 DEF Commit, txTables, StorableInv
<1>6. CASE Refuse \/ Fail \/ Restart
    BY <1>6 DEF Refuse, Fail, Restart, Rollback, tables, StorableInv
<1> QED
    BY <1>1, <1>2, <1>3, <1>4, <1>5, <1>6
    DEF Next, Statement, TakeReading, RecreateDatabase, NewSession, ColumnsDone, SetCursor,
        CalmDown, vars, tables, txTables

LEMMA StorablePassed ==
    ASSUME IInv, FirstFileCopied, StorableInv
    PROVE  NonePassed
<1> SUFFICES ASSUME NEW g \in Gateway, file[g] = 1, NEW i \in 1 .. cursor[g]
             PROVE  ~Unstorable(history[g][i].fields)
    BY DEF NonePassed
<1> DEFINE row == MeasurementToRow(g, i)
<1>1. row \in readings /\ row.names = history[g][i].fields \cap Name
    BY DEF FirstFileCopied, MeasurementToRow
<1>2. row.names # {} /\ row.names \subseteq columns /\ Distinct(columns) /\ columns \cap Barred = {}
    BY <1>1 DEF StorableInv, IInv, TxInv, ColumnsInv
<1> QED
    BY <1>1, <1>2 DEF Unstorable, Distinct

\* What the two counterexamples have in common, for every number of columns and size of
\* batches: the cursor never passes a measurement without a usable field (measurement_to_row
\* keeps it, the INSERT is no SQL), nor one whose name for a value is valid to ensure_columns
\* but not to SQLite (a keyword, a bookkeeping column's in another case), or clashes with a
\* column's (ensure_columns compares with regard to case, SQLite without).  As columns stay, whatever
\* such a gateway measures after it is never stored from this file.
THEOREM UnstorableNotPassed == Spec => []NonePassed
<1>1. Init => StorableInv
    BY DEF Init, StorableInv, Distinct
<1>2. StorableInv /\ [Next]_vars => StorableInv'
    BY StorableStep
<1>3. FilesInv /\ FirstFileCopied /\ StorableInv => NonePassed
    BY StorablePassed DEF FilesInv
<1> QED
    BY <1>1, <1>2, <1>3, FilesInvariance, FirstFile, PTL DEF Spec

=============================================================================
