--------------------------- MODULE MeterStoreProofs ---------------------------
(***************************************************************************)
(* Proofs about MeterStore, for any processes, kinds of meters, page size  *)
(* and length of the file; the last section shows that the file and its    *)
(* consumer implement HistoryTransfer.                                     *)
(***************************************************************************)
EXTENDS MeterStore, SequenceTheorems, TLAPS

-----------------------------------------------------------------------------
(* Types *)

LEMMA PageLengthBound ==
    ASSUME NEW id \in Nat, TypeOK, id <= Len(rows)
    PROVE  /\ PageLength(id) \in Nat
           /\ id + PageLength(id) <= Len(rows)
    BY LimitAssumption, LenProperties DEF PageLength, TypeOK

\* A page is a sequence of rows, as many as PageLength says.
LEMMA SinceIdIsPage ==
    ASSUME NEW id \in Nat, TypeOK, id <= Len(rows)
    PROVE  /\ SinceId(id) \in Seq(Row)
           /\ Len(SinceId(id)) = PageLength(id)
<1> DEFINE hi == id + PageLength(id)
<1>1. /\ rows \in Seq(Row)
      /\ hi \in Nat /\ id <= hi /\ hi <= Len(rows)
      /\ Len(rows) \in Nat
    BY PageLengthBound, LenProperties DEF TypeOK
<1>2. \A i \in id + 1 .. hi : i \in 1 .. Len(rows)
    BY <1>1
<1> HIDE DEF hi
<1>3. /\ SubSeq(rows, id + 1, hi) \in Seq(Row)
      /\ Len(SubSeq(rows, id + 1, hi)) = IF id + 1 <= hi THEN hi - (id + 1) + 1 ELSE 0
    BY <1>1, <1>2, SubSeqProperties
<1>4. Len(SubSeq(rows, id + 1, hi)) = hi - id
    BY <1>1, <1>3
<1> QED
    BY <1>3, <1>4, PageLengthBound DEF hi, SinceId

\* A reading on its way into the table is of its kind.
InsertsFit ==
    \A p \in Process : stage[p] \in {"index", "insert"} => table = KindOf[p]

\* A process that has lost a reading finds the table from then on.
BeatenOnce ==
    \A p \in Process :
        /\ beaten[p] \in 0 .. 1
        /\ beaten[p] = 1 => table # NoTable /\ stage[p] # "create"

\* The inductive invariant.
IInv ==
    /\ TypeOK
    /\ EveryRowOnce
    /\ SchemaFixed
    /\ InsertsFit
    /\ BeatenOnce

LEMMA InitIInv == Init => IInv
<1> SUFFICES ASSUME Init PROVE IInv
    OBVIOUS
<1>1. TypeOK
    BY DEF Init, TypeOK
<1>2. EveryRowOnce
    <2>1. SubSeq(rows, 1, after) = << >>
        BY SubSeqEmpty DEF Init
    <2> QED
        BY <2>1 DEF Init, EveryRowOnce
<1>3. SchemaFixed
    BY DEF Init, SchemaFixed
<1> QED
    BY <1>1, <1>2, <1>3 DEF Init, IInv, InsertsFit, BeatenOnce

\* Every step keeps the types.
LEMMA TypeStep == IInv /\ [Next]_vars => TypeOK'
<1> SUFFICES ASSUME IInv, [Next]_vars PROVE TypeOK'
    OBVIOUS
<1> USE KindAssumption DEF IInv, TypeOK
<1>1. CASE UNCHANGED vars
    BY <1>1 DEF vars
<1>2. ASSUME NEW p \in Process, Look(p) PROVE TypeOK'
    BY <1>2 DEF Look, Goto
<1>3. ASSUME NEW p \in Process, CreateTable(p) PROVE TypeOK'
    BY <1>3 DEF CreateTable, Goto
<1>4. ASSUME NEW p \in Process, CreateTableFails(p) PROVE TypeOK'
    BY <1>4 DEF CreateTableFails, Goto
<1>5. ASSUME NEW p \in Process, CreateIndex(p) PROVE TypeOK'
    BY <1>5 DEF CreateIndex, Goto
<1>6. ASSUME NEW p \in Process, CheckSchemaMatches(p) PROVE TypeOK'
    BY <1>6 DEF CheckSchemaMatches, Goto
<1>7. ASSUME NEW p \in Process, Insert(p) PROVE TypeOK'
    <2>1. PICK ts \in 0 .. MaxTime : rows' = Append(rows, [kind |-> KindOf[p], ts |-> ts])
        BY <1>7 DEF Insert
    <2>2. [kind |-> KindOf[p], ts |-> ts] \in Row
        BY DEF Row
    <2>3. rows' \in Seq(Row)
        BY <2>1, <2>2, AppendProperties
    <2> QED
        BY <1>7, <2>3 DEF Insert, Goto
<1>8. ASSUME NEW p \in Process, Fail(p) PROVE TypeOK'
    BY <1>8 DEF Fail, Goto
<1>9. CASE Pull
    <2>1. after <= Len(rows)
        BY DEF EveryRowOnce
    <2>2. SinceId(after) \in Seq(Row) /\ Len(SinceId(after)) \in Nat
        BY <2>1, SinceIdIsPage, LenProperties
    <2>3. seen' \in Seq(Row)
        BY <1>9, <2>2, ConcatProperties DEF Pull
    <2>4. after' \in Nat
        BY <1>9, <2>2 DEF Pull
    <2> QED
        BY <1>9, <2>3, <2>4 DEF Pull
<1> QED
    BY <1>1, <1>2, <1>3, <1>4, <1>5, <1>6, <1>7, <1>8, <1>9 DEF Next

-----------------------------------------------------------------------------
(* The consumer *)

\* Every step keeps what the consumer has a beginning of the file.
LEMMA PageStep == IInv /\ [Next]_vars => EveryRowOnce'
<1> SUFFICES ASSUME IInv, [Next]_vars PROVE EveryRowOnce'
    OBVIOUS
<1>1. /\ rows \in Seq(Row) /\ after \in Nat
      /\ Len(rows) \in Nat /\ after <= Len(rows)
      /\ seen = SubSeq(rows, 1, after)
    BY LenProperties DEF IInv, TypeOK, EveryRowOnce
<1>2. CASE UNCHANGED <<rows, after, seen>>
    BY <1>2 DEF IInv, EveryRowOnce
<1>3. ASSUME NEW p \in Process, Insert(p) PROVE EveryRowOnce'
    <2>1. PICK ts \in 0 .. MaxTime : rows' = Append(rows, [kind |-> KindOf[p], ts |-> ts])
        BY <1>3 DEF Insert
    <2> DEFINE r == [kind |-> KindOf[p], ts |-> ts]
    <2>2. r \in Row
        BY KindAssumption DEF Row
    <2>3. Append(rows, r) = rows \o <<r>> /\ Len(Append(rows, r)) = Len(rows) + 1
        BY <1>1, <2>2, AppendProperties, AppendIsConcat
    <2>4. SubSeq(rows \o <<r>>, 1, after) = SubSeq(rows, 1, after)
        BY <1>1, <2>2, SubSeqOfConcat1
    <2> QED
        BY <1>1, <1>3, <2>1, <2>3, <2>4 DEF Insert, EveryRowOnce
<1>4. CASE Pull
    <2> DEFINE hi == after + PageLength(after)
    <2>1. hi \in Nat /\ after <= hi /\ hi <= Len(rows)
        BY <1>1, PageLengthBound DEF IInv
    <2>2. SubSeq(rows, 1, after) \o SubSeq(rows, after + 1, hi) = SubSeq(rows, 1, hi)
        BY <1>1, <2>1, ConcatAdjacentSubSeq
    <2>3. after' = hi
        BY <1>1, <1>4, SinceIdIsPage DEF Pull, IInv
    <2>4. seen' = SubSeq(rows, 1, hi)
        BY <1>1, <1>4, <2>2 DEF Pull, SinceId
    <2> QED
        BY <1>4, <2>1, <2>3, <2>4 DEF Pull, EveryRowOnce
<1> QED
    BY <1>2, <1>3, <1>4 DEF Next, vars, Look, CreateTable, CreateTableFails, CreateIndex,
                            CheckSchemaMatches, Fail
-----------------------------------------------------------------------------
(* The table *)

\* A table is created once: from then on it keeps its kind.
LEMMA TableStays ==
    ASSUME IInv, [Next]_vars, table # NoTable
    PROVE  table' = table
    BY DEF Next, vars, Look, CreateTable, CreateTableFails, CreateIndex,
           CheckSchemaMatches, Insert, Fail, Pull

\* What the stages of the processes say of the table stays true.
LEMMA StageStep ==
    ASSUME IInv, [Next]_vars, NEW q \in Process
    PROVE  /\ stage'[q] \in {"index", "check", "insert"} => table' # NoTable
           /\ stage'[q] \in {"index", "insert"} => table' = KindOf[q]
<1> USE KindAssumption, TableStays DEF IInv, TypeOK, SchemaFixed, InsertsFit
<1>1. CASE stage'[q] = stage[q]
    BY <1>1
<1>2. CASE stage'[q] # stage[q]
    <2>1. \/ Look(q) \/ CreateTable(q) \/ CreateTableFails(q) \/ CreateIndex(q)
          \/ CheckSchemaMatches(q) \/ Insert(q) \/ Fail(q)
        BY <1>2 DEF Next, vars, Goto, Look, CreateTable, CreateTableFails, CreateIndex,
                    CheckSchemaMatches, Insert, Fail, Pull
    <2> QED
        BY <2>1 DEF Goto, Look, CreateTable, CreateTableFails, CreateIndex,
                    CheckSchemaMatches, Insert, Fail
<1> QED
    BY <1>1, <1>2

\* Every row stays of the table's kind.
LEMMA RowsStep ==
    ASSUME IInv, [Next]_vars
    PROVE  \A n \in DOMAIN rows' : rows'[n].kind = table'
<1>1. rows \in Seq(Row) /\ \A n \in DOMAIN rows : rows[n].kind = table
    BY DEF IInv, TypeOK, SchemaFixed
<1>2. CASE rows' = rows
    <2>1. ASSUME NEW n \in DOMAIN rows PROVE rows[n].kind = table'
        <3>1. rows[n] \in Row
            BY <1>1
        <3>2. table # NoTable
            BY <1>1, <3>1, KindAssumption DEF Row
        <3> QED
            BY <1>1, <3>2, TableStays
    <2> QED
        BY <1>2, <2>1
<1>3. ASSUME NEW p \in Process, Insert(p)
      PROVE  \A n \in DOMAIN rows' : rows'[n].kind = table'
    <2>1. PICK ts \in 0 .. MaxTime : rows' = Append(rows, [kind |-> KindOf[p], ts |-> ts])
        BY <1>3 DEF Insert
    <2>2. table' = table /\ table = KindOf[p]
        BY <1>3 DEF Insert, IInv, InsertsFit
    <2> DEFINE r == [kind |-> KindOf[p], ts |-> ts]
    <2>3. r \in Row /\ r.kind = KindOf[p]
        BY KindAssumption DEF Row
    <2> HIDE DEF r
    <2>4. ASSUME NEW n \in 1 .. Len(rows) + 1 PROVE Append(rows, r)[n].kind = table
        BY <1>1, <2>2, <2>3, AppendProperties
    <2>5. DOMAIN Append(rows, r) = 1 .. Len(rows) + 1
        BY <1>1, <2>3, AppendProperties
    <2> QED
        BY <2>1, <2>2, <2>4, <2>5 DEF r
<1> QED
    BY <1>2, <1>3 DEF Next, vars, Look, CreateTable, CreateTableFails, CreateIndex,
                      CheckSchemaMatches, Fail, Pull

\* Whoever has lost a reading does not come to CREATE TABLE again.
LEMMA BeatenStep == IInv /\ [Next]_vars => BeatenOnce'
<1> SUFFICES ASSUME IInv, [Next]_vars, NEW q \in Process
             PROVE  /\ beaten'[q] \in 0 .. 1
                    /\ beaten'[q] = 1 => table' # NoTable /\ stage'[q] # "create"
    BY DEF BeatenOnce
<1> USE TableStays DEF IInv, TypeOK, BeatenOnce
<1>1. CASE stage'[q] = stage[q] /\ beaten'[q] = beaten[q]
    BY <1>1
<1>2. CASE ~ (stage'[q] = stage[q] /\ beaten'[q] = beaten[q])
    <2>1. \/ Look(q) \/ CreateTable(q) \/ CreateTableFails(q) \/ CreateIndex(q)
          \/ CheckSchemaMatches(q) \/ Insert(q) \/ Fail(q)
        BY <1>2 DEF Next, vars, Goto, Look, CreateTable, CreateTableFails, CreateIndex,
                    CheckSchemaMatches, Insert, Fail, Pull
    <2>2. CASE CreateTableFails(q)
        BY <2>2 DEF CreateTableFails, Goto
    <2>3. CASE ~ CreateTableFails(q)
        BY <2>1, <2>3 DEF Goto, Look, CreateTable, CreateIndex, CheckSchemaMatches,
                          Insert, Fail
    <2> QED
        BY <2>2, <2>3
<1> QED
    BY <1>1, <1>2

-----------------------------------------------------------------------------
(* The theorems *)

LEMMA Invariance == Spec => []IInv
<1>1. IInv /\ [Next]_vars => IInv'
    BY TypeStep, PageStep, StageStep, RowsStep, BeatenStep
    DEF IInv, SchemaFixed, InsertsFit
<1> QED
    BY InitIInv, <1>1, PTL DEF Spec

\* Every reachable state has the right types.
THEOREM TypeCorrect == Spec => []TypeOK
<1>1. IInv => TypeOK
    BY DEF IInv
<1> QED
    BY Invariance, <1>1, PTL

\* A file holds readings of one kind, whichever processes write to it, and nothing gets
\* to an insert without a table (ensure_table, check_schema_matches).
THEOREM OneKindPerFile == Spec => []SchemaFixed
<1>1. IInv => SchemaFixed
    BY DEF IInv
<1> QED
    BY Invariance, <1>1, PTL

\* A consumer that passes the last id on is given every row once, whatever the clock
\* and the page size (since_id).
THEOREM EveryRowPulledOnce == Spec => []EveryRowOnce
<1>1. IInv => EveryRowOnce
    BY DEF IInv
<1> QED
    BY Invariance, <1>1, PTL

\* However many processes start on a fresh file, each loses one reading to the creation
\* of the table at most (ensure_table).
THEOREM AtMostOneLost == Spec => []LosesOneAtMost
<1>1. IInv => LosesOneAtMost
    BY DEF IInv, BeatenOnce, LosesOneAtMost
<1> QED
    BY Invariance, <1>1, PTL

-----------------------------------------------------------------------------
(* The copy *)

\* What a beginning of a sequence has in common with it.
LEMMA Beginning ==
    ASSUME NEW all \in Seq(Row), NEW a \in Nat, a <= Len(all), NEW part, part = SubSeq(all, 1, a)
    PROVE  {n \in DOMAIN part : n \in DOMAIN all /\ part[n] = all[n]} = 1 .. a
<1>1. Len(all) \in Nat /\ \A i \in 1 .. a : i \in 1 .. Len(all) /\ all[i] \in Row
    BY LenProperties
<1>2. Len(part) = a /\ \A i \in 1 .. a : part[i] = all[i]
    BY <1>1, SubSeqProperties
<1>3. DOMAIN part = 1 .. a /\ DOMAIN all = 1 .. Len(all)
    BY <1>1, <1>2, SubSeqProperties
<1> QED
    BY <1>1, <1>2, <1>3

\* The consumer's copy is the rows up to its cursor.
LEMMA CopyIsBeginning ==
    ASSUME TypeOK, EveryRowOnce
    PROVE  Copied = 1 .. after
    BY Beginning DEF TypeOK, EveryRowOnce, Copied

LEMMA TransferInit == Init => Transfer!Init
<1> SUFFICES ASSUME Init PROVE Transfer!Init
    OBVIOUS
<1>1. Len(rows) = 0 /\ Copied = {}
    BY DEF Init, Copied
<1> QED
    BY <1>1 DEF Transfer!Init

\* An insert adds a row to the history, a page that is not empty adds to the copy the rows
\* after its end, and nothing else changes either.
LEMMA TransferStep ==
    IInv /\ IInv' /\ [Next]_vars =>
        [Transfer!Next]_<<[f \in {1} |-> Len(rows)], {[file |-> 1, idx |-> n] : n \in Copied}>>
<1> DEFINE length == [f \in {1} |-> Len(rows)]
           Block(ids) == {[file |-> 1, idx |-> n] : n \in ids}
<1> SUFFICES ASSUME IInv, IInv', [Next]_vars
             PROVE  Transfer!Next \/ (length' = length /\ Block(Copied)' = Block(Copied))
    OBVIOUS
<1>1. /\ Copied = 1 .. after /\ rows \in Seq(Row) /\ Len(rows) \in Nat
      /\ after \in Nat /\ after <= Len(rows)
    BY CopyIsBeginning, LenProperties DEF IInv, TypeOK, EveryRowOnce
<1>2. /\ Copied' = 1 .. after'
      /\ after' \in Nat /\ after' <= Len(rows')
    <2>1. TypeOK' /\ EveryRowOnce'
        BY DEF IInv
    <2>2. rows' \in Seq(Row) /\ after' \in Nat /\ after' <= Len(rows') /\ seen' = SubSeq(rows', 1, after')
        BY <2>1 DEF TypeOK, EveryRowOnce
    <2> QED
        BY <2>2, Beginning DEF Copied
<1>3. CASE UNCHANGED <<rows, after>>
    BY <1>1, <1>2, <1>3
<1>4. ASSUME NEW p \in Process, Insert(p) PROVE Transfer!Next
    <2>1. PICK ts \in 0 .. MaxTime : rows' = Append(rows, [kind |-> KindOf[p], ts |-> ts])
        BY <1>4 DEF Insert
    <2>2. [kind |-> KindOf[p], ts |-> ts] \in Row
        BY KindAssumption DEF Row
    <2>3. Len(rows') = Len(rows) + 1
        BY <1>1, <2>1, <2>2, AppendProperties
    <2>4. length' = [length EXCEPT ![1] = @ + 1]
        BY <2>3
    <2>5. Block(Copied)' = Block(Copied)
        BY <1>1, <1>2, <1>4 DEF Insert
    <2> QED
        BY <2>4, <2>5 DEF Transfer!Next, Transfer!Grow
<1>5. CASE Pull /\ after' # after
    <2>1. after' = after + PageLength(after) /\ PageLength(after) \in Nat /\ rows' = rows
        BY <1>1, <1>5, SinceIdIsPage, PageLengthBound DEF Pull, IInv
    <2>2. after' \in after + 1 .. Len(rows)
        BY <1>1, <1>2, <1>5, <2>1
    <2>3. Block(Copied)' = Block(Copied) \cup Transfer!Block(1, after, after')
        BY <1>1, <1>2, <2>2 DEF Transfer!Block
    <2>4. after \in Transfer!Boundary
        <3>1. CASE after = 0
            BY <3>1 DEF Transfer!Boundary
        <3>2. CASE after # 0
            <4>1. after \in Copied /\ [file |-> 1, idx |-> after].idx = after
                BY <1>1, <3>2
            <4> QED
                BY <4>1 DEF Transfer!Boundary
        <3> QED
            BY <3>1, <3>2
    <2>5. length' = length /\ length[1] = Len(rows)
        BY <2>1
    <2> QED
        BY <2>2, <2>3, <2>4, <2>5 DEF Transfer!Next, Transfer!Copy
<1> QED
    BY <1>3, <1>4, <1>5 DEF Next, vars, Look, CreateTable, CreateTableFails, CreateIndex,
                            CheckSchemaMatches, Fail, Pull

\* A consumer of the file keeps a copy of its history that grows by whole pages, each from
\* where the one before it ended: the store and its consumer implement HistoryTransfer.
THEOREM Refinement == Spec => CopiesRows
<1>1. Init => Transfer!Init
    BY TransferInit
<1>2. IInv /\ IInv' /\ [Next]_vars =>
          [Transfer!Next]_<<[f \in {1} |-> Len(rows)], {[file |-> 1, idx |-> n] : n \in Copied}>>
    BY TransferStep
<1> QED
    BY <1>1, <1>2, Invariance, PTL DEF Spec, CopiesRows, Transfer!Spec

=============================================================================
