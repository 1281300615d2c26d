---------------------------- MODULE WebApiProofs ----------------------------
(***************************************************************************)
(* Proofs about WebApi, for any gateways, pollers and limits, and however  *)
(* batches, failures and polls interleave.                                 *)
(*                                                                         *)
(* Every step is one of ServerStore's or leaves its state alone, so that   *)
(* its invariants hold here too.  On top of them: the committed rows only  *)
(* grow at their end (RowsInv is about which they are, TableInv about      *)
(* their order), and a poller has read up to some place among them.  The   *)
(* live measurement is followed back to its gateway's file (NewestInv).    *)
(***************************************************************************)
EXTENDS WebApi, ServerStoreProofs

\* The committed rows by id are rows of the database, and the transaction goes on from them.
TableInv ==
    /\ table \in Seq(Row) /\ txTable \in Seq(Row)
    /\ \A id \in 1 .. Len(table) : table[id] \in readings
    /\ \A id \in 1 .. Len(txTable) : txTable[id] \in txReadings
    /\ Len(table) <= Len(txTable)
    /\ \A id \in 1 .. Len(table) : txTable[id] = table[id]

\* A poller goes on from an id that is there.
PollInv ==
    /\ cut \in [Filter -> BOOLEAN]
    /\ given \in [Filter -> SUBSET Answered]
    /\ after \in [Filter -> Nat]
    /\ \A f \in Filter : after[f] <= Len(table)
    /\ GivenRowsStay
    /\ PollersMissNothing

\* The live measurement and the replies that wait.
LiveInv == arrived \subseteq Gateway /\ live \in Measurement \cup {None}

WebInv == IInv /\ TableInv /\ PollInv /\ LiveInv
-----------------------------------------------------------------------------
(* The store under the web API *)

\* A step of the whole is a step of the store or leaves it alone.
LEMMA StoreStep ==
    ASSUME [WebNext]_webVars
    PROVE  [Next]_vars
<1>1. CASE GatewayStep
    BY <1>1 DEF GatewayStep, Next
<1>2. CASE Insert \/ OtherStatement \/ CommitRows \/ RollBackRows \/ RestartAll \/ StayCalm
    BY <1>2 DEF Insert, OtherStatement, CommitRows, RollBackRows, RestartAll, StayCalm, Next, Statement
<1>3. ASSUME NEW g \in Gateway, Mirror(g) \/ Lock(g) PROVE [Next]_vars
    BY <1>3 DEF Mirror, Lock, Next
<1>4. ASSUME NEW f \in Filter, Poll(f) PROVE [Next]_vars
    BY <1>4 DEF Poll
<1>5. CASE UNCHANGED webVars
    BY <1>5 DEF webVars
<1> QED
    BY <1>1, <1>2, <1>3, <1>4, <1>5 DEF WebNext

LEMMA StoreInv ==
    ASSUME IInv, [WebNext]_webVars
    PROVE  IInv'
BY StoreStep, TypeStep, TxStep DEF IInv

\* A step that changes no row and no id.
LEMMA TableSame ==
    ASSUME TableInv, UNCHANGED <<table, txTable, readings, txReadings>>
    PROVE  TableInv'
BY DEF TableInv

LEMMA TableStep ==
    ASSUME IInv, TableInv, [WebNext]_webVars
    PROVE  TableInv'
<1>1. CASE GatewayStep \/ OtherStatement \/ StayCalm \/ UNCHANGED webVars
    <2>1. UNCHANGED <<table, txTable, readings, txReadings>>
        BY <1>1 DEF GatewayStep, OtherStatement, StayCalm, TakeReading, RecreateDatabase, NewSession,
           EnsureColumns, ColumnsDone, SetCursor, CalmDown, web, rowIds, webVars, vars, tables, txTables
    <2> QED
        BY <2>1, TableSame
<1>2. ASSUME NEW g \in Gateway, Mirror(g) PROVE TableInv'
    <2>1. UNCHANGED <<table, txTable, readings, txReadings>>
        BY <1>2 DEF Mirror, rowIds, vars, tables, txTables
    <2> QED
        BY <2>1, TableSame
<1>3. ASSUME NEW f \in Filter, Poll(f) PROVE TableInv'
    <2>1. UNCHANGED <<table, txTable, readings, txReadings>>
        BY <1>3 DEF Poll, rowIds, vars, tables, txTables
    <2> QED
        BY <2>1, TableSame
<1>4. ASSUME NEW g \in Gateway, Lock(g) PROVE TableInv'
    BY <1>4 DEF Lock, Begin, TableInv, tables
<1>5. CASE Insert
    <2>1. batch[at + 1] \in Row
        BY <1>5 DEF Insert, InsertRow, IInv, TypeOK
    <2>2. UNCHANGED <<table, readings>>
        BY <1>5 DEF Insert, InsertRow, tables
    <2>3. CASE txReadings' = txReadings
        BY <1>5, <2>2, <2>3 DEF Insert, TableInv
    <2>4. CASE txReadings' # txReadings
        <3>1. txReadings' = txReadings \cup {batch[at + 1]}
            BY <1>5, <2>4 DEF Insert, InsertRow
        <3>2. txTable' = Append(txTable, batch[at + 1])
            BY <1>5, <2>4 DEF Insert
        <3> QED
            BY <2>1, <2>2, <3>1, <3>2 DEF TableInv
    <2> QED
        BY <2>3, <2>4
<1>6. CASE CommitRows
    BY <1>6 DEF CommitRows, Commit, TableInv, txTables
<1>7. CASE RollBackRows \/ RestartAll
    <2>1. /\ UNCHANGED <<table, readings>>
          /\ txTable' = table /\ txReadings' = readings
        BY <1>7 DEF RollBackRows, RestartAll, Refuse, Fail, Restart, Rollback, tables
    <2> QED
        BY <2>1 DEF TableInv
<1> QED
    BY <1>1, <1>2, <1>3, <1>4, <1>5, <1>6, <1>7 DEF WebNext
-----------------------------------------------------------------------------
(* The pollers *)

\* The rows by id only grow, and only at their end.
LEMMA TableGrows ==
    ASSUME IInv, TableInv, [WebNext]_webVars
    PROVE  /\ Len(table) \in Nat /\ Len(table') \in Nat /\ Len(table) <= Len(table')
           /\ \A id \in 1 .. Len(table) : table'[id] = table[id]
<1>1. CASE CommitRows
    BY <1>1 DEF CommitRows, TableInv
<1>2. CASE GatewayStep \/ OtherStatement \/ StayCalm \/ Insert \/ RollBackRows \/ RestartAll \/ UNCHANGED webVars
    <2>1. table' = table
        BY <1>2 DEF GatewayStep, OtherStatement, StayCalm, Insert, RollBackRows, RestartAll, web, rowIds, webVars
    <2> QED
        BY <2>1 DEF TableInv
<1>3. ASSUME NEW g \in Gateway, Mirror(g) \/ Lock(g) PROVE table' = table
    BY <1>3 DEF Mirror, Lock, rowIds
<1>4. ASSUME NEW f \in Filter, Poll(f) PROVE table' = table
    BY <1>4 DEF Poll, rowIds
<1> QED
    BY <1>1, <1>2, <1>3, <1>4 DEF WebNext, TableInv

\* Whatever happens to the store, a poller's rows stay; new ones get ids it has not passed.
LEMMA PollersSame ==
    ASSUME IInv, TableInv, PollInv, [WebNext]_webVars, UNCHANGED pollers
    PROVE  PollInv'
<1>1. /\ Len(table) \in Nat /\ Len(table') \in Nat /\ Len(table) <= Len(table')
      /\ \A id \in 1 .. Len(table) : table'[id] = table[id]
    BY TableGrows
<1>2. table \in Seq(Row) /\ table' \in Seq(Row)
    BY TableStep DEF TableInv
<1>3. DOMAIN table = 1 .. Len(table) /\ DOMAIN table' = 1 .. Len(table')
    BY <1>2
<1>4. cut' = cut /\ given' = given /\ after' = after
    BY DEF pollers
<1>5. GivenRowsStay'
    BY <1>1, <1>3, <1>4 DEF PollInv, GivenRowsStay
<1>6. PollersMissNothing'
    <2>1. ASSUME NEW f \in Filter, ~cut[f], NEW id \in DOMAIN table',
                 id <= after[f], f \in {None, table'[id].gateway}
          PROVE  \E a \in given[f] : a.id = id
        <3>1. id \in DOMAIN table /\ table'[id] = table[id]
            BY <1>1, <1>3, <2>1 DEF PollInv
        <3> QED
            BY <2>1, <3>1 DEF PollInv, PollersMissNothing
    <2>2. \A f \in Filter : \A a \in given[f] : a.id <= after[f]
        BY DEF PollInv, PollersMissNothing
    <2> QED
        BY <1>4, <2>1, <2>2 DEF PollersMissNothing
<1>7. \A f \in Filter : after'[f] <= Len(table')
    BY <1>1, <1>4 DEF PollInv
<1> QED
    BY <1>4, <1>5, <1>6, <1>7 DEF PollInv

\* A row answered is the row as it is, and of the right type: its values have columns.
LEMMA RowAnswered ==
    ASSUME IInv, TableInv, NEW id \in 1 .. Len(table)
    PROVE  RowToJson(table, id) \in Answered /\ RowToJson(table, id) = [id |-> id, row |-> table[id]]
<1>1. table[id] \in Row /\ table[id].names \subseteq columns
    BY DEF TableInv, IInv, TxInv, ColumnsInv
<1>2. [table[id] EXCEPT !.names = @ \cap columns] = table[id]
    BY <1>1 DEF Row
<1>3. Len(table) \in Nat /\ id \in Nat \ {0}
    BY DEF TableInv
<1> QED
    BY <1>1, <1>2, <1>3 DEF RowToJson, Answered

LEMMA LimitType ==
    ASSUME NEW asked \in Limits
    PROVE  Limit(asked) \in Nat
BY LimitAssumption DEF Limit

LEMMA PollStep ==
    ASSUME IInv, TableInv, PollInv, NEW f \in Filter, Poll(f)
    PROVE  PollInv'
<1> DEFINE ids == {id \in DOMAIN table : id > after[f] /\ f \in {None, table[id].gateway}}
<1>1. PICK asked \in Limits, kept \in SUBSET ids :
         /\ IsNewest(kept, ids, Limit(asked))
         /\ given' = [given EXCEPT ![f] = @ \cup {RowToJson(table, id) : id \in kept}]
         /\ \E last \in kept \cup {after[f]} :
               /\ \A k \in kept : k <= last
               /\ after' = [after EXCEPT ![f] = last]
         /\ cut' = [cut EXCEPT ![f] = @ \/ Cardinality(kept) = Limit(asked)]
    BY DEF Poll, Answer
<1>2. PICK last \in kept \cup {after[f]} :
         /\ \A k \in kept : k <= last
         /\ after' = [after EXCEPT ![f] = last]
    BY <1>1
<1>3. table' = table /\ DOMAIN table = 1 .. Len(table) /\ Len(table) \in Nat
    BY DEF Poll, rowIds, TableInv
<1>4. ids \subseteq 1 .. Len(table) /\ \A id \in ids : id > after[f]
    BY <1>3
<1>5. kept \subseteq 1 .. Len(table) /\ \A id \in kept : id > after[f]
    BY <1>4
<1>6. after[f] \in Nat /\ after[f] <= Len(table)
    BY DEF PollInv
<1>7. last \in Nat /\ last <= Len(table) /\ after[f] <= last
    BY <1>2, <1>3, <1>5, <1>6
<1> HIDE DEF ids
<1>8. after' \in [Filter -> Nat] /\ \A g \in Filter : after'[g] <= Len(table')
    BY <1>2, <1>3, <1>7 DEF PollInv
<1>9. {RowToJson(table, id) : id \in kept} \subseteq Answered
    BY <1>5, RowAnswered
<1>10. given' \in [Filter -> SUBSET Answered]
    BY <1>1, <1>9 DEF PollInv
<1>11. cut' \in [Filter -> BOOLEAN]
    BY <1>1 DEF PollInv
<1>12. GivenRowsStay'
    <2>1. ASSUME NEW a \in {RowToJson(table, id) : id \in kept}
          PROVE  a.id \in DOMAIN table /\ a.row = table[a.id]
        BY <1>3, <1>5, RowAnswered
    <2>2. \A g \in Filter : \A a \in given'[g] : a.id \in DOMAIN table /\ a.row = table[a.id]
        BY <1>1, <2>1 DEF PollInv, GivenRowsStay
    <2> QED
        BY <1>3, <2>2 DEF GivenRowsStay
<1>13. \A g \in Filter : \A a \in given'[g] : a.id <= after'[g]
    <2>1. ASSUME NEW a \in given'[f] PROVE a.id <= last
        <3>1. CASE a \in given[f]
            <4>1. a.id \in Nat /\ a.id <= after[f]
                BY <3>1 DEF PollInv, PollersMissNothing, Answered
            <4> QED
                BY <1>6, <1>7, <4>1
        <3>2. CASE a \in {RowToJson(table, id) : id \in kept}
            BY <1>2, <1>5, <3>2, RowAnswered
        <3> QED
            BY <1>1, <2>1, <3>1, <3>2 DEF PollInv
    <2> QED
        BY <1>1, <1>2, <2>1 DEF PollInv, PollersMissNothing
<1>14. ASSUME NEW g \in Filter, ~cut'[g], NEW id \in DOMAIN table,
              id <= after'[g], g \in {None, table[id].gateway}
       PROVE  \E a \in given'[g] : a.id = id
    <2>1. CASE g # f \/ id <= after[f]
        <3>1. id <= after[g] /\ ~cut[g]
            BY <1>1, <1>2, <1>14, <2>1 DEF PollInv
        <3>2. PICK a \in given[g] : a.id = id
            BY <1>14, <3>1 DEF PollInv, PollersMissNothing
        <3>3. a \in given'[g]
            BY <1>1, <3>2 DEF PollInv
        <3> QED
            BY <3>2, <3>3
    <2>2. CASE g = f /\ ~(id <= after[f])
        <3>1. id \in ids
            BY <1>3, <1>6, <1>14, <2>2 DEF ids
        <3>2. Cardinality(kept) # Limit(asked)
            BY <1>1, <1>14, <2>2 DEF PollInv
        <3>3. kept = ids
            BY <1>1, <3>2 DEF IsNewest
        <3>4. RowToJson(table, id) \in given'[f]
            BY <1>1, <3>1, <3>3 DEF PollInv
        <3>5. RowToJson(table, id).id = id
            BY DEF RowToJson
        <3> QED
            BY <2>2, <3>4, <3>5
    <2> QED
        BY <2>1, <2>2
<1>15. PollersMissNothing'
    BY <1>3, <1>13, <1>14 DEF PollersMissNothing
<1> QED
    BY <1>8, <1>10, <1>11, <1>12, <1>15 DEF PollInv
-----------------------------------------------------------------------------
(* The live measurement *)

\* The newest measurement of a page is one, if the page has any.
LEMMA NewestType ==
    ASSUME IInv, NEW g \in Gateway, PageLength(g, lastIndex[g]) # 0
    PROVE  Newest(g) \in Measurement
<1> DEFINE i == lastIndex[g] + PageLength(g, lastIndex[g])
<1>1. history[g] \in Seq(Reading) /\ Len(history[g]) \in Nat /\ lastIndex[g] \in Nat /\ Batch \in Nat \ {0}
    BY SizeAssumption DEF IInv, TypeOK
<1>2. i \in 1 .. Len(history[g])
    BY <1>1 DEF PageLength
<1> HIDE DEF i
<1>3. history[g][i] \in Reading
    BY <1>1, <1>2
<1>4. history[g][i].fields \in SUBSET Field
    BY <1>3 DEF Reading
<1> USE DEF i
<1> QED
    BY <1>1, <1>2, <1>4 DEF Newest, Measurement

LEMMA LiveStep ==
    ASSUME IInv, LiveInv, [WebNext]_webVars
    PROVE  LiveInv'
<1>1. ASSUME NEW g \in Gateway, Mirror(g) PROVE LiveInv'
    BY <1>1, NewestType DEF Mirror, LiveInv
<1>2. ASSUME NEW g \in Gateway, Lock(g) PROVE LiveInv'
    BY <1>2 DEF Lock, LiveInv
<1>3. ASSUME NEW f \in Filter, Poll(f) PROVE LiveInv'
    BY <1>3 DEF Poll, LiveInv
<1>4. CASE GatewayStep \/ Insert \/ OtherStatement \/ CommitRows \/ RollBackRows \/ StayCalm \/ UNCHANGED webVars
    BY <1>4 DEF GatewayStep, Insert, OtherStatement, CommitRows, RollBackRows, StayCalm, web, webVars, LiveInv
<1>5. CASE RestartAll
    BY <1>5 DEF RestartAll, LiveInv
<1> QED
    BY <1>1, <1>2, <1>3, <1>4, <1>5 DEF WebNext
-----------------------------------------------------------------------------
(* The theorems *)

LEMMA WebInitInv == WebInit => WebInv
<1> SUFFICES ASSUME WebInit PROVE WebInv
    OBVIOUS
<1>1. IInv
    BY TypeInit, TxInit DEF WebInit, IInv
<1>2. TableInv
    <2>1. table = <<>> /\ txTable = <<>>
        BY DEF WebInit
    <2> QED
        BY <2>1 DEF TableInv
<1>3. PollInv
    BY DEF WebInit, PollInv, GivenRowsStay, PollersMissNothing
<1>4. LiveInv
    BY DEF WebInit, LiveInv
<1> QED
    BY <1>1, <1>2, <1>3, <1>4 DEF WebInv

LEMMA WebStepInv ==
    ASSUME WebInv, [WebNext]_webVars
    PROVE  WebInv'
<1>1. IInv' /\ TableInv' /\ LiveInv'
    BY StoreInv, TableStep, LiveStep DEF WebInv
<1>2. ASSUME NEW f \in Filter, Poll(f) PROVE PollInv'
    BY <1>2, PollStep DEF WebInv
<1>3. CASE ~ \E f \in Filter : Poll(f)
    <2>1. UNCHANGED pollers
        BY <1>3 DEF WebNext, GatewayStep, Insert, OtherStatement, CommitRows, RollBackRows, RestartAll,
           StayCalm, Mirror, Lock, web, webVars
    <2>2. PollInv'
        BY <2>1, PollersSame DEF WebInv
    <2> QED
        BY <1>1, <2>2 DEF WebInv
<1> QED
    BY <1>1, <1>2, <1>3 DEF WebInv

LEMMA WebInvariance == WebSpec => []WebInv
    BY WebInitInv, WebStepInv, PTL DEF WebSpec

\* Every reachable state of store, web API and pollers has the right types.
THEOREM WebTypeCorrect == WebSpec => []WebTypeOK
<1>1. WebInv => WebTypeOK
    BY DEF WebInv, WebTypeOK, IInv, TableInv, PollInv, LiveInv
<1> QED
    BY <1>1, WebInvariance, PTL

\* A row a poller was given stays in the database as it was given, whichever statements
\* fail afterwards.
THEOREM GivenStay == WebSpec => []GivenRowsStay
<1>1. WebInv => GivenRowsStay
    BY DEF WebInv, PollInv
<1> QED
    BY <1>1, WebInvariance, PTL

\* A poller all of whose answers were shorter than their limit has every row up to the
\* last one it was given, for any limits, filters and interleavings with batches.
THEOREM NothingMissed == WebSpec => []PollersMissNothing
<1>1. WebInv => PollersMissNothing
    BY DEF WebInv, PollInv
<1> QED
    BY <1>1, WebInvariance, PTL

-----------------------------------------------------------------------------
(* The newest measurement *)

\* The live measurement is one of its gateway's file, and none stored, to be stored or
\* just received is newer.
NewestInv ==
    /\ owner \notin arrived
    /\ live # None /\ file[live.gateway] = 1 =>
          LET g == live.gateway IN
          /\ live.idx \in 1 .. Len(history[g])
          /\ live.fields = history[g][live.idx].fields
          /\ lastIndex[g] <= live.idx
          /\ owner = g => lastIndex[g] + Len(batch) <= live.idx
          /\ g \in arrived => lastIndex[g] + PageLength(g, lastIndex[g]) <= live.idx

\* A page that has come ends within the file.
LEMMA PageWithin ==
    ASSUME IInv, NEW g \in Gateway, lastIndex[g] <= Len(history[g])
    PROVE  /\ lastIndex[g] \in Nat /\ Len(history[g]) \in Nat /\ PageLength(g, lastIndex[g]) \in Nat
           /\ lastIndex[g] + PageLength(g, lastIndex[g]) <= Len(history[g])
<1>1. history[g] \in Seq(Reading) /\ Len(history[g]) \in Nat /\ lastIndex[g] \in Nat /\ Batch \in Nat \ {0}
    BY SizeAssumption DEF IInv, TypeOK
<1> QED
    BY <1>1 DEF PageLength

LEMMA NewestSame ==
    ASSUME NewestInv, UNCHANGED <<owner, arrived, live, file, history, lastIndex, batch>>
    PROVE  NewestInv'
BY DEF NewestInv, PageLength

LEMMA NewestMirror ==
    ASSUME IInv, FirstInv, NewestInv, LiveInv, NEW g \in Gateway, Mirror(g)
    PROVE  NewestInv'
<1>1. /\ owner # g /\ arrived' = arrived \cup {g}
      /\ UNCHANGED <<owner, file, history, lastIndex, batch>>
    BY DEF Mirror, vars, gateways, progress
<1>2. CASE PageLength(g, lastIndex[g]) = 0
    <2>1. live' = live
        BY <1>2 DEF Mirror
    <2>2. lastIndex[g] \in Nat
        BY DEF IInv, TypeOK
    <2> QED
        BY <1>1, <1>2, <2>1, <2>2 DEF NewestInv, PageLength
<1>3. CASE PageLength(g, lastIndex[g]) # 0
    <2> DEFINE i == lastIndex[g] + PageLength(g, lastIndex[g])
    <2>1. live' = Newest(g) /\ live' \in Measurement
        BY <1>3, NewestType DEF Mirror
    <2>2. live'.gateway = g /\ live'.idx = i /\ live'.fields = history[g][i].fields
        BY <2>1 DEF Newest
    <2>3. ASSUME file[g] = 1
          PROVE  i \in 1 .. Len(history[g]) /\ lastIndex[g] <= i
        <3>1. lastIndex[g] <= Len(history[g])
            BY <2>3 DEF FirstInv
        <3>2. PageLength(g, lastIndex[g]) \in Nat \ {0}
            BY <1>3, <3>1, PageWithin
        <3> QED
            BY <3>1, <3>2, PageWithin
    <2>4. i <= i
        <3>1. i = live'.idx /\ live'.idx \in Nat
            BY <2>1, <2>2 DEF Measurement
        <3> QED
            BY <3>1
    <2> QED
        BY <1>1, <2>2, <2>3, <2>4 DEF NewestInv, PageLength
<1> QED
    BY <1>2, <1>3

LEMMA NewestLock ==
    ASSUME IInv, NewestInv, NEW g \in Gateway, Lock(g)
    PROVE  NewestInv'
<1>1. /\ owner = None /\ owner' = g /\ g \in arrived /\ arrived' = arrived \ {g}
      /\ UNCHANGED <<live, file, history, lastIndex>>
    BY DEF Lock, Begin, gateways
<1>2. Len(batch') = PageLength(g, lastIndex[g])
    BY Page DEF Lock, IInv
<1> QED
    BY <1>1, <1>2 DEF NewestInv, PageLength

\* A gateway that takes a reading or has a new session has no reply that waits.
LEMMA NewestGateway ==
    ASSUME IInv, FirstInv, NewestInv, LiveInv, GatewayStep
    PROVE  NewestInv'
<1>1. PICK g \in Gateway \ arrived : TakeReading(g) \/ RecreateDatabase(g) \/ NewSession(g)
    BY DEF GatewayStep
<1>2. UNCHANGED <<arrived, live>>
    BY DEF GatewayStep, web
<1>3. /\ history \in [Gateway -> Seq(Reading)] /\ file \in [Gateway -> Nat \ {0}]
      /\ lastIndex \in [Gateway -> Nat] /\ cursor \in [Gateway -> Nat]
    BY DEF IInv, TypeOK
<1>4. live # None => live.gateway \in Gateway /\ live.idx \in Nat \ {0}
    BY DEF LiveInv, Measurement
<1>5. CASE TakeReading(g)
    <2>1. PICK r : history' = [history EXCEPT ![g] = Append(@, r)]
        BY <1>5 DEF TakeReading
    <2>2. UNCHANGED <<owner, file, lastIndex, batch>>
        BY <1>5 DEF TakeReading, progress
    <2>3. ASSUME NEW h \in Gateway, NEW i \in 1 .. Len(history[h])
          PROVE  i \in 1 .. Len(history'[h]) /\ history'[h][i] = history[h][i]
        BY <1>3, <2>1
    <2>4. \A h \in Gateway : h # g => history'[h] = history[h]
        BY <1>3, <2>1
    <2> QED
        BY <1>2, <1>4, <2>2, <2>3, <2>4 DEF NewestInv, PageLength
<1>6. CASE RecreateDatabase(g)
    <2>1. /\ file' = [file EXCEPT ![g] = @ + 1] /\ history' = [history EXCEPT ![g] = <<>>]
          /\ UNCHANGED <<owner, lastIndex, batch>>
        BY <1>6 DEF RecreateDatabase, progress
    <2>2. file'[g] # 1 /\ \A h \in Gateway \ {g} : file'[h] = file[h] /\ history'[h] = history[h]
        BY <1>3, <2>1
    <2> QED
        BY <1>2, <1>4, <2>1, <2>2 DEF NewestInv, PageLength
<1>7. CASE NewSession(g)
    <2>1. /\ lastIndex' = [lastIndex EXCEPT ![g] = cursor[g]]
          /\ UNCHANGED <<owner, file, history, batch>>
        BY <1>7 DEF NewSession, gateways, progress
    <2>2. \A h \in Gateway : file[h] = 1 => lastIndex'[h] = lastIndex[h]
        BY <1>3, <2>1 DEF FirstInv
    <2> QED
        BY <1>2, <1>4, <2>1, <2>2 DEF NewestInv, PageLength
<1> QED
    BY <1>1, <1>5, <1>6, <1>7

LEMMA NewestCommit ==
    ASSUME IInv, FirstInv, NewestInv, LiveInv, CommitRows
    PROVE  NewestInv'
<1>1. /\ owner \in Gateway /\ owner' = None
      /\ lastIndex' = [lastIndex EXCEPT ![owner] = IF latest < @ THEN 0 ELSE @ + Len(batch)]
      /\ UNCHANGED <<file, history, arrived, live>>
    BY Committed DEF CommitRows, Commit, Finish, gateways
<1>2. lastIndex \in [Gateway -> Nat] /\ latest \in Nat /\ Len(batch) \in Nat
    BY DEF IInv, TypeOK
<1>3. arrived \subseteq Gateway /\ None \notin arrived /\ (live # None => live.gateway \in Gateway)
    BY NoneAssumption DEF LiveInv, Measurement
<1>4. ASSUME file[owner] = 1 PROVE lastIndex'[owner] = lastIndex[owner] + Len(batch)
    <2>1. ~(latest < lastIndex[owner])
        BY <1>1, <1>2, <1>4 DEF FirstInv
    <2> QED
        BY <1>1, <1>2, <2>1
<1>5. \A g \in Gateway \ {owner} : lastIndex'[g] = lastIndex[g]
    BY <1>1, <1>2
<1> QED
    BY <1>1, <1>3, <1>4, <1>5, NoneAssumption DEF NewestInv, PageLength

LEMMA NewestStep ==
    ASSUME WebInv, FirstInv, NewestInv, [WebNext]_webVars
    PROVE  NewestInv'
<1> USE DEF WebInv
<1>1. CASE Insert \/ OtherStatement \/ StayCalm \/ UNCHANGED webVars
    <2>1. UNCHANGED <<owner, arrived, live, file, history, lastIndex, batch>>
        BY <1>1 DEF Insert, OtherStatement, StayCalm, InsertRow, EnsureColumns, ColumnsDone, SetCursor,
           CalmDown, gateways, progress, web, webVars, vars
    <2> QED
        BY <2>1, NewestSame
<1>2. ASSUME NEW f \in Filter, Poll(f) PROVE NewestInv'
    <2>1. UNCHANGED <<owner, arrived, live, file, history, lastIndex, batch>>
        BY <1>2 DEF Poll, gateways, progress, vars
    <2> QED
        BY <2>1, NewestSame
<1>3. CASE RollBackRows
    <2>1. owner' = None /\ UNCHANGED <<arrived, live, file, history, lastIndex>>
        BY <1>3 DEF RollBackRows, Refuse, Fail, Rollback, Finish, gateways
    <2>2. None \notin arrived /\ (live # None => live.gateway \in Gateway)
        BY NoneAssumption DEF LiveInv, Measurement
    <2> QED
        BY <2>1, <2>2, NoneAssumption DEF NewestInv, PageLength
<1>4. CASE RestartAll
    <2>1. live' = None /\ arrived' = {}
        BY <1>4 DEF RestartAll
    <2> QED
        BY <2>1 DEF NewestInv
<1> QED
    BY <1>1, <1>2, <1>3, <1>4, NewestGateway, NewestMirror, NewestLock, NewestCommit DEF WebNext

LEMMA NewestLive ==
    ASSUME WebInv, NewestInv
    PROVE  LiveIsNewest
<1> SUFFICES ASSUME live # None, \A g \in Gateway : file[g] = 1 /\ lastIndex[g] = Len(history[g])
             PROVE  \E g \in Gateway :
                       /\ history[g] # <<>>
                       /\ Harmonics = DeriveHarmonics([idx |-> Len(history[g]), fields |-> history[g][Len(history[g])].fields])
    BY DEF LiveIsNewest
<1> DEFINE g == live.gateway
<1>1. g \in Gateway /\ live.idx \in Nat
    BY DEF WebInv, LiveInv, Measurement
<1>2. history[g] \in Seq(Reading) /\ Len(history[g]) \in Nat
    BY <1>1 DEF WebInv, IInv, TypeOK
<1>3. live.idx \in 1 .. Len(history[g]) /\ live.fields = history[g][live.idx].fields /\ Len(history[g]) <= live.idx
    BY <1>1 DEF NewestInv
<1>4. live.idx = Len(history[g]) /\ history[g] # <<>>
    BY <1>2, <1>3
<1> DEFINE m == [idx |-> Len(history[g]), fields |-> history[g][Len(history[g])].fields]
<1>5. m.idx = live.idx /\ m.fields = live.fields
    BY <1>3, <1>4
<1> HIDE DEF m
<1>6. Harmonics = DeriveHarmonics(m)
    BY <1>5 DEF Harmonics, DeriveHarmonics
<1> QED
    BY <1>1, <1>4, <1>6 DEF m

LEMMA NewestInit == WebInit => NewestInv
BY DEF WebInit, NewestInv

LEMMA StoreFiles ==
    ASSUME FilesInv, FirstInv, [WebNext]_webVars
    PROVE  FilesInv' /\ FirstInv'
BY StoreStep, FilesStep, FirstStep DEF FilesInv

LEMMA WebFiles == WebSpec => [](FilesInv /\ FirstInv)
<1>1. WebInit => FilesInv /\ FirstInv
    BY FilesInit, FirstInit DEF WebInit
<1> QED
    BY <1>1, StoreFiles, PTL DEF WebSpec

\* Once everything has been pulled, the harmonics are those of a gateway's newest reading,
\* in whatever order replies arrived, waited for the lock, were stored or refused.
THEOREM LiveNewest == WebSpec => []LiveIsNewest
<1>1. WebInv /\ FirstInv /\ NewestInv /\ [WebNext]_webVars => NewestInv'
    BY NewestStep
<1>2. WebInv /\ NewestInv => LiveIsNewest
    BY NewestLive
<1> QED
    BY <1>1, <1>2, NewestInit, WebInvariance, WebFiles, PTL DEF WebSpec

-----------------------------------------------------------------------------
(* What the store promises still holds *)

\* With pollers and replies that wait for the lock, batches are still recorded whole, each
\* reading once and with their cursor.
THEOREM WebRecords == WebSpec => RecordsBatches
<1>1. WebInit => Promise!Init
    BY DEF WebInit, Init, Promise!Init
<1>2. IInv /\ [WebNext]_webVars => [Promise!Next]_StoreVars
    BY StoreStep, PromiseStep
<1>3. WebInv => IInv
    BY DEF WebInv
<1> QED
    BY <1>1, <1>2, <1>3, WebInvariance, PTL DEF WebSpec, RecordsBatches, Promise!Spec, StoreVars

\* A gateway's first file is copied row by row here too.
THEOREM WebFirstFile == WebSpec => []FirstFileCopied
<1>1. FilesInv /\ FirstInv => FirstFileCopied
    BY FirstCopied
<1> QED
    BY <1>1, WebFiles, PTL

\* And each reading of a batch that was recorded is in the database itself.
THEOREM WebToldApart == WebSpec => RunsToldApart
<1>1. FilesInv /\ FirstInv => (Commit => \A n \in DOMAIN batch : batch[n] \in readings')
    BY CommitHas
<1> QED
    BY <1>1, WebFiles, PTL DEF WebSpec, RunsToldApart

=============================================================================
