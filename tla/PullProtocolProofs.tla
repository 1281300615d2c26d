-------------------------- MODULE PullProtocolProofs --------------------------
(***************************************************************************)
(* Proofs about PullProtocol, for every number of tunnels, rows, files and *)
(* every batch size.                                                       *)
(*                                                                         *)
(* The inductive invariant IInv ties a session's last_index to what is in  *)
(* flight on its tunnel: a request asks for exactly that index, a reply    *)
(* holds exactly the rows that follow it, and never both.  So when a reply *)
(* is recorded, the rows it adds close up with those already stored.       *)
(***************************************************************************)
EXTENDS PullProtocol, SequenceTheorems, TLAPS

-----------------------------------------------------------------------------
(* Lemmas on the operators *)

\* The index after a page is the end of the page.
LEMMA NewLastIndexOfRows ==
    ASSUME NEW f, NEW lo \in Nat, NEW hi \in Nat, lo <= hi
    PROVE  NewLastIndex(lo, Rows(f, lo, hi)) = hi
<1> DEFINE S == {lo} \cup Indices(Rows(f, lo, hi))
<1>1. S = lo .. hi
    <2>1. ASSUME NEW r \in Rows(f, lo, hi) PROVE r.idx \in lo+1 .. hi
        BY DEF Rows
    <2>2. ASSUME NEW i \in lo+1 .. hi PROVE \E r \in Rows(f, lo, hi) : r.idx = i
        <3>1. [file |-> f, idx |-> i] \in Rows(f, lo, hi)
            BY DEF Rows
        <3> QED
            BY <3>1
    <2>3. Indices(Rows(f, lo, hi)) = lo+1 .. hi
        BY <2>1, <2>2 DEF Indices
    <2> QED
        BY <2>3
<1>2. hi \in S /\ \A y \in S : hi >= y
    BY <1>1
<1>3. \A x \in S : (\A y \in S : x >= y) => x = hi
    BY <1>1
<1>4. Max(S) = hi
    BY <1>2, <1>3 DEF Max
<1> QED
    BY <1>4 DEF NewLastIndex

\* A page from since_id is a run of rows of the gateway's file that starts just
\* above the index asked for; it is empty when the file ends below that index.
LEMMA SinceIdIsRows ==
    ASSUME NEW n \in Nat, NEW after \in Nat
    PROVE  \E hi \in Nat : /\ after <= hi
                           /\ hi = after \/ hi <= n
                           /\ SinceId(n, after) = Rows(file, after, hi)
<1> USE BatchAssumption
<1>1. CASE n <= after
    <2>1. SinceId(n, after) = Rows(file, after, after)
        BY <1>1 DEF SinceId, Rows
    <2> QED
        BY <2>1
<1>2. CASE after < n /\ n <= after + Batch
    <2>1. {j \in 1 .. n : after < j /\ j <= after + Batch} = after+1 .. n
        BY <1>2
    <2>2. SinceId(n, after) = Rows(file, after, n)
        BY <2>1 DEF SinceId, Rows
    <2> QED
        BY <1>2, <2>2
<1>3. CASE after + Batch < n
    <2>1. {j \in 1 .. n : after < j /\ j <= after + Batch} = after+1 .. after + Batch
        BY <1>3
    <2>2. SinceId(n, after) = Rows(file, after, after + Batch)
        BY <2>1 DEF SinceId, Rows
    <2> QED
        BY <1>3, <2>2
<1> QED
    BY <1>1, <1>2, <1>3

\* A channel with one message is empty once that message is taken.
LEMMA OneMessage ==
    ASSUME NEW S, NEW s \in Seq(S), s # <<>>, Len(s) <= 1
    PROVE  Len(s) = 1 /\ Tail(s) = <<>>
<1>1. Len(s) \in Nat /\ Len(s) # 0
    OBVIOUS
<1>2. Len(s) = 1
    BY <1>1
<1>3. Tail(s) \in Seq(S) /\ Len(Tail(s)) = 0
    BY <1>2
<1>4. Tail(s) = <<>>
    BY <1>3, EmptySeq
<1> QED
    BY <1>2, <1>4

LEMMA RowsAreReadings ==
    ASSUME NEW f \in File, NEW lo \in Nat, NEW hi \in Index
    PROVE  Rows(f, lo, hi) \subseteq Reading
BY BoundAssumption DEF Rows, Reading, File, Index

-----------------------------------------------------------------------------
(* The inductive invariant *)

\* `data` is a run of rows that follow index `last`, of one of the files 0 .. top,
\* whose lengths are `len`.
Follows(data, last, top, len) ==
    \E f \in 0 .. top : \E hi \in Index :
        /\ last <= hi
        /\ hi = last \/ hi <= len[f]
        /\ data = Rows(f, last, hi)

Continues(reply, last) == reply.kind = "data" => Follows(reply.data, last, file, length)

\* The gateway is in handle_line for a request of tunnel t.
Answering(t) == answering /\ active = t

TunnelInv(t) ==
    /\ status[t] # "live" => ~awaiting[t] /\ replies[t] = <<>>
    /\ status[t] = "opening" => requests[t] = <<>> /\ ~Answering(t)
    /\ status[t] = "closed" /\ active # t => requests[t] = <<>>
    /\ Len(requests[t]) <= 1
    /\ Answering(t) => requests[t] = <<>>
    /\ status[t] = "live" /\ requests[t] # <<>> =>
          awaiting[t] /\ replies[t] = <<>> /\ Head(requests[t]) = lastIndex[t]
    /\ status[t] = "live" /\ Answering(t) =>
          awaiting[t] /\ replies[t] = <<>> /\ Follows(page, lastIndex[t], file, length)
    /\ replies[t] # <<>> =>
          /\ awaiting[t] /\ requests[t] = <<>> /\ ~Answering(t)
          /\ Len(replies[t]) = 1
          /\ Continues(Head(replies[t]), lastIndex[t])

TunnelsInv == \A t \in Tunnel : TunnelInv(t)

StoreInv ==
    /\ NoSkip
    /\ CursorBacked
    /\ file = 0 => \A t \in Tunnel : Rows(0, 0, lastIndex[t]) \subseteq stored

\* An answer belongs to the gateway's tunnel.
AnswerInv == answering => active \in Tunnel

IInv == TypeOK /\ AnswerInv /\ TunnelsInv /\ StoreInv

\* What a session records: the rows that follow its index, up to its new one.
LEMMA RecordedRows ==
    ASSUME IInv, NEW t \in Tunnel, TakeReply(t), Head(replies[t]).kind = "data"
    PROVE  LET reply == Head(replies[t])
               new == NewLastIndex(lastIndex[t], reply.data)
           IN  /\ new \in Index
               /\ lastIndex[t] <= new
               /\ \E f \in 0 .. file : /\ reply.data = Rows(f, lastIndex[t], new)
                                       /\ new = lastIndex[t] \/ new <= length[f]
<1> DEFINE reply == Head(replies[t])
<1>1. TunnelInv(t) /\ replies[t] # <<>>
    BY DEF IInv, TunnelsInv, TakeReply
<1>2. lastIndex[t] \in Nat
    BY BoundAssumption DEF IInv, TypeOK, Index
<1>3. Continues(reply, lastIndex[t])
    BY <1>1 DEF TunnelInv
<1>4. PICK f \in 0 .. file, hi \in Index :
          /\ lastIndex[t] <= hi
          /\ hi = lastIndex[t] \/ hi <= length[f]
          /\ reply.data = Rows(f, lastIndex[t], hi)
    BY <1>3 DEF Continues, Follows
<1>5. hi \in Nat
    BY BoundAssumption DEF Index
<1>6. NewLastIndex(lastIndex[t], reply.data) = hi
    BY <1>2, <1>4, <1>5, NewLastIndexOfRows
<1> QED
    BY <1>4, <1>6

-----------------------------------------------------------------------------
(* Type correctness is preserved *)

LEMMA SinceIdType ==
    ASSUME TypeOK, NEW n \in Index, NEW after \in Index
    PROVE  SinceId(n, after) \in SUBSET Reading
<1>0. n \in Nat /\ after \in Nat
    BY BoundAssumption DEF Index
<1>1. PICK hi \in Nat : /\ after <= hi
                        /\ hi = after \/ hi <= n
                        /\ SinceId(n, after) = Rows(file, after, hi)
    BY <1>0, SinceIdIsRows
<1>2. hi \in Index /\ file \in File
    BY <1>1, BoundAssumption DEF Index, TypeOK
<1> QED
    BY <1>0, <1>1, <1>2, RowsAreReadings

LEMMA TakeRequestType ==
    ASSUME TypeOK, NEW t \in Tunnel, TakeRequest(t)
    PROVE  /\ length' \in [File -> Index] /\ requests' \in [Tunnel -> Seq(Index)]
           /\ Head(requests[t]) \in Index
<1>1. AfterInsert \subseteq Index
    BY DEF AfterInsert, TypeOK, Index
<1>2. requests[t] \in Seq(Index) /\ requests[t] # <<>>
    BY DEF TakeRequest, TypeOK
<1>3. Tail(requests[t]) \in Seq(Index) /\ Head(requests[t]) \in Index
    BY <1>2
<1> QED
    BY <1>1, <1>3 DEF TakeRequest, TypeOK

LEMMA SendReplyType ==
    ASSUME TypeOK, NEW t \in Tunnel, NEW reply \in Reply, SendReply(t, reply)
    PROVE  replies' \in [Tunnel -> Seq(Reply)]
<1>1. replies[t] \in Seq(Reply)
    BY DEF TypeOK
<1>2. Append(replies[t], reply) \in Seq(Reply)
    BY <1>1
<1> QED
    BY <1>2 DEF SendReply, TypeOK

LEMMA TypeStep ==
    ASSUME IInv, [Next]_vars
    PROVE  TypeOK'
<1> USE DEF IInv
<1>1. CASE AppendRow
    <2>1. length[file] + 1 \in Index
        BY <1>1, BoundAssumption DEF AppendRow, TypeOK, Index
    <2> QED
        BY <1>1, <2>1 DEF AppendRow, TypeOK, answer, sessions, channels, store, Reply
<1>2. ASSUME Leave, file' \in File, UNCHANGED calm PROVE TypeOK'
    <2>1. requests' \in [Tunnel -> Seq(Index)]
        BY <1>2 DEF Leave, TypeOK
    <2> QED
        BY <1>2, <2>1 DEF Leave, TypeOK, sessions, store, Reply
<1>3. CASE RecreateDatabase
    BY <1>2, <1>3, BoundAssumption DEF RecreateDatabase, TypeOK, File
<1>4. ASSUME NEW T \in SUBSET Tunnel, Close(T), latest' \in {latest, NoReading}
      PROVE  TypeOK'
    <2>1. lastIndex' \in [Tunnel -> Index]
        BY <1>4, BoundAssumption DEF Close, TypeOK, Index
    <2>2. requests' \in [Tunnel -> Seq(Index)] /\ replies' \in [Tunnel -> Seq(Reply)]
        BY <1>4 DEF Close, TypeOK
    <2> QED
        BY <1>4, <2>1, <2>2 DEF Close, TypeOK, answer, gateway, store
<1>5. CASE CalmDown
    BY <1>5 DEF CalmDown, TypeOK, answer, gateway, sessions, channels, store, Reply
<1>6. ASSUME NEW t \in Tunnel, OpenTunnel(t) PROVE TypeOK'
    BY <1>6 DEF OpenTunnel, TypeOK, answer, channels, store, Reply
<1>7. ASSUME NEW t \in Tunnel, AnswerPage(t) PROVE TypeOK'
    <2>1. /\ length' \in [File -> Index] /\ requests' \in [Tunnel -> Seq(Index)]
          /\ Head(requests[t]) \in Index /\ length'[file] \in Index
        BY <1>7, TakeRequestType DEF AnswerPage, TypeOK
    <2>2. page' \in SUBSET Reading
        BY <1>7, <2>1, SinceIdType DEF AnswerPage
    <2> QED
        BY <1>7, <2>1, <2>2 DEF AnswerPage, TakeRequest, TypeOK, sessions, store, Reply
<1>8. ASSUME NEW t \in Tunnel, AnswerError(t) PROVE TypeOK'
    <2>1. [kind |-> "error"] \in Reply
        BY DEF Reply
    <2>2. replies' \in [Tunnel -> Seq(Reply)]
        BY <1>8, <2>1, SendReplyType DEF AnswerError
    <2>3. length' \in [File -> Index] /\ requests' \in [Tunnel -> Seq(Index)]
        BY <1>8, TakeRequestType DEF AnswerError
    <2> QED
        BY <1>8, <2>2, <2>3 DEF AnswerError, TakeRequest, TypeOK, sessions, store, answer
<1>19. ASSUME NEW t \in Tunnel, AnswerData(t) PROVE TypeOK'
    <2>1. PICK l \in LatestIndex : SendReply(t, [kind |-> "data", data |-> page, latest |-> l])
        BY <1>19 DEF AnswerData
    <2>2. l \in Index
        BY BoundAssumption DEF LatestIndex, TypeOK, Index
    <2>3. [kind |-> "data", data |-> page, latest |-> l] \in Reply
        BY <2>2 DEF Reply, TypeOK
    <2>4. replies' \in [Tunnel -> Seq(Reply)]
        BY <2>1, <2>3, SendReplyType
    <2> QED
        BY <1>19, <2>4 DEF AnswerData, TypeOK, sessions, store
<1>9. ASSUME NEW t \in Tunnel, ReadCursor(t) PROVE TypeOK'
    BY <1>9 DEF ReadCursor, TypeOK, answer, gateway, channels, store, Reply
<1>10. ASSUME NEW t \in Tunnel, SendPull(t) PROVE TypeOK'
    <2>1. requests' \in [Tunnel -> Seq(Index)]
        BY <1>10 DEF SendPull, TypeOK
    <2> QED
        BY <1>10, <2>1 DEF SendPull, TypeOK, answer, gateway, store, Reply
<1>11. ASSUME NEW t \in Tunnel, TakeReply(t), lastIndex' \in [Tunnel -> Index],
              stored' \subseteq Reading, cursor' \in Index,
              latest' \in Reading \cup {NoReading}
       PROVE  TypeOK'
    <2>1. replies' \in [Tunnel -> Seq(Reply)]
        <3>1. replies[t] \in Seq(Reply) /\ replies[t] # <<>>
            BY <1>11 DEF TakeReply, TypeOK
        <3>2. Tail(replies[t]) \in Seq(Reply)
            BY <3>1
        <3> QED
            BY <1>11, <3>2 DEF TakeReply, TypeOK
    <2> QED
        BY <1>11, <2>1 DEF TakeReply, TypeOK, answer, gateway
<1>12. ASSUME NEW t \in Tunnel, TakeReply(t), Head(replies[t]).kind = "data"
       PROVE  /\ NewLatest(Head(replies[t]).data) \in Reading \cup {NoReading}
              /\ Head(replies[t]).data \subseteq Reading
              /\ NewLastIndex(lastIndex[t], Head(replies[t]).data) \in Index
    <2> DEFINE data == Head(replies[t]).data
               last == lastIndex[t]
               new == NewLastIndex(last, data)
    <2>1. PICK f \in 0 .. file : data = Rows(f, last, new)
        BY <1>12, RecordedRows
    <2>2. new \in Index /\ last \in Nat /\ f \in File
        BY <1>12, RecordedRows, BoundAssumption DEF TypeOK, Index, File
    <2>3. data \subseteq Reading
        BY <2>1, <2>2, RowsAreReadings
    <2>4. CASE data = {}
        BY <2>2, <2>3, <2>4 DEF NewLatest, TypeOK
    <2>5. CASE data # {}
        <3>1. last < new
            BY <2>1, <2>2, <2>5, BoundAssumption DEF Rows, Index
        <3>2. [file |-> f, idx |-> new] \in data
            BY <2>1, <2>2, <3>1, BoundAssumption DEF Rows, Index
        <3>3. \A q \in data : q.idx <= new
            BY <2>1, <2>2 DEF Rows, Index
        <3>4. \E r \in data : \A q \in data : q.idx <= r.idx
            BY <3>2, <3>3
        <3>5. (CHOOSE r \in data : \A q \in data : q.idx <= r.idx) \in data
            BY <3>4
        <3> QED
            BY <2>2, <2>3, <2>5, <3>5 DEF NewLatest
    <2> QED
        BY <2>4, <2>5
<1>13. ASSUME NEW t \in Tunnel, RecordBatch(t) PROVE TypeOK'
    <2> DEFINE reply == Head(replies[t])
               new == NewLastIndex(lastIndex[t], reply.data)
    <2>1. TakeReply(t) /\ reply.kind = "data"
        BY <1>13 DEF RecordBatch
    <2>2. NewLatest(reply.data) \in Reading \cup {NoReading} /\ reply.data \subseteq Reading /\ new \in Index
        BY <1>12, <2>1
    <2>3. lastIndex' \in [Tunnel -> Index]
        BY <1>13, <2>2, BoundAssumption DEF RecordBatch, TypeOK, Index
    <2>4. stored' \subseteq Reading /\ cursor' \in Index /\ latest' \in Reading \cup {NoReading}
        BY <1>13, <2>2 DEF RecordBatch, Persist, TypeOK
    <2> QED
        BY <1>11, <2>1, <2>3, <2>4
<1>14. ASSUME NEW t \in Tunnel, RecordFails(t) PROVE TypeOK'
    BY <1>11, <1>12, <1>14 DEF RecordFails, TypeOK, store
<1>15. ASSUME NEW t \in Tunnel, IgnoreReply(t) PROVE TypeOK'
    BY <1>11, <1>15 DEF IgnoreReply, TypeOK, store
<1>16. ASSUME NEW t \in Tunnel, EndSession(t) PROVE TypeOK'
    BY <1>4, <1>16 DEF EndSession
<1>17. CASE RestartServer
    BY <1>4, <1>17 DEF RestartServer
<1>18. CASE UNCHANGED vars
    BY <1>18 DEF vars, gateway, sessions, channels, store, answer, TypeOK, Reply
<1> QED
    BY <1>1, <1>2, <1>3, <1>5, <1>6, <1>7, <1>8, <1>9, <1>10, <1>13, <1>14, <1>15, <1>16,
       <1>17, <1>18, <1>19
    DEF Next, Sample, Record, SeeEof, TunnelFails, TypeOK

-----------------------------------------------------------------------------
(* What is in flight stays tied to the session's index *)

\* The gateway's files only grow, in number and in length.
FilesGrow == file <= file' /\ \A f \in File : length[f] <= length'[f]

LEMMA FollowsGrows ==
    ASSUME TypeOK, TypeOK', FilesGrow, NEW data, NEW last, Follows(data, last, file, length)
    PROVE  Follows(data, last, file', length')
<1>1. PICK f \in 0 .. file, hi \in Index :
          last <= hi /\ (hi = last \/ hi <= length[f]) /\ data = Rows(f, last, hi)
    BY DEF Follows
<1>2. f \in File /\ f \in 0 .. file'
    BY BoundAssumption DEF FilesGrow, TypeOK, File
<1>3. length[f] \in Nat /\ length'[f] \in Nat /\ hi \in Nat
    BY <1>2, BoundAssumption DEF TypeOK, Index
<1>4. hi = last \/ hi <= length'[f]
    BY <1>1, <1>2, <1>3 DEF FilesGrow
<1> QED
    BY <1>1, <1>2, <1>4 DEF Follows

\* A tunnel that a step does not touch keeps its invariant.
LEMMA TunnelFrame ==
    ASSUME IInv, TypeOK', FilesGrow, NEW t \in Tunnel,
           status'[t] = status[t], lastIndex'[t] = lastIndex[t],
           awaiting'[t] = awaiting[t], requests'[t] \in {requests[t], <<>>},
           replies'[t] = replies[t],
           active' = active \/ active # t \/ requests'[t] = <<>>,
           Answering(t)' => Answering(t) /\ page' = page
    PROVE  TunnelInv(t)'
<1>1. TunnelInv(t)
    BY DEF IInv, TunnelsInv
<1>2. Len(<<>>) <= 1
    OBVIOUS
<1>3. ASSUME Continues(Head(replies[t]), lastIndex[t])
      PROVE  Continues(Head(replies[t]), lastIndex[t])'
    BY <1>3, FollowsGrows DEF Continues, IInv
<1>4. ASSUME Follows(page, lastIndex[t], file, length)
      PROVE  Follows(page, lastIndex[t], file', length')
    BY <1>4, FollowsGrows DEF IInv
<1>5. ASSUME status'[t] = "live", Answering(t)'
      PROVE  awaiting'[t] /\ replies'[t] = <<>> /\ Follows(page', lastIndex'[t], file', length')
    BY <1>1, <1>4, <1>5 DEF TunnelInv
<1>6. ASSUME replies'[t] # <<>>
      PROVE  /\ awaiting'[t] /\ requests'[t] = <<>> /\ ~Answering(t)' /\ Len(replies'[t]) = 1
             /\ Continues(Head(replies[t]), lastIndex[t])'
    BY <1>1, <1>3, <1>6 DEF TunnelInv
<1>7. Answering(t)' => requests'[t] = <<>>
    BY <1>1 DEF TunnelInv
<1> HIDE DEF Answering
<1> QED
    BY <1>1, <1>2, <1>5, <1>6, <1>7 DEF TunnelInv

\* A tunnel with nothing in flight that awaits nothing is in order.
LEMMA QuietTunnel ==
    ASSUME NEW t \in Tunnel, requests'[t] = <<>>, replies'[t] = <<>>,
           status'[t] # "live" => ~awaiting'[t],
           status'[t] # "closed" => ~Answering(t)'
    PROVE  TunnelInv(t)'
<1>1. Len(<<>>) <= 1
    OBVIOUS
<1> QED
    BY <1>1 DEF TunnelInv

\* A tunnel that waits for its request to be answered.
LEMMA TakenRequest ==
    ASSUME IInv, TypeOK', FilesGrow, NEW t \in Tunnel, TakeRequest(t)
    PROVE  /\ TunnelInv(t) /\ status[t] \in {"closed", "live"}
           /\ requests'[t] = <<>> /\ replies[t] = <<>>
           /\ UNCHANGED <<status, lastIndex, awaiting, file, active>>
           /\ \A u \in Tunnel \ {t} : requests'[u] = requests[u] /\ ~Answering(u)'
<1>1. TunnelInv(t) /\ active = t /\ requests[t] # <<>>
    BY DEF IInv, TunnelsInv, TakeRequest
<1>2. requests[t] \in Seq(Index) /\ Len(requests[t]) <= 1
    BY <1>1 DEF TunnelInv, IInv, TypeOK
<1>3. Tail(requests[t]) = <<>>
    BY <1>1, <1>2, OneMessage
<1>4. requests'[t] = <<>> /\ \A u \in Tunnel \ {t} : requests'[u] = requests[u]
    BY <1>3 DEF TakeRequest, IInv, TypeOK
<1>5. replies[t] = <<>> /\ status[t] # "opening"
    BY <1>1 DEF TunnelInv
<1>6. UNCHANGED <<status, lastIndex, awaiting, file, active>>
    BY DEF TakeRequest, sessions
<1> QED
    BY <1>1, <1>4, <1>5, <1>6 DEF IInv, TypeOK, Answering

\* A reply that continues the history reaches its session, or nobody.
LEMMA Replied ==
    ASSUME NEW t \in Tunnel, NEW reply, SendReply(t, reply),
           TypeOK, status[t] \in {"closed", "live"}, replies[t] = <<>>, requests'[t] = <<>>,
           ~Answering(t)', UNCHANGED <<status, lastIndex, awaiting>>,
           status[t] = "live" => awaiting[t] /\ Continues(reply, lastIndex[t])',
           status[t] # "live" => ~awaiting[t]
    PROVE  TunnelInv(t)'
<1>1. CASE status[t] = "closed"
    BY <1>1, QuietTunnel DEF SendReply
<1>2. CASE status[t] = "live"
    <2>1. replies'[t] = <<reply>>
        BY <1>2 DEF SendReply, TypeOK
    <2>2. Len(replies'[t]) = 1 /\ Head(replies'[t]) = reply
        BY <2>1
    <2>3. Len(<<>>) <= 1
        OBVIOUS
    <2>4. Continues(Head(replies[t]), lastIndex[t])'
        BY <1>2, <2>2 DEF Continues
    <2> QED
        BY <1>2, <2>2, <2>3, <2>4 DEF TunnelInv
<1> QED
    BY <1>1, <1>2

LEMMA FilesGrowStep ==
    ASSUME IInv, [Next]_vars
    PROVE  FilesGrow
<1> USE DEF IInv
<1>1. \A f \in File : length[f] \in Nat /\ file \in Nat
    BY BoundAssumption DEF TypeOK, Index, File
<1>2. ASSUME NEW n \in AfterInsert, length' = [length EXCEPT ![file] = n], file' = file
      PROVE  FilesGrow
    BY <1>1, <1>2 DEF AfterInsert, FilesGrow, TypeOK
<1>3. CASE AppendRow
    BY <1>1, <1>3 DEF AppendRow, FilesGrow, TypeOK
<1>4. ASSUME file' \in {file, file + 1}, length' = length PROVE FilesGrow
    BY <1>1, <1>4 DEF FilesGrow, TypeOK
<1>5. ASSUME NEW t \in Tunnel, TakeRequest(t) PROVE FilesGrow
    BY <1>2, <1>5 DEF TakeRequest
<1>6. ASSUME NEW t \in Tunnel, AnswerPage(t) \/ AnswerError(t) PROVE FilesGrow
    BY <1>5, <1>6 DEF AnswerPage, AnswerError
<1>7. CASE UNCHANGED gateway
    BY <1>4, <1>7 DEF gateway
<1>8. ASSUME NEW t \in Tunnel,
             \/ OpenTunnel(t) \/ AnswerData(t) \/ ReadCursor(t) \/ SendPull(t) \/ EndSession(t)
             \/ RecordBatch(t) \/ RecordFails(t) \/ IgnoreReply(t)
      PROVE  FilesGrow
    BY <1>4, <1>8
    DEF gateway, OpenTunnel, AnswerData, ReadCursor, SendPull, EndSession, Close, RecordBatch,
        RecordFails, IgnoreReply, TakeReply
<1>9. CASE SeeEof \/ TunnelFails \/ RecreateDatabase \/ RestartServer \/ CalmDown \/ UNCHANGED vars
    BY <1>4, <1>9
    DEF gateway, vars, SeeEof, TunnelFails, Leave, RecreateDatabase, RestartServer, Close, CalmDown
<1> QED
    BY <1>3, <1>6, <1>8, <1>9 DEF Next, Sample, Record

\* A step that takes nothing into handle_line leaves every answer on its tunnel.
LEMMA AnswerStep ==
    ASSUME IInv, [Next]_vars
    PROVE  AnswerInv'
<1> USE DEF IInv, AnswerInv
<1>1. CASE UNCHANGED <<answering, active>>
    BY <1>1
<1>2. CASE answering' = FALSE
    BY <1>2
<1>3. CASE SeeEof \/ TunnelFails \/ RecreateDatabase
    BY <1>2, <1>3 DEF SeeEof, TunnelFails, RecreateDatabase, Leave
<1>4. CASE AppendRow \/ RestartServer \/ CalmDown \/ UNCHANGED vars
    BY <1>1, <1>4 DEF AppendRow, RestartServer, CalmDown, Close, vars, gateway, answer
<1>5. ASSUME NEW t \in Tunnel,
             \/ OpenTunnel(t) \/ AnswerPage(t) \/ AnswerData(t) \/ AnswerError(t)
             \/ ReadCursor(t) \/ SendPull(t) \/ EndSession(t)
             \/ RecordBatch(t) \/ RecordFails(t) \/ IgnoreReply(t)
      PROVE  AnswerInv'
    BY <1>5
    DEF OpenTunnel, AnswerPage, AnswerData, AnswerError, TakeRequest, ReadCursor, SendPull,
        EndSession, Close, RecordBatch, RecordFails, IgnoreReply, TakeReply, gateway, answer
<1> QED
    BY <1>3, <1>4, <1>5 DEF Next, Sample, Record

LEMMA TunnelStep ==
    ASSUME IInv, [Next]_vars
    PROVE  TunnelsInv'
<1>1. TypeOK' /\ FilesGrow
    BY TypeStep, FilesGrowStep
<1>2. ASSUME NEW t \in Tunnel PROVE TunnelInv(t) /\ requests[t] \in Seq(Index) /\ replies[t] \in Seq(Reply)
    BY DEF IInv, TunnelsInv, TypeOK
<1>3. ASSUME UNCHANGED <<sessions, channels, active, answer>> PROVE TunnelsInv'
    BY <1>1, <1>3, TunnelFrame DEF sessions, channels, answer, Answering, TunnelsInv
<1>5. ASSUME Leave PROVE TunnelsInv'
    <2> SUFFICES ASSUME NEW t \in Tunnel PROVE TunnelInv(t)'
        BY DEF TunnelsInv
    <2>1. requests'[t] \in {requests[t], <<>>} /\ (active = t => requests'[t] = <<>>)
        BY <1>5 DEF Leave
    <2> QED
        BY <1>1, <1>5, <2>1, TunnelFrame DEF Leave, sessions, Answering
<1>6. CASE RecreateDatabase
    BY <1>5, <1>6 DEF RecreateDatabase
<1>7. ASSUME NEW T \in SUBSET Tunnel, Close(T) PROVE TunnelsInv'
    <2> SUFFICES ASSUME NEW t \in Tunnel PROVE TunnelInv(t)'
        BY DEF TunnelsInv
    <2>1. CASE t \notin T
        BY <1>1, <1>7, <2>1, TunnelFrame DEF Close, gateway, answer, Answering
    <2>2. CASE t \in T /\ t # active
        BY <1>7, <2>2, QuietTunnel DEF Close
    <2>3. CASE t \in T /\ t = active
        <3>1. /\ status'[t] = "closed" /\ ~awaiting'[t] /\ replies'[t] = <<>>
              /\ requests'[t] = requests[t] /\ active' = active /\ Answering(t)' = Answering(t)
            BY <1>7, <2>3 DEF Close, gateway, answer, Answering
        <3>2. Len(requests'[t]) <= 1 /\ (Answering(t)' => requests'[t] = <<>>)
            BY <1>2, <3>1 DEF TunnelInv
        <3> QED
            BY <2>3, <3>1, <3>2 DEF TunnelInv
    <2> QED
        BY <2>1, <2>2, <2>3
<1>8. ASSUME NEW t \in Tunnel, OpenTunnel(t) PROVE TunnelsInv'
    <2> SUFFICES ASSUME NEW u \in Tunnel PROVE TunnelInv(u)'
        BY DEF TunnelsInv
    <2>0. ~answering /\ ~answering'
        BY <1>8, TunnelAssumption DEF OpenTunnel, answer, IInv, AnswerInv
    <2>1. CASE u = t
        <3>1. requests[t] = <<>> /\ replies[t] = <<>> /\ ~awaiting[t]
            BY <1>2, <1>8, TunnelAssumption DEF OpenTunnel, TunnelInv
        <3> QED
            BY <1>8, <2>0, <2>1, <3>1, QuietTunnel DEF OpenTunnel, channels, Answering
    <2>2. CASE u # t
        BY <1>1, <1>8, <2>0, <2>2, TunnelAssumption, TunnelFrame
        DEF OpenTunnel, channels, Answering, IInv, TypeOK
    <2> QED
        BY <2>1, <2>2
<1>9. ASSUME NEW t \in Tunnel, AnswerPage(t) PROVE TunnelsInv'
    <2> SUFFICES ASSUME NEW u \in Tunnel PROVE TunnelInv(u)'
        BY DEF TunnelsInv
    <2>1. TakeRequest(t) /\ replies' = replies /\ answering'
        BY <1>9 DEF AnswerPage
    <2>2. /\ TunnelInv(t) /\ status[t] \in {"closed", "live"}
          /\ requests'[t] = <<>> /\ replies[t] = <<>>
          /\ UNCHANGED <<status, lastIndex, awaiting, file, active>>
          /\ \A v \in Tunnel \ {t} : requests'[v] = requests[v] /\ ~Answering(v)'
        BY <1>1, <2>1, TakenRequest
    <2>3. CASE u # t
        BY <1>1, <2>1, <2>2, <2>3, TunnelFrame
    <2>4. CASE u = t /\ status[t] = "closed"
        BY <2>1, <2>2, <2>4, QuietTunnel DEF TunnelInv
    <2>5. CASE u = t /\ status[t] = "live"
        <3>1. Head(requests[t]) = lastIndex[t] /\ awaiting[t]
            BY <2>1, <2>2, <2>5 DEF TakeRequest, TunnelInv
        <3>2. /\ lastIndex[t] \in Nat /\ lastIndex[t] \in Index
              /\ length'[file] \in Nat /\ length'[file] \in Index
            BY <1>1, <2>2, BoundAssumption DEF IInv, TypeOK, Index
        <3>3. PICK hi \in Nat : /\ lastIndex[t] <= hi
                                /\ hi = lastIndex[t] \/ hi <= length'[file]
                                /\ SinceId(length'[file], lastIndex[t])
                                       = Rows(file, lastIndex[t], hi)
            BY <3>2, SinceIdIsRows
        <3>4. hi \in Index
            BY <3>2, <3>3, BoundAssumption DEF Index
        <3>5. file \in 0 .. file
            BY BoundAssumption DEF IInv, TypeOK, File
        <3>6. page' = Rows(file, lastIndex[t], hi)
            BY <1>9, <3>1, <3>3 DEF AnswerPage
        <3>7. Follows(page', lastIndex'[t], file', length')
            BY <2>2, <3>3, <3>4, <3>5, <3>6 DEF Follows
        <3>8. Len(<<>>) <= 1
            OBVIOUS
        <3> QED
            BY <2>1, <2>2, <2>5, <3>1, <3>7, <3>8 DEF TunnelInv
    <2> QED
        BY <2>2, <2>3, <2>4, <2>5
<1>10. ASSUME NEW t \in Tunnel, AnswerError(t) PROVE TunnelsInv'
    <2> SUFFICES ASSUME NEW u \in Tunnel PROVE TunnelInv(u)'
        BY DEF TunnelsInv
    <2> DEFINE reply == [kind |-> "error"]
    <2>1. TakeRequest(t) /\ SendReply(t, reply) /\ UNCHANGED answer
        BY <1>10 DEF AnswerError
    <2>2. /\ TunnelInv(t) /\ status[t] \in {"closed", "live"}
          /\ requests'[t] = <<>> /\ replies[t] = <<>>
          /\ UNCHANGED <<status, lastIndex, awaiting, file, active>>
          /\ \A v \in Tunnel \ {t} : requests'[v] = requests[v] /\ ~Answering(v)'
        BY <1>1, <2>1, TakenRequest
    <2>3. CASE u # t
        <3>1. replies'[u] = replies[u]
            BY <2>1, <2>3 DEF SendReply, IInv, TypeOK
        <3> QED
            BY <1>1, <2>2, <2>3, <3>1, TunnelFrame
    <2>4. CASE u = t
        <3>1. ~Answering(t)'
            BY <2>1 DEF TakeRequest, Answering, answer
        <3>2. status[t] = "live" => awaiting[t]
            BY <2>1, <2>2 DEF TunnelInv, TakeRequest
        <3>3. Continues(reply, lastIndex[t])'
            BY DEF Continues
        <3>4. status[t] # "live" => ~awaiting[t]
            BY <2>2 DEF TunnelInv
        <3> HIDE DEF reply
        <3> QED
            BY <2>1, <2>2, <2>4, <3>1, <3>2, <3>3, <3>4, Replied DEF IInv
    <2> QED
        BY <2>3, <2>4
<1>18. ASSUME NEW t \in Tunnel, AnswerData(t) PROVE TunnelsInv'
    <2> SUFFICES ASSUME NEW u \in Tunnel PROVE TunnelInv(u)'
        BY DEF TunnelsInv
    <2>1. PICK reply : SendReply(t, reply) /\ reply.data = page
        BY <1>18 DEF AnswerData
    <2>2. /\ Answering(t) /\ ~answering' /\ TunnelInv(t)
          /\ UNCHANGED <<status, lastIndex, awaiting, requests, file, length, active>>
        BY <1>2, <1>18 DEF AnswerData, Answering, sessions
    <2>3. CASE u # t
        <3>1. replies'[u] = replies[u]
            BY <2>1, <2>3 DEF SendReply, IInv, TypeOK
        <3> QED
            BY <1>1, <2>2, <2>3, <3>1, TunnelFrame DEF Answering
    <2>4. CASE u = t
        <3>1. requests'[t] = <<>> /\ status[t] \in {"closed", "live"} /\ replies[t] = <<>>
            BY <2>2 DEF TunnelInv, IInv, TypeOK
        <3>2. ASSUME status[t] = "live" PROVE awaiting[t] /\ Continues(reply, lastIndex[t])'
            <4>1. awaiting[t] /\ Follows(page, lastIndex[t], file, length)
                BY <2>2, <3>2 DEF TunnelInv
            <4>2. Follows(page, lastIndex'[t], file', length')
                BY <2>2, <4>1
            <4> QED
                BY <2>1, <4>1, <4>2 DEF Continues
        <3>3. status[t] # "live" => ~awaiting[t]
            BY <2>2 DEF TunnelInv
        <3>4. ~Answering(t)' /\ SendReply(t, reply)
            BY <2>1, <2>2 DEF Answering
        <3> QED
            BY <2>2, <2>4, <3>1, <3>2, <3>3, <3>4, Replied DEF IInv
    <2> QED
        BY <2>3, <2>4
<1>11. ASSUME NEW t \in Tunnel, ReadCursor(t) PROVE TunnelsInv'
    <2> SUFFICES ASSUME NEW u \in Tunnel PROVE TunnelInv(u)'
        BY DEF TunnelsInv
    <2>1. CASE u = t
        <3>1. requests[t] = <<>> /\ replies[t] = <<>> /\ ~Answering(t)
            BY <1>2, <1>11 DEF ReadCursor, TunnelInv
        <3>2. status'[t] = "live"
            BY <1>11 DEF ReadCursor, IInv, TypeOK
        <3> QED
            BY <1>11, <2>1, <3>1, <3>2, QuietTunnel
            DEF ReadCursor, channels, gateway, answer, Answering
    <2>2. CASE u # t
        BY <1>1, <1>11, <2>2, TunnelFrame
        DEF ReadCursor, channels, gateway, answer, Answering, IInv, TypeOK
    <2> QED
        BY <2>1, <2>2
<1>12. ASSUME NEW t \in Tunnel, SendPull(t) PROVE TunnelsInv'
    <2> SUFFICES ASSUME NEW u \in Tunnel PROVE TunnelInv(u)'
        BY DEF TunnelsInv
    <2>1. CASE u = t
        <3>1. requests[t] = <<>> /\ replies[t] = <<>> /\ ~Answering(t)
            BY <1>2, <1>12 DEF SendPull, TunnelInv
        <3>2. requests'[t] = <<lastIndex[t]>>
            BY <1>12, <3>1 DEF SendPull, IInv, TypeOK
        <3>3. Len(requests'[t]) = 1 /\ Head(requests'[t]) = lastIndex[t]
            BY <3>2
        <3>4. status'[t] = "live" /\ awaiting'[t] /\ replies'[t] = <<>> /\ lastIndex'[t] = lastIndex[t]
            BY <1>12, <3>1 DEF SendPull, IInv, TypeOK
        <3>5. ~Answering(t)'
            BY <1>12, <3>1 DEF SendPull, gateway, answer, Answering
        <3> QED
            BY <2>1, <3>3, <3>4, <3>5 DEF TunnelInv
    <2>2. CASE u # t
        BY <1>1, <1>12, <2>2, TunnelFrame DEF SendPull, gateway, answer, Answering, IInv, TypeOK
    <2> QED
        BY <2>1, <2>2
<1>13. ASSUME NEW t \in Tunnel, TakeReply(t), \A u \in Tunnel \ {t} : lastIndex'[u] = lastIndex[u]
       PROVE  TunnelsInv'
    <2> SUFFICES ASSUME NEW u \in Tunnel PROVE TunnelInv(u)'
        BY DEF TunnelsInv
    <2>1. CASE u = t
        <3>0. requests[t] = <<>> /\ Len(replies[t]) = 1 /\ ~Answering(t)
            BY <1>2, <1>13 DEF TakeReply, TunnelInv
        <3>1. requests[t] = <<>> /\ Len(replies[t]) <= 1
            BY <3>0
        <3>2. replies'[t] = <<>>
            BY <1>2, <1>13, <3>1, OneMessage DEF TakeReply, IInv, TypeOK
        <3> QED
            BY <1>13, <2>1, <3>0, <3>1, <3>2, QuietTunnel
            DEF TakeReply, gateway, answer, Answering
    <2>2. CASE u # t
        BY <1>1, <1>13, <2>2, TunnelFrame DEF TakeReply, gateway, answer, Answering, IInv, TypeOK
    <2> QED
        BY <2>1, <2>2
<1>14. ASSUME NEW t \in Tunnel, RecordBatch(t) \/ RecordFails(t) \/ IgnoreReply(t) PROVE TunnelsInv'
    BY <1>13, <1>14 DEF RecordBatch, RecordFails, IgnoreReply, IInv, TypeOK
<1>15. ASSUME NEW t \in Tunnel, EndSession(t) PROVE TunnelsInv'
    BY <1>7, <1>15 DEF EndSession
<1>16. CASE AppendRow \/ CalmDown \/ UNCHANGED vars
    BY <1>3, <1>16 DEF AppendRow, CalmDown, vars, gateway, answer, sessions, channels
<1>17. CASE RestartServer
    BY <1>7, <1>17 DEF RestartServer
<1> QED
    BY <1>5, <1>6, <1>8, <1>9, <1>10, <1>11, <1>12, <1>14, <1>15, <1>16, <1>17, <1>18
    DEF Next, Sample, Record, SeeEof, TunnelFails

-----------------------------------------------------------------------------
(* The store has what the cursors say *)

LEMMA StoreStep ==
    ASSUME IInv, [Next]_vars
    PROVE  StoreInv'
<1> USE DEF IInv
<1>1. TypeOK' /\ FilesGrow
    BY TypeStep, FilesGrowStep
<1>2. file' = 0 => file = 0
    BY <1>1, BoundAssumption DEF FilesGrow, TypeOK, File
<1>3. Rows(0, 0, 0) = {}
    BY DEF Rows
<1>4. ASSUME UNCHANGED store,
             \A t \in Tunnel : lastIndex'[t] \in {lastIndex[t], cursor, 0}
      PROVE  StoreInv'
    BY <1>2, <1>3, <1>4
    DEF StoreInv, NoSkip, CursorBacked, Backed, store
<1>5. ASSUME NEW t \in Tunnel, RecordBatch(t) PROVE StoreInv'
    <2> DEFINE reply == Head(replies[t])
               last  == lastIndex[t]
               new   == NewLastIndex(last, reply.data)
    <2>1. TakeReply(t) /\ reply.kind = "data"
        BY <1>5 DEF RecordBatch
    <2>2. new \in Nat /\ last \in Nat /\ last <= new
        BY <2>1, RecordedRows, BoundAssumption DEF Index, TypeOK
    <2>3. PICK f \in 0 .. file : reply.data = Rows(f, last, new)
        BY <2>1, RecordedRows
    <2>4. /\ stored' = stored \cup Rows(f, last, new)
          /\ cursor' = new
          /\ lastIndex'[t] \in {0, new}
          /\ \A u \in Tunnel \ {t} : lastIndex'[u] = lastIndex[u]
          /\ file' = file
        BY <1>5, <2>3 DEF RecordBatch, Persist, TakeReply, gateway, TypeOK
    <2> HIDE DEF new, last
    <2>5. Indices(stored) \subseteq Indices(stored')
        BY <2>4 DEF Indices
    <2>6. new = 0 \/ new \in Indices(stored')
        <3>1. CASE new = last
            BY <2>5, <3>1 DEF StoreInv, CursorBacked, Backed, last
        <3>2. CASE last < new
            <4>1. [file |-> f, idx |-> new] \in Rows(f, last, new)
                BY <2>2, <3>2 DEF Rows
            <4>2. [file |-> f, idx |-> new].idx = new
                OBVIOUS
            <4> QED
                BY <2>4, <4>1, <4>2 DEF Indices
        <3> QED
            BY <2>2, <3>1, <3>2
    <2>7. CursorBacked'
        BY <2>4, <2>5, <2>6 DEF StoreInv, CursorBacked, Backed
    <2>8. ASSUME file' = 0 PROVE Rows(0, 0, new) \subseteq stored'
        <3>1. f = 0
            BY <2>4, <2>8
        <3>2. Rows(0, 0, last) \subseteq stored
            BY <2>4, <2>8 DEF StoreInv, last
        <3>3. Rows(0, 0, new) \subseteq Rows(0, 0, last) \cup Rows(0, last, new)
            BY <2>2 DEF Rows
        <3> QED
            BY <2>4, <3>1, <3>2, <3>3
    <2> QED
        BY <1>3, <2>4, <2>7, <2>8 DEF StoreInv, NoSkip
<1>6. ASSUME NEW T \in SUBSET Tunnel, Close(T) PROVE StoreInv'
    BY <1>4, <1>6 DEF Close
<1>7. ASSUME NEW t \in Tunnel, ReadCursor(t) PROVE StoreInv'
    BY <1>4, <1>7 DEF ReadCursor, TypeOK
<1>8. CASE UNCHANGED <<store, lastIndex>>
    BY <1>4, <1>8
<1>9. ASSUME NEW t \in Tunnel,
             \/ OpenTunnel(t) \/ AnswerPage(t) \/ AnswerData(t) \/ AnswerError(t) \/ SendPull(t)
             \/ RecordFails(t) \/ IgnoreReply(t)
      PROVE  StoreInv'
    BY <1>8, <1>9
    DEF OpenTunnel, AnswerPage, AnswerData, AnswerError, TakeRequest, SendPull, RecordFails,
        IgnoreReply, sessions
<1>10. CASE AppendRow \/ SeeEof \/ TunnelFails \/ RecreateDatabase \/ CalmDown \/ UNCHANGED vars
    BY <1>8, <1>10
    DEF AppendRow, SeeEof, TunnelFails, Leave, RecreateDatabase, CalmDown, vars, sessions
<1>11. ASSUME NEW t \in Tunnel, EndSession(t) PROVE StoreInv'
    BY <1>6, <1>11 DEF EndSession
<1>12. CASE RestartServer
    BY <1>6, <1>12 DEF RestartServer
<1> QED
    BY <1>5, <1>7, <1>9, <1>10, <1>11, <1>12 DEF Next, Sample, Record

-----------------------------------------------------------------------------

LEMMA InitIInv == Init => IInv
<1> SUFFICES ASSUME Init PROVE IInv
    OBVIOUS
<1>1. TypeOK
    <2>1. 0 \in File /\ 0 \in Index
        BY BoundAssumption DEF File, Index
    <2>2. \A S : <<>> \in Seq(S)
        BY EmptySeq
    <2> QED
        BY <2>1, <2>2 DEF Init, TypeOK
<1>2. TunnelsInv /\ AnswerInv
    <2>1. Len(<<>>) <= 1
        OBVIOUS
    <2> QED
        BY <2>1 DEF Init, TunnelsInv, TunnelInv, Answering, AnswerInv
<1>3. Rows(0, 0, 0) = {}
    BY DEF Rows
<1>4. StoreInv
    BY <1>3 DEF Init, StoreInv, NoSkip, CursorBacked, Backed
<1> QED
    BY <1>1, <1>2, <1>4 DEF IInv

THEOREM Invariance == Spec => []IInv
<1>1. Init => IInv
    BY InitIInv
<1>2. IInv /\ [Next]_vars => IInv'
    BY TypeStep, AnswerStep, TunnelStep, StoreStep DEF IInv
<1> QED
    BY <1>1, <1>2, PTL DEF Spec

THEOREM TypeCorrect == Spec => []TypeOK
<1>1. IInv => TypeOK
    BY DEF IInv
<1> QED
    BY <1>1, Invariance, PTL

THEOREM NothingSkipped == Spec => []NoSkip
<1>1. IInv => NoSkip
    BY DEF IInv, StoreInv
<1> QED
    BY <1>1, Invariance, PTL

THEOREM CursorsBacked == Spec => []CursorBacked
<1>1. IInv => CursorBacked
    BY DEF IInv, StoreInv
<1> QED
    BY <1>1, Invariance, PTL

THEOREM AtMostOneInFlight == Spec => []OneOutstanding
<1>1. IInv => OneOutstanding
    <2> SUFFICES ASSUME IInv, NEW t \in Tunnel
                 PROVE  Len(requests[t]) + Len(replies[t]) <= IF Answering(t) THEN 0 ELSE 1
        BY DEF OneOutstanding, Answering
    <2>1. TunnelInv(t) /\ Len(requests[t]) \in Nat /\ Len(replies[t]) \in Nat
        BY DEF IInv, TunnelsInv, TypeOK
    <2>2. Len(<<>>) = 0
        OBVIOUS
    <2>3. CASE replies[t] = <<>>
        <3>1. Len(requests[t]) <= (IF Answering(t) THEN 0 ELSE 1) /\ Len(replies[t]) = 0
            BY <2>1, <2>2, <2>3 DEF TunnelInv
        <3> QED
            BY <2>1, <3>1
    <2>4. CASE replies[t] # <<>>
        <3>1. Len(requests[t]) = 0 /\ Len(replies[t]) = 1 /\ ~Answering(t)
            BY <2>1, <2>2, <2>4 DEF TunnelInv
        <3> QED
            BY <3>1
    <2> QED
        BY <2>3, <2>4
<1> QED
    BY <1>1, Invariance, PTL

THEOREM NothingRepulled == Spec => []NoRepull
<1>1. IInv => NoRepull
    <2> SUFFICES ASSUME IInv, NEW t \in Tunnel, NEW n \in DOMAIN replies[t],
                        replies[t][n].kind = "data", NEW r \in replies[t][n].data
                 PROVE  lastIndex[t] < r.idx
        BY DEF NoRepull
    <2>1. TunnelInv(t) /\ replies[t] \in Seq(Reply) /\ lastIndex[t] \in Nat
        BY BoundAssumption DEF IInv, TunnelsInv, TypeOK, Index
    <2>2. replies[t] # <<>> /\ n \in 1 .. Len(replies[t])
        BY <2>1
    <2>3. Len(replies[t]) = 1 /\ Continues(Head(replies[t]), lastIndex[t])
        BY <2>1, <2>2 DEF TunnelInv
    <2>4. replies[t][n] = Head(replies[t])
        BY <2>1, <2>2, <2>3
    <2>5. PICK f \in 0 .. file, hi \in Index : replies[t][n].data = Rows(f, lastIndex[t], hi)
        BY <2>3, <2>4 DEF Continues, Follows
    <2> QED
        BY <2>1, <2>5, BoundAssumption DEF Rows, Index
<1> QED
    BY <1>1, Invariance, PTL

\* Where a live session's index goes in one step: on to the end of the page it
\* records, or nowhere up.
LEMMA IndexStep ==
    ASSUME IInv, [Next]_vars, NEW t \in Tunnel, status[t] = "live"
    PROVE  \/ lastIndex'[t] <= lastIndex[t]
           \/ \E f \in 0 .. file :
                 Rows(f, lastIndex[t], lastIndex'[t]) \subseteq stored'
<1> USE DEF IInv
<1>1. lastIndex[t] \in Nat /\ 0 \in Nat
    BY BoundAssumption DEF TypeOK, Index
<1>2. CASE lastIndex'[t] \in {lastIndex[t], 0}
    BY <1>1, <1>2
<1>3. ASSUME NEW u \in Tunnel, RecordBatch(u)
      PROVE  \/ lastIndex'[t] \in {lastIndex[t], 0}
             \/ \E f \in 0 .. file : Rows(f, lastIndex[t], lastIndex'[t]) \subseteq stored'
    <2> DEFINE reply == Head(replies[u])
               new   == NewLastIndex(lastIndex[u], reply.data)
    <2>1. CASE u # t
        BY <1>3, <2>1 DEF RecordBatch, TypeOK
    <2>2. CASE u = t
        <3>1. TakeReply(u) /\ reply.kind = "data"
            BY <1>3 DEF RecordBatch
        <3>2. PICK f \in 0 .. file : reply.data = Rows(f, lastIndex[u], new)
            BY <3>1, RecordedRows
        <3>3. stored' = stored \cup reply.data /\ lastIndex'[u] \in {0, new}
            BY <1>3 DEF RecordBatch, Persist, TypeOK
        <3> QED
            BY <2>2, <3>2, <3>3
    <2> QED
        BY <2>1, <2>2
<1>4. ASSUME NEW u \in Tunnel, ReadCursor(u) PROVE lastIndex'[t] = lastIndex[t]
    BY <1>4 DEF ReadCursor, TypeOK
<1>5. ASSUME NEW T \in SUBSET Tunnel, Close(T) PROVE lastIndex'[t] \in {lastIndex[t], 0}
    BY <1>5 DEF Close
<1>6. ASSUME NEW u \in Tunnel,
             \/ OpenTunnel(u) \/ AnswerPage(u) \/ AnswerData(u) \/ AnswerError(u) \/ SendPull(u)
             \/ RecordFails(u) \/ IgnoreReply(u)
      PROVE  lastIndex' = lastIndex
    BY <1>6
    DEF OpenTunnel, AnswerPage, AnswerData, AnswerError, TakeRequest, SendPull, RecordFails,
        IgnoreReply, sessions
<1>7. CASE AppendRow \/ SeeEof \/ TunnelFails \/ RecreateDatabase \/ CalmDown \/ UNCHANGED vars
    BY <1>2, <1>7
    DEF AppendRow, SeeEof, TunnelFails, Leave, RecreateDatabase, CalmDown, vars, sessions
<1>8. ASSUME NEW u \in Tunnel, EndSession(u) PROVE lastIndex'[t] \in {lastIndex[t], 0}
    BY <1>5, <1>8 DEF EndSession
<1>9. CASE RestartServer
    BY <1>2, <1>5, <1>9 DEF RestartServer
<1> QED
    BY <1>2, <1>3, <1>4, <1>6, <1>7, <1>8, <1>9 DEF Next, Sample, Record

THEOREM PagesClose == Spec => PageByPage
<1>1. ASSUME IInv, [Next]_vars, NEW t \in Tunnel, status[t] = "live"
      PROVE  \E f \in File : Rows(f, lastIndex[t], lastIndex'[t]) \subseteq stored'
    <2>0. TypeOK /\ TypeOK'
        BY <1>1, TypeStep DEF IInv
    <2>1. lastIndex[t] \in Nat /\ lastIndex'[t] \in Nat
        BY <2>0, BoundAssumption DEF TypeOK, Index
    <2>2. 0 .. file \subseteq File /\ 0 \in File
        BY <1>1, BoundAssumption DEF IInv, TypeOK, File
    <2>3. CASE lastIndex'[t] <= lastIndex[t]
        <3>1. Rows(0, lastIndex[t], lastIndex'[t]) = {}
            BY <2>1, <2>3 DEF Rows
        <3> QED
            BY <2>2, <3>1
    <2> QED
        BY <1>1, <2>2, <2>3, IndexStep
<1>2. IInv /\ [Next]_vars =>
        [\A t \in Tunnel : status[t] = "live" =>
            \E f \in File : Rows(f, lastIndex[t], lastIndex'[t]) \subseteq stored']_vars
    BY <1>1
<1> QED
    BY <1>2, Invariance, PTL DEF Spec, PageByPage

-----------------------------------------------------------------------------
(* The server's store is a block-by-block copy of the gateway's files *)

AbstractVars == <<length, stored>>

LEMMA GrowStep ==
    ASSUME TypeOK, NEW n \in AfterInsert, length' = [length EXCEPT ![file] = n], stored' = stored
    PROVE  [Abstract!Next]_AbstractVars
<1>1. file \in File /\ length \in [File -> Index]
    BY DEF TypeOK
<1>2. CASE n = length[file]
    <2>1. length' = length
        BY <1>1, <1>2
    <2> QED
        BY <2>1 DEF AbstractVars
<1>3. CASE n = length[file] + 1
    <2>1. Abstract!Grow(file)
        BY <1>3 DEF Abstract!Grow
    <2> QED
        BY <1>1, <2>1 DEF Abstract!Next
<1> QED
    BY <1>2, <1>3 DEF AfterInsert

LEMMA CopyStep ==
    ASSUME IInv, NEW t \in Tunnel, RecordBatch(t)
    PROVE  [Abstract!Next]_AbstractVars
<1> DEFINE reply == Head(replies[t])
           last  == lastIndex[t]
           new   == NewLastIndex(last, reply.data)
<1>1. TakeReply(t) /\ reply.kind = "data"
    BY DEF RecordBatch
<1>2. /\ new \in Nat /\ last \in Nat /\ last <= new
      /\ \E f \in 0 .. file : reply.data = Rows(f, last, new) /\ (new = last \/ new <= length[f])
    BY <1>1, RecordedRows, BoundAssumption DEF Index, IInv, TypeOK
<1>3. stored' = stored \cup reply.data /\ length' = length
    BY DEF RecordBatch, Persist, TakeReply, gateway
<1> HIDE DEF new, last
<1>4. PICK f \in 0 .. file : reply.data = Rows(f, last, new) /\ (new = last \/ new <= length[f])
    BY <1>2
<1>5. f \in File /\ length[f] \in Nat
    BY BoundAssumption DEF IInv, TypeOK, File, Index
<1>6. CASE new = last
    <2>1. Rows(f, last, new) = {}
        BY <1>2, <1>6 DEF Rows
    <2> QED
        BY <1>3, <1>4, <2>1 DEF AbstractVars
<1>7. CASE last < new
    <2>1. last \in Abstract!Boundary
        BY DEF IInv, StoreInv, CursorBacked, Backed, Indices, Abstract!Boundary, last
    <2>2. new \in last+1 .. length[f]
        BY <1>2, <1>4, <1>5, <1>7
    <2>3. Rows(f, last, new) = Abstract!Block(f, last, new)
        BY DEF Rows, Abstract!Block
    <2>4. Abstract!Copy(f)
        BY <1>3, <1>4, <2>1, <2>2, <2>3 DEF Abstract!Copy
    <2> QED
        BY <1>5, <2>4 DEF Abstract!Next
<1> QED
    BY <1>2, <1>6, <1>7

LEMMA RefinementStep ==
    ASSUME IInv, [Next]_vars
    PROVE  [Abstract!Next]_AbstractVars
<1>1. TypeOK
    BY DEF IInv
<1>2. CASE UNCHANGED AbstractVars
    BY <1>2
<1>3. CASE AppendRow
    <2>1. length[file] + 1 \in AfterInsert
        BY <1>1, <1>3, BoundAssumption DEF AppendRow, AfterInsert, TypeOK, Index
    <2> QED
        BY <1>1, <1>3, <2>1, GrowStep DEF AppendRow, store
<1>4. ASSUME NEW t \in Tunnel, AnswerPage(t) \/ AnswerError(t) PROVE [Abstract!Next]_AbstractVars
    BY <1>1, <1>4, GrowStep DEF AnswerPage, AnswerError, TakeRequest, store
<1>5. ASSUME NEW t \in Tunnel, RecordBatch(t) PROVE [Abstract!Next]_AbstractVars
    BY <1>5, CopyStep
<1>6. ASSUME NEW t \in Tunnel,
             \/ OpenTunnel(t) \/ AnswerData(t) \/ ReadCursor(t) \/ SendPull(t) \/ EndSession(t)
             \/ RecordFails(t) \/ IgnoreReply(t)
      PROVE  UNCHANGED AbstractVars
    BY <1>6
    DEF AbstractVars, gateway, store, OpenTunnel, AnswerData, ReadCursor, SendPull, EndSession, Close,
        RecordFails, IgnoreReply, TakeReply
<1>7. CASE SeeEof \/ TunnelFails \/ RecreateDatabase \/ RestartServer \/ CalmDown \/ UNCHANGED vars
    BY <1>2, <1>7
    DEF AbstractVars, vars, gateway, store, SeeEof, TunnelFails, Leave, RecreateDatabase,
        RestartServer, Close, CalmDown
<1> QED
    BY <1>2, <1>3, <1>4, <1>5, <1>6, <1>7 DEF Next, Sample, Record

THEOREM Refinement == Spec => CopiesHistory
<1>1. Init => Abstract!Init
    BY DEF Init, Abstract!Init
<1>2. IInv /\ [Next]_vars => [Abstract!Next]_AbstractVars
    BY RefinementStep
<1> QED
    BY <1>1, <1>2, Invariance, PTL DEF Spec, CopiesHistory, Abstract!Spec, AbstractVars

-----------------------------------------------------------------------------
(* The store is a beginning of the first file *)

LEMMA BeginningRecorded ==
    ASSUME IInv, StoredIsBeginning, NEW t \in Tunnel, RecordBatch(t), file' = 0
    PROVE  \E n \in 0 .. length'[0] : cursor' <= n /\ stored' = Rows(0, 0, n)
<1> DEFINE reply == Head(replies[t])
           last  == lastIndex[t]
           new   == NewLastIndex(last, reply.data)
<1>1. TakeReply(t) /\ reply.kind = "data"
    BY DEF RecordBatch
<1>2. /\ new \in Nat /\ last \in Nat /\ last <= new
      /\ \E f \in 0 .. file : reply.data = Rows(f, last, new) /\ (new = last \/ new <= length[f])
    BY <1>1, RecordedRows, BoundAssumption DEF Index, IInv, TypeOK
<1>3. stored' = stored \cup reply.data /\ cursor' = new /\ length' = length /\ file = 0
    BY DEF RecordBatch, Persist, TakeReply, gateway
<1>4. Rows(0, 0, last) \subseteq stored
    BY <1>3 DEF IInv, StoreInv
<1> HIDE DEF new, last
<1>5. reply.data = Rows(0, last, new) /\ (new = last \/ new <= length[0])
    BY <1>2, <1>3
<1>6. PICK n \in 0 .. length[0] : stored = Rows(0, 0, n)
    BY <1>3 DEF StoredIsBeginning
<1>7. length[0] \in Nat
    BY BoundAssumption DEF IInv, TypeOK, File, Index
<1>8. last <= n
    <2>1. CASE last = 0
        BY <1>6, <1>7, <2>1
    <2>2. CASE last # 0
        <3>1. [file |-> 0, idx |-> last] \in Rows(0, 0, n)
            BY <1>2, <1>4, <1>6, <2>2 DEF Rows
        <3>2. PICK i \in 0 + 1 .. n : [file |-> 0, idx |-> last] = [file |-> 0, idx |-> i]
            BY <3>1 DEF Rows
        <3>3. last = i
            BY <3>2
        <3> QED
            BY <1>6, <1>7, <3>2, <3>3
    <2> QED
        BY <2>1, <2>2
<1>9. CASE new <= n
    <2>1. Rows(0, last, new) \subseteq Rows(0, 0, n)
        BY <1>2, <1>6, <1>7, <1>9 DEF Rows
    <2> QED
        BY <1>3, <1>5, <1>6, <1>9, <2>1
<1>10. CASE n < new
    <2>1. new \in 0 .. length[0]
        BY <1>2, <1>5, <1>7, <1>8, <1>10
    <2>2. Rows(0, 0, n) \cup Rows(0, last, new) = Rows(0, 0, new)
        BY <1>2, <1>6, <1>7, <1>8, <1>10 DEF Rows
    <2> QED
        BY <1>2, <1>3, <1>5, <1>6, <2>1, <2>2
<1> QED
    BY <1>2, <1>6, <1>7, <1>9, <1>10

LEMMA BeginningStep == IInv /\ StoredIsBeginning /\ [Next]_vars => StoredIsBeginning'
<1> SUFFICES ASSUME IInv, StoredIsBeginning, [Next]_vars, file' = 0
             PROVE  \E n \in 0 .. length'[0] : cursor' <= n /\ stored' = Rows(0, 0, n)
    BY DEF StoredIsBeginning, Rows
<1>1. CASE UNCHANGED store
    <2>1. FilesGrow /\ file = 0 /\ length[0] <= length'[0] /\ length[0] \in Nat /\ length'[0] \in Nat
        BY FilesGrowStep, TypeStep, BoundAssumption DEF FilesGrow, IInv, TypeOK, File, Index
    <2>2. PICK n \in 0 .. length[0] : cursor <= n /\ stored = Rows(0, 0, n)
        BY <2>1 DEF StoredIsBeginning
    <2>3. n \in 0 .. length'[0]
        BY <2>1
    <2> QED
        BY <1>1, <2>2, <2>3 DEF store
<1>2. ASSUME NEW t \in Tunnel, RecordBatch(t)
      PROVE  \E n \in 0 .. length'[0] : cursor' <= n /\ stored' = Rows(0, 0, n)
    BY <1>2, BeginningRecorded
<1>3. ASSUME NEW t \in Tunnel,
             \/ OpenTunnel(t) \/ AnswerPage(t) \/ AnswerData(t) \/ AnswerError(t) \/ ReadCursor(t)
             \/ SendPull(t) \/ EndSession(t) \/ RecordFails(t) \/ IgnoreReply(t)
      PROVE  UNCHANGED store
    BY <1>3
    DEF store, OpenTunnel, AnswerPage, AnswerData, AnswerError, TakeRequest, ReadCursor, SendPull,
        EndSession, Close, RecordFails, IgnoreReply
<1>4. CASE AppendRow \/ SeeEof \/ TunnelFails \/ RecreateDatabase \/ RestartServer \/ CalmDown
           \/ UNCHANGED vars
    <2>1. UNCHANGED store
        BY <1>4 DEF store, vars, AppendRow, SeeEof, TunnelFails, Leave, RecreateDatabase, RestartServer,
                    Close, CalmDown
    <2> QED
        BY <1>1, <2>1
<1> QED
    BY <1>1, <1>2, <1>3, <1>4 DEF Next, Sample, Record

\* What a gateway's first file and the server's store have to do with each other, however
\* often tunnels, sessions and the server fail: the one is a beginning of the other
\* (since_id, record_data, record_batch).
THEOREM FirstFileCopied == Spec => []StoredIsBeginning
<1>1. Init => StoredIsBeginning
    <2> SUFFICES ASSUME Init PROVE 0 \in 0 .. length[0] /\ cursor <= 0 /\ stored = Rows(0, 0, 0)
        BY DEF StoredIsBeginning
    <2>1. length[0] = 0
        BY BoundAssumption DEF Init, File
    <2> QED
        BY <2>1 DEF Init, Rows
<1>2. IInv /\ StoredIsBeginning /\ [Next]_vars => StoredIsBeginning'
    BY BeginningStep
<1> QED
    BY <1>1, <1>2, Invariance, PTL DEF Spec

=============================================================================
