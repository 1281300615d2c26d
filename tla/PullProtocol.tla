----------------------------- MODULE PullProtocol -----------------------------
(***************************************************************************)
(* One gateway, the EDH server, and the tunnels between them.              *)
(*                                                                         *)
(* The gateway (pq-meter-client) appends meter readings to its own SQLite  *)
(* file and opens a CONNECT tunnel.  For every tunnel the server           *)
(* (pq-meter-server) runs one session, which asks for "everything since    *)
(* index n", stores what comes back and moves n up.  The server keeps n    *)
(* per gateway in its store, so that a new session continues where the     *)
(* last one stopped.                                                       *)
(*                                                                         *)
(* The gateway has one tunnel at a time.  The server may run several       *)
(* sessions for it: a session outlives its tunnel until the connection is  *)
(* found dead, and replies already sent still reach it.                    *)
(*                                                                         *)
(* A reading is identified by the file it is in and its row id there.  The *)
(* code has the reading's time stamp in place of the file: two files are   *)
(* taken never to hold the same row id with the same millisecond.          *)
(*                                                                         *)
(* A definition whose comment begins with "Mistake" is no part of the      *)
(* model: it is the next definition with a bug in it, which the properties *)
(* tell from the real one.                                                 *)
(***************************************************************************)
EXTENDS Integers, Sequences, FiniteSetsExt

CONSTANTS
    Tunnel,         \* slots for the tunnels that exist at the same time
    NoTunnel,       \* the gateway is between two tunnels
    NoReading,      \* the server has seen no measurement since it started
    Batch,          \* rows in one reply, at most: the 10_000 of handle_line
    MaxRow,         \* bound: rows in one database file
    MaxFile         \* bound: how often the database file is recreated

ASSUME TunnelAssumption == NoTunnel \notin Tunnel
ASSUME BatchAssumption  == Batch \in Nat \ {0}
ASSUME BoundAssumption  == MaxRow \in Nat /\ MaxFile \in Nat

VARIABLES
    file,           \* the database file the gateway uses; 0 is the first
    length,         \* length[f]: the highest row id of file f
    active,         \* the gateway's tunnel, or NoTunnel
    answering,      \* the gateway is in handle_line, between its two queries
    page,           \* the rows its reply will hold
    status,         \* status[t]: the server's session on tunnel t
    lastIndex,      \* tunnel_session's last_index
    awaiting,       \* tunnel_session's awaiting_reply
    requests,       \* requests[t]: pull requests on their way to the gateway
    replies,        \* replies[t]: replies on their way to the server
    stored,         \* the readings in the server's store
    cursor,         \* the gateway's cursor in the server's store
    latest,         \* the measurement the server keeps for /harmonics
    calm            \* from here on nothing fails any more

answer   == <<answering, page>>
gateway  == <<file, length, active, answer>>
sessions == <<status, lastIndex, awaiting>>
channels == <<requests, replies>>
store    == <<stored, cursor>>
vars == <<gateway, sessions, channels, store, latest, calm>>

File   == 0 .. MaxFile
Index  == 0 .. MaxRow
Reading == [file : File, idx : 1 .. MaxRow]

\* Rows lo+1 .. hi of file f.
Rows(f, lo, hi) == {[file |-> f, idx |-> i] : i \in lo+1 .. hi}

Reply  == [kind : {"data"}, data : SUBSET Reading, latest : Index]
            \cup [kind : {"error"}]

TypeOK ==
    /\ file \in File
    /\ length \in [File -> Index]
    /\ active \in Tunnel \cup {NoTunnel}
    /\ answering \in BOOLEAN
    /\ page \subseteq Reading
    /\ status \in [Tunnel -> {"closed", "opening", "live"}]
    /\ lastIndex \in [Tunnel -> Index]
    /\ awaiting \in [Tunnel -> BOOLEAN]
    /\ requests \in [Tunnel -> Seq(Index)]
    /\ replies \in [Tunnel -> Seq(Reply)]
    /\ stored \subseteq Reading
    /\ cursor \in Index
    /\ latest \in Reading \cup {NoReading}
    /\ calm \in BOOLEAN

Init ==
    /\ file = 0
    /\ length = [f \in File |-> 0]
    /\ active = NoTunnel
    /\ answering = FALSE
    /\ page = {}
    /\ status = [t \in Tunnel |-> "closed"]
    /\ lastIndex = [t \in Tunnel |-> 0]
    /\ awaiting = [t \in Tunnel |-> FALSE]
    /\ requests = [t \in Tunnel |-> <<>>]
    /\ replies = [t \in Tunnel |-> <<>>]
    /\ stored = {}
    /\ cursor = 0
    /\ latest = NoReading
    /\ calm = FALSE

-----------------------------------------------------------------------------
(* The gateway's store *)

\* The file's length after insert_now, which may fail without a trace.
AfterInsert == {length[file]} \cup ({length[file] + 1} \cap Index)

\* Mistake: the limit keeps the newest rows.
SinceIdNewest(n, after) ==
    {[file |-> file, idx |-> i] : i \in {j \in 1 .. n : after < j /\ n - Batch < j}}

\* Mistake: the row at the index itself is sent again.
SinceIdInclusive(n, after) ==
    {[file |-> file, idx |-> i] : i \in {j \in 1 .. n : after <= j /\ j <= after + Batch}}

\* since_id(after, Batch) on a file of n rows: the oldest rows above `after`.
SinceId(n, after) ==
    {[file |-> file, idx |-> i] : i \in {j \in 1 .. n : after < j /\ j <= after + Batch}}

AppendRow ==
    /\ length[file] < MaxRow
    /\ length' = [length EXCEPT ![file] = @ + 1]
    /\ UNCHANGED <<file, active, answer, sessions, channels, store, latest, calm>>

\* The tunnel's own ticker samples the meter, never during handle_line.
Sample == active # NoTunnel /\ ~answering /\ AppendRow

\* A `record` process on the same file samples the meter, tunnel or not.
Record == AppendRow

-----------------------------------------------------------------------------
(* Tunnels, as the gateway opens and leaves them *)

\* CONNECT and its 200: the gateway serves the tunnel, the server has spawned
\* a session that has not looked at its cursor yet.
OpenTunnel(t) ==
    /\ active = NoTunnel
    /\ status[t] = "closed"
    /\ active' = t
    /\ status' = [status EXCEPT ![t] = "opening"]
    /\ UNCHANGED <<file, length, answer, lastIndex, awaiting, channels, store, latest, calm>>

\* The gateway is done with its tunnel, if it has one.  Requests it had not
\* answered are gone; its replies are not.
Leave ==
    /\ active' = NoTunnel
    /\ answering' = FALSE
    /\ page' = {}
    /\ requests' = [t \in Tunnel |-> IF t = active THEN <<>> ELSE requests[t]]
    /\ UNCHANGED <<length, sessions, replies, store, latest>>

\* End of the response body: a clean close.
SeeEof ==
    /\ active # NoTunnel
    /\ ~answering
    /\ status[active] = "closed"
    /\ requests[active] = <<>>
    /\ Leave
    /\ UNCHANGED <<file, calm>>

\* A read or write error, a framing error, or the process restarting.
TunnelFails ==
    /\ ~calm
    /\ active # NoTunnel
    /\ Leave
    /\ UNCHANGED <<file, calm>>

\* The operator deletes the database file; the gateway, started again, creates it.
RecreateDatabase ==
    /\ ~calm
    /\ file < MaxFile
    /\ file' = file + 1
    /\ Leave
    /\ UNCHANGED calm

-----------------------------------------------------------------------------
(* handle_line: one request, one reply.  Only another process can append a row *)
(* between the query for the page and the query for the highest row id.       *)

TakeRequest(t) ==
    /\ active = t
    /\ ~answering
    /\ requests[t] # <<>>
    /\ requests' = [requests EXCEPT ![t] = Tail(@)]
    /\ \E n \in AfterInsert : length' = [length EXCEPT ![file] = n]
    /\ UNCHANGED <<file, active, sessions, store, latest, calm>>

\* A reply for a session that is gone reaches nobody.
SendReply(t, reply) ==
    replies' = IF status[t] = "closed" THEN replies
               ELSE [replies EXCEPT ![t] = Append(@, reply)]

\* Read the meter, store the reading, take a page of the stored history.
AnswerPage(t) ==
    /\ TakeRequest(t)
    /\ answering' = TRUE
    /\ page' = SinceId(length'[file], Head(requests[t]))
    /\ UNCHANGED replies

\* max_id() in a data reply: a failed query counts as an empty database.
LatestIndex == {length[file]} \cup (IF calm THEN {} ELSE {0})

AnswerData(t) ==
    /\ active = t
    /\ answering
    /\ \E latestIndex \in LatestIndex :
          SendReply(t, [kind |-> "data", data |-> page, latest |-> latestIndex])
    /\ answering' = FALSE
    /\ page' = {}
    /\ UNCHANGED <<file, length, active, sessions, requests, store, latest, calm>>

\* The meter cannot be read, or the stored history cannot (the reading may
\* have been stored by then).
AnswerError(t) ==
    /\ ~calm
    /\ TakeRequest(t)
    /\ SendReply(t, [kind |-> "error"])
    /\ UNCHANGED answer

-----------------------------------------------------------------------------
(* tunnel_session *)

\* The session's first step: resume from the stored cursor.
ReadCursor(t) ==
    /\ status[t] = "opening"
    /\ status' = [status EXCEPT ![t] = "live"]
    /\ lastIndex' = [lastIndex EXCEPT ![t] = cursor]
    /\ UNCHANGED <<gateway, awaiting, channels, store, latest, calm>>

\* Mistake: the ticker does not look at awaiting_reply.
SendPullUnguarded(t) ==
    /\ status[t] = "live"
    /\ requests' = [requests EXCEPT ![t] = Append(@, lastIndex[t])]
    /\ awaiting' = [awaiting EXCEPT ![t] = TRUE]
    /\ UNCHANGED <<gateway, status, lastIndex, replies, store, latest, calm>>

\* The ticker, if no reply is awaited.
SendPull(t) ==
    /\ status[t] = "live"
    /\ ~awaiting[t]
    /\ requests' = [requests EXCEPT ![t] = Append(@, lastIndex[t])]
    /\ awaiting' = [awaiting EXCEPT ![t] = TRUE]
    /\ UNCHANGED <<gateway, status, lastIndex, replies, store, latest, calm>>

\* Take the next line off the request body.
TakeReply(t) ==
    /\ status[t] = "live"
    /\ replies[t] # <<>>
    /\ replies' = [replies EXCEPT ![t] = Tail(@)]
    /\ awaiting' = [awaiting EXCEPT ![t] = FALSE]
    /\ UNCHANGED <<gateway, status, requests, calm>>

Indices(data) == {r.idx : r \in data}

\* Mistake: the index of the next row wanted, for a query that excludes it.
NewLastIndexNext(last, data) == Max({last} \cup {i + 1 : i \in Indices(data)})

\* The highest index of a batch, or last_index if the batch has none above it.
NewLastIndex(last, data) == Max({last} \cup Indices(data))

\* Mistake: a shrunk history is not noticed.
NeedsResetNever(last, latestIndex) == FALSE

\* The gateway's highest row id is below the index the session asked from.
NeedsReset(last, latestIndex) == latestIndex < last

\* The newest measurement of a batch becomes the live one.
NewLatest(data) ==
    IF data = {} THEN latest
    ELSE CHOOSE r \in data : \A q \in data : q.idx <= r.idx

\* record_batch: the rows and the new cursor in one transaction; rows the store
\* already has are left alone.
Persist(data, newCursor) ==
    /\ stored' = stored \cup data
    /\ cursor' = newCursor

\* record_data with the batch stored.  After a reset only the session starts
\* over; the stored cursor stays.
RecordBatch(t) ==
    /\ TakeReply(t)
    /\ LET reply == Head(replies[t])
           newLastIndex == NewLastIndex(lastIndex[t], reply.data)
       IN  /\ reply.kind = "data"
           /\ latest' = NewLatest(reply.data)
           /\ Persist(reply.data, newLastIndex)
           /\ lastIndex' = [lastIndex EXCEPT ![t] =
                               IF NeedsReset(@, reply.latest) THEN 0 ELSE newLastIndex]

\* Mistake: the cursor is kept although the transaction rolled back.
RecordFailsAdvances(t) ==
    /\ ~calm
    /\ TakeReply(t)
    /\ Head(replies[t]).kind = "data"
    /\ latest' = NewLatest(Head(replies[t]).data)
    /\ cursor' = NewLastIndex(lastIndex[t], Head(replies[t]).data)
    /\ lastIndex' = [lastIndex EXCEPT ![t] = cursor']
    /\ UNCHANGED stored

\* Mistake: no transaction; of the batch the last row is there, though not the cursor.
RecordFailsInPart(t) ==
    /\ ~calm
    /\ TakeReply(t)
    /\ Head(replies[t]).kind = "data"
    /\ latest' = NewLatest(Head(replies[t]).data)
    /\ stored' = stored \cup
                 {r \in Head(replies[t]).data : r.idx = NewLastIndex(lastIndex[t], Head(replies[t]).data)}
    /\ UNCHANGED <<lastIndex, cursor>>

\* record_data, the transaction rolled back.
RecordFails(t) ==
    /\ ~calm
    /\ TakeReply(t)
    /\ Head(replies[t]).kind = "data"
    /\ latest' = NewLatest(Head(replies[t]).data)
    /\ UNCHANGED <<lastIndex, store>>

\* Mistake: an error reply does not end the wait.
IgnoreReplyKeepsWaiting(t) ==
    /\ status[t] = "live"
    /\ replies[t] # <<>>
    /\ Head(replies[t]).kind # "data"
    /\ replies' = [replies EXCEPT ![t] = Tail(@)]
    /\ UNCHANGED <<gateway, sessions, requests, store, latest, calm>>

\* Any other message only ends the wait.
IgnoreReply(t) ==
    /\ TakeReply(t)
    /\ Head(replies[t]).kind # "data"
    /\ UNCHANGED <<lastIndex, store, latest>>

\* The connections of the sessions in T are gone, and what was on its way to
\* them.  A gateway still on such a tunnel reads what was sent to it.
Close(T) ==
    /\ status' = [t \in Tunnel |-> IF t \in T THEN "closed" ELSE status[t]]
    /\ lastIndex' = [t \in Tunnel |-> IF t \in T THEN 0 ELSE lastIndex[t]]
    /\ awaiting' = [t \in Tunnel |-> IF t \in T THEN FALSE ELSE awaiting[t]]
    /\ replies' = [t \in Tunnel |-> IF t \in T THEN <<>> ELSE replies[t]]
    /\ requests' = [t \in Tunnel |-> IF t \in T /\ t # active THEN <<>> ELSE requests[t]]
    /\ UNCHANGED <<gateway, store, calm>>

\* The session returns: the body ended or failed, the response side is gone, or
\* the cursor could not be read.
EndSession(t) ==
    /\ status[t] # "closed"
    /\ calm => active # t
    /\ Close({t})
    /\ UNCHANGED latest

\* The server process dies and is started again.  Its store survives.
RestartServer ==
    /\ ~calm
    /\ Close(Tunnel)
    /\ latest' = NoReading

-----------------------------------------------------------------------------

\* Liveness is asked of a system in which faults come to an end.
CalmDown ==
    /\ ~calm
    /\ calm' = TRUE
    /\ UNCHANGED <<gateway, sessions, channels, store, latest>>

Next ==
    \/ Sample \/ Record
    \/ SeeEof \/ TunnelFails \/ RecreateDatabase
    \/ RestartServer \/ CalmDown
    \/ \E t \in Tunnel :
          \/ OpenTunnel(t) \/ AnswerPage(t) \/ AnswerData(t) \/ AnswerError(t)
          \/ ReadCursor(t) \/ SendPull(t) \/ EndSession(t)
          \/ RecordBatch(t) \/ RecordFails(t) \/ IgnoreReply(t)

\* The gateway's loop reopens its tunnel and answers; the session's ticker and
\* its reads go on; dead connections are noticed.  Sampling is not assumed.
Fairness ==
    /\ WF_vars(CalmDown)
    /\ WF_vars(SeeEof)
    /\ WF_vars(\E t \in Tunnel : OpenTunnel(t))
    /\ \A t \in Tunnel :
          /\ WF_vars(ReadCursor(t))
          /\ WF_vars(SendPull(t))
          /\ WF_vars(AnswerPage(t))
          /\ WF_vars(AnswerData(t))
          /\ WF_vars(RecordBatch(t))
          /\ WF_vars(IgnoreReply(t))
          /\ WF_vars(active # t /\ EndSession(t))

Spec == Init /\ [][Next]_vars /\ Fairness

-----------------------------------------------------------------------------
(* Safety *)

\* As long as the gateway still has its first file, no row up to the stored
\* cursor is missing from the server's store, whatever failed and however many
\* sessions wrote the cursor: the next session starts at the cursor and would
\* never ask for it again (cursor, record_batch and record_data).
NoSkip == file = 0 => Rows(0, 0, cursor) \subseteq stored

\* As long as the gateway has its first file, the server's store is a beginning of it with
\* the cursor inside: no row is left out, above the cursor neither when a reset has taken
\* that back, and there is none that the file does not have, whatever was lost, sent again
\* or interrupted (since_id, record_data, record_batch).
StoredIsBeginning ==
    file = 0 => \E n \in 0 .. length[0] : cursor <= n /\ stored = Rows(0, 0, n)

\* A cursor never runs ahead of the rows it stands for, through recreated files
\* and resets too: it is 0 or the index of a row in the store, in the store
\* itself and in every session (one transaction in record_batch, last_index
\* left alone when it fails).
Backed(index) == index = 0 \/ index \in Indices(stored)

CursorBacked == Backed(cursor) /\ \A t \in Tunnel : Backed(lastIndex[t])

\* A tunnel carries at most one request or reply, and none while the gateway is
\* busy with one, however slow it is (awaiting_reply in tunnel_session).
OneOutstanding ==
    \A t \in Tunnel :
        Len(requests[t]) + Len(replies[t]) <= (IF answering /\ active = t THEN 0 ELSE 1)

\* A reply on its way to a session has nothing below the index the session has
\* reached: the session has not moved since it asked, and the gateway never
\* sends the same row twice (since_id).
NoRepull ==
    \A t \in Tunnel : \A n \in DOMAIN replies[t] :
        (status[t] = "live" /\ replies[t][n].kind = "data")
            => \A r \in replies[t][n].data : lastIndex[t] < r.idx

\* A session that moves its index up has, by the same step, every row between
\* the old and the new index in the store, all of one file.  This holds across
\* resets and for sessions that outlived their tunnel.
PageByPage ==
    [][\A t \in Tunnel :
          status[t] = "live" =>
              \E f \in File : Rows(f, lastIndex[t], lastIndex'[t]) \subseteq stored']_vars

\* The server's store is a block-by-block copy of the gateway's files.
Abstract == INSTANCE HistoryTransfer WITH copied <- stored

CopiesHistory == Abstract!Spec

-----------------------------------------------------------------------------
(* Liveness *)

\* Once faults end, every reading the gateway has stored in its first file
\* reaches the server, unless that file is deleted.
EveryReadingDelivered ==
    \A i \in 1 .. MaxRow :
        (file = 0 /\ i <= length[0])
            ~> ([file |-> 0, idx |-> i] \in stored \/ file # 0)

\* A session whose index is past the end of the gateway's file does not ask for
\* rows that will never exist for ever (needs_reset).
NeverStalled ==
    \A t \in Tunnel :
        (active = t /\ status[t] = "live" /\ lastIndex[t] > length[file])
            ~> (active # t \/ lastIndex[t] <= length[file])

\* A session that asks for everything, after a reset or because nothing was
\* stored before, gets every row of the gateway's file before the tunnel ends.
ResetPullsEverything ==
    \A t \in Tunnel : \A f \in File : \A i \in 1 .. MaxRow :
        (active = t /\ status[t] = "live" /\ lastIndex[t] = 0 /\ file = f /\ i <= length[f])
            ~> (active # t \/ [file |-> f, idx |-> i] \in stored)

\* What CONNECT_PROTOCOL.md says of a recreated database: once the server has
\* noticed that the new file is shorter than its cursor and starts over from 0,
\* the whole of the new file is pulled.
Noticed(t, f) ==
    /\ active = t /\ file = f /\ status[t] = "live"
    /\ length[f] < cursor /\ lastIndex[t] = 0

RecreatedFileIsPulled ==
    \A t \in Tunnel : \A f \in File : \A i \in 1 .. MaxRow :
        (Noticed(t, f) /\ i <= length[f])
            ~> (file # f \/ [file |-> f, idx |-> i] \in stored)

=============================================================================
