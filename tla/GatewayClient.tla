---------------------------- MODULE GatewayClient ----------------------------
(***************************************************************************)
(* The gateway's tunnel process: `run` opens a tunnel again and again, and *)
(* on each one `serve_tunnel` is a loop around one `select!` that samples  *)
(* the meter on a ticker and answers the server's requests.                *)
(*                                                                         *)
(* One task does all of it: while a request is being answered the ticker   *)
(* is not looked at, and the other way round.  Ticks that were missed are  *)
(* made up for one by one.                                                 *)
(*                                                                         *)
(* A request is a line of bytes, which arrive in chunks that begin and end *)
(* anywhere.  A byte here is a piece of a line: a data request has one     *)
(* piece and its newline, a long one more than the buffer may keep.        *)
(* What a reply holds is left out.                                         *)
(***************************************************************************)
EXTENDS Naturals, SequencesExt

CONSTANTS
    InitialBackoff, \* INITIAL_BACKOFF
    MaxBackoff,     \* MAX_BACKOFF
    Id,             \* ids of requests: those in flight differ
    MaxLineSize,    \* MAX_LINE_SIZE
    Chunk,          \* bytes one read returns at most
    MaxInFlight,    \* bound: requests the server has in flight on a tunnel
    MaxDue          \* bound: ticks of the sampling ticker that are due

ASSUME BackoffAssumption ==
    /\ InitialBackoff \in Nat \ {0} /\ MaxBackoff \in Nat /\ InitialBackoff <= MaxBackoff
ASSUME SizeAssumption == MaxLineSize \in Nat \ {0} /\ Chunk \in Nat \ {0}
ASSUME BoundAssumption == MaxInFlight \in Nat \ {0} /\ MaxDue \in Nat \ {0}

VARIABLES
    phase,          \* where the task is
    backoff,        \* run's backoff
    due,            \* ticks of the sampling ticker not yet handled
    buf,            \* bytes read and not yet handled
    inbox,          \* bytes on their way to the gateway
    replies,        \* replies on their way to the server
    asked,          \* the server's requests whose replies it has not seen
    ended,          \* the server has ended its side of the tunnel
    reachable       \* there is a server and a way to it

process == <<phase, backoff, due, buf>>
tunnel  == <<inbox, replies, asked, ended>>
vars    == <<process, tunnel, reachable>>

\* A data request, one longer than the limit, one of a type the gateway does not
\* know, or no request at all.
Line  == [id : Id, kind : {"data", "long", "unknown", "malformed"}]
Reply == [id : Id, kind : {"data", "error"}]

\* A line's bytes, the newline last.
Byte == [line : Line, newline : BOOLEAN]
BytesOf(line) ==
    LET size == IF line.kind = "long" THEN MaxLineSize + 1 ELSE 1
    IN  [n \in 1 .. size + 1 |-> [line |-> line, newline |-> n = size + 1]]

\* Where the first newline is, or 0.
NewlineAt(bytes) == SelectInSeq(bytes, LAMBDA b : b.newline)

\* The first line as it parses: with a part missing it is no JSON.
FirstLine(bytes) ==
    LET line == bytes[NewlineAt(bytes)].line
    IN  IF SubSeq(bytes, 1, NewlineAt(bytes)) = BytesOf(line)
        THEN line ELSE [line EXCEPT !.kind = "malformed"]

InTunnel == phase \in {"serving", "sampling", "handling"}

TypeOK ==
    /\ phase \in {"connecting", "serving", "sampling", "handling", "sleeping"}
    /\ backoff \in InitialBackoff .. MaxBackoff
    /\ due \in 0 .. MaxDue
    /\ buf \in Seq(Byte) /\ inbox \in Seq(Byte) /\ asked \in Seq(Line)
    /\ replies \in Seq(Reply)
    /\ ended \in BOOLEAN /\ reachable \in BOOLEAN

NewTunnel ==
    /\ due' = 0
    /\ buf' = <<>> /\ inbox' = <<>> /\ replies' = <<>> /\ asked' = <<>>
    /\ ended' = FALSE

Init ==
    /\ phase = "connecting"
    /\ backoff = InitialBackoff
    /\ due = 0
    /\ buf = <<>> /\ inbox = <<>> /\ replies = <<>> /\ asked = <<>>
    /\ ended = FALSE
    /\ reachable \in BOOLEAN

-----------------------------------------------------------------------------
(* run *)

\* CONNECT answered with 200.
Connect ==
    /\ phase = "connecting"
    /\ reachable
    /\ phase' = "serving"
    /\ NewTunnel
    /\ UNCHANGED <<backoff, reachable>>

\* No answer to CONNECT.
ConnectFails ==
    /\ phase = "connecting"
    /\ ~reachable
    /\ phase' = "sleeping"
    /\ UNCHANGED <<backoff, due, buf, tunnel, reachable>>

\* The tunnel is over for the gateway, with an error: sleep before the next one.
Fail ==
    /\ phase' = "sleeping"
    /\ NewTunnel
    /\ UNCHANGED <<backoff, reachable>>

\* Mistake: the delay doubles without an end.
WakeUncapped ==
    /\ phase = "sleeping"
    /\ phase' = "connecting"
    /\ backoff' = backoff * 2
    /\ UNCHANGED <<due, buf, tunnel, reachable>>

\* Mistake: back to sleep instead of another attempt.
WakeToSleep ==
    /\ phase = "sleeping"
    /\ backoff' = MaxBackoff
    /\ UNCHANGED <<phase, due, buf, tunnel, reachable>>

\* The delay has passed; the next one is twice as long, up to the maximum.
Wake ==
    /\ phase = "sleeping"
    /\ phase' = "connecting"
    /\ backoff' = IF backoff * 2 <= MaxBackoff THEN backoff * 2 ELSE MaxBackoff
    /\ UNCHANGED <<due, buf, tunnel, reachable>>

-----------------------------------------------------------------------------
(* serve_tunnel *)

\* An interval has passed while the tunnel is open, whatever the task is doing.
Tick ==
    /\ InTunnel
    /\ due < MaxDue
    /\ due' = due + 1
    /\ UNCHANGED <<phase, backoff, buf, tunnel, reachable>>

\* Mistake: requests come first.
StartSampleLast ==
    /\ phase = "serving"
    /\ due > 0
    /\ inbox = <<>>
    /\ due' = due - 1
    /\ phase' = "sampling"
    /\ UNCHANGED <<backoff, buf, tunnel, reachable>>

\* The ticker's branch: the meter is read.
StartSample ==
    /\ phase = "serving"
    /\ due > 0
    /\ due' = due - 1
    /\ phase' = "sampling"
    /\ UNCHANGED <<backoff, buf, tunnel, reachable>>

\* sample_once returns, the reading stored or not.
EndSample ==
    /\ phase = "sampling"
    /\ phase' = "serving"
    /\ UNCHANGED <<backoff, due, buf, tunnel, reachable>>

\* The bytes of one read are appended to the buffer.
Receive(n) ==
    /\ buf' = buf \o SubSeq(inbox, 1, n)
    /\ inbox' = SubSeq(inbox, n + 1, Len(inbox))
    /\ phase' = "handling"
    /\ UNCHANGED <<backoff, due, replies, asked, ended, reachable>>

\* Mistake: the ticker comes first.
ReadLast ==
    /\ phase = "serving"
    /\ inbox # <<>>
    /\ due = 0
    /\ Receive(IF Len(inbox) <= Chunk THEN Len(inbox) ELSE Chunk)

\* The read's branch: as much of what has arrived as fits a chunk, or less.
Read ==
    /\ phase = "serving"
    /\ \E n \in 1 .. Chunk : n <= Len(inbox) /\ Receive(n)

\* handle_line and its reply: an error if the meter or the store fails, or if the
\* type is unknown.
Answer ==
    /\ phase = "handling"
    /\ NewlineAt(buf) # 0
    /\ LET line == FirstLine(buf)
       IN  /\ line.kind # "malformed"
           /\ \E kind \in {"data", "error"} :
                 /\ line.kind = "unknown" => kind = "error"
                 /\ replies' = Append(replies, [id |-> line.id, kind |-> kind])
    /\ buf' = SubSeq(buf, NewlineAt(buf) + 1, Len(buf))
    /\ UNCHANGED <<phase, backoff, due, inbox, asked, ended, reachable>>

\* A line that is no JSON or has no numeric id.
Reject ==
    /\ phase = "handling"
    /\ NewlineAt(buf) # 0
    /\ FirstLine(buf).kind = "malformed"
    /\ Fail

\* Mistake: the unfinished line is dropped.
AwaitMoreAnew ==
    /\ phase = "handling"
    /\ NewlineAt(buf) = 0
    /\ Len(buf) <= MaxLineSize
    /\ phase' = "serving"
    /\ buf' = <<>>
    /\ UNCHANGED <<backoff, due, tunnel, reachable>>

\* Mistake: one line is handled after each read.
AwaitMoreAfterOne ==
    /\ phase = "handling"
    /\ Len(buf) <= MaxLineSize
    /\ phase' = "serving"
    /\ UNCHANGED <<backoff, due, buf, tunnel, reachable>>

\* Mistake: no limit.
AwaitMoreAlways ==
    /\ phase = "handling"
    /\ NewlineAt(buf) = 0
    /\ phase' = "serving"
    /\ UNCHANGED <<backoff, due, buf, tunnel, reachable>>

\* No complete line is left: back to the select with the unfinished one.
AwaitMore ==
    /\ phase = "handling"
    /\ NewlineAt(buf) = 0
    /\ Len(buf) <= MaxLineSize
    /\ phase' = "serving"
    /\ UNCHANGED <<backoff, due, buf, tunnel, reachable>>

\* The unfinished line is longer than the limit.
TooLong ==
    /\ phase = "handling"
    /\ NewlineAt(buf) = 0
    /\ Len(buf) > MaxLineSize
    /\ Fail

\* A read or a write on a connection that is gone.
BreakOff ==
    /\ phase \in {"serving", "handling"}
    /\ ~reachable
    /\ Fail

\* End of the stream, everything before it handled: the next tunnel at once.
SeeEof ==
    /\ phase = "serving"
    /\ ended
    /\ inbox = <<>>
    /\ phase' = "connecting"
    /\ backoff' = InitialBackoff
    /\ NewTunnel
    /\ UNCHANGED reachable

-----------------------------------------------------------------------------
(* The server and the network *)

Request ==
    /\ InTunnel
    /\ ~ended
    /\ Len(asked) < MaxInFlight
    /\ \E line \in Line :
          /\ \A n \in DOMAIN asked : asked[n].id # line.id
          /\ asked' = Append(asked, line)
          /\ inbox' = inbox \o BytesOf(line)
    /\ UNCHANGED <<process, replies, ended, reachable>>

TakeReply ==
    /\ replies # <<>>
    /\ replies' = Tail(replies)
    /\ asked' = Tail(asked)
    /\ UNCHANGED <<process, inbox, ended, reachable>>

End ==
    /\ InTunnel
    /\ ~ended
    /\ ended' = TRUE
    /\ UNCHANGED <<process, inbox, replies, asked, reachable>>

Network ==
    /\ reachable' = ~reachable
    /\ UNCHANGED <<process, tunnel>>

-----------------------------------------------------------------------------

Next ==
    \/ Connect \/ ConnectFails \/ Wake
    \/ Tick \/ StartSample \/ EndSample \/ Read
    \/ Answer \/ Reject \/ AwaitMore \/ TooLong \/ BreakOff \/ SeeEof
    \/ Request \/ TakeReply \/ End \/ Network

\* Time passes; an attempt to connect, a reading of the meter and a sleep end.  The branches of
\* select! are polled in a random order, so neither waits for ever for the other.
Fairness ==
    /\ WF_vars(Connect \/ ConnectFails) /\ WF_vars(Wake)
    /\ WF_vars(Tick) /\ WF_vars(EndSample)
    /\ WF_vars(Answer) /\ WF_vars(Reject) /\ WF_vars(AwaitMore) /\ WF_vars(TooLong)
    /\ SF_vars(StartSample) /\ SF_vars(Read) /\ SF_vars(SeeEof)

Spec == Init /\ [][Next]_vars /\ Fairness

-----------------------------------------------------------------------------
(* Properties *)

\* Requests that have no reply yet, oldest first.
Waiting == SubSeq(asked, Len(replies) + 1, Len(asked))

\* The bytes are those of the lines, one line after the other.
Holds(bytes, lines) ==
    \E ends \in [0 .. Len(lines) -> 0 .. Len(bytes)] :
        /\ ends[0] = 0 /\ ends[Len(lines)] = Len(bytes)
        /\ \A m, n \in 0 .. Len(lines) : m <= n => ends[m] <= ends[n]
        /\ \A n \in 1 .. Len(lines) : SubSeq(bytes, ends[n - 1] + 1, ends[n]) = BytesOf(lines[n])

\* Replies reach the server in the order of its requests, each with its request's
\* id, and a request of an unknown type gets an error.  What has no reply yet is
\* still on its way or in the buffer, byte for byte, wherever the chunks were cut
\* (handle_line, serve_tunnel).
RepliesInOrder ==
    /\ Len(replies) <= Len(asked)
    /\ Holds(buf \o inbox, Waiting)
    /\ \A n \in DOMAIN replies :
          /\ replies[n].id = asked[n].id
          /\ asked[n].kind = "unknown" => replies[n].kind = "error"

\* Whatever the server sends, the buffer holds at most the limit and one more read,
\* and no more than the limit while it waits for the rest of a line (serve_tunnel).
BufferBounded ==
    /\ Len(buf) <= MaxLineSize + Chunk
    /\ phase \in {"serving", "sampling"} => Len(buf) <= MaxLineSize

\* What a request may be answered: nothing that cannot be read is, and no unknown type
\* gets data.
Outcome == [kind \in {"data", "long", "unknown", "malformed"} |->
    IF kind = "malformed" THEN {} ELSE IF kind = "unknown" THEN {"error"} ELSE {"data", "error"}]

\* On every tunnel the server's requests are answered one by one, the oldest first, each
\* once and with its own id; they are given up only with the tunnel, and never by a
\* tunnel that ends without a backoff (serve_tunnel, handle_line, run).
Service == INSTANCE RequestService WITH
    Request <- Line,
    state <- IF InTunnel THEN "open" ELSE IF phase = "sleeping" THEN "pause" ELSE "none",
    waiting <- Waiting
ServesRequests == Service!Spec

\* Ids of requests that have no reply yet.
Unanswered == {Waiting[n].id : n \in DOMAIN Waiting}

\* Every request gets its reply or the tunnel ends, however slow the meter is and
\* although missed sampling ticks are made up for (both branches of select!).
RequestsAnswered == \A id \in Id : id \in Unanswered ~> id \notin Unanswered

\* Requests, however many, do not keep the gateway from sampling for its own
\* history (the comment on serve_tunnel about a slow puller).
SamplesTaken == due > 0 ~> (phase = "sampling" \/ ~InTunnel)

\* If the server can be reached from some time on, the gateway comes back to it
\* again and again, after any number of failures (run).
ComesBack == <>[]reachable => []<>InTunnel

\* What README.md says of the sampling: it goes on every interval independently of
\* the tunnel, so also through an outage.
SamplesDuringOutage == <>[](~reachable) => []<>(phase = "sampling")

\* What the comment on run says: the gateway reconnects with backoff.  At least it
\* does not go on reconnecting for ever without either a pause or a use of the
\* tunnels it gets.
ReconnectsWithBackoff ==
    []<>(phase = "connecting") => []<>(phase \in {"sleeping", "sampling", "handling"})

=============================================================================
