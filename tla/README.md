# Verification of the PQ meter gateway and EDH server

TLA+ models of this repository's program, the TLC runs that check them on small
instances, and TLAPS proofs of what holds for every instance. Paths below are
relative to the repository.

## 1. The system

A **gateway** (`crates/pq-meter-client`, a Raspberry Pi next to a power-quality
meter) reads the meter over Modbus, keeps every reading in a local SQLite file,
and holds one HTTP/3 `CONNECT` tunnel to the **server** (`crates/pq-meter-server`).
The server asks through the tunnel for "everything since index *n*" every five
seconds, stores what it gets in its own SQLite file, and serves it to a
dashboard and to Grafana.

| Component | Code | State | Operations | What makes it correct |
|---|---|---|---|---|
| Gateway main loop | `pq-meter-client/src/main.rs` | tunnel, line buffer, backoff | `run`, `run_tunnel`, `serve_tunnel`, `handle_line`, `sample_once`, `record` | one reply per request, wherever lines are cut; a bounded buffer; every stored reading stays available to the server; the tunnel comes back |
| Gateway store | `pq-meter-client/src/storage.rs` | `readings` table, fixed schema, growing row ids | `insert`, `since_id`, `max_id`, `latest`, `query` | ids never reused; pages neither skip nor repeat a row; two processes may share the file |
| Meter adapters | `pq-meter-client/src/meter/` | Modbus connection | `read_snapshot` | a snapshot is complete or absent, and measured when it was asked for |
| Modbus client | `crates/umg605-modbus-client` | TCP connection | register reads with a time-out | an answer belongs to its question; a silent meter holds nobody up for ever |
| Tunnel sessions | `pq-meter-server/src/api.rs` | per tunnel: `last_index`, `next_id`, `awaiting_reply`, `pending` | `connect_tunnel`, `tunnel_session`, `send_pull_request`, `record_data` | no row skipped, one request at a time, resets noticed |
| Server store | `pq-meter-server/src/storage.rs` | `readings`, `gateways.cursor` | `cursor`, `record_batch`, `readings`, `checkpoint`, `needs_reset` | rows and cursor move together; nothing stored twice; bounded schema |
| Web API | `pq-meter-server/src/web_api.rs` | shares the store and the live measurement | `readings`, `harmonics` | a poller sees every row; the live measurement is a real one |
| Dashboard | `web/src/app` | last response | polling, drawing | not modelled |
| Local SCION network | `pq-meter-server/src/network.rs` | none after start-up | builds a topology | not modelled |
| Start-up | `pq-meter-server/src/main.rs` | what survives a restart | opens the store, spawns the servers | only as far as restarts go |

How they interact: gateway and session exchange one-line JSON messages over the
two directions of the tunnel's stream; sessions of all gateways, the checkpoint
task and the web API share the server store behind one mutex, and the live
measurement behind a read-write lock; a `record` process may share the gateway's
file with the tunnel process.

What is hard in it: a session outlives its tunnel, so several sessions of one
gateway can be alive with an index of their own and one stored cursor; either
side can fail between any two steps; the gateway's file may be deleted and row
ids start over; store and meter calls fail one at a time; an answer given up on still arrives. `PROJECT.json` lists
each hazard at its line.

## 2. The modules

| Module | Role |
|---|---|
| `HistoryTransfer` | abstract: what gateway and server promise together |
| `PullProtocol` | the gateway's store and request handling, tunnels, sessions, the server's store |
| `MCPullProtocol` | `PullProtocol` for TLC |
| `PullProtocolProofs` | inductive invariant, safety theorems, refinement of `HistoryTransfer` |
| `RequestService` | abstract: what a gateway promises the server on its tunnels |
| `GatewayClient` | the gateway's one task: connecting, backoff, sampling and answering |
| `MCGatewayClient` | `GatewayClient` for TLC |
| `GatewayClientProofs` | inductive invariant, order of replies, bound of the buffer, refinement of `RequestService` |
| `ReadingStore` | abstract: what the server's database promises |
| `ServerStore` | `record_batch` statement by statement, for several gateways |
| `MCServerStore` | `ServerStore` for TLC |
| `ServerStoreProofs` | inductive invariants, refinement of `ReadingStore`, telling readings apart, the copy of a first file, what is never recorded |
| `MeterStore` | the gateway's database file, several processes writing to it, one pulling |
| `MCMeterStore` | `MeterStore` for TLC |
| `MeterStoreProofs` | inductive invariant, safety theorems, refinement of `HistoryTransfer` |
| `WebApi` | `ServerStore` with the readings pollers are given and the live measurement |
| `MCWebApi` | `WebApi` for TLC |
| `WebApiProofs` | inductive invariant and safety theorems for pollers and the live measurement; what carries over from `ServerStore` |
| `MeterSource` | abstract: what a meter promises the gateway |
| `MeterRead` | both meter adapters and the Modbus client below one of them; checked as it is |
| `MeterReadProofs` | inductive invariant, late answers, registers, refinement of `MeterSource` |

### HistoryTransfer

`length[f]` is the highest row id of the gateway's file `f`, `copied` what the
server has. `Grow` appends a row; `Copy` adds one block, rows `lo+1 .. hi` of
one file, where `lo` is 0 or the index of a row copied before. With one file the
copy is therefore always a prefix. It is implemented twice: by gateway and server (`PullProtocol`), and by the
gateway's file and a consumer of its own (`MeterStore`).

### PullProtocol

State and code:

| Variable | Code |
|---|---|
| `file`, `length` | which SQLite file the gateway uses, and its highest row id (AUTOINCREMENT, rows are never deleted) |
| `active` | the tunnel `serve_tunnel` is on; the gateway has one at a time because `run` is one loop |
| `answering`, `page` | `handle_line` is between its page query and its `max_id` query, and the rows of that page |
| `status`, `lastIndex`, `awaiting` | one `tunnel_session` task per tunnel: spawned, running or returned; `last_index`; `awaiting_reply` |
| `requests`, `replies` | the two directions of the tunnel's stream, in order |
| `stored`, `cursor` | the server's `readings` and `gateways.cursor` |
| `latest` | the live measurement for `/harmonics` |
| `calm` | no code: from here on nothing fails (see fairness) |

Actions: `Sample` (the tunnel's own ticker) and `Record` (a second process) append
a row. `handle_line` with a readable meter is two steps: `AnswerPage` takes the
request, stores the fresh reading, or fails to without telling anyone, and takes
a page with `since_id`; `AnswerData` adds `max_id`, which counts as 0 when it fails, and
sends the reply. The gateway's own ticker waits for `handle_line` (both are branches of one
`select!`); only `Record` can come between the two, and so can the end of the
tunnel or of the session. `AnswerError` is a failing meter or a failing page query. `OpenTunnel`, `SeeEof`, `TunnelFails` and `RecreateDatabase`
are the ways into and out of a tunnel. On the server `ReadCursor`,
`SendPull`, `RecordBatch`, `RecordFails`, `IgnoreReply` and `EndSession` are the
branches of `tunnel_session` and `record_data`, and `RestartServer` loses all
memory and keeps the store.

What is abstracted:

- A reading is its file and its row id. In the code the time stamp takes the
  place of the file; that two files never hold the same row id with the same
  millisecond is an assumption here.
- The `id` of a message is left out: `tunnel_session` never looks at it.
- A meter snapshot always yields a usable row; values are left out, and with them
  schema errors.
- A tunnel slot is used again once both ends have left it, so the number of
  reconnects is not bounded.

A definition whose comment begins with "Mistake" is the next definition with a
bug in it. It is used by no other definition; checking with it in place of the
real one shows that a property notices the bug.

### Properties of the pull protocol

- `NoSkip`: while the gateway has its first file, every row up to the stored
  cursor is in the store, whichever session wrote it. (For a recreated file this
  is not true: `CONNECT_PROTOCOL.md` accepts a gap.)
- `StoredIsBeginning`: while the gateway has its first file, the store is exactly the file's rows up to some
  row, and the cursor is not above that row. It says of the rows above the cursor, which a reset may take back, what
  `NoSkip` says of those below it, and that the store has no other rows.
- `CursorBacked`: a cursor, stored or in a session, is 0 or the index of a row in the store.
- `OneOutstanding`: a tunnel carries at most one message, and none while the gateway is answering one.
- `NoRepull`: a reply in flight has only rows above the session's index.
- `PageByPage` (action): a session's index moves up only over rows that the same
  step has in the store; holds for recreated files and old sessions too.
- `CopiesHistory`: `HistoryTransfer` is implemented.
- `EveryReadingDelivered`, `NeverStalled`, `ResetPullsEverything` (liveness).
- `RecreatedFileIsPulled` is what `CONNECT_PROTOCOL.md` says and the code does not do; see section 3.

### RequestService and GatewayClient

PullProtocol has the gateway's steps but not its control: one task connects, sleeps,
samples and answers, and while it does one of them it does none of the others.
`phase` is where that task is: in `run_tunnel` before the tunnel is open
(`connecting`), at the `select!` (`serving`), in `sample_once` (`sampling`), in
the loop over complete lines (`handling`), or in the delay after an error
(`sleeping`). `backoff` is `run`'s, `due` the ticks of the sampling ticker nobody
has handled (missed ticks are made up for one by one); a tunnel starts with none and an
empty buffer (`NewTunnel`). `asked`, `inbox` and `replies` are the tunnel as the
server sees it. The server here may have several requests in flight, as
`CONNECT_PROTOCOL.md` allows, though `tunnel_session` never does.

`buf` (the line buffer) and `inbox` are bytes, or rather pieces of lines: a request is one piece and its
newline, a `long` one has more pieces than the limit. `Read` takes any number of
them up to a chunk, so chunks are cut anywhere. `Answer` and `Reject` take the first complete
line out of the buffer; a line that is not whole, or was sent malformed, ends the tunnel as the error from
`handle_line` does. Only when no newline is left is the limit looked at
(`AwaitMore`, `TooLong`). What a `data` reply holds is PullProtocol's subject.

- `RepliesInOrder`: the replies are those to the oldest requests, with their ids;
  the bytes in the buffer and on their way are exactly those of the other requests, in order.
- `BufferBounded`: the buffer holds at most the limit and one more read, and no more than the
  limit while it waits for the rest of a line.
- `ServesRequests`: `RequestService` is implemented: on a tunnel requests are answered one by one, the oldest first, each once and with
  its id; what has no answer is lost only with the tunnel and followed by a pause. A tunnel that ends without a pause has answered
  everything it was asked.
- `RequestsAnswered`, `SamplesTaken`: the two branches of the `select!` do not
  keep each other from running. `ComesBack`: neither do failures keep the
  gateway from a server that is back. All three are liveness.
- `SamplesDuringOutage` and `ReconnectsWithBackoff` are said of the code and are not
  true of it; see section 3.

### ReadingStore and ServerStore

PullProtocol records a batch in one step. `ServerStore` takes that step apart: the
lock is taken and the transaction begun (`Begin`), `ensure_columns` runs for each row
(`EnsureColumns`), each row is inserted or ignored (`InsertRow`), the cursor is
written (`SetCursor`), the transaction is committed and the session's index moves
(`Commit`). Between any two of these a statement may fail (`Fail`), be refused (`Refuse`)
or the server stop (`Restart`); all three end in `Rollback`.

`readings`, `columns` and `cursor` are the tables, `txReadings`, `txColumns` and `txCursor` the
same as the open transaction sees them; `owner` is the gateway whose batch it is, and
with it who holds the lock. `history`, `file` and `clock` are the gateways, `lastIndex` one
session for each.

A value is only whether it is there. `Field` is what a measurement may hold, `Name` those
fields that `measurement_to_row` keeps. A column can be added if SQLite's `ALTER TABLE` takes it
(`AlterTableTakes`) and if there is room (`Fits`). `ALTER TABLE` is stricter than `validate_column_name`: it
refuses a name that differs from another column's only in case (`Folded`), and names in `Barred`, which are
valid to the code but equal to `id`, `gateway`, `idx` or `ts_millis` up to case (the code compares with those
exactly) or are SQL keywords. `Reports` are the sets of fields a gateway's
measurements may have; this repository's gateway has one set for each of its
files, but the server's code is written for any. `RecreateDatabase` is an act of the operator, who deletes a file, followed by
the `MeterStore::open` that creates it again; the same is true in `PullProtocol`. The clock moves on between two
files of one gateway; within a file it may stand still.

- `RecordsBatches`: `ReadingStore` is implemented: every change of the tables is one
  whole batch with its cursor, of one gateway, each reading once, none missing up to the
  cursor, every value in a column.
- `FirstFileCopied`: while a gateway has its first file, its rows in the database are its readings 1 up to the stored
  cursor, each as it is in the file (without the fields that are dropped), and no others.
- `RunsToldApart` (action): a recorded batch's readings are in the table themselves,
  not taken for rows of an earlier file with the same index.
- `KnownKindsRecorded` (liveness): batches that can never be stored do not hold up a
  gateway whose values all have their columns.
- `KindsShareFile` and `BadFieldsDropped` are said of the code and not true of it; see section 3.

### MeterStore

PullProtocol appends a row in one step. Behind that step is `insert`, several SQL statements of
their own without a transaction around them, on a file that a `record` process and the tunnel
process may both have open. `stage[p]` is the statement process `p`'s insert comes to next:
`Look` is the query for the columns in `ensure_table`, `CreateTable`, `CreateTableFails` and
`CreateIndex` its batch, `CheckSchemaMatches` the comparison and `Insert` the row. `Fail` ends an
insert anywhere: a statement that fails, a process that is stopped. All a process does then is go
on with its next reading (`sample_once` logs and drops the error). `Pull` is a consumer
that asks `since_id` again and again from the last id it was given.

Of a reading there is its kind, which is the set of names of its values, and the time, which may be
anything: the clock can be set back. This repository's two meters report the same names and are of one
kind; `check_schema_matches` is there for another. `beaten` and `seen` only record what happened.

- `SchemaFixed`: all rows are of the kind the table was created for, and the `expect`
  in `check_schema_matches` holds.
- `EveryRowOnce`: the consumer has exactly the rows up to its cursor, in order.
- `LosesOneAtMost`: a process loses one reading at most to another one creating the table.
- `CopiesRows`: `HistoryTransfer` is implemented, with the file for history and what the consumer has of it for
  the copy: every page goes on where an earlier one ended.

That one reading is lost with an error: the second `CREATE TABLE` fails, and `insert` hands that to `sample_once`,
although the comment on `from_connection` says the busy timeout keeps a brief overlap from surfacing as
one. It does so for locks.

### WebApi

`ServerStore` knows which rows there are; a poller goes by their ids. `WebApi` adds to it `table`, the committed
rows by id, and `txTable`, the same as the open transaction sees them; `live`, the live measurement;
`arrived`, the replies whose sessions wait for the lock; and for each poller (`Filter`: one
gateway's, or all) the rows it was `given`, the id it goes on from (`after`), and whether an
answer was as long as its limit (`cut`).

`record_data` writes the live measurement before it asks for the lock, so `Begin` is two steps here: `Mirror`
and `Lock`. `Insert`, `OtherStatement`, `CommitRows`, `RollBackRows` and `RestartAll` are the statements of
`ServerStore` with what they do to ids. `Poll` is one request for `/readings`: the lock is free, the limit is the
default or the one asked for up to the maximum, the newest rows are kept and
come oldest first. `Harmonics` is `/harmonics`, 503 as long as there is no measurement.

Left out: the gaps in ids that ignored rows may leave, the SCION address and the text of a row, and what the checkpoint does (it
changes no row). From the arrival of a reply to the lock its gateway takes no reading. `RecreateDatabase` can
happen in `WebApi` too but not in its run; `ServerSafety` has it.

- `PollersMissNothing`: a poller is given no row twice, and all rows if its answers were shorter than
  their limit: no row becomes visible under an id the poller has passed.
- `GivenRowsStay`: what a poller was given is in the database; nothing of an open transaction is seen.
- `LiveIsNewest`: when everything has been pulled, the harmonics are those of some gateway's newest reading.
- `LiveGoesOn` (liveness): the live measurement follows a gateway even if the store
  refuses all its rows, as long as they fit one page. With a longer backlog it stays at the end of that page.

### MeterSource and MeterRead

To PullProtocol and GatewayClient a meter is a call that comes back. `MeterSource` says what the call promises: an error,
or all single values and gapless harmonics, each name once, all measured in that very call. `MeterRead` is
how `ModbusMeter` keeps the promise (and `DummyMeter`, in one step).

`at` is the read of the plan (`Singles`, then `Arrays`, with `RegisterOf` the register map) that is next or under way, `readings`
what has been read, `waiting` whether its request is out. A read may be answered (`Receive`), with the wrong
number of words or with an exception, or be given up on (`TimeOut`), and all but the first end the call
(`?` after each read). The request is not taken back: it stays in `asked` or its answer in `frames`, and the
connection (`link`) is opened once (`Connect`) and never again. External: the meter, and
tokio-modbus, which numbers its requests (`tx`), drops at least none and at most all of the frames left over before it
sends the next request, and fails a read whose answer has another number. The word in a register is its own address, so
that a value says where it was read. The dummy's arithmetic is left out.

`FloatsAssumption` is the comment on `MAX_FLOATS_PER_REQUEST`: a Modbus read returns at most 125 registers, two for a float.

- `RightRegisters`: a value is the pair of registers its name stands for, high word first, and no register appears
  under two names. The numbers in `RegisterOf` are those of the code, so this does not say that they are the meter's;
  what it would notice of a wrong one is that two functions read the same registers.
- `OneLateAnswerPerCall`: a call leaves at most one request or answer behind; a silent meter is waited for once
  in a call.
- `SourceSpec`: `MeterSource` is implemented; a late answer to an earlier call is never taken for one of this.
- `CallsReturn` (liveness): every call comes back, however long the meter is silent.

## 3. The runs

| Run | Instance | Shows |
|---|---|---|
| `PullSafety` | 2 tunnels, pages of 2, 3 rows, 2 files | type invariant, `NoSkip`, `StoredIsBeginning`, `CursorBacked`, `OneOutstanding`, `NoRepull`, `PageByPage`, `CopiesHistory` |
| `PullLiveness` | 1 tunnel, pages of 1, 2 rows, 2 files | the three liveness properties |
| `PullResetLost` | 1 tunnel, pages of 2, 3 rows, 2 files | a violation of `RecreatedFileIsPulled` |
| `ServerSafety` | 2 gateways, 2 rows, 2 files, 5 names (2 clash, 1 barred), 2 columns | type invariant, `FirstFileCopied`, `RecordsBatches`, `RunsToldApart` |
| `ServerKinds` | 2 gateways, 1 row, names that clash | a violation of `KindsShareFile` |
| `ServerFields` | 1 gateway, 2 rows | a violation of `BadFieldsDropped` |
| `WebReadings` | 2 gateways, 2 rows, batches of 2, 2 names, 1 column; pollers of one and of all gateways | type invariant, `PollersMissNothing`, `GivenRowsStay`, `LiveIsNewest`, `KnownKindsRecorded`, `LiveGoesOn` |
| `MeterRead` | both adapters, 2 calls, 25 harmonics, answers up to one word short | type invariant, `RightRegisters`, `OneLateAnswerPerCall`, `SourceSpec`, `CallsReturn` |
| `MeterFile` | 3 processes, 2 kinds of readings, 4 rows, pages of 2, 3 times | type invariant, `SchemaFixed`, `EveryRowOnce`, `LosesOneAtMost`, `CopiesRows` |
| `GatewayTask` | 2 requests in flight, a limit of 2 bytes, chunks of 4, 2 ticks due, delays 1 to 3 | type invariant, `RepliesInOrder`, `BufferBounded`, `ServesRequests`, `RequestsAnswered`, `SamplesTaken`, `ComesBack` |
| `GatewaySampling` | as `GatewayTask` | a violation of `SamplesDuringOutage` |
| `GatewayBackoff` | as `GatewayTask` | a violation of `ReconnectsWithBackoff` |

**Bounds.** `MaxRow` rows per file and `MaxFile` recreations bound the state; the
number of faults, restarts and reconnects is not bounded. Three rows and pages
of two give a full page, a partial page and an empty one; two tunnels give a
session next to a left-over one (a third adds only another left-over one); one
recreation gives a file shorter than, as long as and longer than the cursor.
The liveness run uses pages of one row so that every row is
a page boundary. Liveness is checked without symmetry and with one tunnel: a left-over
session then has to end before the gateway comes back, which `EndSession`'s fairness provides.

For `GatewayClient`, two requests give one being answered and one behind it in the same
chunk, in the next, or cut in two by it; a limit of two and chunks of four let a buffer that is not yet
too long grow past the limit by one read, and let a line that is longer than the limit arrive
whole and be answered. A second tick can fall due while the first is being handled; a
maximum of 3 that is no power of two times the initial delay of 1 makes the cap
bite (1, 2, 3). Outages and tunnels are not bounded.

For `ServerStore`, two rows per batch give a statement before, between and after rows; two columns
for three names that could be there together make the cap bite with a column
already added in the same batch; a measurement with a barred name next to a good one has its batch refused after rows of it
were handled, or before; two files of one gateway give rows with the same
index. Crashes, failures and sessions are not bounded.

For `MeterStore`, three processes give a race for the table between two of one kind and
one of another; four rows and pages of two give full, partial and empty pages with rows
appended between them; three times let the clock go both ways. Failures are not bounded.

For `WebApi`, one column for two names makes one gateway's batches fit or not by what its readings hold;
two gateways and one batch of two rows let a poller of all and a poller of one come before, between
and after commits; four rows in all, a default limit of 2 and a maximum of 3 give answers below, at and
above the limit, as the poller asks for none or for 9. Polls, failures and restarts are not bounded.

`MeterRead` has the code's own 25 harmonics and 62 floats, and two calls: the second finds whatever the
first has left. It may stop after them, so deadlock is not checked there.

**The violations.** `record_data` answers a shrunk history by setting the session's
`last_index` to 0, after `record_batch` has written the old cursor to the store.
Until the next batch, 0 is only in memory. If the session ends there and the new
file grows past the old cursor, the next session resumes from the old
cursor and never asks for the rows below it. `CONNECT_PROTOCOL.md` ("Gateway Identity
and History Resets") says the server resets that gateway's cursor and pulls everything.

The tunnel process reads the meter only in `serve_tunnel`. In an outage it
alternates between connecting and sleeping and takes no reading (`GatewaySampling`), while
`README.md` says it samples every interval independently of the tunnel. Only a
separate `record` process does.

A tunnel the server ends cleanly is followed by the next one at once
(`GatewayBackoff`), even if it was never used. `tunnel_session` ends like that
when it cannot read the cursor, so the gateway then reconnects in a tight loop,
while the comment on `run` and `CONNECT_PROTOCOL.md` speak of a backoff.

Two meter kinds that spell a name differently only in case cannot share the
server's file (`ServerKinds`): `ensure_columns` finds no such column, `ALTER TABLE` finds a
duplicate one, the batch is rolled back and pulled again for ever. A name in `Barred` has the same effect without a
second kind; there is none in that run, so that it shows the clash alone. The module
comment of `storage.rs` says the columns let two kinds share a file.

A measurement of which no field is usable leaves `record_batch` with an empty
list of columns, which is a syntax error in SQL (`ServerFields`). The batch is
rolled back and pulled again for ever, so the measurements after it are never stored, though
bad fields are meant to be dropped without losing the batch. This
repository's own meters always send usable names.

**Fairness.** In `PullProtocol` the steps of the loops that run by themselves are weakly fair: the
gateway reopens its tunnel (`run` never returns), answers requests, leaves a
closed tunnel; a session reads its cursor, pulls on its ticker, handles what
arrives; a session whose tunnel the gateway has left ends (QUIC's idle
time-out). Faults may happen without limit until `CalmDown`, which comes
eventually: no retrying protocol delivers against faults that never stop.
Sampling is not assumed to go on.

In `GatewayClient` attempts to connect, sleeps, meter readings and answers end,
and time passes (weak fairness). The branches of the `select!` are strongly fair:
tokio polls them in a random order, so a branch that is ready again and again is
taken. That readings and answers end is what `CallsReturn` says of the meter. Nothing is assumed of the server (`Request`, `TakeReply`, `End`), of the network or
of when a broken connection is noticed (`BreakOff`).

In `ServerStore` statements end (weak fairness of `Statement`), faults come to an end (`CalmDown`), and a
session that pulls every few seconds gets the lock again and again (strong fairness of
`Begin`: a batch takes far less time than the pull interval).

In `WebApi` it is the same: statements end, a reply arrives for each request (weak fairness of `Mirror`), its session
gets the lock in the end (strong fairness of `Lock`: the lock is held for one batch or one query at a time and free for most of a pull interval), and faults come to an end. Nothing is assumed of
pollers.

In `MeterRead` the task goes on and the timer of a read runs out (weak fairness of `ClientStep`). The meter may
stay silent.

## 4. The proofs

`PullProtocolProofs` holds for any set of tunnels, any page size above 0 and any
bounds; it uses the three assumptions `PullProtocol` states on its constants.

`NoSkip` is not inductive: a batch recorded against an index that has moved would
break it. The inductive invariant `IInv` adds, for every tunnel (`TunnelInv`),
that a request in flight asks for exactly the session's `last_index`, that the page
being answered and then a data reply hold exactly the rows of one file that
follow it (`Follows`, `Continues`), and that there is never more than one of the
three; that an answer belongs to the gateway's tunnel (`AnswerInv`); and, while there is one file, that the rows
up to every session's index are in the store (`StoreInv`). `SinceIdIsRows` says that
a page is such a run of rows, `NewLastIndexOfRows` that the next index is its end.
`TypeStep`, `AnswerStep`, `TunnelStep` and `StoreStep` go through the actions one by one.

Theorems: `TypeCorrect`, `NothingSkipped`, `CursorsBacked`, `AtMostOneInFlight`,
`NothingRepulled`, `PagesClose` (the action property, by `IndexStep`) and
`Refinement` (`GrowStep`, `CopyStep`); and `FirstFileCopied`, that the store is a beginning of the first file: the batch
recorded begins inside it, since the rows up to the session's index are there (`StoreInv`), so it only makes it
longer or changes nothing (`BeginningRecorded`).

`ServerStoreProofs` holds for any gateways, names, kinds of measurements, batch sizes and
numbers of columns. `TypeCorrect` contains the cap on columns. The refinement needs `TxInv`: what the
transaction has written so far differs from the tables only by rows of the
batch, each once and in a column that is there (`RowsInv`, `ColumnsInv`); the batch follows the
session's index (`BatchInv`); and no row is missing up to a stored cursor or an index in memory (`CursorInv`), so that
the commit closes up with what is there (`Committed`, `CommitRecords`). `ToldApart` needs `FilesInv`: a row of the
gateway's present file is as it is there, one of an earlier file is older than all
of the present one, so that equal keys mean equal rows (`InsertRowThemselves`).
`FirstFile` (that is `FirstFileCopied`) adds `FirstInv`: in a first file the session's index is the stored cursor, which is never above the
end of the file or below a row that is there. `FilesInv` then says what each of these rows is, and `CursorInv` that none is missing.

`UnstorableNotPassed` says of every instance what `ServerFields` and `ServerKinds` show of a small one: no cursor gets past a
measurement without a usable field, with a name in `Barred`, or with one that differs from a column's only in case, because every row has a
value, all columns are `Distinct`, and none has a name in `Barred` (`StorableInv`).

`MeterStoreProofs` holds for any processes, kinds, page sizes and lengths of the file. `SchemaFixed` is
not inductive; it needs that a process about to insert has found the table to be of its kind
(`InsertsFit`), which stays so because a table, once there, keeps its kind (`TableStays`).
`TypeCorrect` is proved along with it. `LosesOneAtMost` needs that a process which has lost a reading is not about to create the
table (`BeatenOnce`). `EveryRowOnce` rests on `SinceIdIsPage` and the library's theorems on
adjacent subsequences. `Refinement` follows from it: what the consumer has of the file is its rows up to the
cursor (`CopyIsBeginning`), before a step and after it, so a page is a block and an insert a longer history (`TransferStep`).

`GatewayClientProofs` holds for any requests, limits, chunks and delays. The invariant is `TypeOK`,
`BufferBounded` and `RepliesInOrder` together. `RepliesInOrder` speaks of all bytes, so the proof must find the
lines in them: the first newline of bytes that are lines ends the first line
(`HoldsFirst`: only the last byte of a line is one), and taking that line out leaves the rest
(`AnswerStep`), a new request appends to it (`HoldsAppend`), and a read only moves the border between buffer and
stream (`ReadStep`). So `FirstLine` is always the oldest request without a reply, never half of one.
`Refinement` adds `TunnelInv`: the task waits for bytes only when the buffer has no newline left, and nothing is asked
outside a tunnel. Bytes without a newline hold no request (`HoldsNoLine`), so at the end of the stream all requests have their
replies (`EofAnswered`).

`WebApiProofs` extends `ServerStoreProofs` and holds for any gateways, pollers and limits. The invariant adds that
the rows of `table` and `txTable` are those of `ServerStore`'s sets and `txTable` begins with `table` (`TableInv`), and that what pollers
were given is in `table`, up to the id they go on from (`PollInv`). `StoreStep` says that every step of `WebApi` is one of `ServerStore`
or leaves it alone, so that its type invariant, and with `PromiseStep`, `FilesStep` and `FirstStep` also `ReadingStore`, `FirstFileCopied` and
`RunsToldApart`, carry over (`WebRecords`, `WebFirstFile`, `WebToldApart`). `LiveIsNewest` is not inductive, as it speaks only of moments at which
everything is pulled; `NewestInv` follows the measurement there: it is one of its gateway's file, and neither the session's index nor the end of the
batch being recorded or of the page that has just arrived is past it.

`MeterReadProofs` holds for any number of harmonics up to the most that one request may ask for, and any number of calls. The invariant says that
`readings` are the part of a snapshot up to the read under way (`Part`: the singles in their order, then whole
arrays, `Block` for one of them), all of this call; that transaction ids in `asked` and `frames`
belong to one call each and only the latest may be that of the read under way (`Tagged`), so that an answer
with the right id was asked for in this call; and that a call leaves at most one behind (`LateInv`). Each `Receive` makes the part
longer by a block (`Extend`), and the part up to the last read is a snapshot. `RegistersRight` needs to know more of an answer than
when it was asked for: the latest request is for the registers of the read under way and its answer holds what they hold
(`RegisterInv`), so each value is `Placed`. That no register appears under two names (`RegistersApart`) is true because a request
holds 125 registers at most, and so an array does: the arrays begin 504 registers apart or more, and the single values above them all.

All safety properties of the runs are proved. Only model-checked: the liveness properties, since TLAPS as used here has no
support for fairness and `ENABLED`. The fairness of each specification is therefore no part of any proof, and every theorem holds
without it.

## 5. Not modelled

- The server's own line framing (`next_line` in `api.rs`). It keeps bytes until a newline comes, as the gateway does, but
  without a limit; replies arrive whole in the models. The `id` of a reply is not looked at by the code.
- Two gateways without an identity under one cursor. `CONNECT_PROTOCOL.md` names it as a limitation, and no
  property of a copy holds for it.
- `query` and `latest` of the gateway's store, and `show`: they change nothing, and only `show` and the tests use the two.
- What does not change a result: the index on the readings' time, the checkpoint, the modes of the database file.
- The dashboard, which draws what the web API answers, and the dummy meter's values: floating-point arithmetic.
- The local SCION network, which is built once at start-up; command lines, the pinger, scripts and Grafana's configuration.
