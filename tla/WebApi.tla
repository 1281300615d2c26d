------------------------------- MODULE WebApi -------------------------------
(***************************************************************************)
(* The server's plain-HTTP API over ServerStore: pollers of the readings   *)
(* and the live measurement behind the harmonics.                          *)
(*                                                                         *)
(* The pollers share one connection with record_batch.  What keeps them    *)
(* out of an open transaction is the lock around the store.                *)
(*                                                                         *)
(* Abstracted: row ids have no gaps; a measurement's values are its index; *)
(* from the arrival of a reply to the lock its gateway stands still.       *)
(***************************************************************************)
EXTENDS ServerStore

CONSTANTS
    Filter,         \* what pollers ask for: a gateway, or None for all
    Limits,         \* the limits they ask for, NoLimit if they do not
    NoLimit,
    DefaultLimit,   \* DEFAULT_LIMIT
    MaxLimit,       \* MAX_LIMIT
    Harmonic        \* the names of values the harmonics are taken from

ASSUME FilterAssumption == Filter \subseteq Gateway \cup {None}
ASSUME LimitAssumption ==
    /\ NoLimit \notin Nat /\ Limits \subseteq Nat \cup {NoLimit}
    /\ DefaultLimit \in Nat /\ MaxLimit \in Nat
ASSUME HarmonicAssumption == Harmonic \subseteq Field

VARIABLES
    table,          \* the committed rows by id
    txTable,        \* the same as the transaction sees them
    arrived,        \* gateways with a reply that waits for the lock
    live,           \* latest, the live measurement
    given,          \* given[f]: the rows poller f was given
    after,          \* after[f]: the id it goes on from
    cut             \* cut[f]: whether an answer to it was as long as its limit

rowIds  == <<table, txTable>>
pollers == <<given, after, cut>>
web     == <<rowIds, arrived, live, pollers>>
webVars == <<vars, web>>

Measurement == [gateway : Gateway, idx : Nat \ {0}, fields : SUBSET Field]
Answered    == [id : Nat \ {0}, row : Row]

WebTypeOK ==
    /\ TypeOK
    /\ table \in Seq(Row) /\ txTable \in Seq(Row)
    /\ arrived \subseteq Gateway
    /\ live \in Measurement \cup {None}
    /\ given \in [Filter -> SUBSET Answered]
    /\ after \in [Filter -> Nat]
    /\ cut \in [Filter -> BOOLEAN]

WebInit ==
    /\ Init
    /\ table = <<>> /\ txTable = <<>>
    /\ arrived = {}
    /\ live = None
    /\ given = [f \in Filter |-> {}]
    /\ after = [f \in Filter |-> 0]
    /\ cut = [f \in Filter |-> FALSE]

-----------------------------------------------------------------------------
(* The gateways and the tunnels *)

\* A gateway goes on, a new session begins: not while a reply of its waits.
GatewayStep ==
    /\ \E g \in Gateway \ arrived : TakeReading(g) \/ RecreateDatabase(g) \/ NewSession(g)
    /\ UNCHANGED web

\* The last measurement of the reply's page.
Newest(g) ==
    LET i == lastIndex[g] + PageLength(g, lastIndex[g])
    IN  [gateway |-> g, idx |-> i, fields |-> history[g][i].fields]

\* Mistake: an empty page is taken for a measurement without values.
MirrorEmpty(g) ==
    /\ g \notin arrived
    /\ owner # g
    /\ arrived' = arrived \cup {g}
    /\ live' = IF PageLength(g, lastIndex[g]) = 0
               THEN [gateway |-> g, idx |-> lastIndex[g], fields |-> {}] ELSE Newest(g)
    /\ UNCHANGED <<vars, rowIds, pollers>>

\* Mistake: the first measurement of the page.
MirrorFirst(g) ==
    /\ g \notin arrived
    /\ owner # g
    /\ arrived' = arrived \cup {g}
    /\ live' = IF PageLength(g, lastIndex[g]) = 0 THEN live
               ELSE [gateway |-> g, idx |-> lastIndex[g] + 1,
                     fields |-> history[g][lastIndex[g] + 1].fields]
    /\ UNCHANGED <<vars, rowIds, pollers>>

\* Mistake: only what the store has columns for.
MirrorStored(g) ==
    /\ g \notin arrived
    /\ owner # g
    /\ arrived' = arrived \cup {g}
    /\ live' = IF PageLength(g, lastIndex[g]) = 0 THEN live
               ELSE IF Fits(Newest(g).fields \cap Name, columns) THEN Newest(g) ELSE live
    /\ UNCHANGED <<vars, rowIds, pollers>>

\* A reply arrives.  The live measurement is written before the lock is asked for.
Mirror(g) ==
    /\ g \notin arrived
    /\ owner # g
    /\ arrived' = arrived \cup {g}
    /\ live' = IF PageLength(g, lastIndex[g]) = 0 THEN live ELSE Newest(g)
    /\ UNCHANGED <<vars, rowIds, pollers>>

\* Its session gets the lock.
Lock(g) ==
    /\ g \in arrived
    /\ Begin(g)
    /\ arrived' = arrived \ {g}
    /\ txTable' = table
    /\ UNCHANGED <<table, live, pollers>>

\* A row that is not ignored gets the next id.
Insert ==
    /\ InsertRow
    /\ txTable' = IF txReadings' = txReadings THEN txTable ELSE Append(txTable, batch[at + 1])
    /\ UNCHANGED <<table, arrived, live, pollers>>

OtherStatement ==
    /\ EnsureColumns \/ ColumnsDone \/ SetCursor
    /\ UNCHANGED web

CommitRows ==
    /\ Commit
    /\ table' = txTable
    /\ UNCHANGED <<txTable, arrived, live, pollers>>

RollBackRows ==
    /\ Refuse \/ Fail
    /\ txTable' = table
    /\ UNCHANGED <<table, arrived, live, pollers>>

\* The live measurement is in memory only.
RestartAll ==
    /\ Restart
    /\ txTable' = table
    /\ arrived' = {}
    /\ live' = None
    /\ UNCHANGED <<table, pollers>>

StayCalm == CalmDown /\ UNCHANGED web

-----------------------------------------------------------------------------
(* readings *)

Limit(asked) ==
    IF asked = NoLimit THEN DefaultLimit ELSE IF asked <= MaxLimit THEN asked ELSE MaxLimit

\* A value without a column, or that is NULL, is left out.
RowToJson(rows, id) == [id |-> id, row |-> [rows[id] EXCEPT !.names = @ \cap columns]]

\* ORDER BY id DESC LIMIT: as many as there are up to the limit, none older than one left out.
IsNewest(kept, ids, limit) ==
    /\ \A k \in kept : \A m \in ids : m > k => m \in kept
    /\ IF Cardinality(ids) <= limit THEN kept = ids ELSE Cardinality(kept) = limit

\* Mistake: the newest row comes first, and the poller goes on from the last one.
AnswerReversed(f, rows) ==
    LET ids == {id \in DOMAIN rows : id > after[f] /\ f \in {None, rows[id].gateway}}
    IN  \E asked \in Limits : \E kept \in SUBSET ids :
            /\ IsNewest(kept, ids, Limit(asked))
            /\ given' = [given EXCEPT ![f] = @ \cup {RowToJson(rows, id) : id \in kept}]
            /\ \E last \in kept \cup {after[f]} :
                  /\ kept # {} => last \in kept /\ \A k \in kept : k >= last
                  /\ after' = [after EXCEPT ![f] = last]
            /\ cut' = [cut EXCEPT ![f] = @ \/ Cardinality(kept) = Limit(asked)]

\* The newest rows after the last one poller f was given, oldest first.
Answer(f, rows) ==
    LET ids == {id \in DOMAIN rows : id > after[f] /\ f \in {None, rows[id].gateway}}
    IN  \E asked \in Limits : \E kept \in SUBSET ids :
            /\ IsNewest(kept, ids, Limit(asked))
            /\ given' = [given EXCEPT ![f] = @ \cup {RowToJson(rows, id) : id \in kept}]
            /\ \E last \in kept \cup {after[f]} :
                  /\ \A k \in kept : k <= last
                  /\ after' = [after EXCEPT ![f] = last]
            /\ cut' = [cut EXCEPT ![f] = @ \/ Cardinality(kept) = Limit(asked)]

\* Mistake: the shared connection is read without the lock.
PollUnlocked(f) ==
    /\ Answer(f, txTable)
    /\ UNCHANGED <<vars, rowIds, arrived, live>>

\* A poller asks for what comes after the last row it was given.
Poll(f) ==
    /\ owner = None
    /\ Answer(f, table)
    /\ UNCHANGED <<vars, rowIds, arrived, live>>

-----------------------------------------------------------------------------
(* harmonics *)

\* A harmonic the measurement lacks is 0.
DeriveHarmonics(m) == [h \in Harmonic |-> IF h \in m.fields THEN m.idx ELSE 0]

\* None is the answer 503.
Harmonics == IF live = None THEN None ELSE DeriveHarmonics(live)

-----------------------------------------------------------------------------

WebNext ==
    \/ GatewayStep
    \/ Insert \/ OtherStatement \/ CommitRows \/ RollBackRows \/ RestartAll \/ StayCalm
    \/ \E g \in Gateway : Mirror(g) \/ Lock(g)
    \/ \E f \in Filter : Poll(f)

\* As in ServerStore; replies arrive, and whoever waits for the lock gets it in the end.
WebFairness ==
    /\ WF_webVars(Insert \/ OtherStatement \/ CommitRows \/ RollBackRows) /\ WF_webVars(StayCalm)
    /\ \A g \in Gateway : WF_webVars(Mirror(g)) /\ SF_webVars(Lock(g))

WebSpec == WebInit /\ [][WebNext]_webVars /\ WebFairness

-----------------------------------------------------------------------------
(* Properties *)

\* A poller is given no row twice, and as long as every answer was shorter than its
\* limit it has all rows up to the last one it was given: no row becomes visible under
\* an id a poller has passed (readings, record_batch).
PollersMissNothing ==
    \A f \in Filter :
        /\ \A a \in given[f] : a.id <= after[f]
        /\ ~cut[f] => \A id \in DOMAIN table :
                         id <= after[f] /\ f \in {None, table[id].gateway}
                         => \E a \in given[f] : a.id = id

\* What a poller was given is in the database, as it was given, whichever statements
\* fail afterwards (the lock around record_batch and readings).
GivenRowsStay ==
    \A f \in Filter : \A a \in given[f] : a.id \in DOMAIN table /\ a.row = table[a.id]

\* Once everything has been pulled the harmonics are those of a gateway's newest
\* reading, if the server has not been started anew (record_data, harmonics).
LiveIsNewest ==
    (/\ live # None /\ owner = None /\ arrived = {}
     /\ \A g \in Gateway : file[g] = 1 /\ lastIndex[g] = Len(history[g]))
    => \E g \in Gateway :
          /\ history[g] # <<>>
          /\ Harmonics = DeriveHarmonics([idx |-> Len(history[g]), fields |-> history[g][Len(history[g])].fields])

\* Reading i of g has come with no reply so far whose rows are or may still be stored.
Unpulled(g, i) == Taken(g, i) /\ lastIndex[g] < i /\ g \notin arrived /\ owner # g

\* The live measurement follows a gateway even if the store refuses all its rows,
\* as long as they fit one reply (the comment on record_data).
LiveGoesOn ==
    Batch >= MaxRow
    => \A g \in Gateway : \A i \in 1 .. MaxRow :
          Unpulled(g, i) ~> (live # None /\ live.gateway = g /\ live.idx >= i) \/ file[g] # 1

=============================================================================
