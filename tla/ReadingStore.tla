----------------------------- MODULE ReadingStore -----------------------------
(***************************************************************************)
(* What the server's database promises, with no statement and no           *)
(* transaction in sight: batches of gateways are recorded one at a time,   *)
(* each whole and together with the gateway's cursor.                      *)
(***************************************************************************)
EXTENDS Naturals

CONSTANTS
    Gateway,
    Schema          \* the sets of columns the database may have

VARIABLES
    readings,       \* the rows stored
    columns,        \* the names of values that have a column
    cursor          \* per gateway, the index its rows go up to

Key(r) == <<r.gateway, r.idx, r.ts>>

Init ==
    /\ readings = {}
    /\ columns = {}
    /\ cursor = [g \in Gateway |-> 0]

\* One batch of gateway g: rows are added and none lost, all of them g's, none of
\* them above the cursor that is stored with them, each a reading of its own; and
\* up to that cursor no index is missing.
Record(g) ==
    /\ readings \subseteq readings'
    /\ \A r \in readings' \ readings :
          /\ r.gateway = g
          /\ r.idx <= cursor'[g]
          /\ \A s \in readings' : Key(r) = Key(s) => r = s
    /\ \A i \in 1 .. cursor'[g] : \E r \in readings' : r.gateway = g /\ r.idx = i
    /\ cursor' = [cursor EXCEPT ![g] = cursor'[g]]
    /\ columns \subseteq columns'
    /\ columns' \in Schema
    /\ \A r \in readings' : r.names \subseteq columns'

Next == \E g \in Gateway : Record(g)

Spec == Init /\ [][Next]_<<readings, columns, cursor>>

=============================================================================
