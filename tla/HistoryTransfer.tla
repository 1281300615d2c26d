--------------------------- MODULE HistoryTransfer ---------------------------
(***************************************************************************)
(* What a gateway and the EDH server promise together, with no tunnel, no  *)
(* request and no process in sight.                                        *)
(*                                                                         *)
(* A gateway keeps its readings in a database file whose row ids count up  *)
(* from 1; when the file is deleted, the next one starts at 1 again.  The  *)
(* server's store is a copy that only ever grows, and it grows a block at  *)
(* a time: the rows of one file, with none left out, from just above       *)
(* where an earlier block ended (or from row 1) upwards.                   *)
(*                                                                         *)
(* So as long as there has been only one file, the copy is a prefix of it. *)
(***************************************************************************)
EXTENDS Integers

CONSTANT File               \* the database files a gateway has had

VARIABLES
    length,                 \* length[f]: the highest row id of file f
    copied                  \* the readings the server's store holds

Reading == [file : File, idx : Nat \ {0}]

\* Rows lo+1 .. hi of file f.
Block(f, lo, hi) == {[file |-> f, idx |-> i] : i \in lo+1 .. hi}

Produced == UNION {Block(f, 0, length[f]) : f \in File}

\* Where a block may begin: at the start, or above a row already copied.
Boundary == {0} \cup {r.idx : r \in copied}

Init ==
    /\ length = [f \in File |-> 0]
    /\ copied = {}

\* The gateway stores one more reading.
Grow(f) ==
    /\ length' = [length EXCEPT ![f] = @ + 1]
    /\ UNCHANGED copied

\* The server stores one block.
Copy(f) ==
    /\ \E lo \in Boundary : \E hi \in lo+1 .. length[f] :
          copied' = copied \cup Block(f, lo, hi)
    /\ UNCHANGED length

Next == \E f \in File : Grow(f) \/ Copy(f)

Spec == Init /\ [][Next]_<<length, copied>>

=============================================================================
