---------------------------- MODULE RequestService ----------------------------
(***************************************************************************)
(* What a gateway promises the server on its tunnels, with no bytes, no    *)
(* buffer, no meter and no ticker in sight: requests are answered one by   *)
(* one, the oldest first, each with its own id.                            *)
(*                                                                         *)
(* A tunnel may be lost with requests that have no answer, and then there  *)
(* is a pause before the next one.  One that ends without a pause has had  *)
(* all its requests answered.                                              *)
(***************************************************************************)
EXTENDS Sequences

CONSTANTS
    Request,        \* requests, each with an id and a kind
    Outcome         \* Outcome[k]: the kinds of answers to a request of kind k

VARIABLES
    state,          \* of the tunnel: there is "none" or one "open", or there is a "pause"
    waiting,        \* requests without an answer, oldest first
    replies         \* answers the server has not taken

vars == <<state, waiting, replies>>

Init == state = "none" /\ waiting = <<>> /\ replies = <<>>

Open ==
    /\ state = "none" /\ state' = "open"
    /\ UNCHANGED <<waiting, replies>>

\* The server asks, under an id that no other request has now.
Ask ==
    /\ state = "open"
    /\ \E q \in Request :
          /\ \A n \in DOMAIN waiting : waiting[n].id # q.id
          /\ \A n \in DOMAIN replies : replies[n].id # q.id
          /\ waiting' = Append(waiting, q)
    /\ UNCHANGED <<state, replies>>

\* The oldest request is answered.
Answer ==
    /\ state = "open"
    /\ waiting # <<>>
    /\ \E kind \in Outcome[Head(waiting).kind] :
          replies' = Append(replies, [id |-> Head(waiting).id, kind |-> kind])
    /\ waiting' = Tail(waiting)
    /\ UNCHANGED state

Take ==
    /\ replies # <<>>
    /\ replies' = Tail(replies)
    /\ UNCHANGED <<state, waiting>>

\* The tunnel is lost, and with it whatever has no answer.
Lose ==
    /\ state = "open" /\ state' = "pause"
    /\ waiting' = <<>> /\ replies' = <<>>

\* It has ended in good order.
Close ==
    /\ state = "open" /\ state' = "none"
    /\ waiting = <<>>
    /\ waiting' = <<>> /\ replies' = <<>>

\* There is no way to the server; the pause is over.
Fail  == state = "none" /\ state' = "pause" /\ UNCHANGED <<waiting, replies>>
Retry == state = "pause" /\ state' = "none" /\ UNCHANGED <<waiting, replies>>

Next == Open \/ Ask \/ Answer \/ Take \/ Lose \/ Close \/ Fail \/ Retry

Spec == Init /\ [][Next]_vars

=============================================================================
