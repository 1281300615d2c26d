------------------------------ MODULE MCWebApi ------------------------------
(* WebApi for TLC.  "v" and "i" are values; "note" is a field that is none. *)
EXTENDS WebApi, TLC

CONSTANTS g1, g2

NoCase == [n \in {"v", "i"} |-> n]

\* One gateway reports now one value, now another; a second one always the first.
TwoKinds == (g1 :> {{"v", "note"}, {"i"}} @@ g2 :> {{"v"}})

=============================================================================
