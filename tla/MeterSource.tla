----------------------------- MODULE MeterSource -----------------------------
(***************************************************************************)
(* What a MeterSource promises its caller, with no register and no         *)
(* connection in sight: every read_snapshot comes back, with an error or   *)
(* with a snapshot measured during that very call.                         *)
(***************************************************************************)
EXTENDS Naturals, Sequences

CONSTANTS
    Single,         \* the names of one value
    Array,          \* the names of a harmonic array
    Failed          \* the result that is an error

VARIABLES
    calling,        \* a call of read_snapshot has not come back
    calls,          \* the calls so far
    result          \* what the latest one came back with

vars == <<calling, calls, result>>

Init == calling = FALSE /\ calls = 0 /\ result = Failed

Call ==
    /\ ~calling
    /\ calling' = TRUE /\ calls' = calls + 1
    /\ UNCHANGED result

\* No name is there twice, every single value is there, no harmonic without the one
\* below it, and everything was measured in call n.
IsSnapshot(s, n) ==
    /\ \A i, j \in 1 .. Len(s) : <<s[i].name, s[i].order>> = <<s[j].name, s[j].order>> => i = j
    /\ \A i \in 1 .. Len(s) :
          /\ s[i].call = n
          /\ \/ s[i].name \in Single /\ s[i].order = 0
             \/ s[i].name \in Array /\ s[i].order >= 1
          /\ s[i].order > 1 => \E j \in 1 .. Len(s) : s[j].name = s[i].name /\ s[j].order = s[i].order - 1
    /\ \A name \in Single : \E i \in 1 .. Len(s) : s[i].name = name

Return ==
    /\ calling
    /\ calling' = FALSE
    /\ result' # Failed => IsSnapshot(result', calls)
    /\ UNCHANGED calls

Spec == Init /\ [][Call \/ Return]_vars

\* No call hangs, whatever the meter does.
CallsReturn == calling ~> ~calling

=============================================================================
