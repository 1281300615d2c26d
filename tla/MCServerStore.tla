---------------------------- MODULE MCServerStore ----------------------------
(* ServerStore for TLC.  "v", "V", "i", "f" and "Idx" are values; "note" is a field that is none. *)
EXTENDS ServerStore, TLC

CONSTANTS g1, g2

\* The case of a name does not count.
FoldCase == [n \in {"v", "V", "i", "f", "Idx"} |-> IF n = "V" THEN "v" ELSE n]

\* One gateway reports now one value, now another; a second one always the first.
TwoKinds == (g1 :> {{"v", "note"}, {"i"}} @@ g2 :> {{"v"}})

\* Five values, two of them under names that clash, one under a name no column can have.
FiveNames == (g1 :> {{"v", "note"}, {"i"}} @@ g2 :> {{"V"}, {"f"}, {"i", "Idx"}})

\* Two kinds whose names for a value differ in case.
TwoCases == (g1 :> {{"v", "i"}} @@ g2 :> {{"V"}})

\* A measurement may hold nothing that can be stored.
NotesOnly == (g1 :> {{"v"}, {"note"}})

=============================================================================
