----------------------------- MODULE MCMeterStore -----------------------------
(* MeterStore for TLC: two meters report the same names, a third one other names. *)
EXTENDS MeterStore, TLC

CONSTANTS tunnel, record, stray, names, others

TwoKinds == (tunnel :> names @@ record :> names @@ stray :> others)

=============================================================================
