------------------------------ MODULE MeterRead ------------------------------
(***************************************************************************)
(* The meter adapters: ModbusMeter over Umg605ProClient, and DummyMeter.   *)
(*                                                                         *)
(* A snapshot is sixteen Modbus requests, one after the other on a         *)
(* connection that is opened once.  Every request has a time-out; the      *)
(* answer to one given up on may still come, and is then the next frame    *)
(* the client reads.                                                       *)
(*                                                                         *)
(* A register's word is its address.  External: the meter, TCP and         *)
(* tokio-modbus, whose transaction ids tell the answers apart.  A frame    *)
(* cut in two by a dropped read counts as one of another request.          *)
(***************************************************************************)
EXTENDS Naturals, Sequences

CONSTANTS
    Kinds,          \* the adapters that may be chosen on the command line
    HarmonicCount,  \* HARMONIC_COUNT
    MaxFloats,      \* MAX_FLOATS_PER_REQUEST
    Failed,         \* the result that is an error
    Exception,      \* the answer that is a Modbus exception
    MaxCalls,       \* bound: calls of read_snapshot
    MaxMissing      \* bound: words by which an answer is too short

ASSUME KindsAssumption == Kinds \subseteq {"umg605-pro", "dummy"}
\* So read_f32_array never refuses a request.
ASSUME CountAssumption == HarmonicCount \in Nat \ {0} /\ MaxFloats \in Nat /\ HarmonicCount <= MaxFloats
\* Modbus: a single read gives 125 registers at most.
ASSUME FloatsAssumption == 2 * MaxFloats <= 125
ASSUME ReadBounds == MaxCalls \in Nat /\ MaxMissing \in {0, 1}

VARIABLES
    kind,           \* the adapter
    link,           \* the connection to the meter
    calls,          \* calls of read_snapshot so far; the dummy's reads
    at,             \* the read of the plan that is next or under way, 0 outside a call
    waiting,        \* its request has been sent
    tx,             \* the transaction id of the latest request
    asked,          \* requests the meter has not answered
    frames,         \* answers the client has not read
    readings,       \* what the call has read so far
    result          \* what the latest call came back with

conn == <<link, tx, asked, frames>>
vars == <<kind, conn, calls, at, waiting, readings, result>>

-----------------------------------------------------------------------------
(* The registers *)

\* The register each function of the client reads from.
RegisterOf == [
    voltage_l1 |-> 19000, current_l1 |-> 19012, power_l1_n |-> 19020, reactive_power_l1 |-> 19036,
    phase_angle_l1 |-> 3971, power_factor_l1 |-> 3893, current_thd_l1 |-> 3813,
    current_peak_positive_l1 |-> 4059, current_peak_negative_l1 |-> 4043,
    current_crest_factor_l1 |-> 4021, power_factor_sign_l1 |-> 3987,
    power_factor_fundamental_l1 |-> 3979,
    voltage_harmonics_l1 |-> 391, voltage_phase_harmonics_l1 |-> 2785,
    current_harmonics_l1 |-> 895, current_phase_harmonics_l1 |-> 3289]

\* The single values in the order read_snapshot reads them.
Singles == <<
    [name |-> "voltage_l1_v",                read |-> "voltage_l1"],
    [name |-> "current_l1_a",                read |-> "current_l1"],
    [name |-> "active_power_l1_w",           read |-> "power_l1_n"],
    [name |-> "reactive_power_l1_var",       read |-> "reactive_power_l1"],
    [name |-> "phase_angle_l1_deg",          read |-> "phase_angle_l1"],
    [name |-> "power_factor_l1",             read |-> "power_factor_l1"],
    [name |-> "current_thd_l1_pct",          read |-> "current_thd_l1"],
    [name |-> "current_peak_positive_l1_a",  read |-> "current_peak_positive_l1"],
    [name |-> "current_peak_negative_l1_a",  read |-> "current_peak_negative_l1"],
    [name |-> "current_crest_factor_l1",     read |-> "current_crest_factor_l1"],
    [name |-> "power_factor_sign_l1",        read |-> "power_factor_sign_l1"],
    [name |-> "power_factor_fundamental_l1", read |-> "power_factor_fundamental_l1"] >>

\* The arrays, read after them: the first harmonic comes first.
Arrays == <<
    [name |-> "voltage_harmonic_mag_l1_v",     read |-> "voltage_harmonics_l1"],
    [name |-> "voltage_harmonic_phase_l1_deg", read |-> "voltage_phase_harmonics_l1"],
    [name |-> "current_harmonic_mag_l1_a",     read |-> "current_harmonics_l1"],
    [name |-> "current_harmonic_phase_l1_deg", read |-> "current_phase_harmonics_l1"] >>

Plan == Singles \o Arrays
Address(i) == RegisterOf[Plan[i].read]
IsSingle(i) == i <= Len(Singles)

\* What the dummy reports.
DummyNames == <<
    "voltage_l1_v", "current_l1_a", "active_power_l1_w", "reactive_power_l1_var",
    "phase_angle_l1_deg", "power_factor_l1", "current_thd_l1_pct", "current_peak_positive_l1_a",
    "current_peak_negative_l1_a", "current_crest_factor_l1", "power_factor_sign_l1",
    "power_factor_fundamental_l1" >>
DummyArrays == <<
    "voltage_harmonic_mag_l1_v", "voltage_harmonic_phase_l1_deg",
    "current_harmonic_mag_l1_a", "current_harmonic_phase_l1_deg" >>

\* Mistake: the low register comes first.
FloatsLowFirst(words) == [n \in 1 .. Len(words) \div 2 |-> <<words[2 * n], words[2 * n - 1]>>]

\* A float is the words of two registers, the high one first; a word left over is none.
Floats(words) == [n \in 1 .. Len(words) \div 2 |-> <<words[2 * n - 1], words[2 * n]>>]

\* push_harmonic_array: one reading for each harmonic, whose orders begin at 1.
PushHarmonics(name, values, call) ==
    [n \in 1 .. Len(values) |-> [name |-> name, order |-> n, value |-> values[n], call |-> call]]

OneValue(name, value, call) == [name |-> name, order |-> 0, value |-> value, call |-> call]
-----------------------------------------------------------------------------

Init ==
    /\ kind \in Kinds
    /\ link = IF kind = "dummy" THEN "none" ELSE "connecting"
    /\ calls = 0 /\ at = 0 /\ waiting = FALSE
    /\ tx = 0 /\ asked = <<>> /\ frames = <<>>
    /\ readings = <<>> /\ result = Failed

\* The process ends if it gets no connection at its start.
Connect ==
    /\ link = "connecting"
    /\ link' \in {"up", "refused"}
    /\ UNCHANGED <<kind, calls, at, waiting, tx, asked, frames, readings, result>>

\* read_snapshot is called, by sample_once or for a data request.
Call ==
    /\ at = 0
    /\ link \in {"up", "broken", "none"}
    /\ calls < MaxCalls
    /\ calls' = calls + 1 /\ at' = 1 /\ readings' = <<>>
    /\ UNCHANGED <<kind, conn, waiting, result>>

Return(outcome) ==
    /\ at' = 0 /\ waiting' = FALSE
    /\ readings' = <<>> /\ result' = outcome
    /\ UNCHANGED <<kind, calls>>

DummySnapshot ==
    /\ kind = "dummy" /\ at > 0
    /\ LET value == <<0, 0>>
           values == [n \in 1 .. HarmonicCount |-> value]
           array(i) == PushHarmonics(DummyArrays[i], values, calls)
       IN  Return([i \in 1 .. Len(DummyNames) |-> OneValue(DummyNames[i], value, calls)]
                  \o array(1) \o array(2) \o array(3) \o array(4))
    /\ UNCHANGED conn

Registers(i) == IF IsSingle(i) THEN 2 ELSE 2 * HarmonicCount

\* The request of the next read goes out.  Answers that have come since the last one was
\* given up on may be dropped.
Request ==
    /\ at > 0 /\ ~waiting /\ link = "up"
    /\ waiting' = TRUE
    /\ tx' = tx + 1
    /\ asked' = Append(asked, [tx |-> tx', call |-> calls, addr |-> Address(at), count |-> Registers(at)])
    /\ \E kept \in 0 .. Len(frames) : frames' = SubSeq(frames, Len(frames) - kept + 1, Len(frames))
    /\ UNCHANGED <<kind, link, calls, at, readings, result>>

\* The meter answers in order, if it does.  Its answer may be too short.
MeterAnswers ==
    /\ link = "up" /\ asked # <<>>
    /\ LET q == Head(asked) IN
       \E words \in {Exception} \cup {[n \in 1 .. q.count - missing |-> q.addr + n - 1] : missing \in 0 .. MaxMissing} :
          frames' = Append(frames, [tx |-> q.tx, call |-> q.call, words |-> words])
    /\ asked' = Tail(asked)
    /\ UNCHANGED <<kind, link, calls, at, waiting, tx, readings, result>>

\* The connection breaks.  Nothing ever opens another one.
Break ==
    /\ link = "up"
    /\ link' = "broken" /\ asked' = <<>> /\ frames' = <<>>
    /\ UNCHANGED <<kind, calls, at, waiting, tx, readings, result>>

TransportError ==
    /\ at > 0 /\ link = "broken"
    /\ Return(Failed)
    /\ UNCHANGED conn

\* Whether the next frame answers the read that waits, with as many words as it takes.
Answers(frame) ==
    /\ frame.tx = tx
    /\ frame.words # Exception
    /\ IsSingle(at) => Len(frame.words) = 2

\* The readings of the read that waits.
Values(frame) ==
    LET values == Floats(frame.words)
    IN  IF IsSingle(at) THEN <<OneValue(Plan[at].name, values[1], frame.call)>>
        ELSE PushHarmonics(Plan[at].name, values, frame.call)

\* Mistake: a value that cannot be read is left out.
ReceiveLeavingOut ==
    /\ waiting /\ frames # <<>>
    /\ frames' = Tail(frames)
    /\ LET read == IF Answers(Head(frames)) THEN readings \o Values(Head(frames)) ELSE readings IN
       IF at = Len(Plan) THEN Return(read)
       ELSE /\ at' = at + 1 /\ waiting' = FALSE /\ readings' = read
            /\ UNCHANGED <<kind, calls, result>>
    /\ UNCHANGED <<link, tx, asked>>

\* Mistake: the last read does not end the call.
ReceiveOn ==
    /\ waiting /\ frames # <<>>
    /\ frames' = Tail(frames)
    /\ IF ~Answers(Head(frames)) THEN Return(Failed)
       ELSE /\ at' = at + 1 /\ waiting' = FALSE
            /\ readings' = readings \o Values(Head(frames))
            /\ UNCHANGED <<kind, calls, result>>
    /\ UNCHANGED <<link, tx, asked>>

\* A frame is read.  If it is not the answer the call fails at once.
Receive ==
    /\ waiting /\ frames # <<>>
    /\ frames' = Tail(frames)
    /\ LET read == readings \o Values(Head(frames)) IN
       IF ~Answers(Head(frames)) THEN Return(Failed)
       ELSE IF at = Len(Plan) THEN Return(read)
       ELSE /\ at' = at + 1 /\ waiting' = FALSE /\ readings' = read
            /\ UNCHANGED <<kind, calls, result>>
    /\ UNCHANGED <<link, tx, asked>>

\* Mistake: without a time-out.
TimeOutNever == FALSE /\ UNCHANGED vars

\* Mistake: the value is left out and the next one is read.
TimeOutGoesOn ==
    /\ waiting /\ link = "up"
    /\ IF at = Len(Plan) THEN Return(readings)
       ELSE at' = at + 1 /\ waiting' = FALSE /\ UNCHANGED <<kind, calls, readings, result>>
    /\ UNCHANGED conn

\* The read is given up on, and the call with it.  The request is not taken back.
TimeOut ==
    /\ waiting /\ link = "up"
    /\ Return(Failed)
    /\ UNCHANGED conn

-----------------------------------------------------------------------------

ClientStep == Request \/ Receive \/ TimeOut \/ TransportError \/ DummySnapshot
Next == Connect \/ Call \/ MeterAnswers \/ Break \/ ClientStep

\* The task goes on, and the timer of a read runs out.  The meter may stay silent.
Spec == Init /\ [][Next]_vars /\ WF_vars(ClientStep)

-----------------------------------------------------------------------------
(* Properties *)

MeterRequest == [tx : Nat, call : Nat, addr : Nat, count : Nat \ {0}]
Frame        == [tx : Nat, call : Nat, words : Seq(Nat) \cup {Exception}]
ReadNames    == {Plan[i].name : i \in 1 .. Len(Plan)}
Reading      == [name : ReadNames, order : Nat, value : Nat \X Nat, call : Nat]

TypeOK ==
    /\ kind \in Kinds /\ link \in {"none", "connecting", "refused", "up", "broken"}
    /\ calls \in 0 .. MaxCalls
    /\ at \in 0 .. Len(Plan) /\ waiting \in BOOLEAN
    /\ tx \in Nat /\ asked \in Seq(MeterRequest) /\ frames \in Seq(Frame)
    /\ readings \in Seq(Reading) /\ result \in Seq(Reading) \cup {Failed}

\* A harmonic of order k is at the k-th pair of its array's registers.
Register(i, order) == IF IsSingle(i) THEN Address(i) ELSE Address(i) + 2 * (order - 1)

\* Every value is the pair of registers its name stands for, whichever answers came late,
\* never or too short, and no register is there under two names (read_snapshot,
\* push_harmonic_array).
RightRegisters ==
    kind = "umg605-pro" /\ result # Failed
    => \A n \in DOMAIN result : LET r == result[n] IN
          /\ \E i \in 1 .. Len(Plan) :
                /\ Plan[i].name = r.name
                /\ r.value = <<Register(i, r.order), Register(i, r.order) + 1>>
          /\ \A m \in DOMAIN result : result[m].value = r.value => m = n

\* However many reads are given up on, a call leaves at most one answer behind: a silent
\* meter is waited for once in a call, not once for each register.
OneLateAnswerPerCall == Len(asked) + Len(frames) <= calls

\* A call comes back with an error or with all single values and gapless harmonics
\* under different names, all of them answers to requests of that call: never the late
\* answer to an earlier one (read_snapshot of both adapters).
Source == INSTANCE MeterSource WITH
    calling <- at > 0,
    Single <- {Singles[i].name : i \in DOMAIN Singles},
    Array <- {Arrays[i].name : i \in DOMAIN Arrays}
SourceSpec == Source!Spec

\* Every call comes back, however long the meter is silent: the gateway's only task waits
\* for it (sample_once, handle_line; the time-out in read_holding_registers).
CallsReturn == Source!CallsReturn

=============================================================================
