--------------------------- MODULE MeterReadProofs ---------------------------
(***************************************************************************)
(* Proofs about MeterRead, for any number of calls and of harmonics that   *)
(* one Modbus read can return: both adapters implement MeterSource, and    *)
(* every value is that of the registers its name stands for.               *)
(*                                                                         *)
(* Part says what has been read, Tagged which answers may be taken for     *)
(* that of the read under way, and RegisterInv what is in them.            *)
(***************************************************************************)
EXTENDS MeterRead, SequenceTheorems, TLAPS

-----------------------------------------------------------------------------
(* The plan *)

LEMMA PlanLength == Len(Singles) = 12 /\ Len(Arrays) = 4 /\ Len(Plan) = 16
<1>1. Len(Singles) = 12 /\ Len(Arrays) = 4
    BY DEF Singles, Arrays
<1> QED
    BY <1>1 DEF Plan, Singles, Arrays

Names == <<
    "voltage_l1_v", "current_l1_a", "active_power_l1_w", "reactive_power_l1_var",
    "phase_angle_l1_deg", "power_factor_l1", "current_thd_l1_pct", "current_peak_positive_l1_a",
    "current_peak_negative_l1_a", "current_crest_factor_l1", "power_factor_sign_l1",
    "power_factor_fundamental_l1", "voltage_harmonic_mag_l1_v", "voltage_harmonic_phase_l1_deg",
    "current_harmonic_mag_l1_a", "current_harmonic_phase_l1_deg" >>

LEMMA PlanEntries ==
    /\ \A i \in 1 .. 12 : Plan[i] = Singles[i]
    /\ \A i \in 13 .. 16 : Plan[i] = Arrays[i - 12]
<1> DEFINE S == {Singles[i] : i \in 1 .. 12} \cup {Arrays[i] : i \in 1 .. 4}
<1>a. Singles \in Seq({Singles[i] : i \in 1 .. 12})
    BY DEF Singles
<1>b. Arrays \in Seq({Arrays[i] : i \in 1 .. 4})
    BY DEF Arrays
<1>1. Singles \in Seq(S) /\ Arrays \in Seq(S)
    BY <1>a, <1>b
<1> HIDE DEF S
<1>c. \A i \in 1 .. Len(Singles) + Len(Arrays) :
         (Singles \o Arrays)[i] = IF i <= Len(Singles) THEN Singles[i] ELSE Arrays[i - Len(Singles)]
    BY <1>1, ConcatProperties
<1>d. \A i \in 1 .. 16 : Plan[i] = IF i <= 12 THEN Singles[i] ELSE Arrays[i - 12]
    <2>1. Len(Singles) = 12 /\ Len(Arrays) = 4 /\ 12 + 4 = 16
        BY PlanLength
    <2>2. \A i \in 1 .. 12 + 4 : (Singles \o Arrays)[i] = IF i <= 12 THEN Singles[i] ELSE Arrays[i - 12]
        BY <1>c, <2>1, Zenon
    <2>3. \A i \in 1 .. 12 + 4 : Plan[i] = IF i <= 12 THEN Singles[i] ELSE Arrays[i - 12]
        BY <2>2, Zenon DEF Plan
    <2> QED
        BY <2>3
<1> QED
    BY <1>d

LEMMA PlanNames ==
    /\ \A i \in 1 .. 16 : Plan[i].name = Names[i]
    /\ \A i \in 1 .. 12 : Singles[i].name = Names[i] /\ DummyNames[i] = Names[i]
    /\ \A i \in 1 .. 4 : Arrays[i].name = Names[12 + i] /\ DummyArrays[i] = Names[12 + i]
<1>3. \A i \in 1 .. 12 : Singles[i].name = Names[i] /\ DummyNames[i] = Names[i]
    BY DEF Singles, Names, DummyNames
<1>4. \A i \in 1 .. 4 : Arrays[i].name = Names[12 + i] /\ DummyArrays[i] = Names[12 + i]
    BY DEF Arrays, Names, DummyArrays
<1> QED
    <2>1. ASSUME NEW i \in 13 .. 16 PROVE Plan[i].name = Names[i]
        <3>1. i - 12 \in 1 .. 4 /\ 12 + (i - 12) = i
            OBVIOUS
        <3> QED
            BY PlanEntries, <1>4, <3>1
    <2>2. \A i \in 1 .. 12 : Plan[i].name = Names[i]
        BY PlanEntries, <1>3
    <2> QED
        BY <1>3, <1>4, <2>1, <2>2

LEMMA NamesDiffer == \A i, j \in 1 .. 16 : Names[i] = Names[j] => i = j
    BY DEF Names


LEMMA AddressType == \A i \in 1 .. 16 : Address(i) \in Nat
<1>1. \A i \in 1 .. 12 : RegisterOf[Singles[i].read] \in Nat
    BY DEF RegisterOf, Singles
<1>2. \A i \in 1 .. 4 : RegisterOf[Arrays[i].read] \in Nat
    BY DEF RegisterOf, Arrays
<1> QED
    BY <1>1, <1>2, PlanEntries DEF Address
-----------------------------------------------------------------------------
(* A snapshot grows *)

\* Reading r is one that read j of the plan gives.
IsOf(r, j) == r.name = Names[j] /\ IF j <= 12 THEN r.order = 0 ELSE r.order >= 1

\* s holds what the first k reads of call n gave.
Part(s, k, n) ==
    /\ s \in Seq(Reading)
    /\ \A i \in 1 .. Len(s) : s[i].call = n /\ \E j \in 1 .. k : IsOf(s[i], j)
    /\ \A i, j \in 1 .. Len(s) : s[i].name = s[j].name /\ s[i].order = s[j].order => i = j
    /\ \A i \in 1 .. Len(s) : s[i].order > 1 =>
          \E j \in 1 .. Len(s) : s[j].name = s[i].name /\ s[j].order = s[i].order - 1
    /\ \A j \in 1 .. 12 : j <= k => \E i \in 1 .. Len(s) : s[i].name = Names[j]

\* v is what read j of call n gave.
Block(v, j, n) ==
    /\ v \in Seq(Reading)
    /\ \A i \in 1 .. Len(v) : v[i].call = n /\ v[i].name = Names[j]
    /\ IF j <= 12 THEN Len(v) = 1 /\ v[1].order = 0
       ELSE \A i \in 1 .. Len(v) : v[i].order = i

LEMMA OrderType ==
    ASSUME NEW s \in Seq(Reading), NEW i \in 1 .. Len(s)
    PROVE  s[i].order \in Nat
<1>1. s[i] \in Reading
    OBVIOUS
<1> QED
    BY <1>1 DEF Reading

LEMMA PartEmpty ==
    ASSUME NEW n
    PROVE  Part(<<>>, 0, n)
BY DEF Part

LEMMA Extend ==
    ASSUME NEW s, NEW v, NEW k \in 0 .. 15, NEW n, Part(s, k, n), Block(v, k + 1, n)
    PROVE  Part(s \o v, k + 1, n)
<1> DEFINE t == s \o v
<1>1. s \in Seq(Reading) /\ v \in Seq(Reading) /\ Len(s) \in Nat /\ Len(v) \in Nat
    BY LenProperties DEF Part, Block
<1>2. /\ t \in Seq(Reading)
      /\ Len(t) = Len(s) + Len(v)
      /\ \A i \in 1 .. Len(s) + Len(v) : t[i] = IF i <= Len(s) THEN s[i] ELSE v[i - Len(s)]
    BY <1>1, ConcatProperties
<1> HIDE DEF t
<1>3. \A i \in 1 .. Len(s) : i \in 1 .. Len(t) /\ t[i] = s[i]
    BY <1>1, <1>2
<1>4. \A i \in 1 .. Len(v) : Len(s) + i \in 1 .. Len(t) /\ t[Len(s) + i] = v[i]
    BY <1>1, <1>2
<1>5. ASSUME NEW i \in 1 .. Len(t)
      PROVE  \/ i \in 1 .. Len(s) /\ t[i] = s[i]
             \/ i - Len(s) \in 1 .. Len(v) /\ t[i] = v[i - Len(s)]
    BY <1>1, <1>2, <1>5
<1>6. \A i \in 1 .. Len(v) : v[i].order \in Nat /\ v[i].call = n /\ IsOf(v[i], k + 1)
    BY <1>1, OrderType DEF Block, IsOf
<1>7. \A i \in 1 .. Len(s) : s[i].order \in Nat
    BY <1>1, OrderType
<1>8. ASSUME NEW i \in 1 .. Len(s) PROVE s[i].name # Names[k + 1]
    <2>1. PICK j \in 1 .. k : s[i].name = Names[j]
        BY DEF Part, IsOf
    <2>2. j \in 1 .. 16 /\ k + 1 \in 1 .. 16 /\ j # k + 1
        OBVIOUS
    <2> QED
        BY <2>1, <2>2, NamesDiffer
<1>9. ASSUME NEW i \in 1 .. Len(t)
      PROVE  t[i].call = n /\ \E j \in 1 .. k + 1 : IsOf(t[i], j)
    <2>1. CASE i \in 1 .. Len(s) /\ t[i] = s[i]
        <3>1. s[i].call = n /\ \E j \in 1 .. k : IsOf(s[i], j)
            BY <2>1, Zenon DEF Part
        <3>2. PICK j \in 1 .. k : IsOf(s[i], j)
            BY <3>1
        <3>3. j \in 1 .. k + 1
            OBVIOUS
        <3> QED
            BY <2>1, <3>1, <3>2, <3>3, Zenon
    <2>2. CASE i - Len(s) \in 1 .. Len(v) /\ t[i] = v[i - Len(s)]
        <3>1. k + 1 \in 1 .. k + 1
            OBVIOUS
        <3>2. IsOf(t[i], k + 1) /\ t[i].call = n
            BY <2>2, <1>6, Zenon
        <3> QED
            BY <3>1, <3>2
    <2> QED
        BY <1>5, <2>1, <2>2
<1>10. ASSUME NEW i \in 1 .. Len(t), NEW j \in 1 .. Len(t),
              t[i].name = t[j].name, t[i].order = t[j].order
       PROVE  i = j
    <2>1. CASE i \in 1 .. Len(s) /\ t[i] = s[i] /\ j \in 1 .. Len(s) /\ t[j] = s[j]
        BY <1>10, <2>1 DEF Part
    <2>2. CASE /\ i - Len(s) \in 1 .. Len(v) /\ t[i] = v[i - Len(s)]
               /\ j - Len(s) \in 1 .. Len(v) /\ t[j] = v[j - Len(s)]
        <3>1. k + 1 > 12 \/ Len(v) = 1
            BY DEF Block
        <3>2. CASE k + 1 > 12
            <4>1. \A m \in 1 .. Len(v) : v[m].order = m
                BY <3>2 DEF Block
            <4>2. t[i].order = i - Len(s) /\ t[j].order = j - Len(s)
                BY <2>2, <4>1
            <4>3. i - Len(s) = j - Len(s)
                BY <1>10, <4>2
            <4>4. i \in Int /\ j \in Int /\ Len(s) \in Int
                BY <1>1, <1>2
            <4> QED
                BY <4>3, <4>4
        <3>3. CASE Len(v) = 1
            BY <1>1, <2>2, <3>3
        <3> QED
            BY <3>1, <3>2, <3>3
    <2>3. CASE i \in 1 .. Len(s) /\ t[i] = s[i] /\ j - Len(s) \in 1 .. Len(v) /\ t[j] = v[j - Len(s)]
        BY <1>8, <1>10, <2>3 DEF Block
    <2>4. CASE j \in 1 .. Len(s) /\ t[j] = s[j] /\ i - Len(s) \in 1 .. Len(v) /\ t[i] = v[i - Len(s)]
        BY <1>8, <1>10, <2>4 DEF Block
    <2> QED
        BY <1>5, <2>1, <2>2, <2>3, <2>4
<1>11. ASSUME NEW i \in 1 .. Len(t), t[i].order > 1
       PROVE  \E j \in 1 .. Len(t) : t[j].name = t[i].name /\ t[j].order = t[i].order - 1
    <2>1. CASE i \in 1 .. Len(s) /\ t[i] = s[i]
        <3>1. PICK j \in 1 .. Len(s) : s[j].name = s[i].name /\ s[j].order = s[i].order - 1
            BY <1>11, <2>1 DEF Part
        <3> QED
            BY <1>3, <2>1, <3>1
    <2>2. CASE i - Len(s) \in 1 .. Len(v) /\ t[i] = v[i - Len(s)]
        <3> DEFINE m == i - Len(s)
        <3>1. k + 1 > 12 /\ v[m].order = m
            BY <1>11, <2>2 DEF Block
        <3>2. m - 1 \in 1 .. Len(v) /\ v[m - 1].order = m - 1 /\ v[m - 1].name = v[m].name
            BY <1>1, <1>11, <2>2, <3>1 DEF Block
        <3> QED
            BY <1>4, <2>2, <3>1, <3>2
    <2> QED
        BY <1>5, <2>1, <2>2
<1>12. ASSUME NEW j \in 1 .. 12, j <= k + 1
       PROVE  \E i \in 1 .. Len(t) : t[i].name = Names[j]
    <2>1. CASE j <= k
        <3>1. PICK i \in 1 .. Len(s) : s[i].name = Names[j]
            BY <2>1 DEF Part
        <3> QED
            BY <1>3, <3>1
    <2>2. CASE j = k + 1
        <3>1. 1 \in 1 .. Len(v) /\ v[1].name = Names[j]
            BY <2>2 DEF Block
        <3> QED
            BY <1>4, <3>1
    <2> QED
        BY <1>12, <2>1, <2>2
<1>13. Part(t, k + 1, n)
    BY <1>2, <1>9, <1>10, <1>11, <1>12 DEF Part
<1> QED
    BY <1>13 DEF t

LEMMA WholePlan ==
    ASSUME NEW s, NEW n, Part(s, 16, n)
    PROVE  Source!IsSnapshot(s, n)
<1>1. \A j \in 1 .. 12 : Names[j] \in {Singles[i].name : i \in DOMAIN Singles}
    <2>1. DOMAIN Singles = 1 .. 12
        BY DEF Singles
    <2> QED
        BY <2>1, PlanNames
<1>2. \A name \in {Singles[i].name : i \in DOMAIN Singles} : \E j \in 1 .. 12 : name = Names[j]
    <2>1. DOMAIN Singles = 1 .. 12
        BY DEF Singles
    <2> QED
        BY <2>1, PlanNames
<1>3. \A j \in 13 .. 16 : Names[j] \in {Arrays[i].name : i \in DOMAIN Arrays}
    <2>1. DOMAIN Arrays = 1 .. 4
        BY DEF Arrays
    <2>2. ASSUME NEW j \in 13 .. 16 PROVE \E i \in 1 .. 4 : Arrays[i].name = Names[j]
        <3>1. j - 12 \in 1 .. 4 /\ 12 + (j - 12) = j
            OBVIOUS
        <3> QED
            BY <3>1, PlanNames
    <2> QED
        BY <2>1, <2>2
<1>4. ASSUME NEW i \in 1 .. Len(s)
      PROVE  /\ s[i].call = n
             /\ \/ s[i].name \in {Singles[m].name : m \in DOMAIN Singles} /\ s[i].order = 0
                \/ s[i].name \in {Arrays[m].name : m \in DOMAIN Arrays} /\ s[i].order >= 1
    <2>1. PICK j \in 1 .. 16 : IsOf(s[i], j)
        BY DEF Part
    <2>2. s[i].call = n
        BY DEF Part
    <2>3. CASE j <= 12
        <3>1. s[i].name = Names[j] /\ s[i].order = 0 /\ j \in 1 .. 12
            BY <2>1, <2>3 DEF IsOf
        <3> QED
            BY <1>1, <2>2, <3>1
    <2>4. CASE ~(j <= 12)
        <3>1. s[i].name = Names[j] /\ s[i].order >= 1 /\ j \in 13 .. 16
            BY <2>1, <2>4 DEF IsOf
        <3> QED
            BY <1>3, <2>2, <3>1
    <2> QED
        BY <2>3, <2>4
<1>5. ASSUME NEW name \in {Singles[i].name : i \in DOMAIN Singles}
      PROVE  \E i \in 1 .. Len(s) : s[i].name = name
    <2>1. PICK j \in 1 .. 12 : name = Names[j]
        BY <1>2
    <2>2. j <= 16 /\ \A m \in 1 .. 12 : m <= 16 => \E i \in 1 .. Len(s) : s[i].name = Names[m]
        BY DEF Part
    <2>3. PICK i \in 1 .. Len(s) : s[i].name = Names[j]
        BY <2>2
    <2> QED
        BY <2>1, <2>3
<1>6. \A i, j \in 1 .. Len(s) : <<s[i].name, s[i].order>> = <<s[j].name, s[j].order>> => i = j
    BY DEF Part
<1>7. \A i \in 1 .. Len(s) : s[i].order > 1 =>
         \E j \in 1 .. Len(s) : s[j].name = s[i].name /\ s[j].order = s[i].order - 1
    BY DEF Part
<1> QED
    BY <1>4, <1>5, <1>6, <1>7 DEF Source!IsSnapshot

-----------------------------------------------------------------------------
(* What a read and the dummy give *)

LEMMA Halves ==
    ASSUME NEW k \in Nat
    PROVE  k \div 2 \in Nat /\ 2 * (k \div 2) <= k /\ 2 \div 2 = 1
OBVIOUS

LEMMA SeqOfFunction ==
    ASSUME NEW S, NEW m \in Nat, NEW f \in [1 .. m -> S]
    PROVE  f \in Seq(S) /\ Len(f) = m
BY SeqDef, LenProperties

LEMMA FloatsType ==
    ASSUME NEW words \in Seq(Nat)
    PROVE  /\ Floats(words) \in Seq(Nat \X Nat)
           /\ Len(words) = 2 => Len(Floats(words)) = 1
<1> DEFINE m == Len(words) \div 2
<1>1. Len(words) \in Nat
    BY LenProperties
<1>2. m \in Nat /\ 2 * m <= Len(words) /\ (Len(words) = 2 => m = 1)
    BY <1>1, Halves
<1>3. Floats(words) = [n \in 1 .. m |-> <<words[2 * n - 1], words[2 * n]>>]
    BY DEF Floats
<1> HIDE DEF m
<1>4. ASSUME NEW n \in 1 .. m
      PROVE  <<words[2 * n - 1], words[2 * n]>> \in Nat \X Nat
    <2>1. 2 * n - 1 \in 1 .. Len(words) /\ 2 * n \in 1 .. Len(words)
        BY <1>1, <1>2
    <2> QED
        BY <2>1
<1>5. Floats(words) \in [1 .. m -> Nat \X Nat]
    BY <1>3, <1>4
<1>6. Floats(words) \in Seq(Nat \X Nat) /\ Len(Floats(words)) = m
    BY <1>2, <1>5, SeqOfFunction
<1> QED
    BY <1>2, <1>6

LEMMA PlanName == \A i \in 1 .. 16 : Plan[i].name = Names[i] /\ Names[i] \in ReadNames
<1>1. ASSUME NEW i \in 1 .. 16 PROVE Names[i] \in ReadNames
    <2>1. i \in 1 .. Len(Plan) /\ Names[i] = Plan[i].name
        BY PlanLength, PlanNames
    <2> QED
        BY <2>1 DEF ReadNames
<1> QED
    BY <1>1, PlanNames

LEMMA OneBlock ==
    ASSUME NEW j \in 1 .. 12, NEW value \in Nat \X Nat, NEW n \in Nat
    PROVE  Block(<<OneValue(Names[j], value, n)>>, j, n)
<1>1. OneValue(Names[j], value, n) \in Reading
    BY PlanName DEF OneValue, Reading
<1> QED
    BY <1>1 DEF Block, OneValue

LEMMA HarmonicsBlock ==
    ASSUME NEW j \in 13 .. 16, NEW values \in Seq(Nat \X Nat), NEW n \in Nat
    PROVE  Block(PushHarmonics(Names[j], values, n), j, n)
<1> DEFINE v == PushHarmonics(Names[j], values, n)
<1>1. Len(values) \in Nat /\ \A i \in 1 .. Len(values) : values[i] \in Nat \X Nat
    BY LenProperties
<1>2. v = [i \in 1 .. Len(values) |-> [name |-> Names[j], order |-> i, value |-> values[i], call |-> n]]
    BY DEF PushHarmonics
<1>3. v \in [1 .. Len(values) -> Reading]
    <2>1. Names[j] \in ReadNames
        BY PlanName
    <2> QED
        BY <1>1, <1>2, <2>1 DEF Reading
<1> HIDE DEF v
<1>4. v \in Seq(Reading) /\ Len(v) = Len(values)
    BY <1>1, <1>3, SeqOfFunction
<1>5. Block(v, j, n)
    BY <1>2, <1>4 DEF Block
<1> QED
    BY <1>5 DEF v

LEMMA ValuesBlock ==
    ASSUME NEW frame \in Frame, at \in 1 .. 16, Answers(frame)
    PROVE  Block(Values(frame), at, frame.call)
<1>1. frame.words \in Seq(Nat) /\ frame.call \in Nat
    BY DEF Frame, Answers
<1>2. Floats(frame.words) \in Seq(Nat \X Nat)
    BY <1>1, FloatsType
<1>3. Plan[at].name = Names[at]
    BY PlanName
<1>4. CASE at <= 12
    <2>1. IsSingle(at) /\ Len(frame.words) = 2
        BY <1>4, PlanLength DEF IsSingle, Answers
    <2>2. Floats(frame.words)[1] \in Nat \X Nat
        BY <1>1, <1>2, <2>1, FloatsType
    <2>3. Values(frame) = <<OneValue(Names[at], Floats(frame.words)[1], frame.call)>>
        BY <1>3, <2>1 DEF Values
    <2> QED
        BY <1>1, <1>4, <2>2, <2>3, OneBlock
<1>5. CASE at > 12
    <2>1. ~IsSingle(at)
        BY <1>5, PlanLength DEF IsSingle
    <2>2. Values(frame) = PushHarmonics(Names[at], Floats(frame.words), frame.call)
        BY <1>3, <2>1 DEF Values
    <2> QED
        BY <1>1, <1>2, <1>5, <2>2, HarmonicsBlock
<1> QED
    BY <1>4, <1>5

LEMMA DummyPart ==
    ASSUME NEW n \in Nat, NEW values \in Seq(Nat \X Nat), NEW value \in Nat \X Nat
    PROVE  LET array(i) == PushHarmonics(DummyArrays[i], values, n)
           IN  Part([i \in 1 .. Len(DummyNames) |-> OneValue(DummyNames[i], value, n)]
                    \o array(1) \o array(2) \o array(3) \o array(4), 16, n)
<1> DEFINE s == [i \in 1 .. Len(DummyNames) |-> OneValue(DummyNames[i], value, n)]
<1>1. Len(DummyNames) = 12
    BY DEF DummyNames
<1>2. s = [i \in 1 .. 12 |-> OneValue(Names[i], value, n)]
    BY <1>1, PlanNames
<1> HIDE DEF s
<1>3. s \in Seq(Reading) /\ Len(s) = 12
    <2>1. \A i \in 1 .. 12 : OneValue(Names[i], value, n) \in Reading
        BY PlanName DEF OneValue, Reading
    <2>2. s \in [1 .. 12 -> Reading]
        BY <1>2, <2>1
    <2> QED
        <3>1. 12 \in Nat
            OBVIOUS
        <3>2. \A m \in Nat : \A f \in [1 .. m -> Reading] : f \in Seq(Reading) /\ Len(f) = m
            BY SeqOfFunction
        <3> QED
            BY <2>2, <3>1, <3>2, Zenon
<1>4. \A i \in 1 .. 12 : s[i].name = Names[i] /\ s[i].order = 0 /\ s[i].call = n
    BY <1>2 DEF OneValue
<1>5. Part(s, 12, n)
    <2>1. \A i \in 1 .. Len(s) : s[i].call = n /\ \E j \in 1 .. 12 : IsOf(s[i], j)
        <3>1. ASSUME NEW i \in 1 .. 12 PROVE s[i].call = n /\ IsOf(s[i], i)
            <4>1. i <= 12
                OBVIOUS
            <4> QED
                BY <1>4, <4>1 DEF IsOf
        <3> QED
            BY <1>3, <3>1
    <2>2. \A i, j \in 1 .. Len(s) : s[i].name = s[j].name /\ s[i].order = s[j].order => i = j
        <3>1. ASSUME NEW i \in 1 .. 12, NEW j \in 1 .. 12, s[i].name = s[j].name
              PROVE  i = j
            <4>1. i \in 1 .. 16 /\ j \in 1 .. 16
                OBVIOUS
            <4>2. Names[i] = Names[j]
                BY <1>4, <3>1, Zenon
            <4> QED
                BY <4>1, <4>2, NamesDiffer
        <3> QED
            BY <1>3, <3>1
    <2> QED
        BY <1>3, <1>4, <2>1, <2>2 DEF Part
<1> DEFINE array(i) == PushHarmonics(DummyArrays[i], values, n)
<1>6. \A i \in 1 .. 4 : Block(array(i), 12 + i, n)
    BY PlanNames, HarmonicsBlock
<1> HIDE DEF array
<1>7. Part(s \o array(1), 13, n)
    BY <1>5, <1>6, Extend
<1>8. Part(s \o array(1) \o array(2), 14, n)
    BY <1>6, <1>7, Extend
<1>9. Part(s \o array(1) \o array(2) \o array(3), 15, n)
    BY <1>6, <1>8, Extend
<1>10. Part(s \o array(1) \o array(2) \o array(3) \o array(4), 16, n)
    BY <1>6, <1>9, Extend
<1> QED
    BY <1>10 DEF s, array

-----------------------------------------------------------------------------
(* The invariant *)

\* Requests and answers have ids up to the latest; the latest one's, while it is waited
\* for, is of the call under way.
Tagged(q) ==
    \A i \in 1 .. Len(q) : q[i].tx <= tx /\ (waiting /\ q[i].tx = tx => q[i].call = calls)

ReadInv ==
    /\ waiting => at > 0
    /\ at > 0 => Part(readings, at - 1, calls)
    /\ Tagged(asked) /\ Tagged(frames)

\* A call may still send the one request that it may leave unanswered.
LateInv == Len(asked) + Len(frames) + (IF at > 0 /\ ~waiting THEN 1 ELSE 0) <= calls

IInv == TypeOK /\ ReadInv /\ LateInv

LEMMA QueueLengths == TypeOK => Len(asked) \in Nat /\ Len(frames) \in Nat
BY LenProperties DEF TypeOK

LEMMA Initial == Init => IInv
<1> SUFFICES ASSUME Init PROVE IInv
    OBVIOUS
<1>1. TypeOK
    <2>1. <<>> \in Seq(MeterRequest) /\ <<>> \in Seq(Frame) /\ <<>> \in Seq(Reading)
        OBVIOUS
    <2>2. 0 \in 0 .. MaxCalls /\ 0 \in 0 .. Len(Plan) /\ 0 \in Nat
        BY PlanLength, ReadBounds
    <2>3. link \in {"none", "connecting", "refused", "up", "broken"}
        BY DEF Init
    <2> QED
        BY <2>1, <2>2, <2>3 DEF Init, TypeOK
<1>2. ReadInv
    BY DEF Init, ReadInv, Tagged
<1>3. LateInv
    BY DEF Init, LateInv
<1> QED
    BY <1>1, <1>2, <1>3 DEF IInv

\* What a call ends with fits, if its readings do.
LEMMA ReturnStep ==
    ASSUME IInv, NEW outcome \in Seq(Reading) \cup {Failed}, Return(outcome),
           link' = link, tx' = tx, asked' = asked, NEW n \in {0, 1}, n <= Len(frames),
           frames' = SubSeq(frames, n + 1, Len(frames))
    PROVE  IInv'
<1> USE QueueLengths DEF IInv
<1>1. /\ frames' \in Seq(Frame)
      /\ Len(frames') = Len(frames) - n
      /\ \A i \in 1 .. Len(frames') : frames'[i] = frames[i + n]
    <2>1. frames \in Seq(Frame) /\ Len(frames) \in Nat
        BY DEF TypeOK
    <2>2. \A i \in n + 1 .. Len(frames) : frames[i] \in Frame
        BY <2>1
    <2> QED
        BY <2>1, <2>2, SubSeqProperties
<1>2. TypeOK'
    <2>1. at' = 0 /\ waiting' = FALSE
        BY DEF Return
    <2>2. readings' \in Seq(Reading) /\ result' \in Seq(Reading) \cup {Failed}
        BY DEF Return
    <2> QED
        <3>1. 0 \in 0 .. Len(Plan)
            BY PlanLength
        <3>2. kind' = kind /\ calls' = calls
            BY DEF Return
        <3> QED
            BY <1>1, <2>1, <2>2, <3>1, <3>2 DEF TypeOK
<1>3. Tagged(frames)'
    BY <1>1 DEF ReadInv, Tagged, Return
<1>4. ReadInv'
    BY <1>3 DEF ReadInv, Tagged, Return
<1>5. LateInv'
    <2>1. calls \in Nat /\ Len(asked) \in Nat /\ Len(frames) \in Nat
        BY ReadBounds DEF TypeOK
    <2>2. Len(asked) + Len(frames) <= calls
        BY <2>1 DEF LateInv
    <2>3. Len(asked') + Len(frames') <= calls'
        BY <1>1, <2>1, <2>2 DEF Return
    <2>4. ~(at' > 0) /\ calls' \in Nat /\ Len(asked') \in Nat /\ Len(frames') \in Nat
        BY <1>1, <2>1 DEF Return
    <2> QED
        BY <2>3, <2>4 DEF LateInv
<1> QED
    BY <1>2, <1>4, <1>5

LEMMA ReturnKeeps ==
    ASSUME IInv, NEW outcome \in Seq(Reading) \cup {Failed}, Return(outcome),
           UNCHANGED <<link, tx, asked, frames>>
    PROVE  IInv'
<1>1. SubSeq(frames, 1, Len(frames)) = frames /\ Len(frames) \in Nat
    BY SubSeqFull, LenProperties DEF IInv, TypeOK
<1>2. frames' = SubSeq(frames, 0 + 1, Len(frames)) /\ 0 \in {0, 1} /\ 0 <= Len(frames)
    BY <1>1
<1> QED
    BY <1>2, ReturnStep

LEMMA DummyResult ==
    ASSUME IInv, DummySnapshot
    PROVE  \E outcome \in Seq(Reading) : Return(outcome) /\ Part(outcome, 16, calls)
<1> DEFINE value == <<0, 0>>
           values == [n \in 1 .. HarmonicCount |-> value]
           array(i) == PushHarmonics(DummyArrays[i], values, calls)
           outcome == [i \in 1 .. Len(DummyNames) |-> OneValue(DummyNames[i], value, calls)]
                      \o array(1) \o array(2) \o array(3) \o array(4)
<1>1. calls \in Nat
    BY ReadBounds DEF IInv, TypeOK
<1>2. value \in Nat \X Nat
    OBVIOUS
<1>3. values \in Seq(Nat \X Nat)
    BY <1>2, CountAssumption, SeqOfFunction
<1>4. Part(outcome, 16, calls)
    BY <1>1, <1>2, <1>3, DummyPart
<1>5. Return(outcome)
    BY DEF DummySnapshot
<1> HIDE DEF outcome
<1>6. outcome \in Seq(Reading)
    BY <1>4 DEF Part
<1> QED
    BY <1>4, <1>5, <1>6

\* What the next frame gives a call.
LEMMA FrameRead ==
    ASSUME IInv, waiting, frames # <<>>, Answers(Head(frames))
    PROVE  Part(readings \o Values(Head(frames)), at, calls)
<1> DEFINE frame == Head(frames)
<1>1. at \in 1 .. 16
    BY PlanLength DEF IInv, TypeOK, ReadInv
<1>2. frame \in Frame /\ frame = frames[1] /\ 1 \in 1 .. Len(frames)
    BY HeadTailProperties, EmptySeq, LenProperties DEF IInv, TypeOK
<1>3. frame.call = calls
    BY <1>2 DEF IInv, ReadInv, Tagged, Answers
<1>4. Block(Values(frame), at, calls)
    BY <1>1, <1>2, <1>3, ValuesBlock
<1>5. Part(readings, at - 1, calls)
    BY <1>1 DEF IInv, ReadInv
<1>6. at - 1 \in 0 .. 15 /\ (at - 1) + 1 = at
    BY <1>1
<1> HIDE DEF frame
<1>7. Part(readings \o Values(frame), (at - 1) + 1, calls)
    BY <1>4, <1>5, <1>6, Extend
<1> QED
    BY <1>6, <1>7 DEF frame

LEMMA Step == IInv /\ [Next]_vars => IInv'
<1> SUFFICES ASSUME IInv, [Next]_vars PROVE IInv'
    OBVIOUS
<1> USE QueueLengths DEF IInv
<1>1. CASE Connect
    BY <1>1 DEF Connect, TypeOK, ReadInv, LateInv, Tagged
<1>2. CASE Call
    <2>1. calls \in Nat /\ calls' = calls + 1 /\ calls' \in 0 .. MaxCalls
        BY <1>2, ReadBounds DEF Call, TypeOK
    <2>2. at = 0 /\ at' = 1 /\ readings' = <<>> /\ waiting = FALSE /\ waiting' = FALSE
        BY <1>2 DEF Call, ReadInv, TypeOK
    <2>3. UNCHANGED <<kind, link, tx, asked, frames, result>>
        BY <1>2 DEF Call, conn
    <2>4. TypeOK'
        <3>1. 1 \in 0 .. Len(Plan) /\ <<>> \in Seq(Reading)
            BY PlanLength
        <3> QED
            BY <2>1, <2>2, <2>3, <3>1 DEF TypeOK
    <2>5. ReadInv'
        <3>1. Part(readings', at' - 1, calls')
            BY <2>2, PartEmpty
        <3> QED
            BY <2>2, <2>3, <3>1 DEF ReadInv, Tagged
    <2>6. LateInv'
        BY <2>1, <2>2, <2>3 DEF LateInv
    <2> QED
        BY <2>4, <2>5, <2>6
<1>3. CASE DummySnapshot
    <2>1. PICK outcome \in Seq(Reading) : Return(outcome) /\ Part(outcome, 16, calls)
        BY <1>3, DummyResult
    <2>2. UNCHANGED <<link, tx, asked, frames>>
        BY <1>3 DEF DummySnapshot, conn
    <2> QED
        BY <2>1, <2>2, ReturnKeeps
<1>4. CASE Request
    <2>1. /\ at > 0 /\ waiting = FALSE /\ waiting' = TRUE
          /\ UNCHANGED <<kind, link, calls, at, readings, result>>
        BY <1>4 DEF Request, TypeOK
    <2>2. tx \in Nat /\ tx' = tx + 1
        BY <1>4 DEF Request, TypeOK
    <2> DEFINE q == [tx |-> tx', call |-> calls, addr |-> Address(at), count |-> Registers(at)]
    <2>3. q \in MeterRequest /\ q.tx = tx' /\ q.call = calls
        <3>1. at \in 1 .. 16
            BY <2>1, PlanLength DEF TypeOK
        <3>2. Registers(at) \in Nat \ {0}
            BY CountAssumption DEF Registers
        <3>3. Address(at) \in Nat
            BY <3>1, AddressType
        <3>4. calls \in Nat
            BY ReadBounds DEF TypeOK
        <3> QED
            BY <2>2, <3>2, <3>3, <3>4 DEF MeterRequest
    <2>4. asked' = Append(asked, q)
        BY <1>4 DEF Request
    <2> HIDE DEF q
    <2>5. /\ asked' \in Seq(MeterRequest)
          /\ Len(asked') = Len(asked) + 1
          /\ \A i \in 1 .. Len(asked) : asked'[i] = asked[i]
          /\ asked'[Len(asked) + 1] = q
        BY <2>3, <2>4, AppendProperties DEF TypeOK
    <2>6. PICK kept \in 0 .. Len(frames) : frames' = SubSeq(frames, Len(frames) - kept + 1, Len(frames))
        BY <1>4 DEF Request
    <2>7. /\ frames' \in Seq(Frame)
          /\ Len(frames') = kept
          /\ \A i \in 1 .. kept : frames'[i] = frames[Len(frames) - kept + i]
        <3>1. \A i \in Len(frames) - kept + 1 .. Len(frames) : frames[i] \in Frame
            BY DEF TypeOK
        <3> QED
            BY <2>6, <3>1, SubSeqProperties
    <2>8. TypeOK'
        BY <2>1, <2>2, <2>5, <2>7 DEF TypeOK
    <2>9. Tagged(asked)'
        <3>1. ASSUME NEW i \in 1 .. Len(asked')
              PROVE  asked'[i].tx <= tx' /\ (asked'[i].tx = tx' => asked'[i].call = calls')
            <4>1. CASE i \in 1 .. Len(asked)
                <5>1. asked[i].tx \in Nat /\ asked[i].tx <= tx
                    <6>1. asked[i] \in MeterRequest
                        BY <4>1 DEF TypeOK
                    <6> QED
                        BY <4>1, <6>1 DEF ReadInv, Tagged, MeterRequest
                <5> QED
                    BY <2>2, <2>5, <4>1, <5>1
            <4>2. CASE i = Len(asked) + 1
                BY <2>1, <2>2, <2>3, <2>5, <4>2
            <4> QED
                BY <2>5, <4>1, <4>2
        <3> QED
            BY <3>1 DEF Tagged
    <2>10. Tagged(frames)'
        <3>1. ASSUME NEW i \in 1 .. kept
              PROVE  frames'[i].tx <= tx' /\ frames'[i].tx # tx'
            <4>1. Len(frames) - kept + i \in 1 .. Len(frames)
                OBVIOUS
            <4>2. frames[Len(frames) - kept + i].tx \in Nat /\ frames[Len(frames) - kept + i].tx <= tx
                <5>1. frames[Len(frames) - kept + i] \in Frame
                    BY <4>1 DEF TypeOK
                <5> QED
                    BY <4>1, <5>1 DEF ReadInv, Tagged, Frame
            <4> QED
                BY <2>2, <2>7, <4>2
        <3> QED
            BY <2>7, <3>1 DEF Tagged
    <2>11. ReadInv'
        BY <2>1, <2>9, <2>10 DEF ReadInv
    <2>12. LateInv'
        <3>1. Len(asked) + Len(frames) + 1 <= calls
            BY <2>1 DEF LateInv
        <3> QED
            BY <2>1, <2>5, <2>7, <3>1, ReadBounds DEF LateInv, TypeOK
    <2> QED
        BY <2>8, <2>11, <2>12
<1>5. CASE MeterAnswers
    <2>1. /\ asked # <<>> /\ asked' = Tail(asked)
          /\ UNCHANGED <<kind, link, calls, at, waiting, tx, readings, result>>
        BY <1>5 DEF MeterAnswers
    <2> DEFINE q == Head(asked)
    <2>2. PICK words \in {Exception} \cup {[n \in 1 .. q.count - missing |-> q.addr + n - 1] : missing \in 0 .. MaxMissing} :
             frames' = Append(frames, [tx |-> q.tx, call |-> q.call, words |-> words])
        BY <1>5 DEF MeterAnswers
    <2>3. q \in MeterRequest /\ q = asked[1] /\ 1 \in 1 .. Len(asked)
        BY <2>1, HeadTailProperties, EmptySeq, LenProperties DEF TypeOK
    <2>4. q.tx \in Nat /\ q.call \in Nat /\ q.addr \in Nat /\ q.count \in Nat /\ q.count >= 1
        BY <2>3 DEF MeterRequest
    <2> HIDE DEF q
    <2>5. words \in Seq(Nat) \cup {Exception}
        <3>1. SUFFICES ASSUME NEW missing \in 0 .. MaxMissing,
                              words = [n \in 1 .. q.count - missing |-> q.addr + n - 1]
                       PROVE  words \in Seq(Nat)
            BY <2>2
        <3>2. q.count - missing \in Nat
            BY <2>4, ReadBounds
        <3>3. words \in [1 .. q.count - missing -> Nat]
            BY <2>4, <3>1, <3>2
        <3> QED
            BY <3>2, <3>3, SeqOfFunction
    <2> DEFINE f == [tx |-> q.tx, call |-> q.call, words |-> words]
    <2>6. f \in Frame /\ f.tx = q.tx /\ f.call = q.call
        BY <2>4, <2>5 DEF Frame
    <2>7. frames' = Append(frames, f)
        BY <2>2
    <2> HIDE DEF f
    <2>8. /\ frames' \in Seq(Frame)
          /\ Len(frames') = Len(frames) + 1
          /\ \A i \in 1 .. Len(frames) : frames'[i] = frames[i]
          /\ frames'[Len(frames) + 1] = f
        BY <2>6, <2>7, AppendProperties DEF TypeOK
    <2>9. /\ asked' \in Seq(MeterRequest)
          /\ Len(asked') = Len(asked) - 1
          /\ \A i \in 1 .. Len(asked') : asked'[i] = asked[i + 1]
        BY <2>1, HeadTailProperties DEF TypeOK
    <2>10. TypeOK'
        BY <2>1, <2>8, <2>9 DEF TypeOK
    <2>11. Tagged(asked)'
        BY <2>1, <2>9 DEF ReadInv, Tagged
    <2>12. Tagged(frames)'
        BY <2>1, <2>3, <2>6, <2>8 DEF ReadInv, Tagged
    <2>13. ReadInv'
        BY <2>1, <2>11, <2>12 DEF ReadInv
    <2>14. LateInv'
        BY <2>1, <2>8, <2>9 DEF LateInv
    <2> QED
        BY <2>10, <2>13, <2>14
<1>6. CASE Break
    <2>1. UNCHANGED <<kind, calls, at, waiting, tx, readings, result>> /\ link' = "broken"
        BY <1>6 DEF Break
    <2>2. asked' = <<>> /\ frames' = <<>> /\ Len(asked') = 0 /\ Len(frames') = 0
        BY <1>6 DEF Break
    <2>3. TypeOK'
        BY <2>1, <2>2 DEF TypeOK
    <2>4. ReadInv'
        BY <2>1, <2>2 DEF ReadInv, Tagged
    <2>5. LateInv'
        BY <2>1, <2>2, ReadBounds DEF LateInv, TypeOK
    <2> QED
        BY <2>3, <2>4, <2>5
<1>7. CASE TransportError
    BY <1>7, ReturnKeeps DEF TransportError, conn
<1>8. CASE TimeOut
    BY <1>8, ReturnKeeps DEF TimeOut, conn
<1>9. CASE Receive
    <2>1. waiting /\ frames # <<>> /\ frames' = Tail(frames) /\ UNCHANGED <<link, tx, asked>>
        BY <1>9 DEF Receive
    <2>2. /\ frames' = SubSeq(frames, 1 + 1, Len(frames)) /\ 1 <= Len(frames)
          /\ frames' \in Seq(Frame) /\ Len(frames') = Len(frames) - 1
          /\ \A i \in 1 .. Len(frames') : frames'[i] = frames[i + 1]
        BY <2>1, TailIsSubSeq, HeadTailProperties, EmptySeq DEF TypeOK
    <2>3. CASE Return(Failed)
        BY <2>1, <2>2, <2>3, ReturnStep
    <2>4. ASSUME Answers(Head(frames)) PROVE IInv'
        <3> DEFINE read == readings \o Values(Head(frames))
        <3>1. Part(read, at, calls)
            BY <2>1, <2>4, FrameRead
        <3>2. read \in Seq(Reading)
            BY <3>1 DEF Part
        <3>3. CASE at = Len(Plan)
            <4>1. Return(read)
                BY <1>9, <2>4, <3>3 DEF Receive
            <4> HIDE DEF read
            <4> QED
                BY <2>1, <2>2, <3>2, <4>1, ReturnStep
        <3>4. CASE at # Len(Plan)
            <4>1. /\ at' = at + 1 /\ waiting' = FALSE /\ readings' = read
                  /\ UNCHANGED <<kind, calls, result>>
                BY <1>9, <2>4, <3>4 DEF Receive
            <4> HIDE DEF read
            <4>2. at' \in 0 .. Len(Plan) /\ at' > 0 /\ at' - 1 = at
                BY <3>4, <4>1, PlanLength DEF TypeOK
            <4>3. TypeOK'
                BY <2>1, <2>2, <3>2, <4>1, <4>2 DEF TypeOK
            <4>4. Tagged(asked)' /\ Tagged(frames)'
                BY <2>1, <2>2, <4>1 DEF ReadInv, Tagged
            <4>5. ReadInv'
                BY <3>1, <4>1, <4>2, <4>4 DEF ReadInv
            <4>6. LateInv'
                <5>1. Len(asked) + Len(frames) <= calls
                    BY <2>1 DEF LateInv
                <5> QED
                    BY <2>1, <2>2, <4>1, <5>1, ReadBounds DEF LateInv, TypeOK
            <4> QED
                BY <4>3, <4>5, <4>6
        <3> QED
            BY <3>3, <3>4
    <2> QED
        BY <1>9, <2>3, <2>4 DEF Receive
<1>10. CASE UNCHANGED vars
    BY <1>10 DEF vars, conn, TypeOK, ReadInv, LateInv, Tagged
<1> QED
    BY <1>1, <1>2, <1>3, <1>4, <1>5, <1>6, <1>7, <1>8, <1>9, <1>10 DEF Next, ClientStep

-----------------------------------------------------------------------------
(* Theorems *)

THEOREM Invariant == Spec => []IInv
<1>1. Init => IInv
    BY Initial
<1>2. IInv /\ [Next]_vars => IInv'
    BY Step
<1> QED
    BY <1>1, <1>2, PTL DEF Spec

\* Every request has a size the meter can answer with, and all readings are of the plan
\* (read_snapshot).
THEOREM TypeCorrect == Spec => []TypeOK
<1>1. IInv => TypeOK
    BY DEF IInv
<1> QED
    BY <1>1, Invariant, PTL

\* However many calls and however many reads given up on: a call leaves one answer behind
\* at most (read_holding_registers).
THEOREM LateAnswers == Spec => []OneLateAnswerPerCall
<1>1. IInv => OneLateAnswerPerCall
    BY QueueLengths, ReadBounds DEF IInv, TypeOK, LateInv, OneLateAnswerPerCall
<1> QED
    BY <1>1, Invariant, PTL

\* A call that has come back has failed or has everything, measured in that call.
LEMMA ReturnSnapshot ==
    ASSUME IInv, at > 0, NEW outcome, outcome # Failed => Part(outcome, 16, calls), Return(outcome)
    PROVE  Source!Return
<1>1. at' = 0 /\ result' = outcome /\ calls' = calls
    BY DEF Return
<1>2. result' # Failed => Source!IsSnapshot(result', calls)
    BY <1>1, WholePlan
<1>3. (at' > 0) = FALSE
    BY <1>1
<1> QED
    BY <1>1, <1>2, <1>3 DEF Source!Return

LEMMA SourceStep == IInv /\ [Next]_vars => [Source!Call \/ Source!Return]_(Source!vars)
<1> SUFFICES ASSUME IInv, [Next]_vars
             PROVE  Source!Call \/ Source!Return \/ UNCHANGED Source!vars
    OBVIOUS
<1>1. CASE UNCHANGED <<at, calls, result>>
    BY <1>1 DEF Source!vars
<1>2. CASE Connect \/ Request \/ MeterAnswers \/ Break \/ UNCHANGED vars
    BY <1>1, <1>2 DEF Connect, Request, MeterAnswers, Break, vars
<1>3. CASE Call
    <2>1. (at > 0) = FALSE /\ (at' > 0) = TRUE /\ calls' = calls + 1 /\ result' = result
        BY <1>3 DEF Call
    <2> QED
        BY <2>1 DEF Source!Call
<1>4. CASE DummySnapshot
    <2>1. PICK outcome \in Seq(Reading) : Return(outcome) /\ Part(outcome, 16, calls)
        BY <1>4, DummyResult
    <2>2. at > 0
        BY <1>4 DEF DummySnapshot
    <2> QED
        BY <2>1, <2>2, ReturnSnapshot
<1>5. CASE Return(Failed) /\ at > 0
    BY <1>5, ReturnSnapshot
<1>6. CASE TransportError
    BY <1>5, <1>6 DEF TransportError
<1>7. CASE TimeOut
    BY <1>5, <1>7 DEF TimeOut, IInv, ReadInv
<1>8. CASE Receive
    <2>1. at > 0 /\ waiting /\ frames # <<>>
        BY <1>8 DEF Receive, IInv, ReadInv
    <2>2. CASE ~Answers(Head(frames))
        BY <1>5, <1>8, <2>1, <2>2 DEF Receive
    <2>3. CASE Answers(Head(frames)) /\ at = Len(Plan)
        <3> DEFINE read == readings \o Values(Head(frames))
        <3>1. Return(read)
            BY <1>8, <2>3 DEF Receive
        <3>2. Part(read, 16, calls)
            BY <2>1, <2>3, FrameRead, PlanLength
        <3> HIDE DEF read
        <3> QED
            BY <2>1, <3>1, <3>2, ReturnSnapshot
    <2>4. CASE Answers(Head(frames)) /\ at # Len(Plan)
        <3>1. at' = at + 1 /\ calls' = calls /\ result' = result
            BY <1>8, <2>4 DEF Receive
        <3>2. at \in Nat /\ at' > 0
            BY <2>1, <3>1 DEF IInv, TypeOK
        <3>3. (at' > 0) = (at > 0)
            BY <2>1, <3>2
        <3> QED
            BY <3>1, <3>3 DEF Source!vars
    <2> QED
        BY <2>2, <2>3, <2>4
<1> QED
    BY <1>2, <1>3, <1>4, <1>6, <1>7, <1>8 DEF Next, ClientStep

\* MeterSource is implemented, by both adapters: a call fails or gives every single value
\* and gapless harmonics, measured in that very call.
THEOREM Refinement == Spec => SourceSpec
<1>1. Init => Source!Init
    <2> SUFFICES ASSUME Init PROVE Source!Init
        OBVIOUS
    <2>1. at = 0 /\ calls = 0 /\ result = Failed
        BY DEF Init
    <2>2. (at > 0) = FALSE
        BY <2>1
    <2> QED
        BY <2>1, <2>2 DEF Source!Init
<1>2. IInv /\ [Next]_vars => [Source!Call \/ Source!Return]_(Source!vars)
    BY SourceStep
<1> QED
    BY <1>1, <1>2, Invariant, PTL DEF Spec, SourceSpec, Source!Spec

-----------------------------------------------------------------------------
(* The registers *)

Orders(i) == IF i <= 12 THEN {0} ELSE 1 .. HarmonicCount

\* The value of r is at the register of r's name and order.
Placed(r) ==
    \E i \in 1 .. 16 :
        /\ r.name = Names[i] /\ r.order \in Orders(i)
        /\ r.value = <<Register(i, r.order), Register(i, r.order) + 1>>

\* What the meter answers to the read that waits.
Served(words) ==
    \E missing \in 0 .. MaxMissing :
        words = [n \in 1 .. Registers(at) - missing |-> Address(at) + n - 1]

\* The latest request and its answer are about the read that waits, so what has been read
\* is in its place.
RegisterInv ==
    /\ waiting => \A n \in 1 .. Len(asked) : asked[n].tx = tx =>
          asked[n].addr = Address(at) /\ asked[n].count = Registers(at)
    /\ waiting => \A n \in 1 .. Len(frames) :
          frames[n].tx = tx => frames[n].words = Exception \/ Served(frames[n].words)
    /\ kind = "umg605-pro" => \A n \in 1 .. Len(readings) : Placed(readings[n])
    /\ kind = "umg605-pro" /\ result # Failed =>
          /\ \A n \in 1 .. Len(result) : Placed(result[n])
          /\ \A m, n \in 1 .. Len(result) :
                result[m].name = result[n].name /\ result[m].order = result[n].order => m = n

Addresses == <<
    19000, 19012, 19020, 19036, 3971, 3893, 3813, 4059, 4043, 4021, 3987, 3979,
    391, 2785, 895, 3289 >>

LEMMA PlanAddress == \A i \in 1 .. 16 : Address(i) = Addresses[i]
<1>1. \A i \in 1 .. 12 : RegisterOf[Singles[i].read] = Addresses[i]
    BY DEF RegisterOf, Singles, Addresses
<1>2. \A i \in 1 .. 4 : RegisterOf[Arrays[i].read] = Addresses[12 + i]
    BY DEF RegisterOf, Arrays, Addresses
<1>3. ASSUME NEW i \in 13 .. 16 PROVE Address(i) = Addresses[i]
    <2>1. i - 12 \in 1 .. 4 /\ 12 + (i - 12) = i
        OBVIOUS
    <2> QED
        BY <1>2, <2>1, PlanEntries DEF Address
<1>4. \A i \in 1 .. 12 : Address(i) = Addresses[i]
    BY <1>1, PlanEntries DEF Address
<1> QED
    BY <1>3, <1>4

\* The arrays do not reach into each other or the single values: this is where the limit
\* of a Modbus read is needed.
LEMMA RegistersApart ==
    ASSUME NEW i \in 1 .. 16, NEW j \in 1 .. 16,
           NEW m \in Orders(i), NEW n \in Orders(j), Register(i, m) = Register(j, n)
    PROVE  i = j /\ m = n
<1>1. \A k \in 1 .. 16 : \A o : Register(k, o) = IF k <= 12 THEN Addresses[k] ELSE Addresses[k] + 2 * (o - 1)
    BY PlanAddress, PlanLength DEF Register, IsSingle
<1>2. HarmonicCount \in Nat /\ HarmonicCount <= 62
    BY CountAssumption, FloatsAssumption
<1>3. \A k \in 1 .. 12 : Addresses[k] \in Nat /\ Addresses[k] >= 3813
    BY DEF Addresses
<1>4. \A k, l \in 1 .. 12 : Addresses[k] = Addresses[l] => k = l
    BY DEF Addresses
<1>5. Addresses[13] = 391 /\ Addresses[14] = 2785 /\ Addresses[15] = 895 /\ Addresses[16] = 3289
    BY DEF Addresses
<1>6. \A k \in 13 .. 16 : k = 13 \/ k = 14 \/ k = 15 \/ k = 16
    OBVIOUS
<1>7. ASSUME NEW k \in 13 .. 16, NEW o \in Orders(k)
      PROVE  o \in 1 .. HarmonicCount /\ Register(k, o) = Addresses[k] + 2 * (o - 1) /\ Register(k, o) < 3813
    <2>1. o \in 1 .. HarmonicCount /\ Register(k, o) = Addresses[k] + 2 * (o - 1)
        BY <1>1 DEF Orders
    <2> QED
        BY <1>2, <1>5, <1>6, <2>1
<1>8. CASE i <= 12 /\ j <= 12
    BY <1>1, <1>4, <1>8 DEF Orders
<1>9. CASE i > 12 /\ j > 12
    <2>1. m \in 1 .. HarmonicCount /\ n \in 1 .. HarmonicCount
          /\ Addresses[i] + 2 * (m - 1) = Addresses[j] + 2 * (n - 1)
        BY <1>7, <1>9
    <2> QED
        BY <1>2, <1>5, <1>6, <1>9, <2>1
<1>10. CASE i <= 12 /\ j > 12
    BY <1>1, <1>3, <1>7, <1>10
<1>11. CASE i > 12 /\ j <= 12
    BY <1>1, <1>3, <1>7, <1>11
<1> QED
    BY <1>8, <1>9, <1>10, <1>11

\* An answer's words are put in their places.
LEMMA ValuesPlaced ==
    ASSUME NEW frame \in Frame, at \in 1 .. 16, Answers(frame), Served(frame.words)
    PROVE  \A n \in 1 .. Len(Values(frame)) : Placed(Values(frame)[n])
<1> DEFINE words == frame.words
           values == Floats(words)
<1>1. PICK missing \in 0 .. MaxMissing :
         words = [n \in 1 .. Registers(at) - missing |-> Address(at) + n - 1]
    BY DEF Served
<1>2. Address(at) \in Nat /\ Registers(at) \in Nat /\ Registers(at) >= 2 /\ missing \in {0, 1}
    BY AddressType, CountAssumption, ReadBounds DEF Registers
<1>3. words \in Seq(Nat) /\ Len(words) = Registers(at) - missing
    <2>1. Registers(at) - missing \in Nat
        BY <1>2
    <2>2. words \in [1 .. Registers(at) - missing -> Nat]
        BY <1>1, <1>2
    <2> QED
        BY <2>1, <2>2, SeqOfFunction
<1> DEFINE k == Len(words) \div 2
<1>4. k \in Nat /\ 2 * k <= Len(words)
    BY <1>3, Halves
<1>5. values = [n \in 1 .. k |-> <<words[2 * n - 1], words[2 * n]>>]
    BY DEF Floats
<1>a. values \in Seq(Nat \X Nat)
    BY <1>3, FloatsType
<1>b. Len(words) = 2 => k = 1
    BY Halves
<1>c. /\ IsSingle(at) => Len(words) = 2
      /\ Values(frame) = IF IsSingle(at) THEN <<OneValue(Plan[at].name, values[1], frame.call)>>
                         ELSE PushHarmonics(Plan[at].name, values, frame.call)
    BY DEF Answers, Values
<1> HIDE DEF values, words, k
<1>6. ASSUME NEW n \in 1 .. k
      PROVE  values[n] = <<Address(at) + 2 * (n - 1), Address(at) + 2 * (n - 1) + 1>>
    <2>1. 2 * n - 1 \in 1 .. Registers(at) - missing /\ 2 * n \in 1 .. Registers(at) - missing
        BY <1>2, <1>3, <1>4
    <2>2. words[2 * n - 1] = Address(at) + (2 * n - 1) - 1 /\ words[2 * n] = Address(at) + 2 * n - 1
        BY <1>1, <2>1
    <2> QED
        BY <1>2, <1>5, <2>2
<1>7. Plan[at].name = Names[at]
    BY PlanName
<1>8. Len(values) = k
    <2>1. DOMAIN values = 1 .. k
        BY <1>5
    <2> QED
        BY <1>4, <1>a, <2>1, LenProperties
<1>9. CASE at <= 12
    <2>1. IsSingle(at) /\ Len(words) = 2 /\ at \in Int
        BY <1>9, <1>c, PlanLength DEF IsSingle
    <2>2. k = 1
        BY <1>b, <2>1
    <2> DEFINE r == OneValue(Names[at], values[1], frame.call)
    <2>3. Values(frame) = <<r>>
        BY <1>7, <1>c, <2>1
    <2>4. r.name = Names[at] /\ r.order = 0 /\ r.value = values[1]
        BY DEF OneValue
    <2>5. Register(at, 0) = Address(at) /\ values[1] = <<Address(at), Address(at) + 1>>
        BY <1>2, <1>6, <2>1, <2>2 DEF Register
    <2> HIDE DEF r
    <2>6. Placed(r)
        BY <1>9, <2>4, <2>5 DEF Placed, Orders
    <2> QED
        BY <2>3, <2>6
<1>10. CASE at > 12
    <2>1. ~IsSingle(at) /\ Registers(at) = 2 * HarmonicCount /\ at \in Int /\ HarmonicCount \in Nat
        BY <1>10, PlanLength, CountAssumption DEF IsSingle, Registers
    <2>2. k <= HarmonicCount
        BY <1>2, <1>3, <1>4, <2>1
    <2>3. Values(frame) = [n \in 1 .. k |->
             [name |-> Names[at], order |-> n, value |-> values[n], call |-> frame.call]]
        BY <1>7, <1>8, <1>c, <2>1 DEF PushHarmonics
    <2>4. \A n \in 1 .. k : n \in Orders(at)
        BY <1>4, <1>10, <2>1, <2>2 DEF Orders
    <2>5. ASSUME NEW n \in 1 .. k PROVE Placed(Values(frame)[n])
        <3> DEFINE r == Values(frame)[n]
        <3>1. r.name = Names[at] /\ r.order = n /\ r.value = values[n]
            BY <2>3
        <3>2. Register(at, n) = Address(at) + 2 * (n - 1)
            BY <2>1 DEF Register
        <3> HIDE DEF r
        <3>3. Placed(r)
            BY <1>6, <2>4, <3>1, <3>2 DEF Placed
        <3> QED
            BY <3>3 DEF r
    <2>6. Len(Values(frame)) = k
        BY <1>4, <2>3, LenProperties
    <2> QED
        BY <2>5, <2>6
<1> QED
    BY <1>9, <1>10

LEMMA ReturnPlaced ==
    ASSUME NEW outcome, Return(outcome),
           kind = "umg605-pro" /\ outcome # Failed =>
              /\ \A n \in 1 .. Len(outcome) : Placed(outcome[n])
              /\ \A m, n \in 1 .. Len(outcome) :
                    outcome[m].name = outcome[n].name /\ outcome[m].order = outcome[n].order => m = n
    PROVE  RegisterInv'
<1>1. waiting' = FALSE /\ readings' = <<>> /\ result' = outcome /\ kind' = kind
    BY DEF Return
<1>2. Len(readings') = 0
    BY <1>1
<1> QED
    BY <1>1, <1>2 DEF RegisterInv

LEMMA RegisterStep == IInv /\ RegisterInv /\ [Next]_vars => RegisterInv'
<1> SUFFICES ASSUME IInv, RegisterInv, [Next]_vars PROVE RegisterInv'
    OBVIOUS
<1> USE QueueLengths DEF IInv
<1>1. CASE Connect
    BY <1>1 DEF Connect, RegisterInv, Served
<1>2. CASE Call
    <2>1. waiting' = FALSE /\ readings' = <<>> /\ Len(readings') = 0 /\ UNCHANGED <<kind, result>>
        BY <1>2 DEF Call, TypeOK, ReadInv
    <2> QED
        BY <2>1 DEF RegisterInv
<1>3. CASE DummySnapshot
    <2>1. PICK outcome \in Seq(Reading) : Return(outcome) /\ Part(outcome, 16, calls)
        BY <1>3, DummyResult
    <2>2. kind # "umg605-pro"
        BY <1>3 DEF DummySnapshot
    <2> QED
        BY <2>1, <2>2, ReturnPlaced
<1>4. CASE Request
    <2>1. tx \in Nat /\ tx' = tx + 1 /\ UNCHANGED <<kind, at, readings, result>>
        BY <1>4 DEF Request, TypeOK
    <2> DEFINE q == [tx |-> tx', call |-> calls, addr |-> Address(at), count |-> Registers(at)]
    <2>2. q.addr = Address(at) /\ q.count = Registers(at) /\ asked' = Append(asked, q)
        BY <1>4 DEF Request
    <2>3. IInv'
        BY Step
    <2> HIDE DEF q
    <2>4. \A n \in 1 .. Len(asked') : asked'[n].tx = tx' =>
             asked'[n].addr = Address(at) /\ asked'[n].count = Registers(at)
        <3>1. /\ Len(asked') = Len(asked) + 1
              /\ asked'[Len(asked) + 1] = q
              /\ \A n \in 1 .. Len(asked) : asked'[n] = asked[n]
            BY <2>2 DEF TypeOK
        <3>2. ASSUME NEW n \in 1 .. Len(asked) PROVE asked[n].tx # tx'
            <4>1. asked[n] \in MeterRequest
                BY DEF TypeOK
            <4>2. asked[n].tx \in Nat /\ asked[n].tx <= tx
                BY <4>1 DEF ReadInv, Tagged, MeterRequest
            <4> QED
                BY <2>1, <4>2
        <3> QED
            BY <2>2, <3>1, <3>2
    <2>5. \A n \in 1 .. Len(frames') : frames'[n].tx # tx'
        <3>1. PICK kept \in 0 .. Len(frames) : frames' = SubSeq(frames, Len(frames) - kept + 1, Len(frames))
            BY <1>4 DEF Request
        <3>2. Len(frames') = kept /\ \A n \in 1 .. kept : frames'[n] = frames[Len(frames) - kept + n]
            <4>1. \A n \in Len(frames) - kept + 1 .. Len(frames) : frames[n] \in Frame
                BY DEF TypeOK
            <4> QED
                BY <3>1, <4>1, SubSeqProperties
        <3>3. ASSUME NEW n \in 1 .. Len(frames) PROVE frames[n].tx # tx'
            <4>1. frames[n] \in Frame
                BY DEF TypeOK
            <4>2. frames[n].tx \in Nat /\ frames[n].tx <= tx
                BY <4>1 DEF ReadInv, Tagged, Frame
            <4> QED
                BY <2>1, <4>2
        <3>4. \A n \in 1 .. kept : Len(frames) - kept + n \in 1 .. Len(frames)
            OBVIOUS
        <3> QED
            BY <3>2, <3>3, <3>4
    <2> QED
        BY <2>1, <2>4, <2>5 DEF RegisterInv, Registers
<1>5. CASE MeterAnswers
    <2>1. /\ asked # <<>> /\ asked' = Tail(asked)
          /\ UNCHANGED <<kind, at, waiting, tx, readings, result>>
        BY <1>5 DEF MeterAnswers
    <2> DEFINE q == Head(asked)
    <2>2. PICK words \in {Exception} \cup {[n \in 1 .. q.count - missing |-> q.addr + n - 1] : missing \in 0 .. MaxMissing} :
             frames' = Append(frames, [tx |-> q.tx, call |-> q.call, words |-> words])
        BY <1>5 DEF MeterAnswers
    <2>3. q = asked[1] /\ 1 \in 1 .. Len(asked)
        BY <2>1, HeadTailProperties, EmptySeq DEF TypeOK
    <2> HIDE DEF q
    <2>4. ASSUME waiting, q.tx = tx, words # Exception PROVE Served(words)
        <3>1. q.addr = Address(at) /\ q.count = Registers(at)
            BY <2>3, <2>4 DEF RegisterInv
        <3>2. PICK missing \in 0 .. MaxMissing : words = [n \in 1 .. q.count - missing |-> q.addr + n - 1]
            BY <2>2, <2>4
        <3> QED
            BY <3>1, <3>2 DEF Served
    <2> DEFINE f == [tx |-> q.tx, call |-> q.call, words |-> words]
    <2>5. f.tx = q.tx /\ f.words = words /\ frames' = Append(frames, f)
        BY <2>2
    <2> HIDE DEF f
    <2>6. /\ Len(frames') = Len(frames) + 1
          /\ \A n \in 1 .. Len(frames) : frames'[n] = frames[n]
          /\ frames'[Len(frames) + 1] = f
        BY <2>5 DEF TypeOK
    <2>7. waiting => \A n \in 1 .. Len(frames') :
             frames'[n].tx = tx => frames'[n].words = Exception \/ Served(frames'[n].words)
        BY <2>4, <2>5, <2>6 DEF RegisterInv
    <2>8. Len(asked') = Len(asked) - 1 /\ \A n \in 1 .. Len(asked') : asked'[n] = asked[n + 1]
        BY <2>1, HeadTailProperties DEF TypeOK
    <2>9. waiting => \A n \in 1 .. Len(asked') : asked'[n].tx = tx =>
             asked'[n].addr = Address(at) /\ asked'[n].count = Registers(at)
        BY <2>8 DEF RegisterInv
    <2> QED
        BY <2>1, <2>7, <2>9 DEF RegisterInv, Served, Registers
<1>6. CASE Break
    <2>1. asked' = <<>> /\ frames' = <<>> /\ Len(asked') = 0 /\ Len(frames') = 0
          /\ UNCHANGED <<kind, readings, result>>
        BY <1>6 DEF Break
    <2> QED
        BY <2>1 DEF RegisterInv
<1>7. CASE Return(Failed)
    BY <1>7, ReturnPlaced
<1>8. CASE Receive
    <2>1. waiting /\ frames # <<>>
        BY <1>8 DEF Receive
    <2>2. CASE ~Answers(Head(frames))
        BY <1>7, <1>8, <2>2 DEF Receive
    <2>3. ASSUME Answers(Head(frames)) PROVE RegisterInv'
        <3> DEFINE frame == Head(frames)
                   read == readings \o Values(frame)
        <3>1. at \in 1 .. 16
            BY <2>1, PlanLength DEF TypeOK, ReadInv
        <3>2. frame \in Frame /\ frame = frames[1] /\ 1 \in 1 .. Len(frames)
            BY <2>1, HeadTailProperties, EmptySeq DEF TypeOK
        <3>3. Part(read, at, calls)
            BY <2>1, <2>3, FrameRead
        <3>4. Served(frame.words)
            BY <2>1, <2>3, <3>2 DEF RegisterInv, Answers
        <3>5. \A n \in 1 .. Len(Values(frame)) : Placed(Values(frame)[n])
            BY <2>3, <3>1, <3>2, <3>4, ValuesPlaced
        <3>6. Values(frame) \in Seq(Reading)
            BY <2>3, <3>1, <3>2, ValuesBlock DEF Block
        <3> HIDE DEF frame
        <3>7. /\ Len(read) = Len(readings) + Len(Values(frame))
              /\ \A n \in 1 .. Len(readings) + Len(Values(frame)) :
                    read[n] = IF n <= Len(readings) THEN readings[n] ELSE Values(frame)[n - Len(readings)]
            BY <3>6, ConcatProperties DEF TypeOK
        <3>8. Len(readings) \in Nat /\ Len(Values(frame)) \in Nat
            BY <3>6, LenProperties DEF TypeOK
        <3>9. ASSUME kind = "umg605-pro", NEW n \in 1 .. Len(read) PROVE Placed(read[n])
            <4>1. CASE n <= Len(readings)
                BY <3>7, <3>8, <3>9, <4>1 DEF RegisterInv
            <4>2. CASE n > Len(readings)
                <5>1. n - Len(readings) \in 1 .. Len(Values(frame)) /\ read[n] = Values(frame)[n - Len(readings)]
                    BY <3>7, <3>8, <4>2
                <5> QED
                    BY <3>5, <5>1
            <4> QED
                BY <3>7, <3>8, <4>1, <4>2
        <3>10. CASE at = Len(Plan)
            <4>1. Return(read)
                BY <1>8, <2>3, <3>10 DEF Receive, frame
            <4> HIDE DEF read
            <4>2. \A m, n \in 1 .. Len(read) : read[m].name = read[n].name /\ read[m].order = read[n].order => m = n
                BY <3>3 DEF Part
            <4> QED
                BY <3>9, <4>1, <4>2, ReturnPlaced
        <3>11. CASE at # Len(Plan)
            <4>1. waiting' = FALSE /\ readings' = read /\ UNCHANGED <<kind, result>>
                BY <1>8, <2>3, <3>11 DEF Receive, frame
            <4> HIDE DEF read
            <4> QED
                BY <3>9, <4>1 DEF RegisterInv
        <3> QED
            BY <3>10, <3>11
    <2> QED
        BY <2>2, <2>3
<1>9. CASE UNCHANGED vars
    BY <1>9 DEF vars, conn, RegisterInv, Served, Registers
<1> QED
    BY <1>1, <1>2, <1>3, <1>4, <1>5, <1>6, <1>7, <1>8, <1>9 DEF Next, ClientStep, TransportError, TimeOut

LEMMA PlacedRight == TypeOK /\ RegisterInv => RightRegisters
<1> SUFFICES ASSUME TypeOK, RegisterInv, kind = "umg605-pro", result # Failed, NEW n \in DOMAIN result
             PROVE  /\ \E i \in 1 .. Len(Plan) :
                          /\ Plan[i].name = result[n].name
                          /\ result[n].value = <<Register(i, result[n].order), Register(i, result[n].order) + 1>>
                    /\ \A m \in DOMAIN result : result[m].value = result[n].value => m = n
    BY DEF RightRegisters
<1>1. DOMAIN result = 1 .. Len(result)
    BY LenProperties DEF TypeOK
<1>2. PICK i \in 1 .. 16 :
         /\ result[n].name = Names[i] /\ result[n].order \in Orders(i)
         /\ result[n].value = <<Register(i, result[n].order), Register(i, result[n].order) + 1>>
    BY <1>1 DEF RegisterInv, Placed
<1>3. ASSUME NEW m \in DOMAIN result, result[m].value = result[n].value PROVE m = n
    <2>1. PICK j \in 1 .. 16 :
             /\ result[m].name = Names[j] /\ result[m].order \in Orders(j)
             /\ result[m].value = <<Register(j, result[m].order), Register(j, result[m].order) + 1>>
        BY <1>1 DEF RegisterInv, Placed
    <2>2. Register(i, result[n].order) = Register(j, result[m].order)
        BY <1>2, <1>3, <2>1
    <2>3. i = j /\ result[n].order = result[m].order
        BY <1>2, <2>1, <2>2, RegistersApart
    <2> QED
        BY <1>1, <1>2, <2>1, <2>3 DEF RegisterInv
<1> QED
    BY <1>2, <1>3, PlanLength, PlanName

\* Every value is the register pair its name and order stand for, and no register is there
\* twice, whichever answers came late, never or too short (read_snapshot,
\* push_harmonic_array).
THEOREM RegistersRight == Spec => []RightRegisters
<1>1. Init => RegisterInv
    <2>1. ASSUME Init PROVE waiting = FALSE /\ readings = <<>> /\ Len(readings) = 0 /\ result = Failed
        BY <2>1 DEF Init
    <2> QED
        BY <2>1 DEF RegisterInv
<1>2. IInv /\ RegisterInv /\ [Next]_vars => RegisterInv'
    BY RegisterStep
<1>3. IInv /\ RegisterInv => RightRegisters
    BY PlacedRight DEF IInv
<1> QED
    BY <1>1, <1>2, <1>3, Invariant, PTL DEF Spec

=============================================================================
