------------------------- MODULE GatewayClientProofs -------------------------
(***************************************************************************)
(* Proofs about GatewayClient, for any limit, chunk size and delays, any   *)
(* requests and any number of ticks: the buffer stays bounded, replies     *)
(* keep the order of the requests, and RequestService is implemented.      *)
(*                                                                         *)
(* The bytes on the tunnel are those of the requests without a reply       *)
(* (Holds), wherever chunks cut them; the line the gateway takes out next  *)
(* is then the oldest of these.                                            *)
(***************************************************************************)
EXTENDS GatewayClient, WellFoundedInduction, SequenceTheorems, TLAPS

-----------------------------------------------------------------------------
(* Sequences of bytes and lines *)

LEMMA LeastElement ==
    ASSUME NEW I, I \subseteq Nat, I # {}
    PROVE  Min(I) \in I /\ \A m \in I : Min(I) <= m
<1> DEFINE R == OpToRel(<, Nat)
<1>1. IsWellFoundedOn(R, Nat)
    BY NatLessThanWellFounded
<1>2. \A x, y \in Nat : x < y => <<x, y>> \in R
    BY DEF OpToRel
<1> HIDE DEF R
<1>3. \E x \in I : \A y \in I : ~(<<y, x>> \in R)
    BY <1>1, WFMin
<1>4. \E x \in I : \A y \in I : x <= y
    <2>1. PICK x \in I : \A y \in I : ~(<<y, x>> \in R)
        BY <1>3
    <2>2. ASSUME NEW y \in I PROVE x <= y
        <3>1. x \in Nat /\ y \in Nat
            OBVIOUS
        <3>2. ~(y < x)
            BY <1>2, <2>1, <3>1
        <3> QED
            BY <3>1, <3>2
    <2> QED
        BY <2>2
<1> QED
    BY <1>4 DEF Min

\* NewlineAt is what its name says.
LEMMA NewlineAtPlace ==
    ASSUME NEW bytes \in Seq(Byte)
    PROVE  /\ NewlineAt(bytes) \in 0 .. Len(bytes)
           /\ NewlineAt(bytes) # 0 => bytes[NewlineAt(bytes)].newline
           /\ NewlineAt(bytes) # 0 => \A i \in 1 .. NewlineAt(bytes) - 1 : ~bytes[i].newline
<1> DEFINE I == {i \in 1 .. Len(bytes) : bytes[i].newline}
<1>1. Len(bytes) \in Nat
    BY LenProperties
<1>2. NewlineAt(bytes) = IF I # {} THEN Min(I) ELSE 0
    BY DEF NewlineAt, SelectInSeq
<1>3. CASE I = {}
    BY <1>1, <1>2, <1>3
<1>4. CASE I # {}
    <2>1. I \subseteq Nat
        BY <1>1
    <2>2. Min(I) \in I /\ \A m \in I : Min(I) <= m
        BY <1>4, <2>1, LeastElement
    <2> DEFINE k == NewlineAt(bytes)
    <2>3. k \in I /\ \A m \in I : k <= m
        BY <1>2, <1>4, <2>2
    <2> HIDE DEF k
    <2>4. k \in 1 .. Len(bytes) /\ bytes[k].newline
        BY <2>3
    <2>5. ASSUME NEW i \in 1 .. k - 1 PROVE ~bytes[i].newline
        <3>1. i \in 1 .. Len(bytes) /\ ~(k <= i)
            BY <1>1, <2>4
        <3> QED
            BY <2>3, <3>1
    <2> QED
        BY <1>1, <2>4, <2>5 DEF k
<1> QED
    BY <1>3, <1>4

\* It is 0 only if there is no newline.
LEMMA NewlineAtNone ==
    ASSUME NEW bytes \in Seq(Byte), NewlineAt(bytes) = 0
    PROVE  ~ \E i \in 1 .. Len(bytes) : bytes[i].newline
<1> DEFINE I == {i \in 1 .. Len(bytes) : bytes[i].newline}
<1>1. NewlineAt(bytes) = IF I # {} THEN Min(I) ELSE 0
    BY DEF NewlineAt, SelectInSeq
<1>2. CASE I # {}
    <2>1. I \subseteq Nat /\ 0 \notin I
        BY LenProperties
    <2>2. Min(I) \in I
        BY <1>2, <2>1, LeastElement
    <2> QED
        BY <1>1, <1>2, <2>1, <2>2
<1> QED
    BY <1>2

LEMMA PartType ==
    ASSUME NEW S, NEW s \in Seq(S), NEW m \in Nat, NEW n \in Nat, n <= Len(s)
    PROVE  /\ SubSeq(s, m + 1, n) \in Seq(S)
           /\ Len(SubSeq(s, m + 1, n)) = IF m + 1 <= n THEN n - m ELSE 0
<1>1. \A i \in m + 1 .. n : s[i] \in S
    BY LenProperties
<1> QED
    BY <1>1, SubSeqProperties

LEMMA RestOf ==
    ASSUME NEW S, NEW s \in Seq(S), NEW m \in Nat, m <= Len(s)
    PROVE  /\ SubSeq(s, m + 1, Len(s)) \in Seq(S) /\ Len(SubSeq(s, m + 1, Len(s))) = Len(s) - m
           /\ \A i \in 1 .. Len(s) - m : SubSeq(s, m + 1, Len(s))[i] = s[m + i]
<1>1. \A i \in m + 1 .. Len(s) : s[i] \in S
    BY LenProperties
<1>2. Len(s) \in Nat
    BY LenProperties
<1> QED
    BY <1>1, <1>2, SubSeqProperties

\* How many bytes a line has.
Size(line) == IF line.kind = "long" THEN MaxLineSize + 2 ELSE 2

LEMMA BytesOfForm ==
    ASSUME NEW line \in Line
    PROVE  /\ Size(line) \in Nat /\ Size(line) >= 2
           /\ BytesOf(line) \in Seq(Byte) /\ Len(BytesOf(line)) = Size(line)
           /\ \A i \in 1 .. Size(line) : BytesOf(line)[i] = [line |-> line, newline |-> i = Size(line)]
<1> DEFINE size == IF line.kind = "long" THEN MaxLineSize + 1 ELSE 1
<1>1. size + 1 \in Nat /\ size + 1 >= 2 /\ size + 1 = Size(line)
    BY SizeAssumption DEF Size
<1>2. BytesOf(line) = [n \in 1 .. size + 1 |-> [line |-> line, newline |-> n = size + 1]]
    BY DEF BytesOf
<1> HIDE DEF size
<1>3. \A n \in 1 .. size + 1 : (n = size + 1) \in BOOLEAN
    BY <1>1
<1>4. BytesOf(line) \in [1 .. size + 1 -> Byte]
    BY <1>2, <1>3 DEF Byte
<1>5. BytesOf(line) \in Seq(Byte) /\ Len(BytesOf(line)) = size + 1
    BY <1>1, <1>4, SeqDef, LenProperties
<1> QED
    BY <1>1, <1>2, <1>5

LEMMA ByteFields ==
    ASSUME NEW byte, NEW l, NEW p, byte = [line |-> l, newline |-> p]
    PROVE  byte.line = l /\ byte.newline = p
OBVIOUS

\* The line's bytes are those after place a and up to place b.
Stands(bytes, a, b, line) ==
    /\ b - a = Size(line)
    /\ \A i \in 1 .. Size(line) : bytes[a + i] = [line |-> line, newline |-> i = Size(line)]

LEMMA StandsIff ==
    ASSUME NEW bytes \in Seq(Byte), NEW a \in 0 .. Len(bytes), NEW b \in 0 .. Len(bytes), a <= b,
           NEW line \in Line
    PROVE  SubSeq(bytes, a + 1, b) = BytesOf(line) <=> Stands(bytes, a, b, line)
<1> DEFINE part == SubSeq(bytes, a + 1, b)
<1>1. a \in Int /\ b \in Int /\ Len(bytes) \in Nat
    BY LenProperties
<1>2. \A i \in a + 1 .. b : bytes[i] \in Byte
    BY <1>1
<1>3. part \in Seq(Byte) /\ Len(part) = b - a /\ \A i \in 1 .. b - a : part[i] = bytes[a + i]
    BY <1>1, <1>2, SubSeqProperties
<1> HIDE DEF part
<1>4. ASSUME part = BytesOf(line) PROVE Stands(bytes, a, b, line)
    BY <1>3, <1>4, BytesOfForm DEF Stands
<1>5. ASSUME Stands(bytes, a, b, line) PROVE part = BytesOf(line)
    <2>1. Len(part) = Len(BytesOf(line)) /\ Len(part) = Size(line) /\ BytesOf(line) \in Seq(Byte)
        BY <1>3, <1>5, BytesOfForm DEF Stands
    <2>2. \A i \in 1 .. Len(part) : part[i] = BytesOf(line)[i]
        <3>1. \A i \in 1 .. Size(line) : bytes[a + i] = BytesOf(line)[i]
            BY <1>5, BytesOfForm DEF Stands
        <3> QED
            BY <1>3, <2>1, <3>1
    <2> QED
        BY <1>3, <2>1, <2>2, SeqEqual
<1> QED
    BY <1>4, <1>5 DEF part

\* Holds, place by place.
Ends(bytes, lines, ends) ==
    /\ ends \in [0 .. Len(lines) -> 0 .. Len(bytes)]
    /\ ends[0] = 0 /\ ends[Len(lines)] = Len(bytes)
    /\ \A m, n \in 0 .. Len(lines) : m <= n => ends[m] <= ends[n]
    /\ \A n \in 1 .. Len(lines) : Stands(bytes, ends[n - 1], ends[n], lines[n])

LEMMA HoldsIff ==
    ASSUME NEW bytes \in Seq(Byte), NEW lines \in Seq(Line)
    PROVE  Holds(bytes, lines) <=> \E ends : Ends(bytes, lines, ends)
<1>1. Len(lines) \in Nat /\ Len(bytes) \in Nat
    BY LenProperties
<1>2. ASSUME NEW ends \in [0 .. Len(lines) -> 0 .. Len(bytes)],
             \A m, n \in 0 .. Len(lines) : m <= n => ends[m] <= ends[n],
             NEW n \in 1 .. Len(lines)
      PROVE  SubSeq(bytes, ends[n - 1] + 1, ends[n]) = BytesOf(lines[n])
             <=> Stands(bytes, ends[n - 1], ends[n], lines[n])
    <2>1. n - 1 \in 0 .. Len(lines) /\ n \in 0 .. Len(lines) /\ n - 1 <= n
        BY <1>1
    <2>2. ends[n - 1] \in 0 .. Len(bytes) /\ ends[n] \in 0 .. Len(bytes) /\ ends[n - 1] <= ends[n]
        BY <1>2, <2>1
    <2>3. lines[n] \in Line
        OBVIOUS
    <2> QED
        BY <2>2, <2>3, StandsIff
<1> QED
    BY <1>2 DEF Holds, Ends

LEMMA HoldsNothing == Holds(<<>>, <<>>)
<1>1. Ends(<<>>, <<>>, [n \in 0 .. 0 |-> 0])
    BY DEF Ends
<1>2. <<>> \in Seq(Byte) /\ <<>> \in Seq(Line)
    OBVIOUS
<1> QED
    BY <1>1, <1>2, HoldsIff

\* A line more, at the end.
LEMMA HoldsAppend ==
    ASSUME NEW bytes \in Seq(Byte), NEW lines \in Seq(Line), NEW line \in Line,
           Holds(bytes, lines)
    PROVE  Holds(bytes \o BytesOf(line), Append(lines, line))
<1> DEFINE longer == bytes \o BytesOf(line)
           more   == Append(lines, line)
<1>1. PICK ends : Ends(bytes, lines, ends)
    BY HoldsIff
<1>2. Len(bytes) \in Nat /\ Len(lines) \in Nat /\ Size(line) \in Nat
    BY LenProperties, BytesOfForm
<1>3. /\ longer \in Seq(Byte) /\ Len(longer) = Len(bytes) + Size(line)
      /\ \A i \in 1 .. Len(bytes) : longer[i] = bytes[i]
      /\ \A i \in 1 .. Size(line) : longer[Len(bytes) + i] = [line |-> line, newline |-> i = Size(line)]
    <2>1. BytesOf(line) \in Seq(Byte) /\ Len(BytesOf(line)) = Size(line)
        BY BytesOfForm
    <2>2. /\ longer \in Seq(Byte) /\ Len(longer) = Len(bytes) + Size(line)
          /\ \A i \in 1 .. Len(bytes) + Size(line) :
                longer[i] = IF i <= Len(bytes) THEN bytes[i] ELSE BytesOf(line)[i - Len(bytes)]
        BY <2>1, ConcatProperties
    <2> HIDE DEF longer
    <2>3. ASSUME NEW i \in 1 .. Len(bytes) PROVE longer[i] = bytes[i]
        BY <1>2, <2>2
    <2>4. ASSUME NEW i \in 1 .. Size(line)
          PROVE  longer[Len(bytes) + i] = [line |-> line, newline |-> i = Size(line)]
        <3>1. Len(bytes) + i \in 1 .. Len(bytes) + Size(line) /\ ~(Len(bytes) + i <= Len(bytes))
              /\ (Len(bytes) + i) - Len(bytes) = i
            BY <1>2
        <3>2. longer[Len(bytes) + i] = BytesOf(line)[i]
            BY <2>2, <3>1
        <3>3. BytesOf(line)[i] = [line |-> line, newline |-> i = Size(line)]
            BY BytesOfForm
        <3> QED
            BY <3>2, <3>3, Zenon
    <2> QED
        BY <2>2, <2>3, <2>4
<1>4. /\ more \in Seq(Line) /\ Len(more) = Len(lines) + 1
      /\ \A i \in 1 .. Len(lines) : more[i] = lines[i]
      /\ more[Len(lines) + 1] = line
    BY AppendProperties
<1> DEFINE after == [n \in 0 .. Len(lines) + 1 |-> IF n <= Len(lines) THEN ends[n] ELSE Len(longer)]
<1> HIDE DEF longer, more
<1>5. /\ after \in [0 .. Len(more) -> 0 .. Len(longer)]
      /\ after[0] = 0 /\ after[Len(more)] = Len(longer)
      /\ \A m, n \in 0 .. Len(more) : m <= n => after[m] <= after[n]
    <2>1. \A n \in 0 .. Len(lines) : ends[n] \in Nat /\ ends[n] <= Len(bytes)
        BY <1>1, <1>2 DEF Ends
    <2>2. \A m, n \in 0 .. Len(lines) : m <= n => ends[m] <= ends[n]
        BY <1>1 DEF Ends
    <2>3. \A n \in 0 .. Len(more) : after[n] \in 0 .. Len(longer)
        BY <1>2, <1>3, <1>4, <2>1
    <2>4. \A m, n \in 0 .. Len(more) : m <= n => after[m] <= after[n]
        BY <1>2, <1>3, <1>4, <2>1, <2>2
    <2> QED
        BY <1>1, <1>2, <1>4, <2>3, <2>4 DEF Ends
<1>6. ASSUME NEW n \in 1 .. Len(more)
      PROVE  Stands(longer, after[n - 1], after[n], more[n])
    <2>1. CASE n <= Len(lines)
        <3>1. n \in 1 .. Len(lines) /\ n - 1 \in 0 .. Len(lines) /\ n \in 0 .. Len(lines)
            BY <1>2, <2>1
        <3>2. Stands(bytes, ends[n - 1], ends[n], lines[n])
            BY <1>1, <3>1 DEF Ends
        <3>3. ends[n - 1] \in Nat /\ ends[n] \in Nat /\ ends[n] <= Len(bytes)
            <4>1. ends[n - 1] \in 0 .. Len(bytes) /\ ends[n] \in 0 .. Len(bytes)
                BY <1>1, <3>1 DEF Ends
            <4> QED
                BY <1>2, <4>1
        <3>4. lines[n] \in Line
            BY <3>1
        <3>5. Size(lines[n]) \in Nat
            BY <3>4, BytesOfForm
        <3>6. ASSUME NEW i \in 1 .. Size(lines[n])
              PROVE  longer[ends[n - 1] + i] = bytes[ends[n - 1] + i]
            <4>1. ends[n - 1] + i \in 1 .. Len(bytes)
                BY <1>2, <3>2, <3>3, <3>5 DEF Stands
            <4> QED
                BY <1>3, <4>1
        <3>7. Stands(longer, ends[n - 1], ends[n], lines[n])
            BY <3>2, <3>6 DEF Stands
        <3>8. after[n - 1] = ends[n - 1] /\ after[n] = ends[n] /\ more[n] = lines[n]
            BY <1>2, <1>4, <2>1, <3>1
        <3> QED
            BY <3>7, <3>8
    <2>2. CASE n = Len(lines) + 1
        <3>1. after[n - 1] = Len(bytes) /\ after[n] = Len(bytes) + Size(line) /\ more[n] = line
            <4>1. ends[Len(lines)] = Len(bytes)
                BY <1>1 DEF Ends
            <4> QED
                BY <1>2, <1>3, <1>4, <2>2, <4>1
        <3>2. Stands(longer, Len(bytes), Len(bytes) + Size(line), line)
            BY <1>2, <1>3 DEF Stands
        <3> QED
            BY <3>1, <3>2
    <2> QED
        BY <1>2, <1>4, <2>1, <2>2
<1>7. Ends(longer, more, after)
    BY <1>5, <1>6 DEF Ends
<1>8. Holds(longer, more)
    BY <1>3, <1>4, <1>7, HoldsIff
<1> QED
    BY <1>8 DEF longer, more

\* What ends at the first newline is the first line.
LEMMA HoldsFirst ==
    ASSUME NEW bytes \in Seq(Byte), NEW lines \in Seq(Line), Holds(bytes, lines),
           NEW k \in 1 .. Len(bytes), bytes[k].newline, \A i \in 1 .. k - 1 : ~bytes[i].newline
    PROVE  /\ lines # <<>>
           /\ SubSeq(bytes, 1, k) = BytesOf(lines[1]) /\ bytes[k].line = lines[1]
           /\ Holds(SubSeq(bytes, k + 1, Len(bytes)), Tail(lines))
<1>1. PICK ends : Ends(bytes, lines, ends)
    BY HoldsIff
<1>2. Len(bytes) \in Nat /\ Len(lines) \in Nat
    BY LenProperties
<1>3. lines # <<>> /\ 1 \in 1 .. Len(lines) /\ lines[1] \in Line
    <2>1. Len(lines) # 0
        BY <1>1, <1>2 DEF Ends
    <2> QED
        BY <1>2, <2>1
<1> DEFINE size == Size(lines[1])
<1>4. size \in Nat /\ size >= 2
    BY <1>3, BytesOfForm
<1>5. Stands(bytes, 0, ends[1], lines[1]) /\ ends[1] \in 0 .. Len(bytes)
    <2>1. 1 \in 0 .. Len(lines)
        BY <1>2, <1>3
    <2> QED
        BY <1>1, <1>3, <2>1 DEF Ends
<1>6. /\ ends[1] = size /\ size <= Len(bytes)
      /\ \A i \in 1 .. size : bytes[i] = [line |-> lines[1], newline |-> i = size]
    BY <1>2, <1>4, <1>5 DEF Stands
<1> HIDE DEF size
<1>7. k = size
    <2>1. ASSUME NEW i \in 1 .. size PROVE bytes[i].newline = (i = size)
        <3>1. bytes[i] = [line |-> lines[1], newline |-> i = size]
            BY <1>6
        <3> QED
            BY <3>1, ByteFields
    <2>2. size \in 1 .. size
        BY <1>4
    <2>3. bytes[size].newline
        BY <2>1, <2>2, Zenon
    <2>4. ~(size < k)
        BY <1>4, <2>3
    <2>5. ~(k < size)
        <3>1. ASSUME k < size PROVE FALSE
            <4>1. k \in 1 .. size /\ k # size
                BY <1>4, <3>1
            <4>2. bytes[k].newline = (k = size)
                BY <2>1, <4>1, Zenon
            <4> QED
                BY <4>1, <4>2, Zenon
        <3> QED
            BY <3>1
    <2> QED
        BY <1>4, <2>4, <2>5
<1>8. SubSeq(bytes, 0 + 1, k) = BytesOf(lines[1])
    <2>1. 0 \in 0 .. Len(bytes) /\ k \in 0 .. Len(bytes) /\ 0 <= k
        BY <1>2, <1>5, <1>6, <1>7
    <2>2. Stands(bytes, 0, k, lines[1])
        BY <1>5, <1>6, <1>7
    <2> QED
        BY <1>3, <2>1, <2>2, StandsIff
<1>9. bytes[k].line = lines[1]
    <2>1. k \in 1 .. size
        BY <1>4, <1>7
    <2>2. bytes[k] = [line |-> lines[1], newline |-> k = size]
        BY <1>6, <2>1
    <2> QED
        BY <2>2, ByteFields
<1> DEFINE rest  == SubSeq(bytes, k + 1, Len(bytes))
           after == [n \in 0 .. Len(lines) - 1 |-> ends[n + 1] - k]
<1>10. /\ rest \in Seq(Byte) /\ Len(rest) = Len(bytes) - k
       /\ \A i \in 1 .. Len(bytes) - k : rest[i] = bytes[k + i]
    <2>1. \A i \in k + 1 .. Len(bytes) : bytes[i] \in Byte
        BY <1>2
    <2> QED
        BY <1>2, <2>1, SubSeqProperties
<1>11. /\ Tail(lines) \in Seq(Line) /\ Len(Tail(lines)) = Len(lines) - 1
       /\ \A n \in 1 .. Len(lines) - 1 : Tail(lines)[n] = lines[n + 1]
    BY <1>3, HeadTailProperties
<1> HIDE DEF rest
<1>12. \A n \in 0 .. Len(lines) - 1 : ends[n + 1] \in k .. Len(bytes)
    <2>1. ASSUME NEW n \in 0 .. Len(lines) - 1 PROVE ends[n + 1] \in k .. Len(bytes)
        <3>1. n + 1 \in 0 .. Len(lines) /\ 1 \in 0 .. Len(lines) /\ 1 <= n + 1
            BY <1>2
        <3>2. ends[1] <= ends[n + 1] /\ ends[n + 1] \in 0 .. Len(bytes)
            BY <1>1, <3>1 DEF Ends
        <3> QED
            BY <1>2, <1>4, <1>6, <1>7, <3>2
    <2> QED
        BY <2>1
<1>13. /\ after \in [0 .. Len(Tail(lines)) -> 0 .. Len(rest)]
       /\ after[0] = 0 /\ after[Len(Tail(lines))] = Len(rest)
       /\ \A m, n \in 0 .. Len(Tail(lines)) : m <= n => after[m] <= after[n]
    <2>1. \A n \in 0 .. Len(Tail(lines)) : after[n] \in 0 .. Len(rest)
        BY <1>2, <1>10, <1>11, <1>12
    <2>2. after[0] = 0
        BY <1>2, <1>3, <1>4, <1>6, <1>7
    <2>3. after[Len(Tail(lines))] = Len(rest)
        <3>1. ends[Len(lines)] = Len(bytes) /\ (Len(lines) - 1) + 1 = Len(lines) /\ Len(lines) - 1 \in 0 .. Len(lines) - 1
            BY <1>1, <1>2, <1>3 DEF Ends
        <3> QED
            BY <1>10, <1>11, <3>1
    <2>4. ASSUME NEW m \in 0 .. Len(Tail(lines)), NEW n \in 0 .. Len(Tail(lines)), m <= n
          PROVE  after[m] <= after[n]
        <3>1. m + 1 \in 0 .. Len(lines) /\ n + 1 \in 0 .. Len(lines) /\ m + 1 <= n + 1
            BY <1>2, <1>11, <2>4
        <3>2. ends[m + 1] <= ends[n + 1]
            BY <1>1, <3>1 DEF Ends
        <3>3. ends[m + 1] \in Int /\ ends[n + 1] \in Int
            BY <1>11, <1>12
        <3> QED
            BY <1>11, <3>2, <3>3
    <2> QED
        BY <1>11, <2>1, <2>2, <2>3, <2>4
<1>14. ASSUME NEW n \in 1 .. Len(Tail(lines))
       PROVE  Stands(rest, after[n - 1], after[n], Tail(lines)[n])
    <2>1. n + 1 \in 1 .. Len(lines) /\ n \in 0 .. Len(lines) - 1 /\ n - 1 \in 0 .. Len(lines) - 1 /\ (n - 1) + 1 = n
        BY <1>2, <1>11
    <2>2. Stands(bytes, ends[n], ends[n + 1], lines[n + 1])
        <3>1. Stands(bytes, ends[(n + 1) - 1], ends[n + 1], lines[n + 1])
            BY <1>1, <2>1 DEF Ends
        <3>2. (n + 1) - 1 = n
            BY <2>1
        <3> QED
            BY <3>1, <3>2
    <2>3. ends[n] \in k .. Len(bytes) /\ ends[n + 1] \in k .. Len(bytes)
        BY <1>12, <2>1
    <2> DEFINE line == lines[n + 1]
    <2>4. line \in Line
        BY <2>1
    <2>5. Size(line) \in Nat
        BY <2>4, BytesOfForm
    <2>6. after[n - 1] = ends[n] - k /\ after[n] = ends[n + 1] - k /\ Tail(lines)[n] = line
        BY <1>11, <2>1
    <2> HIDE DEF line
    <2>7. ASSUME NEW i \in 1 .. Size(line)
          PROVE  rest[(ends[n] - k) + i] = bytes[ends[n] + i]
        <3>1. (ends[n] - k) + i \in 1 .. Len(bytes) - k /\ k + ((ends[n] - k) + i) = ends[n] + i
            <4>1. ends[n + 1] - ends[n] = Size(line)
                BY <2>2 DEF Stands, line
            <4>2. /\ ends[n] \in Int /\ ends[n + 1] \in Int /\ Len(bytes) \in Int /\ k \in Int
                  /\ k <= ends[n] /\ ends[n + 1] <= Len(bytes)
                BY <1>2, <2>3
            <4>3. i \in Int /\ 1 <= i /\ i <= ends[n + 1] - ends[n]
                BY <2>5, <4>1
            <4> QED
                BY <4>2, <4>3
        <3> QED
            BY <1>10, <3>1
    <2>8. Stands(rest, ends[n] - k, ends[n + 1] - k, line)
        <3>1. (ends[n + 1] - k) - (ends[n] - k) = ends[n + 1] - ends[n]
            BY <2>3
        <3> QED
            BY <2>2, <2>7, <3>1 DEF Stands, line
    <2> QED
        BY <2>6, <2>8
<1>15. Ends(rest, Tail(lines), after)
    BY <1>13, <1>14 DEF Ends
<1>16. Holds(rest, Tail(lines))
    BY <1>10, <1>11, <1>15, HoldsIff
<1> QED
    BY <1>3, <1>8, <1>9, <1>16 DEF rest

-----------------------------------------------------------------------------
(* The invariant *)

IInv == TypeOK /\ BufferBounded /\ RepliesInOrder

LEMMA Lengths ==
    TypeOK => /\ Len(buf) \in Nat /\ Len(inbox) \in Nat
              /\ Len(asked) \in Nat /\ Len(replies) \in Nat
BY LenProperties DEF TypeOK

LEMMA Empty == <<>> \in Seq(Byte) /\ <<>> \in Seq(Line) /\ <<>> \in Seq(Reply) /\ Len(<<>>) = 0
OBVIOUS

LEMMA WaitingType ==
    ASSUME TypeOK, Len(replies) <= Len(asked)
    PROVE  /\ Waiting \in Seq(Line) /\ Len(Waiting) = Len(asked) - Len(replies)
           /\ \A n \in 1 .. Len(asked) - Len(replies) : Waiting[n] = asked[Len(replies) + n]
<1>1. Len(asked) \in Nat /\ Len(replies) \in Nat
    BY Lengths
<1>2. \A i \in Len(replies) + 1 .. Len(asked) : asked[i] \in Line
    BY <1>1 DEF TypeOK
<1> QED
    BY <1>1, <1>2, SubSeqProperties DEF Waiting

\* What is not answered stays so while requests, replies and bytes stay.
LEMMA RepliesSame ==
    ASSUME RepliesInOrder, UNCHANGED <<replies, asked, buf, inbox>>
    PROVE  RepliesInOrder'
BY DEF RepliesInOrder, Waiting

LEMMA NothingYet ==
    ASSUME buf = <<>>, inbox = <<>>, asked = <<>>, replies = <<>>
    PROVE  RepliesInOrder
<1>1. buf \o inbox = <<>> /\ Waiting = <<>>
    BY DEF Waiting
<1> QED
    BY <1>1, HoldsNothing DEF RepliesInOrder

LEMMA NothingYetNext ==
    ASSUME buf' = <<>>, inbox' = <<>>, asked' = <<>>, replies' = <<>>
    PROVE  RepliesInOrder'
<1>1. buf' \o inbox' = <<>> /\ Waiting' = <<>>
    BY DEF Waiting
<1> QED
    BY <1>1, HoldsNothing DEF RepliesInOrder

LEMMA Initial == Init => IInv
<1> SUFFICES ASSUME Init PROVE IInv
    OBVIOUS
<1>1. TypeOK
    <2>1. InitialBackoff \in InitialBackoff .. MaxBackoff /\ 0 \in 0 .. MaxDue
        BY BackoffAssumption, BoundAssumption
    <2>2. ended \in BOOLEAN /\ reachable \in BOOLEAN
        BY DEF Init
    <2> QED
        BY <2>1, <2>2, Empty DEF Init, TypeOK
<1>2. BufferBounded
    BY Empty, SizeAssumption DEF Init, BufferBounded
<1>3. RepliesInOrder
    BY NothingYet DEF Init
<1> QED
    BY <1>1, <1>2, <1>3 DEF IInv

\* A new tunnel starts with an empty buffer.
LEMMA NewTunnelStep ==
    ASSUME TypeOK, NewTunnel, phase' \in {"connecting", "serving", "sleeping"},
           backoff' \in InitialBackoff .. MaxBackoff, reachable' = reachable
    PROVE  IInv'
<1>1. due' \in 0 .. MaxDue
    BY BoundAssumption DEF NewTunnel
<1>2. TypeOK'
    BY <1>1, Empty DEF NewTunnel, TypeOK
<1>3. BufferBounded'
    BY Empty, SizeAssumption DEF NewTunnel, BufferBounded
<1>4. RepliesInOrder'
    BY NothingYetNext DEF NewTunnel
<1> QED
    BY <1>2, <1>3, <1>4 DEF IInv

\* A read moves bytes and changes none.
LEMMA ReadStep ==
    ASSUME IInv, Read
    PROVE  IInv'
<1> USE DEF IInv
<1>1. PICK n \in 1 .. Chunk : phase = "serving" /\ n <= Len(inbox) /\ Receive(n)
    BY DEF Read
<1>2. n \in Nat /\ n >= 1 /\ Chunk \in Nat /\ MaxLineSize \in Nat /\ n <= Chunk /\ Len(buf) <= MaxLineSize
    BY <1>1, SizeAssumption DEF BufferBounded
<1> DEFINE taken == SubSeq(inbox, 0 + 1, n)
           left  == SubSeq(inbox, n + 1, Len(inbox))
<1>3. taken \in Seq(Byte) /\ Len(taken) = n /\ left \in Seq(Byte)
    BY <1>1, <1>2, PartType, Lengths DEF TypeOK
<1>4. buf' = buf \o taken /\ inbox' = left
    BY <1>1 DEF Receive
<1>5. taken \o left = inbox
    <2>1. 1 \in 1 .. Len(inbox) + 1 /\ n \in 1 - 1 .. Len(inbox) /\ Len(inbox) \in n .. Len(inbox)
        BY <1>1, <1>2, Lengths
    <2>2. SubSeq(inbox, 1, n) \o SubSeq(inbox, n + 1, Len(inbox)) = SubSeq(inbox, 1, Len(inbox))
        BY <2>1, ConcatAdjacentSubSeq DEF TypeOK
    <2>3. SubSeq(inbox, 1, Len(inbox)) = inbox
        BY SubSeqFull DEF TypeOK
    <2>4. taken = SubSeq(inbox, 1, n)
        OBVIOUS
    <2> QED
        BY <2>2, <2>3, <2>4, Zenon
<1> HIDE DEF taken, left
<1>6. buf' \in Seq(Byte) /\ Len(buf') = Len(buf) + n
    BY <1>3, <1>4, ConcatProperties DEF TypeOK
<1>7. phase' = "handling" /\ UNCHANGED <<backoff, due, replies, asked, ended, reachable>>
    BY <1>1 DEF Receive
<1>8. TypeOK'
    BY <1>3, <1>4, <1>6, <1>7 DEF TypeOK
<1>9. BufferBounded'
    BY <1>2, <1>6, <1>7, Lengths DEF BufferBounded
<1>10. buf' \o inbox' = buf \o inbox
    <2>1. buf \in Seq(Byte)
        BY DEF TypeOK
    <2>2. (buf \o taken) \o left = buf \o (taken \o left)
        BY <1>3, <2>1, ConcatAssociative
    <2> QED
        BY <1>4, <1>5, <2>2, Zenon
<1>11. RepliesInOrder'
    BY <1>7, <1>10 DEF RepliesInOrder, Waiting
<1> QED
    BY <1>8, <1>9, <1>11

\* The first line in the buffer is the oldest request without a reply.
LEMMA OldestFirst ==
    ASSUME IInv, NewlineAt(buf) # 0
    PROVE  LET k == NewlineAt(buf) IN
           /\ k \in 1 .. Len(buf) /\ Len(replies) < Len(asked)
           /\ FirstLine(buf) = asked[Len(replies) + 1]
           /\ Holds(SubSeq(buf, k + 1, Len(buf)) \o inbox, Tail(Waiting))
<1> USE DEF IInv
<1> DEFINE k == NewlineAt(buf)
           bytes == buf \o inbox
<1>1. k \in 1 .. Len(buf) /\ buf[k].newline /\ \A i \in 1 .. k - 1 : ~buf[i].newline
    BY NewlineAtPlace, Lengths DEF TypeOK
<1>2. /\ bytes \in Seq(Byte) /\ Len(bytes) = Len(buf) + Len(inbox)
      /\ \A i \in 1 .. Len(buf) : bytes[i] = buf[i]
    BY ConcatProperties, Lengths DEF TypeOK
<1>3. Waiting \in Seq(Line) /\ Holds(bytes, Waiting)
    BY WaitingType DEF RepliesInOrder
<1> HIDE DEF k
<1>4. /\ k \in 1 .. Len(bytes) /\ bytes[k] = buf[k] /\ bytes[k].newline
      /\ \A i \in 1 .. k - 1 : ~bytes[i].newline
    BY <1>1, <1>2, Lengths
<1>5. /\ SubSeq(buf, 1, k) = SubSeq(bytes, 1, k)
      /\ SubSeq(bytes, k + 1, Len(bytes)) = SubSeq(buf, k + 1, Len(buf)) \o inbox
    <2>1. 1 \in 1 .. Len(buf) /\ k \in 1 .. Len(buf)
        BY <1>1, Lengths
    <2>2. SubSeq(buf, 1, k) = SubSeq(bytes, 1, k)
        BY <2>1, SubSeqOfConcat1 DEF TypeOK
    <2> DEFINE s == SubSeq(bytes, k + 1, Len(bytes))
               r == SubSeq(buf, k + 1, Len(buf))
               t == r \o inbox
    <2>3. s \in Seq(Byte) /\ Len(s) = Len(bytes) - k /\ \A i \in 1 .. Len(bytes) - k : s[i] = bytes[k + i]
        <3>1. \A i \in k + 1 .. Len(bytes) : bytes[i] \in Byte
            BY <1>1, <1>2, Lengths
        <3> QED
            BY <1>1, <1>2, <3>1, SubSeqProperties, Lengths
    <2>4. r \in Seq(Byte) /\ Len(r) = Len(buf) - k /\ \A i \in 1 .. Len(buf) - k : r[i] = buf[k + i]
        <3>1. \A i \in k + 1 .. Len(buf) : buf[i] \in Byte
            BY <1>1, Lengths DEF TypeOK
        <3> QED
            BY <1>1, <3>1, SubSeqProperties, Lengths
    <2>5. /\ t \in Seq(Byte) /\ Len(t) = Len(r) + Len(inbox)
          /\ \A i \in 1 .. Len(r) + Len(inbox) : t[i] = IF i <= Len(r) THEN r[i] ELSE inbox[i - Len(r)]
        BY <2>4, ConcatProperties DEF TypeOK
    <2>6. \A i \in 1 .. Len(buf) + Len(inbox) : bytes[i] = IF i <= Len(buf) THEN buf[i] ELSE inbox[i - Len(buf)]
        BY ConcatProperties DEF TypeOK
    <2> HIDE DEF s, r, t, bytes
    <2>7. ASSUME NEW i \in 1 .. Len(s) PROVE s[i] = t[i]
        <3>1. i \in 1 .. Len(bytes) - k /\ s[i] = bytes[k + i]
            BY <2>3
        <3>2. k + i \in 1 .. Len(buf) + Len(inbox) /\ i \in 1 .. Len(r) + Len(inbox)
            BY <1>1, <1>2, <2>4, <3>1, Lengths
        <3>3. CASE i <= Len(r)
            <4>1. k + i <= Len(buf) /\ i \in 1 .. Len(buf) - k
                BY <1>1, <2>4, <3>3, Lengths
            <4> QED
                BY <2>4, <2>5, <2>6, <3>1, <3>2, <3>3, <4>1
        <3>4. CASE ~(i <= Len(r))
            <4>1. ~(k + i <= Len(buf)) /\ (k + i) - Len(buf) = i - Len(r)
                BY <1>1, <2>4, <3>4, Lengths
            <4> QED
                BY <2>5, <2>6, <3>1, <3>2, <3>4, <4>1
        <3> QED
            BY <3>3, <3>4
    <2>8. Len(s) = Len(t)
        BY <1>1, <1>2, <2>3, <2>4, <2>5, Lengths
    <2>9. s = t
        BY <2>3, <2>5, <2>7, <2>8, SeqEqual
    <2> QED
        BY <2>2, <2>9 DEF s, t, r
<1> HIDE DEF bytes
<1>6. /\ Waiting # <<>>
      /\ SubSeq(bytes, 1, k) = BytesOf(Waiting[1]) /\ bytes[k].line = Waiting[1]
      /\ Holds(SubSeq(bytes, k + 1, Len(bytes)), Tail(Waiting))
    BY <1>2, <1>3, <1>4, HoldsFirst
<1>7. FirstLine(buf) = Waiting[1]
    BY <1>4, <1>5, <1>6 DEF FirstLine, k
<1>8. Len(replies) < Len(asked) /\ Waiting[1] = asked[Len(replies) + 1]
    <2>1. Len(Waiting) # 0
        BY <1>3, <1>6, EmptySeq
    <2> QED
        BY <2>1, WaitingType, Lengths DEF RepliesInOrder
<1> QED
    BY <1>1, <1>5, <1>6, <1>7, <1>8 DEF k

\* What an answer leaves waiting.
LEMMA AnswerWaiting ==
    ASSUME IInv, Answer
    PROVE  /\ Waiting # <<>> /\ FirstLine(buf) = Head(Waiting) /\ Head(Waiting) \in Line
           /\ Waiting' = Tail(Waiting)
<1> USE DEF IInv
<1> DEFINE n == Len(replies)
<1>1. NewlineAt(buf) # 0 /\ asked' = asked
    BY DEF Answer
<1>2. n < Len(asked) /\ FirstLine(buf) = asked[n + 1]
    BY <1>1, OldestFirst
<1>3. n \in Nat /\ Len(asked) \in Nat
    BY Lengths
<1>4. Waiting \in Seq(Line) /\ Len(Waiting) = Len(asked) - n /\ Waiting[1] = asked[n + 1]
    BY <1>2, <1>3, WaitingType
<1>5. Waiting # <<>> /\ Head(Waiting) = Waiting[1] /\ Head(Waiting) \in Line
    BY <1>2, <1>3, <1>4, EmptySeq, HeadTailProperties
<1>6. Len(replies') = n + 1
    BY DEF Answer, TypeOK
<1>7. Waiting' = SubSeq(asked, (n + 1) + 1, Len(asked))
    BY <1>1, <1>6 DEF Waiting
<1>8. Tail(SubSeq(asked, n + 1, Len(asked))) = SubSeq(asked, (n + 1) + 1, Len(asked))
    <2>1. n + 1 \in 1 .. Len(asked) /\ Len(asked) \in n + 1 .. Len(asked)
        BY <1>2, <1>3
    <2> QED
        BY <2>1, HeadTailOfSubSeq DEF TypeOK
<1> QED
    BY <1>2, <1>4, <1>5, <1>7, <1>8 DEF Waiting

\* An answer is to that request.
LEMMA AnswerStep ==
    ASSUME IInv, Answer
    PROVE  IInv'
<1> USE DEF IInv
<1> DEFINE k == NewlineAt(buf)
           line == FirstLine(buf)
           n == Len(replies)
<1>1. phase = "handling" /\ phase' = phase /\ k # 0 /\ buf' = SubSeq(buf, k + 1, Len(buf))
    BY DEF Answer
<1>2. UNCHANGED <<backoff, due, inbox, asked, ended, reachable>>
    BY DEF Answer
<1>3. PICK kind \in {"data", "error"} :
         /\ line.kind = "unknown" => kind = "error"
         /\ replies' = Append(replies, [id |-> line.id, kind |-> kind])
    BY DEF Answer
<1>4. k \in 1 .. Len(buf) /\ n < Len(asked) /\ line = asked[n + 1] /\ Holds(buf' \o inbox, Tail(Waiting))
    BY <1>1, OldestFirst
<1>5. n \in Nat /\ Len(asked) \in Nat /\ Len(buf) \in Nat
    BY Lengths
<1>6. line \in Line
    BY <1>4, <1>5 DEF TypeOK
<1> HIDE DEF k, line
<1> DEFINE reply == [id |-> line.id, kind |-> kind]
<1>7. reply \in Reply
    BY <1>6 DEF Line, Reply
<1>8. /\ replies' \in Seq(Reply) /\ Len(replies') = n + 1
      /\ \A i \in 1 .. n : replies'[i] = replies[i]
      /\ replies'[n + 1] = reply
    BY <1>3, <1>7, AppendProperties DEF TypeOK
<1>9. buf' \in Seq(Byte) /\ Len(buf') <= Len(buf) /\ Len(buf') \in Nat
    <2>1. k \in Nat /\ k <= Len(buf)
        BY <1>4, <1>5
    <2> QED
        BY <1>1, <1>5, <2>1, PartType DEF TypeOK
<1>10. TypeOK'
    BY <1>1, <1>2, <1>8, <1>9 DEF TypeOK
<1>11. BufferBounded'
    BY <1>1, <1>5, <1>9, SizeAssumption DEF BufferBounded
<1>12. Waiting' = Tail(Waiting)
    BY AnswerWaiting
<1>13. ASSUME NEW i \in DOMAIN replies'
       PROVE  /\ replies'[i].id = asked'[i].id
              /\ asked'[i].kind = "unknown" => replies'[i].kind = "error"
    <2>1. i \in 1 .. n + 1
        BY <1>8, LenProperties
    <2>2. CASE i \in 1 .. n
        <3>1. i \in DOMAIN replies
            BY <2>2, LenProperties DEF TypeOK
        <3> QED
            BY <1>2, <1>8, <2>2, <3>1 DEF RepliesInOrder
    <2>3. CASE i = n + 1
        <3>1. reply.id = line.id /\ reply.kind = kind
            OBVIOUS
        <3> QED
            BY <1>2, <1>3, <1>4, <1>8, <2>3, <3>1
    <2> QED
        BY <1>5, <2>1, <2>2, <2>3
<1>14. RepliesInOrder'
    BY <1>2, <1>4, <1>5, <1>8, <1>12, <1>13 DEF RepliesInOrder
<1> QED
    BY <1>10, <1>11, <1>14

\* A request waits behind the others.
LEMMA RequestWaiting ==
    ASSUME IInv, Request, NEW line \in Line, asked' = Append(asked, line)
    PROVE  Waiting' = Append(Waiting, line)
<1> USE DEF IInv
<1>a. replies' = replies
    BY DEF Request
<1>b. /\ asked' \in Seq(Line) /\ Len(asked') = Len(asked) + 1
      /\ \A i \in 1 .. Len(asked) : asked'[i] = asked[i]
      /\ asked'[Len(asked) + 1] = line
    BY AppendProperties DEF TypeOK
<1>c. Len(replies) <= Len(asked) /\ Len(replies) \in Nat /\ Len(asked) \in Nat
    BY Lengths DEF RepliesInOrder
<1>1. Waiting' = SubSeq(asked', Len(replies) + 1, Len(asked'))
    BY <1>a DEF Waiting
<1>2. /\ Waiting' \in Seq(Line) /\ Len(Waiting') = Len(asked') - Len(replies)
      /\ \A i \in 1 .. Len(asked') - Len(replies) : Waiting'[i] = asked'[Len(replies) + i]
    <2>1. Len(replies) <= Len(asked')
        BY <1>b, <1>c
    <2>2. asked' \in Seq(Line) /\ Len(replies) \in Nat
        BY <1>b, <1>c
    <2> QED
        BY <1>1, <2>1, <2>2, RestOf
<1>3. /\ Waiting \in Seq(Line) /\ Len(Waiting) = Len(asked) - Len(replies)
      /\ \A i \in 1 .. Len(asked) - Len(replies) : Waiting[i] = asked[Len(replies) + i]
    BY <1>c, WaitingType
<1> DEFINE more == Append(Waiting, line)
<1>4. /\ more \in Seq(Line) /\ Len(more) = Len(Waiting) + 1
      /\ \A i \in 1 .. Len(Waiting) : more[i] = Waiting[i]
      /\ more[Len(Waiting) + 1] = line
    BY <1>3, AppendProperties
<1> HIDE DEF more
<1>5. Len(more) = Len(Waiting')
    BY <1>b, <1>c, <1>2, <1>3, <1>4
<1>6. ASSUME NEW i \in 1 .. Len(Waiting') PROVE Waiting'[i] = more[i]
    <2>1. i \in 1 .. (Len(asked) - Len(replies)) + 1 /\ Waiting'[i] = asked'[Len(replies) + i]
        BY <1>b, <1>c, <1>2
    <2>2. CASE i \in 1 .. Len(asked) - Len(replies)
        <3>1. Len(replies) + i \in 1 .. Len(asked)
            BY <1>c, <2>2
        <3> QED
            BY <1>b, <1>3, <1>4, <2>1, <2>2, <3>1
    <2>3. CASE i = (Len(asked) - Len(replies)) + 1
        <3>1. Len(replies) + i = Len(asked) + 1
            BY <1>c, <2>3
        <3> QED
            BY <1>b, <1>3, <1>4, <2>1, <2>3, <3>1
    <2> QED
        BY <1>c, <2>1, <2>2, <2>3
<1>7. Waiting' = more
    BY <1>2, <1>4, <1>5, <1>6, SeqEqual
<1> QED
    BY <1>7 DEF more

\* A request is a line more.
LEMMA RequestStep ==
    ASSUME IInv, Request
    PROVE  IInv'
<1> USE DEF IInv
<1>1. PICK line \in Line : asked' = Append(asked, line) /\ inbox' = inbox \o BytesOf(line)
    BY DEF Request
<1>2. UNCHANGED <<phase, backoff, due, buf, replies, ended, reachable>>
    BY DEF Request, process
<1>3. BytesOf(line) \in Seq(Byte)
    BY BytesOfForm
<1>4. /\ asked' \in Seq(Line) /\ Len(asked') = Len(asked) + 1
      /\ \A i \in 1 .. Len(asked) : asked'[i] = asked[i]
      /\ asked'[Len(asked) + 1] = line
    BY <1>1, AppendProperties DEF TypeOK
<1>5. inbox' \in Seq(Byte)
    BY <1>1, <1>3, ConcatProperties DEF TypeOK
<1>6. TypeOK'
    BY <1>2, <1>4, <1>5 DEF TypeOK
<1>7. BufferBounded'
    BY <1>2 DEF BufferBounded
<1>8. buf' \o inbox' = (buf \o inbox) \o BytesOf(line)
    <2>1. buf \in Seq(Byte) /\ inbox \in Seq(Byte)
        BY DEF TypeOK
    <2>2. (buf \o inbox) \o BytesOf(line) = buf \o (inbox \o BytesOf(line))
        BY <1>3, <2>1, ConcatAssociative
    <2>3. buf' = buf
        BY <1>2
    <2> QED
        BY <1>1, <2>2, <2>3, Zenon
<1>9. Len(replies) <= Len(asked) /\ Len(replies) \in Nat /\ Len(asked) \in Nat
    BY Lengths DEF RepliesInOrder
<1>10. Waiting' = Append(Waiting, line)
    BY <1>1, RequestWaiting
<1>11. Holds(buf' \o inbox', Waiting')
    <2>1. buf \o inbox \in Seq(Byte)
        BY ConcatProperties DEF TypeOK
    <2>2. Waiting \in Seq(Line) /\ Holds(buf \o inbox, Waiting)
        BY <1>9, WaitingType DEF RepliesInOrder
    <2>3. Holds((buf \o inbox) \o BytesOf(line), Append(Waiting, line))
        BY <2>1, <2>2, HoldsAppend
    <2> QED
        BY <1>8, <1>10, <2>3
<1>12. ASSUME NEW i \in DOMAIN replies'
       PROVE  /\ replies'[i].id = asked'[i].id
              /\ asked'[i].kind = "unknown" => replies'[i].kind = "error"
    <2>1. i \in DOMAIN replies /\ i \in 1 .. Len(asked)
        BY <1>2, <1>9, LenProperties DEF TypeOK
    <2> QED
        BY <1>2, <1>4, <2>1 DEF RepliesInOrder
<1>13. Len(replies') <= Len(asked')
    BY <1>2, <1>4, <1>9
<1>14. RepliesInOrder'
    BY <1>11, <1>12, <1>13 DEF RepliesInOrder
<1> QED
    BY <1>6, <1>7, <1>14

\* The server takes replies; what waits is the same.
LEMMA TakeWaiting ==
    ASSUME IInv, TakeReply
    PROVE  Waiting' = Waiting
<1> USE DEF IInv
<1>a. replies # <<>> /\ Len(replies) >= 1 /\ Len(replies) <= Len(asked) /\ asked # <<>>
    BY Lengths, EmptySeq, Empty DEF TakeReply, TypeOK, RepliesInOrder
<1>b. /\ replies' \in Seq(Reply) /\ Len(replies') = Len(replies) - 1
      /\ \A i \in 1 .. Len(replies') : replies'[i] = replies[i + 1]
    BY <1>a, HeadTailProperties DEF TakeReply, TypeOK
<1>c. /\ asked' \in Seq(Line) /\ Len(asked') = Len(asked) - 1
      /\ \A i \in 1 .. Len(asked') : asked'[i] = asked[i + 1]
    BY <1>a, HeadTailProperties DEF TakeReply, TypeOK
<1>1. /\ Waiting \in Seq(Line) /\ Len(Waiting) = Len(asked) - Len(replies)
      /\ \A i \in 1 .. Len(asked) - Len(replies) : Waiting[i] = asked[Len(replies) + i]
    BY <1>a, WaitingType
<1>2. Waiting' = SubSeq(asked', Len(replies') + 1, Len(asked'))
    BY DEF Waiting
<1>3. /\ Waiting' \in Seq(Line) /\ Len(Waiting') = Len(asked') - Len(replies')
      /\ \A i \in 1 .. Len(asked') - Len(replies') : Waiting'[i] = asked'[Len(replies') + i]
    <2>1. \A i \in Len(replies') + 1 .. Len(asked') : asked'[i] \in Line
        BY <1>a, <1>b, <1>c, Lengths
    <2> QED
        BY <1>a, <1>b, <1>c, <1>2, <2>1, SubSeqProperties, Lengths
<1>4. Len(Waiting') = Len(Waiting)
    BY <1>b, <1>c, <1>1, <1>3, Lengths
<1>5. ASSUME NEW i \in 1 .. Len(Waiting') PROVE Waiting'[i] = Waiting[i]
    <2>1. i \in 1 .. Len(asked) - Len(replies) /\ i \in 1 .. Len(asked') - Len(replies')
        BY <1>1, <1>3, <1>4
    <2>2. Len(replies') + i \in 1 .. Len(asked') /\ (Len(replies') + i) + 1 = Len(replies) + i
        BY <1>a, <1>b, <1>c, <2>1, Lengths
    <2> QED
        BY <1>c, <1>1, <1>3, <2>1, <2>2
<1> QED
    BY <1>1, <1>3, <1>4, <1>5, SeqEqual

\* A reply the server has taken is that to its oldest request.
LEMMA TakeReplyStep ==
    ASSUME IInv, TakeReply
    PROVE  IInv'
<1> USE DEF IInv
<1>1. UNCHANGED <<phase, backoff, due, buf, inbox, ended, reachable>>
    BY DEF TakeReply, process
<1>2. replies # <<>> /\ Len(replies) >= 1 /\ Len(replies) <= Len(asked) /\ asked # <<>>
    BY Lengths, EmptySeq, Empty DEF TakeReply, TypeOK, RepliesInOrder
<1>3. /\ replies' \in Seq(Reply) /\ Len(replies') = Len(replies) - 1
      /\ \A i \in 1 .. Len(replies') : replies'[i] = replies[i + 1]
    BY <1>2, HeadTailProperties DEF TakeReply, TypeOK
<1>4. /\ asked' \in Seq(Line) /\ Len(asked') = Len(asked) - 1
      /\ \A i \in 1 .. Len(asked') : asked'[i] = asked[i + 1]
    BY <1>2, HeadTailProperties DEF TakeReply, TypeOK
<1>5. TypeOK'
    BY <1>1, <1>3, <1>4 DEF TypeOK
<1>6. BufferBounded'
    BY <1>1 DEF BufferBounded
<1>7. Waiting' = Waiting
    BY TakeWaiting
<1>8. ASSUME NEW i \in DOMAIN replies'
      PROVE  /\ replies'[i].id = asked'[i].id
             /\ asked'[i].kind = "unknown" => replies'[i].kind = "error"
    <2>1. i \in 1 .. Len(replies')
        BY <1>3, LenProperties
    <2>2. i + 1 \in 1 .. Len(replies) /\ i \in 1 .. Len(asked')
        BY <1>2, <1>3, <1>4, <2>1, Lengths
    <2>3. i + 1 \in DOMAIN replies
        BY <2>2, LenProperties DEF TypeOK
    <2> QED
        BY <1>3, <1>4, <2>1, <2>2, <2>3 DEF RepliesInOrder
<1>9. RepliesInOrder'
    <2>1. Holds(buf' \o inbox', Waiting')
        BY <1>1, <1>7 DEF RepliesInOrder
    <2>2. Len(replies') <= Len(asked')
        BY <1>2, <1>3, <1>4, Lengths
    <2> QED
        BY <1>8, <2>1, <2>2 DEF RepliesInOrder
<1> QED
    BY <1>5, <1>6, <1>9

LEMMA Step == IInv /\ [Next]_vars => IInv'
<1> SUFFICES ASSUME IInv, [Next]_vars PROVE IInv'
    OBVIOUS
<1> USE DEF IInv
<1>1. CASE Connect
    BY <1>1, NewTunnelStep DEF Connect, TypeOK
<1>2. CASE ConnectFails
    BY <1>2, RepliesSame DEF ConnectFails, tunnel, TypeOK, BufferBounded
<1>3. CASE Wake
    <2>1. backoff' \in InitialBackoff .. MaxBackoff
        BY <1>3, BackoffAssumption DEF Wake, TypeOK
    <2> QED
        BY <1>3, <2>1, RepliesSame DEF Wake, tunnel, TypeOK, BufferBounded
<1>4. CASE Tick
    <2>1. due' \in 0 .. MaxDue
        BY <1>4, BoundAssumption DEF Tick, TypeOK
    <2> QED
        BY <1>4, <2>1, RepliesSame DEF Tick, tunnel, TypeOK, BufferBounded
<1>5. CASE StartSample
    <2>1. due' \in 0 .. MaxDue
        BY <1>5, BoundAssumption DEF StartSample, TypeOK
    <2> QED
        BY <1>5, <2>1, RepliesSame DEF StartSample, tunnel, TypeOK, BufferBounded
<1>6. CASE EndSample
    BY <1>6, RepliesSame DEF EndSample, tunnel, TypeOK, BufferBounded
<1>7. CASE Fail
    BY <1>7, NewTunnelStep DEF Fail, TypeOK
<1>8. CASE Reject \/ TooLong \/ BreakOff
    BY <1>7, <1>8 DEF Reject, TooLong, BreakOff
<1>9. CASE AwaitMore
    BY <1>9, RepliesSame DEF AwaitMore, tunnel, TypeOK, BufferBounded
<1>10. CASE SeeEof
    BY <1>10, NewTunnelStep, BackoffAssumption DEF SeeEof
<1>11. CASE End
    BY <1>11, RepliesSame DEF End, process, TypeOK, BufferBounded
<1>12. CASE Network
    BY <1>12, RepliesSame DEF Network, process, tunnel, TypeOK, BufferBounded
<1>13. CASE UNCHANGED vars
    BY <1>13, RepliesSame DEF vars, process, tunnel, TypeOK, BufferBounded
<1> QED
    BY <1>1, <1>2, <1>3, <1>4, <1>5, <1>6, <1>8, <1>9, <1>10, <1>11, <1>12, <1>13,
       ReadStep, AnswerStep, RequestStep, TakeReplyStep DEF Next

-----------------------------------------------------------------------------
(* Theorems *)

LEMMA Invariant == Spec => []IInv
BY Initial, Step, PTL DEF Spec

\* The task's state has the right types; the delay stays within its bounds (run).
THEOREM TypeCorrect == Spec => []TypeOK
<1>1. IInv => TypeOK
    BY DEF IInv
<1> QED
    BY <1>1, Invariant, PTL

\* However long the lines and wherever they are cut, the buffer holds at most the limit
\* and one more read (serve_tunnel).
THEOREM BufferStaysBounded == Spec => []BufferBounded
<1>1. IInv => BufferBounded
    BY DEF IInv
<1> QED
    BY <1>1, Invariant, PTL

\* For any limit, chunks and requests, replies come in the order of the requests and no
\* byte of a request is lost or taken for another's (serve_tunnel, handle_line).
THEOREM RepliesKeepOrder == Spec => []RepliesInOrder
<1>1. IInv => RepliesInOrder
    BY DEF IInv
<1> QED
    BY <1>1, Invariant, PTL

-----------------------------------------------------------------------------
(* The service *)

\* A tunnel is waited on only with no complete line in the buffer, and without one nothing
\* is asked.
TunnelInv ==
    /\ phase # "handling" => NewlineAt(buf) = 0
    /\ ~InTunnel => asked = <<>> /\ replies = <<>>

LEMMA NoNewline == NewlineAt(<<>>) = 0
<1>1. <<>> \in Seq(Byte) /\ Len(<<>>) = 0
    OBVIOUS
<1>2. NewlineAt(<<>>) \in 0 .. Len(<<>>)
    BY <1>1, NewlineAtPlace
<1> QED
    BY <1>1, <1>2

\* Bytes without a newline are no request.
LEMMA HoldsNoLine ==
    ASSUME NEW bytes \in Seq(Byte), NEW lines \in Seq(Line), Holds(bytes, lines), NewlineAt(bytes) = 0
    PROVE  lines = <<>>
<1>1. Len(lines) \in Nat /\ Len(bytes) \in Nat
    BY LenProperties
<1>2. PICK ends : Ends(bytes, lines, ends)
    BY HoldsIff
<1>3. SUFFICES ASSUME Len(lines) # 0 PROVE FALSE
    BY <1>1, EmptySeq
<1>4. 1 \in 1 .. Len(lines) /\ 0 \in 0 .. Len(lines) /\ 1 \in 0 .. Len(lines)
    BY <1>1, <1>3
<1>5. ends[0] = 0 /\ ends[1] \in 0 .. Len(bytes) /\ Stands(bytes, ends[0], ends[1], lines[1])
    <2>1. 1 - 1 = 0
        OBVIOUS
    <2>2. Stands(bytes, ends[1 - 1], ends[1], lines[1])
        BY <1>2, <1>4 DEF Ends
    <2> QED
        BY <1>2, <1>4, <2>1, <2>2 DEF Ends
<1> DEFINE k == Size(lines[1])
<1>6. k \in Nat /\ k >= 2
    BY <1>4, BytesOfForm
<1>7. k = ends[1] /\ k \in 1 .. Len(bytes) /\ bytes[k] = [line |-> lines[1], newline |-> k = k]
    BY <1>1, <1>5, <1>6 DEF Stands
<1> HIDE DEF k
<1>8. bytes[k].newline
    <2>1. bytes[k].newline = (k = k)
        BY <1>7, ByteFields
    <2> QED
        BY <2>1, Zenon
<1>9. \E i \in 1 .. Len(bytes) : bytes[i].newline
    BY <1>7, <1>8
<1> QED
    BY <1>9, NewlineAtNone

LEMMA TunnelStep == IInv /\ TunnelInv /\ [Next]_vars => TunnelInv'
<1> SUFFICES ASSUME IInv, TunnelInv, [Next]_vars PROVE TunnelInv'
    OBVIOUS
<1>1. CASE NewTunnel
    <2>1. buf' = <<>> /\ NewlineAt(buf') = 0 /\ asked' = <<>> /\ replies' = <<>>
        BY <1>1, NoNewline DEF NewTunnel
    <2> QED
        BY <2>1 DEF TunnelInv
<1>2. CASE Connect \/ Reject \/ TooLong \/ BreakOff \/ SeeEof
    BY <1>1, <1>2 DEF Connect, Reject, TooLong, BreakOff, SeeEof, Fail
<1>3. CASE ConnectFails \/ Wake \/ Tick \/ StartSample \/ EndSample \/ AwaitMore
    BY <1>3 DEF ConnectFails, Wake, Tick, StartSample, EndSample, AwaitMore, TunnelInv, InTunnel, tunnel
<1>4. CASE Read
    <2>1. phase' = "handling"
        BY <1>4 DEF Read, Receive
    <2> QED
        BY <2>1 DEF TunnelInv, InTunnel
<1>5. CASE Answer
    <2>1. phase' = "handling"
        BY <1>5 DEF Answer
    <2> QED
        BY <2>1 DEF TunnelInv, InTunnel
<1>6. CASE Request \/ End \/ Network
    BY <1>6 DEF Request, End, Network, TunnelInv, InTunnel, process, tunnel
<1>7. CASE TakeReply
    BY <1>7 DEF TakeReply, TunnelInv, InTunnel, process
<1>8. CASE UNCHANGED vars
    BY <1>8 DEF vars, process, tunnel, TunnelInv, InTunnel
<1> QED
    BY <1>2, <1>3, <1>4, <1>5, <1>6, <1>7, <1>8 DEF Next

\* A tunnel the server has ended is left when nothing waits.
LEMMA EofAnswered ==
    ASSUME IInv, TunnelInv, SeeEof
    PROVE  Waiting = <<>>
<1>1. inbox = <<>> /\ NewlineAt(buf) = 0 /\ buf \in Seq(Byte)
    BY DEF SeeEof, TunnelInv, IInv, TypeOK
<1>2. buf \o inbox = buf
    BY <1>1, ConcatEmptySeq
<1>3. Waiting \in Seq(Line) /\ Holds(buf, Waiting)
    BY <1>2, WaitingType DEF IInv, RepliesInOrder
<1> QED
    BY <1>1, <1>3, HoldsNoLine

LEMMA NothingWaits ==
    /\ asked = <<>> /\ replies = <<>> => Waiting = <<>>
    /\ asked' = <<>> /\ replies' = <<>> => Waiting' = <<>>
BY DEF Waiting

LEMMA ServiceStep == IInv /\ TunnelInv /\ [Next]_vars => [Service!Next]_(Service!vars)
<1> SUFFICES ASSUME IInv, TunnelInv, [Next]_vars PROVE Service!Next \/ UNCHANGED Service!vars
    OBVIOUS
<1>1. CASE Connect
    <2>1. phase = "connecting" /\ phase' = "serving" /\ asked = <<>> /\ replies = <<>>
          /\ asked' = <<>> /\ replies' = <<>>
        BY <1>1 DEF Connect, NewTunnel, TunnelInv, InTunnel
    <2>2. Service!Open
        BY <2>1, NothingWaits DEF Service!Open, InTunnel
    <2> QED
        BY <2>2 DEF Service!Next
<1>2. CASE ConnectFails
    <2>1. phase = "connecting" /\ phase' = "sleeping" /\ Waiting' = Waiting /\ replies' = replies
        BY <1>2 DEF ConnectFails, tunnel, Waiting
    <2>2. Service!Fail
        BY <2>1 DEF Service!Fail, InTunnel
    <2> QED
        BY <2>2 DEF Service!Next
<1>3. CASE Wake
    <2>1. phase = "sleeping" /\ phase' = "connecting" /\ Waiting' = Waiting /\ replies' = replies
        BY <1>3 DEF Wake, tunnel, Waiting
    <2>2. Service!Retry
        BY <2>1 DEF Service!Retry, InTunnel
    <2> QED
        BY <2>2 DEF Service!Next
<1>4. CASE Tick \/ StartSample \/ EndSample \/ Read \/ AwaitMore \/ End \/ Network \/ UNCHANGED vars
    <2>1. asked' = asked /\ replies' = replies
        BY <1>4 DEF Tick, StartSample, EndSample, Read, Receive, AwaitMore, End, Network, tunnel, vars
    <2>2. phase' = phase \/ (InTunnel /\ InTunnel')
        BY <1>4 DEF Tick, StartSample, EndSample, Read, Receive, AwaitMore, End, Network, process, vars, InTunnel
    <2>3. Waiting' = Waiting
        BY <2>1 DEF Waiting
    <2> QED
        BY <2>1, <2>2, <2>3 DEF Service!vars, InTunnel
<1>5. CASE Answer
    <2>1. /\ Waiting # <<>> /\ FirstLine(buf) = Head(Waiting) /\ Head(Waiting) \in Line
          /\ Waiting' = Tail(Waiting)
        BY <1>5, AnswerWaiting
    <2>2. PICK kind \in {"data", "error"} :
             /\ FirstLine(buf).kind = "unknown" => kind = "error"
             /\ replies' = Append(replies, [id |-> FirstLine(buf).id, kind |-> kind])
        BY <1>5 DEF Answer
    <2>3. FirstLine(buf).kind # "malformed" /\ phase = "handling" /\ phase' = phase
        BY <1>5 DEF Answer
    <2>4. kind \in Outcome[Head(Waiting).kind]
        BY <2>1, <2>2, <2>3 DEF Outcome, Line
    <2>5. Service!Answer
        BY <2>1, <2>2, <2>3, <2>4 DEF Service!Answer, InTunnel
    <2> QED
        BY <2>5 DEF Service!Next
<1>6. CASE Request
    <2>1. PICK line \in Line :
             /\ \A n \in DOMAIN asked : asked[n].id # line.id
             /\ asked' = Append(asked, line)
        BY <1>6 DEF Request
    <2>2. InTunnel /\ phase' = phase /\ replies' = replies
        BY <1>6 DEF Request, process
    <2>3. Waiting' = Append(Waiting, line)
        BY <1>6, <2>1, RequestWaiting
    <2>4. Len(replies) \in Nat /\ Len(asked) \in Nat /\ Len(replies) <= Len(asked)
        BY Lengths DEF IInv, RepliesInOrder
    <2>5. DOMAIN asked = 1 .. Len(asked) /\ DOMAIN replies = 1 .. Len(replies)
        BY LenProperties DEF IInv, TypeOK
    <2>6. \A n \in DOMAIN replies : replies[n].id # line.id
        BY <2>1, <2>4, <2>5 DEF IInv, RepliesInOrder
    <2>7. ASSUME NEW n \in DOMAIN Waiting PROVE Waiting[n].id # line.id
        <3>1. n \in 1 .. Len(asked) - Len(replies) /\ Waiting[n] = asked[Len(replies) + n]
            BY <2>4, WaitingType, LenProperties DEF IInv
        <3> QED
            BY <2>1, <2>4, <2>5, <3>1
    <2>8. Service!Ask
        BY <2>2, <2>3, <2>6, <2>7 DEF Service!Ask, InTunnel
    <2> QED
        BY <2>8 DEF Service!Next
<1>7. CASE TakeReply
    <2>1. replies # <<>> /\ replies' = Tail(replies) /\ phase' = phase /\ Waiting' = Waiting
        BY <1>7, TakeWaiting DEF TakeReply, process
    <2>2. Service!Take
        BY <2>1 DEF Service!Take, InTunnel
    <2> QED
        BY <2>2 DEF Service!Next
<1>8. CASE Reject \/ TooLong \/ BreakOff
    <2>1. InTunnel /\ phase' = "sleeping" /\ asked' = <<>> /\ replies' = <<>>
        BY <1>8 DEF Reject, TooLong, BreakOff, Fail, NewTunnel, InTunnel
    <2>2. Service!Lose
        BY <2>1, NothingWaits DEF Service!Lose, InTunnel
    <2> QED
        BY <2>2 DEF Service!Next
<1>9. CASE SeeEof
    <2>1. InTunnel /\ phase' = "connecting" /\ asked' = <<>> /\ replies' = <<>>
        BY <1>9 DEF SeeEof, NewTunnel, InTunnel
    <2>2. Service!Close
        BY <1>9, <2>1, NothingWaits, EofAnswered DEF Service!Close, InTunnel
    <2> QED
        BY <2>2 DEF Service!Next
<1> QED
    BY <1>1, <1>2, <1>3, <1>4, <1>5, <1>6, <1>7, <1>8, <1>9 DEF Next

\* The gateway's task implements RequestService for any limit, chunks and requests: each
\* is answered once, the oldest first, and only a tunnel that fails leaves one unanswered
\* (serve_tunnel, handle_line, run).
THEOREM Refinement == Spec => ServesRequests
<1>1. Init => TunnelInv /\ Service!Init
    <2> SUFFICES ASSUME Init PROVE TunnelInv /\ Service!Init
        OBVIOUS
    <2>1. phase = "connecting" /\ buf = <<>> /\ asked = <<>> /\ replies = <<>>
        BY DEF Init
    <2> QED
        BY <2>1, NoNewline, NothingWaits DEF TunnelInv, Service!Init, InTunnel
<1>2. IInv /\ TunnelInv /\ [Next]_vars => TunnelInv'
    BY TunnelStep
<1>3. IInv /\ TunnelInv /\ [Next]_vars => [Service!Next]_(Service!vars)
    BY ServiceStep
<1> QED
    BY <1>1, <1>2, <1>3, Invariant, PTL DEF Spec, ServesRequests, Service!Spec

=============================================================================
