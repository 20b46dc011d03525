------------------------------- MODULE RtpProofs -------------------------------
(***************************************************************************)
(* Proofs about src/rtp.c.  First its packetizer (RtpPacketizer), for any  *)
(* FU header of two bytes or more, any payload limit above it, any length  *)
(* of NALU and any modulus of the sequence numbers: the inductive          *)
(* invariant IInv adds to the properties what the loop knows between two   *)
(* packets (LoopInv), how offset and first follow from the packets that    *)
(* are out, and that a NALU is fragmented only if it is longer than one    *)
(* payload.  Then its splitter (AnnexB), for buffers of any length and     *)
(* contents: SplitInv says what the loop has found between two turns.      *)
(***************************************************************************)
EXTENDS RtpPacketizer, AnnexB, SequenceTheorems, WellFoundedInduction, TLAPS

Last == out[Len(out)]

(* What the FU loop keeps true between two fragments. *)
LoopInv ==
  /\ nalu_len > MaxPayload /\ ret = 0
  /\ offset \in 2..nalu_len
  /\ first <=> out = <<>>
  /\ out = <<>> => offset = 2
  /\ out /= <<>> => Last.hi = offset
  /\ \A i \in DOMAIN out : out[i].fu

Control ==
  /\ pc = "idle" => out = <<>>
  /\ pc = "whole" => nalu_len \in 2..MaxPayload /\ out = <<>> /\ ret = 0
  /\ pc = "fragments" => LoopInv

IInv ==
  /\ PacketizerTypeOK /\ Control
  /\ FragmentsTile /\ NeverStartAndEnd /\ CompleteIffSucceeded
  /\ PayloadFits /\ SeqHasNoGap /\ HeaderSurvives

-----------------------------------------------------------------------------
(* The next sequence number is one again. *)
LEMMA SeqRange ==
  ASSUME NEW k \in Nat
  PROVE  (k + 1) % SeqMod \in 0..SeqMod-1
  BY PacketizerAssumption, SMT

(* Where the packets of a longer run are. *)
LEMMA Appended ==
  ASSUME NEW S, NEW s \in Seq(S), NEW x \in S
  PROVE  /\ Append(s, x) \in Seq(S)
         /\ Len(s) \in Nat /\ Len(Append(s, x)) = Len(s) + 1
         /\ DOMAIN s = 1..Len(s) /\ DOMAIN Append(s, x) = 1..Len(s) + 1
         /\ Append(s, x)[Len(s) + 1] = x
         /\ \A i \in 1..Len(s) : Append(s, x)[i] = s[i]
  OBVIOUS

(* nalu[0] taken apart into fu_payload[0] and the FU header, and put       *)
(* together again.                                                         *)
LEMMA ByteFacts ==
  ASSUME byte0 \in 0..255
  PROVE  /\ Type(byte0) \in 0..63 /\ FuByte0 \in 0..255
         /\ (FuByte0 \div 128) * 128 + Type(byte0) * 2 + (FuByte0 % 2) = byte0
<1> DEFINE a == byte0 \div 128
           b == byte0 % 2
           t == (byte0 \div 2) % 64
<1>1. a \in 0..1 /\ b \in 0..1 /\ t \in 0..63
  BY SMT
<1>2. byte0 = a * 128 + t * 2 + b
  BY SMT
<1>3. FuByte0 = a * 128 + 98 + b
  BY DEF FuByte0, FuType
<1>4. Type(byte0) = t
  BY DEF Type
<1> HIDE DEF a, b, t
<1>5. FuByte0 \div 128 = a /\ FuByte0 % 2 = b /\ FuByte0 \in 0..255
  BY <1>1, <1>3, SMT
<1> QED
  BY <1>1, <1>2, <1>4, <1>5

-----------------------------------------------------------------------------
(* Before the first call nothing is out. *)
LEMMA InitIInv == PacketizerInit => IInv
<1> SUFFICES ASSUME PacketizerInit PROVE IInv
  OBVIOUS
<1> USE DEF PacketizerInit
<1>1. PacketizerTypeOK
  <2>1. nalu_len \in 0..MaxLen /\ offset \in 0..MaxLen /\ byte0 \in 0..255
    BY PacketizerAssumption
  <2>2. marker \in BOOLEAN /\ first \in BOOLEAN
    OBVIOUS
  <2>3. out \in Seq(Packet)
    <3>1. out = <<>>
      OBVIOUS
    <3> QED
      BY <3>1
  <2> QED
    BY <2>1, <2>2, <2>3 DEF PacketizerTypeOK
<1>2. SeqHasNoGap
  BY DEF SeqHasNoGap
<1> QED
  BY <1>1, <1>2 DEF IInv, Control, FragmentsTile, NeverStartAndEnd, CompleteIffSucceeded,
                    PayloadFits, HeaderSurvives

(* A call starts with no packet out. *)
LEMMA CallStep ==
  ASSUME IInv, NEW len \in 0..MaxLen, NEW b \in HeaderBytes, NEW m \in BOOLEAN, Call(len, b, m)
  PROVE  IInv'
<1> USE DEF Call, IInv
<1>1. PacketizerTypeOK'
  BY PacketizerAssumption DEF PacketizerTypeOK
<1>2. Control'
  BY PacketizerAssumption DEF Control, LoopInv, PacketizerTypeOK
<1>3. CompleteIffSucceeded'
  BY DEF CompleteIffSucceeded
<1> QED
  BY <1>1, <1>2, <1>3
     DEF FragmentsTile, NeverStartAndEnd, PayloadFits, SeqHasNoGap, HeaderSurvives

(* A failed packet leaves what is out as it is: short of the end. *)
LEMMA FailStep ==
  ASSUME IInv, Fails
  PROVE  IInv'
<1> USE DEF Fails, IInv
<1>1. PacketizerTypeOK' /\ Control'
  BY DEF PacketizerTypeOK, Control
<1>2. CompleteIffSucceeded'
  BY DEF CompleteIffSucceeded, Control, LoopInv, Last
<1> QED
  BY <1>1, <1>2
     DEF FragmentsTile, NeverStartAndEnd, PayloadFits, SeqHasNoGap, HeaderSurvives, Rebuilt

(* The loop ends when the last fragment has reached the end. *)
LEMMA EndStep ==
  ASSUME IInv, EndLoop
  PROVE  IInv'
<1> USE DEF EndLoop, IInv
<1>1. PacketizerTypeOK' /\ Control'
  BY DEF PacketizerTypeOK, Control
<1>2. CompleteIffSucceeded'
  BY PacketizerAssumption DEF CompleteIffSucceeded, Control, LoopInv, Last, PacketizerTypeOK
<1> QED
  BY <1>1, <1>2
     DEF FragmentsTile, NeverStartAndEnd, PayloadFits, SeqHasNoGap, HeaderSurvives, Rebuilt

(* A NALU that fits is one packet. *)
LEMMA WholeStep ==
  ASSUME IInv, SendWhole
  PROVE  IInv'
<1> USE DEF SendWhole, IInv
<1> DEFINE p == [lo |-> 0, hi |-> nalu_len, fu |-> FALSE, s |-> FALSE, e |-> FALSE,
                 b0 |-> byte0, type |-> Type(byte0), m |-> marker, seq |-> seq,
                 size |-> nalu_len]
<1>1. out' = <<p>> /\ nalu_len \in 2..MaxPayload /\ ret = 0
  BY DEF Control
<1>2. p \in Packet
  BY <1>1, ByteFacts, PacketizerAssumption DEF PacketizerTypeOK, Packet
<1>3. seq' \in 0..SeqMod-1
  BY SeqRange DEF PacketizerTypeOK
<1>4. PacketizerTypeOK' /\ Control'
  BY <1>1, <1>2, <1>3 DEF PacketizerTypeOK, Control
<1>5. FragmentsTile' /\ NeverStartAndEnd' /\ CompleteIffSucceeded'
  BY <1>1 DEF FragmentsTile, NeverStartAndEnd, CompleteIffSucceeded
<1>6. PayloadFits' /\ SeqHasNoGap' /\ HeaderSurvives'
  BY <1>1 DEF PayloadFits, SeqHasNoGap, HeaderSurvives, Rebuilt
<1> QED
  BY <1>4, <1>5, <1>6

(* A fragment follows on the one before it.  The first of them cannot be   *)
(* the last: a NALU longer than MaxPayload does not fit behind a FU header *)
(* at least as long as the two bytes it replaces.                          *)
LEMMA FragmentStep ==
  ASSUME IInv, SendFragment
  PROVE  IInv'
<1> DEFINE n == Len(out)
           p == [lo |-> offset, hi |-> offset + FragmentSize, fu |-> TRUE,
                 s |-> first, e |-> IsLast, b0 |-> FuByte0, type |-> Type(byte0),
                 m |-> (IsLast /\ marker), seq |-> seq, size |-> FuHeader + FragmentSize]
<1>a. /\ PacketizerTypeOK /\ Control /\ FragmentsTile /\ NeverStartAndEnd
      /\ PayloadFits /\ SeqHasNoGap /\ HeaderSurvives
  BY DEF IInv
<1>b. /\ pc = "fragments" /\ offset < nalu_len /\ seq' = (seq + 1) % SeqMod
      /\ first' = FALSE /\ offset' = offset + FragmentSize /\ pc' = pc
      /\ nalu_len' = nalu_len /\ byte0' = byte0 /\ marker' = marker /\ ret' = ret
  BY DEF SendFragment
<1>1. LoopInv /\ offset < nalu_len /\ out' = Append(out, p)
  BY <1>a, <1>b DEF Control, SendFragment
<1>2. /\ nalu_len \in Nat /\ offset \in Nat /\ seq \in Nat /\ byte0 \in 0..255
      /\ FuHeader \in Nat /\ MaxPayload \in Nat /\ first \in BOOLEAN
  BY <1>1, <1>a, PacketizerAssumption DEF PacketizerTypeOK
<1>3. /\ FragmentSize \in Nat /\ FragmentSize > 0 /\ offset + FragmentSize <= nalu_len
      /\ FuHeader + FragmentSize <= MaxPayload
      /\ IsLast <=> offset + FragmentSize = nalu_len
  BY <1>1, <1>2, PacketizerAssumption DEF FragmentSize, MaxFragmentData, IsLast
<1>4. first => ~IsLast
  BY <1>1, <1>2, PacketizerAssumption DEF LoopInv, FragmentSize, MaxFragmentData, IsLast
<1>5. p \in Packet
  BY <1>2, <1>3, <1>a, ByteFacts DEF PacketizerTypeOK, Packet, IsLast
<1>6. out \in Seq(Packet)
  BY <1>a DEF PacketizerTypeOK
<1> HIDE DEF p
<1>7. /\ out' \in Seq(Packet) /\ n \in Nat /\ n = Len(out) /\ Len(out') = n + 1
      /\ DOMAIN out = 1..n /\ DOMAIN out' = 1..n+1 /\ out'[n+1] = p
      /\ \A i \in 1..n : out'[i] = out[i]
  BY <1>1, <1>5, <1>6, Appended
<1>8. (out = <<>> <=> n = 0) /\ out' /= <<>>
  BY <1>6, <1>7
<1> HIDE DEF n
<1>9. seq' \in 0..SeqMod-1
  BY <1>2, <1>b, SeqRange
<1>10. /\ p.lo = offset /\ p.hi = offset + FragmentSize /\ p.fu /\ (p.s <=> first)
       /\ (p.e <=> IsLast) /\ p.b0 = FuByte0 /\ p.type = Type(byte0) /\ p.seq = seq
       /\ p.size = FuHeader + FragmentSize
  BY DEF p
<1>11. PacketizerTypeOK'
  <2>1. offset' \in 0..MaxLen
    BY <1>2, <1>3, <1>a, <1>b, PacketizerAssumption DEF PacketizerTypeOK
  <2> QED
    BY <1>7, <1>9, <1>a, <1>b, <2>1 DEF PacketizerTypeOK
<1>12. Control'
  <2>1. LoopInv'
    BY <1>1, <1>2, <1>3, <1>7, <1>8, <1>10, <1>b DEF LoopInv, Last
  <2> QED
    BY <2>1, <1>b DEF Control
<1>13. FragmentsTile'
  <2>1. CASE n = 0
    BY <1>1, <1>2, <1>3, <1>7, <1>8, <1>10, <1>b, <2>1 DEF FragmentsTile, LoopInv
  <2>2. CASE n > 0
    <3> SUFFICES ASSUME NEW i \in 1..n+1, out'[i].fu
                 PROVE  /\ out'[i].lo = (IF i = 1 THEN 2 ELSE out'[i-1].hi)
                        /\ out'[i].lo < out'[i].hi /\ out'[i].hi <= nalu_len
                        /\ out'[i].s <=> i = 1
                        /\ out'[i].e <=> out'[i].hi = nalu_len
      BY <1>7, <1>b DEF FragmentsTile
    <3>1. CASE i \in 1..n
      <4>1. i \in DOMAIN out /\ out'[i] = out[i] /\ out[i].fu
        BY <1>7, <3>1
      <4>2. /\ out[i].lo = (IF i = 1 THEN 2 ELSE out[i-1].hi)
            /\ out[i].lo < out[i].hi /\ out[i].hi <= nalu_len
            /\ out[i].s <=> i = 1
            /\ out[i].e <=> out[i].hi = nalu_len
        BY <4>1, <1>a DEF FragmentsTile
      <4>3. CASE i = 1
        BY <4>1, <4>2, <4>3
      <4>4. CASE i /= 1
        <5>1. i - 1 \in 1..n
          BY <1>7, <3>1, <4>4
        <5>2. out'[i-1] = out[i-1]
          BY <1>7, <5>1
        <5> QED
          BY <4>1, <4>2, <4>4, <5>2
      <4> QED
        BY <4>3, <4>4
    <3>2. CASE i = n + 1
      <4>1. i - 1 = n /\ n \in 1..n /\ i /= 1
        BY <1>7, <2>2, <3>2
      <4>2. out'[i] = p /\ out'[i-1] = Last
        BY <1>7, <3>2, <4>1 DEF Last
      <4>3. Last.hi = offset /\ ~first
        BY <1>1, <1>8, <2>2 DEF LoopInv
      <4>4. p.lo = out'[i-1].hi
        BY <1>10, <4>2, <4>3
      <4>5. p.lo < p.hi /\ p.hi <= nalu_len
        BY <1>2, <1>3, <1>10
      <4>6. ~p.s /\ (p.e <=> p.hi = nalu_len)
        BY <1>3, <1>10, <4>3
      <4> QED
        BY <4>1, <4>2, <4>4, <4>5, <4>6
    <3> QED
      BY <1>7, <3>1, <3>2
  <2> QED
    BY <1>7, <2>1, <2>2
<1>14. NeverStartAndEnd'
  BY <1>4, <1>7, <1>10, <1>a DEF NeverStartAndEnd
<1>15. CompleteIffSucceeded'
  BY <1>b DEF CompleteIffSucceeded
<1>16. PayloadFits'
  BY <1>3, <1>7, <1>10, <1>a DEF PayloadFits
<1>17. SeqHasNoGap'
  <2>1. ASSUME NEW i \in 1..n PROVE out'[i+1].seq = (out'[i].seq + 1) % SeqMod
    <3>1. CASE i = n
      BY <1>7, <1>8, <1>10, <1>a, <3>1 DEF SeqHasNoGap
    <3>2. CASE i < n
      <4>1. i \in 1..Len(out)-1 /\ i \in 1..n /\ i + 1 \in 1..n
        BY <1>7, <3>2
      <4>2. out'[i+1] = out[i+1] /\ out'[i] = out[i]
        BY <1>7, <4>1
      <4> QED
        BY <4>1, <4>2, <1>a DEF SeqHasNoGap
    <3> QED
      BY <1>7, <3>1, <3>2
  <2> QED
    BY <1>7, <1>10, <1>b, <2>1 DEF SeqHasNoGap
<1>18. HeaderSurvives'
  <2>1. Rebuilt(p) = byte0
    BY <1>2, <1>10, ByteFacts DEF Rebuilt, Type, FuByte0
  <2>2. ASSUME NEW i \in 1..n PROVE Rebuilt(out[i]) = byte0
    BY <1>7, <1>a DEF HeaderSurvives
  <2> QED
    BY <1>7, <1>b, <2>1, <2>2 DEF HeaderSurvives
<1> QED
  BY <1>11, <1>12, <1>13, <1>14, <1>15, <1>16, <1>17, <1>18 DEF IInv

(* Nothing happens. *)
LEMMA StutterStep ==
  ASSUME IInv, UNCHANGED vars
  PROVE  IInv'
<1> USE DEF vars, IInv
<1>1. PacketizerTypeOK' /\ Control'
  BY DEF PacketizerTypeOK, Control, LoopInv, Last
<1> QED
  BY <1>1 DEF FragmentsTile, NeverStartAndEnd, CompleteIffSucceeded, PayloadFits,
              SeqHasNoGap, HeaderSurvives, Rebuilt

(* Every step keeps the inductive invariant. *)
LEMMA NextIInv == IInv /\ [PacketizerNext]_vars => IInv'
  BY CallStep, FailStep, EndStep, WholeStep, FragmentStep, StutterStep DEF PacketizerNext

-----------------------------------------------------------------------------
(* The inductive invariant holds throughout. *)
THEOREM Invariance == PacketizerSpec => []IInv
  BY InitIInv, NextIInv, PTL DEF PacketizerSpec

(* send_h265_nalu_rtp keeps every variable in its range; the number after  *)
(* the last one is the first.                                              *)
THEOREM TypeCorrect == PacketizerSpec => []PacketizerTypeOK
<1>1. IInv => PacketizerTypeOK
  BY DEF IInv
<1> QED
  BY <1>1, Invariance, PTL

(* The fragments of a NALU tile it, each with the right S and E bits, for  *)
(* every length and payload limit; and no fragment is first and last.      *)
THEOREM FragmentsCorrect == PacketizerSpec => [](FragmentsTile /\ NeverStartAndEnd)
<1>1. IInv => FragmentsTile /\ NeverStartAndEnd
  BY DEF IInv
<1> QED
  BY <1>1, Invariance, PTL

(* send_h265_nalu_rtp returns 0 exactly if the whole NALU is out, wherever *)
(* sendto() failed.                                                        *)
THEOREM ReturnCorrect == PacketizerSpec => []CompleteIffSucceeded
<1>1. IInv => CompleteIffSucceeded
  BY DEF IInv
<1> QED
  BY <1>1, Invariance, PTL

(* send_rtp_packet: every packet fits the buffers, and the sequence number *)
(* goes up by one with each packet that is sent and with no other.         *)
THEOREM PacketsCorrect == PacketizerSpec => [](PayloadFits /\ SeqHasNoGap)
<1>1. IInv => PayloadFits /\ SeqHasNoGap
  BY DEF IInv
<1> QED
  BY <1>1, Invariance, PTL

(* nalu[0], which send_h265_nalu_rtp takes apart into the payload's first  *)
(* byte and the FU header, can be rebuilt from any one fragment.           *)
THEOREM HeaderRebuilt == PacketizerSpec => []HeaderSurvives
<1>1. IInv => HeaderSurvives
  BY DEF IInv
<1> QED
  BY <1>1, Invariance, PTL

-----------------------------------------------------------------------------
(***************************************************************************)
(* The splitter, the other loop of src/rtp.c.                              *)
(***************************************************************************)
LEMMA BufferBound == MaxBuffer \in Nat
BY AnnexBAssumption

USE BufferBound

(* The least element of a set of numbers. *)
LEMMA Least ==
  ASSUME NEW T, T \subseteq Nat, T /= {}
  PROVE  \E x \in T : \A y \in T : x <= y
<1> DEFINE R == {p \in Nat \X Nat : p[1] < p[2]}
<1>1. OpToRel(<, Nat) = R
  BY DEF OpToRel
<1>2. IsWellFoundedOn(R, Nat)
  BY <1>1, NatLessThanWellFounded
<1>3. PICK x \in T : \A y \in T : <<y, x>> \notin R
  BY <1>2, WFMin
<1>4. ASSUME NEW y \in T PROVE x <= y
  <2>1. x \in Nat /\ y \in Nat /\ <<y, x>> \notin R
    BY <1>3
  <2> QED
    BY <2>1
<1> QED
  BY <1>4

LEMMA MinFacts ==
  ASSUME NEW S, S \subseteq Nat, S /= {}
  PROVE  Min(S) \in S /\ \A y \in S : Min(S) <= y
BY Least DEF Min

LEMMA MinIs ==
  ASSUME NEW S, S \subseteq Nat, NEW x \in S, \A y \in S : x <= y
  PROVE  Min(S) = x
<1> DEFINE m == Min(S)
<1>1. m \in S /\ \A y \in S : m <= y
  BY MinFacts
<1> HIDE DEF m
<1>2. m \in Nat /\ x \in Nat /\ m <= x /\ x <= m
  BY <1>1
<1>3. m = x
  BY ONLY <1>2
<1> QED
  BY <1>3 DEF m

LEMMA MaxFacts ==
  ASSUME NEW n \in Nat, NEW S, S \subseteq 0..n, S /= {}
  PROVE  Max(S) \in S /\ \A y \in S : Max(S) >= y
<1> DEFINE T == {n - y : y \in S}
<1>1. T \subseteq Nat /\ T /= {}
  <2>1. ASSUME NEW y \in S PROVE n - y \in Nat
    <3>1. y \in 0..n
      OBVIOUS
    <3> QED
      BY <3>1
  <2>2. T /= {}
    OBVIOUS
  <2> QED
    BY <2>1, <2>2
<1>2. PICK x \in T : \A y \in T : x <= y
  BY <1>1, Least
<1>3. PICK s \in S : x = n - s
  BY <1>2
<1>4. ASSUME NEW y \in S PROVE s >= y
  <2>1. n - s <= n - y
    BY <1>2, <1>3
  <2> QED
    BY <2>1
<1> QED
  BY <1>3, <1>4 DEF Max

LEMMA CodesApart ==
  ASSUME NEW i \in Nat, NEW j \in Nat, Three(i), Three(j), i < j
  PROVE  j >= i + 3
<1>1. buf[i+1] = 0 /\ buf[i+2] = 0 /\ buf[i+3] = 1
  BY DEF Three, At
<1>2. buf[j+1] = 0 /\ buf[j+2] = 0 /\ buf[j+3] = 1
  BY DEF Three, At
<1>3. j /= i + 1
  <2> SUFFICES ASSUME j = i + 1 PROVE FALSE
    OBVIOUS
  <2>1. j + 2 = i + 3
    OBVIOUS
  <2> QED
    BY <1>1, <1>2, <2>1
<1>4. j /= i + 2
  <2> SUFFICES ASSUME j = i + 2 PROVE FALSE
    OBVIOUS
  <2>1. j + 1 = i + 3
    OBVIOUS
  <2> QED
    BY <1>1, <1>2, <2>1
<1> QED
  BY <1>3, <1>4

LEMMA FourIsThree ==
  ASSUME NEW i \in Nat, Four(i), Len(buf) \in Nat
  PROVE  Three(i+1) /\ At(i) = 0
<1>1. /\ i + 4 <= Len(buf) /\ buf[i+1] = 0 /\ buf[i+2] = 0 /\ buf[i+3] = 0 /\ buf[i+4] = 1
  BY DEF Four, At, size
<1>2. i+1+1 = i+2 /\ i+1+1+1 = i+3 /\ i+1+2+1 = i+4 /\ i+1+3 <= Len(buf)
  BY <1>1
<1> QED
  BY <1>1, <1>2 DEF Three, At, size

(* find_start_code finds the next 0 0 1, with a zero before it or not. *)
LEMMA FindFacts ==
  ASSUME NEW from \in Nat, Len(buf) \in Nat, NEW f, f = FindStartCode(from)
  PROVE  \/ f = -1 /\ \A u \in Nat : u >= from => ~Three(u)
         \/ /\ f \in Nat /\ f >= from /\ f <= Len(buf)
            /\ \E t \in Nat :
                 /\ Three(t) /\ t >= f /\ f + CodeLen(f) = t + 3
                 /\ t = f \/ (t = f + 1 /\ At(f) = 0)
                 /\ \A u \in Nat : u >= from /\ u < t => ~Three(u)
<1> DEFINE found == {i \in from..Len(buf) : Three(i) \/ Four(i)}
<1>1. f = IF found = {} THEN -1 ELSE Min(found)
  BY DEF FindStartCode, size
<1>2. found \subseteq Nat
  OBVIOUS
<1>3. ASSUME NEW u \in Nat, u >= from, Three(u) PROVE u \in found
  <2>1. u + 3 <= Len(buf)
    BY <1>3 DEF Three, size
  <2> QED
    BY <1>3, <2>1
<1>4. CASE found = {}
  BY <1>1, <1>3, <1>4
<1>5. CASE found /= {}
  <2>1. f \in found /\ \A y \in found : f <= y
    BY <1>1, <1>2, <1>5, MinFacts
  <2>2. f \in Nat /\ f >= from /\ f <= Len(buf) /\ (Three(f) \/ Four(f))
    BY <2>1
  <2>3. \A u \in Nat : u >= from /\ Three(u) => f <= u
    BY <1>3, <2>1
  <2> HIDE DEF found
  <2>4. CASE Three(f)
    <3>1. f + CodeLen(f) = f + 3
      BY <2>4 DEF CodeLen
    <3>2. \A u \in Nat : u >= from /\ u < f => ~Three(u)
      BY <2>2, <2>3
    <3> QED
      BY <2>2, <2>4, <3>1, <3>2
  <2>5. CASE ~Three(f)
    <3>1. Three(f+1) /\ At(f) = 0
      BY <2>2, <2>5, FourIsThree
    <3>2. f + CodeLen(f) = f + 1 + 3 /\ f + 1 \in Nat
      BY <2>2, <2>5 DEF CodeLen
    <3>3. ASSUME NEW u \in Nat, u >= from, u < f + 1 PROVE ~Three(u)
      <4>1. u = f \/ u < f
        BY <2>2, <3>3
      <4> QED
        BY <2>2, <2>3, <2>5, <3>3, <4>1
    <3> QED
      BY <2>2, <3>1, <3>2, <3>3
  <2> QED
    BY <2>4, <2>5
<1> QED
  BY <1>4, <1>5

(* What is left of a NALU without its trailing zeros. *)
LEMMA TrimFacts ==
  ASSUME NEW lo \in Nat, NEW hi \in Nat, lo <= hi
  PROVE  /\ Trimmed(lo, hi) \in lo..hi
         /\ Trimmed(lo, hi) = lo => \A j \in lo..hi-1 : At(j) = 0
<1> DEFINE keep == {h \in lo+1..hi : At(h-1) /= 0}
<1>1. Trimmed(lo, hi) = IF keep = {} THEN lo ELSE Max(keep)
  BY DEF Trimmed
<1>2. keep \subseteq 0..hi /\ keep \subseteq lo+1..hi
  OBVIOUS
<1>3. CASE keep = {}
  <2>1. ASSUME NEW j \in lo..hi-1 PROVE At(j) = 0
    <3>1. j+1 \in lo+1..hi /\ (j+1)-1 = j
      OBVIOUS
    <3>2. j+1 \notin keep
      BY <1>3
    <3> QED
      BY <3>1, <3>2
  <2> QED
    BY <1>1, <1>3, <2>1
<1>4. CASE keep /= {}
  <2>1. Trimmed(lo, hi) \in keep
    BY <1>1, <1>2, <1>4, MaxFacts
  <2>2. Trimmed(lo, hi) \in lo+1..hi
    BY <1>2, <2>1
  <2> HIDE DEF keep
  <2> QED
    BY <2>2
<1> QED
  BY <1>3, <1>4

(* A zero in front of a start code is a trailing zero. *)
LEMMA TrimSame ==
  ASSUME NEW lo \in Nat, NEW hi \in Nat, lo <= hi, At(hi) = 0
  PROVE  Trimmed(lo, hi+1) = Trimmed(lo, hi)
<1>1. {h \in lo+1..hi+1 : At(h-1) /= 0} = {h \in lo+1..hi : At(h-1) /= 0}
  <2>1. ASSUME NEW h \in lo+1..hi+1, At(h-1) /= 0 PROVE h \in lo+1..hi
    <3>1. h - 1 /= hi
      BY <2>1
    <3> QED
      BY <3>1
  <2> QED
    BY <2>1
<1> QED
  BY <1>1 DEF Trimmed

(* The segment behind a start code that is the last, and behind one that   *)
(* is not.                                                                 *)
LEMMA LastSegment ==
  ASSUME Len(buf) \in Nat, NEW t \in Nat, \A u \in Nat : u > t => ~Three(u)
  PROVE  Segment(t+2) = [lo |-> t+3, hi |-> Trimmed(t+3, Len(buf))]
<1>1. {j \in Ones : j > t+2} = {}
  <2> SUFFICES ASSUME NEW j \in Ones, j > t+2 PROVE FALSE
    OBVIOUS
  <2>1. j \in 2..Len(buf)-1 /\ Three(j-2)
    BY DEF Ones, size
  <2>2. j-2 \in Nat /\ j-2 > t
    BY <2>1
  <2> QED
    BY <2>1, <2>2
<1>2. t+2+1 = t+3
  OBVIOUS
<1> QED
  BY <1>1, <1>2 DEF Segment, size

LEMMA InnerSegment ==
  ASSUME Len(buf) \in Nat, NEW t \in Nat, NEW s \in Nat, t < s, Three(s),
         \A u \in Nat : u > t /\ u < s => ~Three(u)
  PROVE  Segment(t+2) = [lo |-> t+3, hi |-> Trimmed(t+3, s)]
<1> DEFINE next == {j \in Ones : j > t+2}
<1>1. s+2 \in next
  <2>1. s + 3 <= Len(buf) /\ (s+2)-2 = s
    BY DEF Three, size
  <2>2. s+2 \in 2..Len(buf)-1 /\ s+2 > t+2
    BY <2>1
  <2> QED
    BY <2>1, <2>2 DEF Ones, size
<1>2. ASSUME NEW j \in next PROVE s+2 <= j
  <2>1. j \in 2..Len(buf)-1 /\ Three(j-2) /\ j > t+2
    BY DEF Ones, size
  <2>2. j-2 \in Nat /\ j-2 > t
    BY <2>1
  <2>3. ~(j-2 < s)
    BY <2>1, <2>2
  <2> QED
    BY <2>1, <2>3
<1>3. next \subseteq Nat
  BY DEF Ones, size
<1>4. Min(next) = s+2
  BY <1>1, <1>2, <1>3, MinIs
<1>5. Min(next) - 2 = s /\ t+2+1 = t+3 /\ next /= {}
  BY <1>1, <1>4
<1>6. Segment(t+2) = [lo |-> t+2+1, hi |-> Trimmed(t+2+1,
         IF next = {} THEN Len(buf) ELSE Min(next) - 2)]
  BY DEF Segment, size
<1> HIDE DEF next
<1> QED
  BY <1>5, <1>6

(* One turn of the loop takes the next start code. *)
LEMMA TurnFacts ==
  ASSUME Len(buf) \in Nat, NEW from \in Nat,
         NEW pos, pos = FindStartCode(from), ~(pos < 0),
         NEW lo, lo = pos + CodeLen(pos),
         NEW next, next = FindStartCode(lo),
         NEW hi, hi = Trimmed(lo, IF next < 0 THEN Len(buf) ELSE next)
  PROVE  \E t \in Nat :
           /\ Three(t) /\ t >= from /\ lo = t + 3 /\ t + 3 <= Len(buf)
           /\ \A u \in Nat : u >= from /\ u < t => ~Three(u)
           /\ Segment(t+2) = [lo |-> lo, hi |-> hi]
           /\ hi \in lo..Len(buf)
           /\ next < 0 => /\ \A u \in Nat : u > t => ~Three(u)
                          /\ hi = lo => \A j \in lo..Len(buf)-1 : At(j) = 0
           /\ ~(next < 0) => /\ next \in Nat /\ next >= lo /\ next <= Len(buf) /\ hi <= next
                             /\ \A u \in Nat : u > t /\ u < next => ~Three(u)
                             /\ \E s \in Nat : s >= next /\ Three(s)
<1>1. PICK t \in Nat :
        /\ Three(t) /\ t >= pos /\ pos \in Nat /\ pos >= from /\ lo = t + 3
        /\ \A u \in Nat : u >= from /\ u < t => ~Three(u)
  <2>1. pos /= -1
    OBVIOUS
  <2> QED
    BY <2>1, FindFacts
<1>2. t + 3 <= Len(buf) /\ lo \in Nat /\ t >= from
  BY <1>1 DEF Three, size
<1>3. ASSUME NEW u \in Nat, u > t, Three(u) PROVE u >= lo
  BY <1>1, <1>3, CodesApart
<1>4. CASE next = -1
  <2>1. \A u \in Nat : u >= lo => ~Three(u)
    BY <1>2, <1>4, FindFacts
  <2>2. \A u \in Nat : u > t => ~Three(u)
    BY <1>3, <2>1
  <2>3. hi = Trimmed(lo, Len(buf)) /\ next < 0
    BY <1>4
  <2>4. Segment(t+2) = [lo |-> lo, hi |-> hi]
    BY <1>1, <2>2, <2>3, LastSegment
  <2>5. hi \in lo..Len(buf) /\ (hi = lo => \A j \in lo..Len(buf)-1 : At(j) = 0)
    BY <1>1, <1>2, <2>3, TrimFacts
  <2> QED
    BY <1>1, <1>2, <2>2, <2>3, <2>4, <2>5
<1>5. CASE next /= -1
  <2>1. PICK s \in Nat :
          /\ next \in Nat /\ next >= lo /\ next <= Len(buf)
          /\ Three(s) /\ s >= next
          /\ s = next \/ (s = next + 1 /\ At(next) = 0)
          /\ \A u \in Nat : u >= lo /\ u < s => ~Three(u)
    BY <1>2, <1>5, FindFacts
  <2>2. hi = Trimmed(lo, next) /\ ~(next < 0)
    BY <2>1
  <2>3. \A u \in Nat : u > t /\ u < s => ~Three(u)
    BY <1>3, <2>1
  <2>4. s > t /\ \A u \in Nat : u > t /\ u < next => ~Three(u)
    BY <1>1, <2>1, <2>3
  <2>5. Trimmed(lo, s) = Trimmed(lo, next)
    BY <1>2, <2>1, TrimSame
  <2>6. Segment(t+2) = [lo |-> lo, hi |-> hi]
    BY <1>1, <2>1, <2>2, <2>3, <2>4, <2>5, InnerSegment
  <2>7. hi \in lo..next
    BY <1>2, <2>1, <2>2, TrimFacts
  <2>8. hi \in lo..Len(buf) /\ hi <= next
    BY <1>2, <2>1, <2>7
  <2> QED
    BY <1>1, <1>2, <2>1, <2>2, <2>4, <2>6, <2>8
<1> QED
  BY <1>4, <1>5

(* The NALUs behind the start codes in front of n. *)
Before(n) ==
  {s \in {Segment(t+2) : t \in {u \in Nat : Three(u) /\ u < n}} : s.hi > s.lo}

LEMMA BeforeGrows ==
  ASSUME NEW from \in Nat, NEW n \in Nat, NEW t \in Nat, NEW seg, seg = Segment(t+2),
         Three(t), t >= from, t < n,
         \A u \in Nat : u >= from /\ u < t => ~Three(u),
         \A u \in Nat : u > t /\ u < n => ~Three(u)
  PROVE  Before(n) = IF seg.hi > seg.lo THEN Before(from) \cup {seg} ELSE Before(from)
<1>1. {u \in Nat : Three(u) /\ u < n} = {u \in Nat : Three(u) /\ u < from} \cup {t}
  <2>1. ASSUME NEW u \in Nat, Three(u), u < n, ~(u < from) PROVE u = t
    BY <2>1
  <2> QED
    BY <2>1
<1> QED
  BY <1>1 DEF Before

LEMMA MeantIs ==
  ASSUME Len(buf) \in Nat, NEW n \in Nat, \A u \in Nat : u >= n => ~Three(u)
  PROVE  Meant = Before(n)
<1>1. ASSUME NEW i \in Ones
      PROVE  \E t \in {u \in Nat : Three(u) /\ u < n} : i = t+2
  <2>1. i \in 2..Len(buf)-1 /\ Three(i-2)
    BY DEF Ones, size
  <2>2. i-2 \in Nat /\ i = (i-2)+2
    BY <2>1
  <2>3. i-2 < n
    BY <2>1, <2>2
  <2> QED
    BY <2>1, <2>2, <2>3
<1>2. ASSUME NEW t \in Nat, Three(t) PROVE t+2 \in Ones
  <2>1. t + 3 <= Len(buf) /\ (t+2)-2 = t
    BY <1>2 DEF Three, size
  <2>2. t+2 \in 2..Len(buf)-1
    BY <2>1
  <2> QED
    BY <1>2, <2>1, <2>2 DEF Ones, size
<1>3. {Segment(i) : i \in Ones} =
        {Segment(t+2) : t \in {u \in Nat : Three(u) /\ u < n}}
  BY <1>1, <1>2
<1> QED
  BY <1>3 DEF Meant, Before

InOrder == \A i, j \in DOMAIN nalus : i < j => nalus[i].hi < nalus[j].lo

(* Between two turns the NALUs of the start codes passed are out, in       *)
(* order, none marked; and after the first turn another start code is to   *)
(* come.                                                                   *)
Turning ==
  /\ kind = "file" \/ StartsWithStartCode
  /\ HandedOn = Before(search_offset)
  /\ InOrder
  /\ \A i \in DOMAIN nalus : nalus[i].hi <= search_offset /\ ~nalus[i].m
  /\ nalus /= <<>> => \E s \in Nat : s >= search_offset /\ Three(s)

SplitInv ==
  /\ AnnexBTypeOK
  /\ stage = "start" => nalus = <<>> /\ search_offset = 0
  /\ stage = "loop" => Turning
  /\ SplitIsAnnexB /\ MarkerOnLast

LEMMA SplitInitInv ==
  ASSUME AnnexBInit
  PROVE  SplitInv
<1>1. PICK n \in 1..MaxBuffer : buf \in [1..n -> Bytes]
  BY DEF AnnexBInit
<1>2. buf \in Seq(Bytes) /\ Len(buf) <= MaxBuffer
  <2>1. n \in Nat /\ n <= MaxBuffer
    BY <1>1
  <2>2. buf \in Seq(Bytes) /\ Len(buf) = n
    BY <1>1, <2>1
  <2> QED
    BY <2>1, <2>2
<1>3. <<>> \in Seq(Nalu) /\ 0 \in 0..MaxBuffer
  OBVIOUS
<1> QED
  BY <1>2, <1>3 DEF AnnexBInit, SplitInv, AnnexBTypeOK, SplitIsAnnexB,
     MarkerOnLast, size

LEMMA SplitTypes ==
  ASSUME SplitInv
  PROVE  /\ buf \in Seq(Bytes) /\ Len(buf) \in Nat /\ Len(buf) <= MaxBuffer
         /\ search_offset \in Nat /\ search_offset \in 0..MaxBuffer
         /\ nalus \in Seq(Nalu)
         /\ Len(nalus) \in Nat /\ DOMAIN nalus = 1..Len(nalus)
         /\ kind \in {"file", "pack"} /\ stage \in {"start", "loop", "done", "failed"}
BY LenProperties DEF SplitInv, AnnexBTypeOK, size

(* What the buffer means does not change while it is split. *)
LEMMA BufferStays ==
  ASSUME buf' = buf
  PROVE  /\ \A i \in Int : (Three(i) <=> Three(i)') /\ At(i)' = At(i)
         /\ Meant' = Meant /\ Ones' = Ones
         /\ \A n \in Nat : Before(n)' = Before(n)
         /\ StartsWithStartCode' <=> StartsWithStartCode
<1> USE DEF Three, Four, At, size
<1>1. /\ \A i \in Int : (Three(i) <=> Three(i)') /\ At(i)' = At(i)
      /\ StartsWithStartCode' <=> StartsWithStartCode
  BY DEF StartsWithStartCode
<1>2. Meant' = Meant /\ Ones' = Ones
  BY DEF Meant, Ones, Segment, Trimmed
<1>3. \A i \in Int : Segment(i)' = Segment(i)
  BY <1>2 DEF Segment, Trimmed
<1>4. ASSUME NEW n \in Nat PROVE Before(n)' = Before(n)
  <2>1. {u \in Nat : Three(u) /\ u < n}' = {u \in Nat : Three(u) /\ u < n}
    OBVIOUS
  <2>2. {Segment(t+2) : t \in {u \in Nat : Three(u) /\ u < n}}'
          = {Segment(t+2) : t \in {u \in Nat : Three(u) /\ u < n}}
    BY <1>3, <2>1
  <2> QED
    BY <2>2 DEF Before
<1> QED
  BY <1>1, <1>2, <1>4

LEMMA SplitStart ==
  ASSUME SplitInv, Start
  PROVE  SplitInv'
<1>1. stage = "start" /\ nalus = <<>> /\ search_offset = 0 /\ UNCHANGED <<kind, buf, search_offset>>
  BY DEF Start, SplitInv
<1>2. /\ buf \in Seq(Bytes) /\ Len(buf) \in Nat /\ Len(buf) <= MaxBuffer
      /\ kind \in {"file", "pack"} /\ 0 \in 0..MaxBuffer
  BY SplitTypes
<1>3. CASE kind = "pack" /\ Len(buf) < 2 /\ stage' = "done" /\ UNCHANGED nalus
  <2>1. ~StartsWithStartCode
    BY <1>2, <1>3 DEF StartsWithStartCode, Three, Four, size
  <2>2. ~StartsWithStartCode'
    BY <1>1, <2>1, BufferStays
  <2> QED
    BY <1>1, <1>2, <1>3, <2>2 DEF SplitInv, AnnexBTypeOK, SplitIsAnnexB,
       MarkerOnLast, size
<1>6. CASE kind = "pack" /\ ~StartsWithStartCode /\ stage' = "failed" /\ UNCHANGED nalus
  <2>1. ~StartsWithStartCode'
    BY <1>1, <1>6, BufferStays
  <2> QED
    BY <1>1, <1>2, <1>6, <2>1 DEF SplitInv, AnnexBTypeOK, SplitIsAnnexB,
       MarkerOnLast, size
<1>4. CASE /\ kind = "pack" /\ ~StartsWithStartCode
           /\ nalus' = <<[lo |-> 0, hi |-> Len(buf), m |-> TRUE]>> /\ stage' = "done"
  <2>1. ~StartsWithStartCode'
    BY <1>1, <1>4, BufferStays
  <2>2. [lo |-> 0, hi |-> Len(buf), m |-> TRUE] \in Nalu
    BY <1>2 DEF Nalu
  <2>3. nalus' \in Seq(Nalu) /\ Len(nalus') = 1 /\ DOMAIN nalus' = 1..1 /\ nalus'[1].m
    BY <1>4, <2>2
  <2>4. AnnexBTypeOK'
    BY <1>1, <1>2, <1>4, <2>3 DEF AnnexBTypeOK, size
  <2>5. MarkerOnLast'
    BY <1>4, <2>3 DEF MarkerOnLast
  <2> QED
    BY <1>1, <1>4, <2>1, <2>4, <2>5 DEF SplitInv, SplitIsAnnexB
<1>5. CASE /\ kind = "file" \/ StartsWithStartCode
           /\ stage' = "loop" /\ UNCHANGED nalus
  <2>1. kind' = "file" \/ StartsWithStartCode'
    BY <1>1, <1>5, BufferStays
  <2>2. Before(0)' = {}
    BY DEF Before
  <2>3. Turning'
    BY <1>1, <1>5, <2>1, <2>2 DEF Turning, HandedOn, InOrder
  <2>4. AnnexBTypeOK'
    BY <1>1, <1>2, <1>5 DEF AnnexBTypeOK, size
  <2> QED
    BY <1>5, <2>3, <2>4 DEF SplitInv, SplitIsAnnexB, MarkerOnLast
<1> QED
  BY <1>3, <1>4, <1>5, <1>6 DEF Start, size

(* One more NALU behind the others. *)
LEMMA CutGrows ==
  ASSUME nalus \in Seq(Nalu), NEW e \in Nalu, nalus' = Append(nalus, e),
         InOrder, \A i \in DOMAIN nalus : nalus[i].hi < e.lo
  PROVE  /\ HandedOn' = HandedOn \cup {[lo |-> e.lo, hi |-> e.hi]} /\ InOrder'
         /\ nalus' \in Seq(Nalu) /\ DOMAIN nalus' = 1..Len(nalus)+1 /\ nalus' /= <<>>
         /\ Len(nalus') = Len(nalus) + 1 /\ nalus'[Len(nalus)+1] = e
         /\ \A i \in DOMAIN nalus : nalus'[i] = nalus[i]
<1>1. /\ nalus' \in Seq(Nalu) /\ Len(nalus') = Len(nalus) + 1 /\ nalus'[Len(nalus)+1] = e
      /\ Len(nalus) \in Nat /\ DOMAIN nalus = 1..Len(nalus) /\ DOMAIN nalus' = 1..Len(nalus)+1
      /\ \A i \in 1..Len(nalus) : nalus'[i] = nalus[i]
  BY AppendProperties, LenProperties
<1>2. DOMAIN nalus' = DOMAIN nalus \cup {Len(nalus)+1}
  BY <1>1
<1>3. HandedOn' = HandedOn \cup {[lo |-> e.lo, hi |-> e.hi]}
  <2>1. HandedOn' = {[lo |-> nalus'[i].lo, hi |-> nalus'[i].hi] : i \in DOMAIN nalus'}
    BY DEF HandedOn
  <2>2. \A i \in DOMAIN nalus :
          [lo |-> nalus'[i].lo, hi |-> nalus'[i].hi] = [lo |-> nalus[i].lo, hi |-> nalus[i].hi]
    BY <1>1
  <2> QED
    BY <1>1, <1>2, <2>1, <2>2 DEF HandedOn
<1>4. InOrder'
  <2> SUFFICES ASSUME NEW i \in DOMAIN nalus', NEW j \in DOMAIN nalus', i < j
               PROVE  nalus'[i].hi < nalus'[j].lo
    BY DEF InOrder
  <2>1. i \in DOMAIN nalus /\ (j \in DOMAIN nalus \/ j = Len(nalus)+1)
    BY <1>1
  <2> QED
    BY <1>1, <2>1 DEF InOrder
<1>5. nalus' /= <<>>
  BY <1>1
<1> QED
  BY <1>1, <1>3, <1>4, <1>5

LEMMA SplitTurn ==
  ASSUME SplitInv, Split
  PROVE  SplitInv'
<1> DEFINE pos == FindStartCode(search_offset)
           lo == pos + CodeLen(pos)
           next == FindStartCode(lo)
           hi == Trimmed(lo, IF next < 0 THEN Len(buf) ELSE next)
<1>1. /\ stage = "loop" /\ Turning /\ UNCHANGED <<kind, buf>> /\ AnnexBTypeOK
      /\ \/ pos < 0 /\ stage' = "done" /\ UNCHANGED <<search_offset, nalus>>
         \/ /\ pos >= 0
            /\ nalus' = IF hi > lo THEN Append(nalus, [lo |-> lo, hi |-> hi, m |-> next < 0])
                        ELSE nalus
            /\ \/ next < 0 /\ stage' = "done" /\ UNCHANGED search_offset
               \/ next >= 0 /\ search_offset' = next /\ UNCHANGED stage
  BY DEF Split, SplitInv, size
<1>2. /\ buf \in Seq(Bytes) /\ Len(buf) \in Nat /\ Len(buf) <= MaxBuffer
      /\ search_offset \in Nat /\ search_offset \in 0..MaxBuffer
      /\ nalus \in Seq(Nalu)
      /\ Len(nalus) \in Nat /\ DOMAIN nalus = 1..Len(nalus) /\ kind \in {"file", "pack"}
  BY SplitTypes
<1>3. /\ Meant' = Meant /\ Ones' = Ones
      /\ \A n \in Nat : Before(n)' = Before(n)
      /\ kind' = "file" \/ StartsWithStartCode'
      /\ \A i \in Int : (Three(i) <=> Three(i)') /\ At(i)' = At(i)
  BY <1>1, BufferStays DEF Turning
<1>4. CASE pos < 0 /\ stage' = "done" /\ UNCHANGED <<search_offset, nalus>>
  <2>1. \A u \in Nat : u >= search_offset => ~Three(u)
    <3>1. \A f \in Nat : ~(f < 0)
      OBVIOUS
    <3> HIDE DEF pos
    <3>2. ~(pos \in Nat)
      BY <1>4, <3>1
    <3> QED
      BY <1>2, <3>2, FindFacts DEF pos
  <2>2. nalus = <<>>
    BY <1>1, <2>1 DEF Turning
  <2>3. HandedOn' = Meant'
    BY <1>1, <1>2, <1>3, <1>4, <2>1, MeantIs DEF Turning, HandedOn
  <2>4. AnnexBTypeOK'
    BY <1>1, <1>4 DEF AnnexBTypeOK, size
  <2> HIDE DEF pos, lo, next, hi
  <2>5. nalus' = <<>> /\ InOrder'
    BY <1>4, <2>2 DEF InOrder
  <2> QED
    BY <1>4, <2>3, <2>4, <2>5 DEF SplitInv, SplitIsAnnexB, MarkerOnLast, HandedOn, InOrder
<1>5. CASE /\ pos >= 0
           /\ nalus' = IF hi > lo THEN Append(nalus, [lo |-> lo, hi |-> hi, m |-> next < 0])
                       ELSE nalus
           /\ \/ next < 0 /\ stage' = "done" /\ UNCHANGED search_offset
              \/ next >= 0 /\ search_offset' = next /\ UNCHANGED stage
  <2>1. ~(pos < 0) /\ (~(next < 0) <=> next >= 0)
    <3>1. \A f \in Nat \cup {-1} : (~(f < 0) <=> f >= 0)
      OBVIOUS
    <3>2. pos \in Nat \cup {-1}
      BY <1>2, FindFacts
    <3>3. ~(pos < 0)
      BY <1>5, <3>1, <3>2
    <3>4. lo \in Nat
      BY <1>2, <3>3, FindFacts
    <3>5. next \in Nat \cup {-1}
      BY <1>2, <3>4, FindFacts
    <3> QED
      BY <3>1, <3>3, <3>5
  <2>2. PICK t \in Nat :
           /\ Three(t) /\ t >= search_offset /\ lo = t + 3 /\ t + 3 <= Len(buf)
           /\ \A u \in Nat : u >= search_offset /\ u < t => ~Three(u)
           /\ Segment(t+2) = [lo |-> lo, hi |-> hi]
           /\ hi \in lo..Len(buf)
           /\ next < 0 => /\ \A u \in Nat : u > t => ~Three(u)
                          /\ hi = lo => \A j \in lo..Len(buf)-1 : At(j) = 0
           /\ ~(next < 0) => /\ next \in Nat /\ next >= lo /\ next <= Len(buf) /\ hi <= next
                             /\ \A u \in Nat : u > t /\ u < next => ~Three(u)
                             /\ \E s \in Nat : s >= next /\ Three(s)
    BY <1>2, <2>1, TurnFacts
  <2> HIDE DEF pos, lo, next, hi
  <2> DEFINE e == [lo |-> lo, hi |-> hi, m |-> next < 0]
  <2>3. e \in Nalu /\ e.lo = lo /\ e.hi = hi /\ e.m = (next < 0)
    <3>1. lo \in 0..MaxBuffer /\ hi \in 0..MaxBuffer
      BY <1>2, <2>2
    <3>2. \A b \in BOOLEAN : [lo |-> lo, hi |-> hi, m |-> b] \in Nalu
      BY <3>1 DEF Nalu
    <3>3. (next < 0) \in BOOLEAN
      OBVIOUS
    <3> QED
      BY <3>2, <3>3
  <2>4. \A i \in DOMAIN nalus : nalus[i].hi < e.lo /\ nalus[i].hi <= lo
    <3>1. \A i \in DOMAIN nalus : nalus[i].hi <= search_offset /\ nalus[i].hi \in Nat
      <4>1. ASSUME NEW i \in DOMAIN nalus PROVE nalus[i] \in Nalu
        BY <1>2, ElementOfSeq
      <4>2. \A x \in Nalu : x.hi \in Nat
        BY <1>2 DEF Nalu
      <4> QED
        BY <1>1, <4>1, <4>2 DEF Turning
    <3> QED
      BY <1>2, <2>2, <2>3, <3>1
  <2>5. InOrder /\ HandedOn = Before(search_offset) /\ \A i \in DOMAIN nalus : ~nalus[i].m
    BY <1>1 DEF Turning
  <2> HIDE DEF e
  <2>6. /\ HandedOn' = (IF hi > lo THEN HandedOn \cup {[lo |-> lo, hi |-> hi]} ELSE HandedOn) /\ InOrder'
        /\ nalus' \in Seq(Nalu)
        /\ hi > lo => /\ DOMAIN nalus' = 1..Len(nalus)+1 /\ nalus' /= <<>>
                      /\ Len(nalus') = Len(nalus) + 1 /\ nalus'[Len(nalus)+1] = e
                      /\ \A i \in DOMAIN nalus : nalus'[i] = nalus[i]
        /\ ~(hi > lo) => nalus' = nalus
    <3>1. CASE hi > lo
      <4>1. nalus' = Append(nalus, e)
        BY <1>5, <3>1 DEF e
      <4> QED
        BY <1>2, <2>3, <2>4, <2>5, <3>1, <4>1, CutGrows
    <3>2. CASE ~(hi > lo)
      BY <1>2, <1>5, <2>5, <3>2 DEF HandedOn, InOrder
    <3> QED
      BY <3>1, <3>2
  <2>7. ASSUME NEW n \in Nat, t < n, \A u \in Nat : u > t /\ u < n => ~Three(u)
        PROVE  HandedOn' = Before(n)
    <3>1. Before(n) = IF hi > lo THEN Before(search_offset) \cup {[lo |-> lo, hi |-> hi]}
                      ELSE Before(search_offset)
      <4> DEFINE seg == [lo |-> lo, hi |-> hi]
      <4>1. seg = Segment(t+2) /\ seg.lo = lo /\ seg.hi = hi
        BY <2>2
      <4> HIDE DEF seg
      <4>2. Before(n) = IF seg.hi > seg.lo THEN Before(search_offset) \cup {seg}
                        ELSE Before(search_offset)
        <5>1. /\ search_offset \in Nat /\ n \in Nat /\ t \in Nat /\ Three(t)
              /\ t >= search_offset /\ t < n
              /\ \A u \in Nat : u >= search_offset /\ u < t => ~Three(u)
              /\ \A u \in Nat : u > t /\ u < n => ~Three(u)
          BY <1>2, <2>2, <2>7
        <5> QED
          BY ONLY <4>1, <5>1, BeforeGrows
      <4> QED
        BY <4>1, <4>2 DEF seg
    <3> QED
      BY <2>5, <2>6, <3>1
  <2>8. CASE next < 0 /\ stage' = "done" /\ UNCHANGED search_offset
    <3>1. HandedOn' = Meant'
      <4>1. \A u \in Nat : u >= Len(buf) => ~Three(u)
        BY <2>2, <2>8
      <4>2. t < Len(buf) /\ \A u \in Nat : u > t /\ u < Len(buf) => ~Three(u)
        BY <1>2, <2>2, <2>8
      <4> QED
        BY <1>2, <1>3, <2>7, <4>1, <4>2, MeantIs
    <3>2. AnnexBTypeOK'
      BY <1>1, <1>2, <2>6, <2>8 DEF AnnexBTypeOK, size
    <3>3. SplitIsAnnexB'
      BY <2>6, <2>8, <3>1, <3>2 DEF SplitIsAnnexB, InOrder
    <3>4. MarkerOnLast'
      <4>1. CASE hi > lo
        <5>1. nalus'[Len(nalus')].m
          BY <2>3, <2>6, <2>8, <4>1
        <5>2. \A i \in DOMAIN nalus' : nalus'[i].m => i = Len(nalus')
          <6>1. \A i \in DOMAIN nalus' : i \in DOMAIN nalus \/ i = Len(nalus')
            BY <1>2, <2>6, <4>1
          <6> QED
            BY <2>5, <2>6, <4>1, <6>1
        <5> QED
          BY <2>8, <5>1, <5>2 DEF MarkerOnLast
      <4>2. CASE ~(hi > lo)
        <5>1. hi = lo
          BY <2>2, <4>2
        <5>2. lo-1 \in Ones
          <6>1. lo-1 \in 2..Len(buf)-1 /\ (lo-1)-2 = t
            BY <1>2, <2>2
          <6> QED
            BY <2>2, <6>1 DEF Ones, size
        <5>3. \A j \in (lo-1)+1..Len(buf)-1 : At(j)' = 0
          BY <1>2, <1>3, <2>2, <2>8, <5>1
        <5>4. size' = Len(buf)
          BY <1>1 DEF size
        <5>5. \E i \in Ones' : \A j \in i+1..size'-1 : At(j)' = 0
          BY <1>3, <5>2, <5>3, <5>4
        <5>6. nalus' = nalus
          BY <2>6, <4>2
        <5> QED
          BY <2>5, <2>8, <5>5, <5>6 DEF MarkerOnLast
      <4> QED
        BY <4>1, <4>2
    <3> QED
      BY <2>8, <3>2, <3>3, <3>4 DEF SplitInv
  <2>9. CASE next >= 0 /\ search_offset' = next /\ UNCHANGED stage
    <3>1. next \in Nat /\ next >= lo /\ next <= Len(buf) /\ hi <= next /\ t < next
      BY <2>1, <2>2, <2>9
    <3>2. HandedOn' = Before(search_offset)'
      <4>1. PICK n \in Nat : n = next
        BY <3>1
      <4>2. HandedOn' = Before(n)
        BY <2>1, <2>2, <2>7, <2>9, <3>1, <4>1
      <4>3. search_offset' = n
        BY <2>9, <4>1
      <4>4. Before(search_offset)' = Before(n)'
        BY <4>3 DEF Before
      <4>5. Before(n)' = Before(n)
        BY <1>3
      <4> QED
        BY <4>2, <4>4, <4>5
    <3>3. \A i \in DOMAIN nalus' : nalus'[i].hi <= next /\ ~nalus'[i].m
      <4>1. \A i \in DOMAIN nalus : nalus[i].hi <= next /\ ~nalus[i].m
        <5>1. \A i \in DOMAIN nalus : nalus[i].hi \in Nat
          <6>1. ASSUME NEW i \in DOMAIN nalus PROVE nalus[i] \in Nalu
            BY <1>2, ElementOfSeq
          <6>2. \A x \in Nalu : x.hi \in Nat
            BY <1>2 DEF Nalu
          <6> QED
            BY <6>1, <6>2
        <5> QED
          BY <2>2, <2>4, <2>5, <3>1, <5>1
      <4>2. CASE hi > lo
        <5>1. \A i \in DOMAIN nalus' : i \in DOMAIN nalus \/ i = Len(nalus) + 1
          BY <1>2, <2>6, <4>2
        <5>2. e.hi <= next /\ ~e.m
          BY <2>1, <2>3, <2>9, <3>1
        <5> QED
          BY <2>6, <4>1, <4>2, <5>1, <5>2
      <4>3. CASE ~(hi > lo)
        BY <2>6, <4>1, <4>3
      <4> QED
        BY <4>2, <4>3
    <3>4. \E s \in Nat : s >= next /\ Three(s)'
      BY <1>3, <2>1, <2>2, <2>9
    <3>5. Turning'
      BY <1>3, <2>6, <2>9, <3>2, <3>3, <3>4 DEF Turning
    <3>6. AnnexBTypeOK'
      BY <1>1, <1>2, <2>6, <2>9, <3>1 DEF AnnexBTypeOK, size
    <3> QED
      BY <1>1, <2>9, <3>5, <3>6 DEF SplitInv, SplitIsAnnexB, MarkerOnLast
  <2> QED
    BY <1>5, <2>8, <2>9
<1> QED
  BY <1>1, <1>4, <1>5

(* A NALU that is not handed on: it is the one of the first start code at  *)
(* or behind search_offset, and whatever else is not out is behind it.     *)
LEMMA SplitRefused ==
  ASSUME SplitInv, Refused
  PROVE  SplitInv'
<1> DEFINE pos == FindStartCode(search_offset)
           lo == pos + CodeLen(pos)
           next == FindStartCode(lo)
           hi == Trimmed(lo, IF next < 0 THEN Len(buf) ELSE next)
<1>1. /\ stage = "loop" /\ Turning /\ UNCHANGED <<kind, buf, search_offset>> /\ AnnexBTypeOK
      /\ pos >= 0 /\ hi > lo /\ stage' = "failed"
      /\ nalus' = IF kind = "file" THEN <<>> ELSE nalus
  BY DEF Refused, SplitInv, size
<1>2. /\ buf \in Seq(Bytes) /\ Len(buf) \in Nat /\ Len(buf) <= MaxBuffer
      /\ search_offset \in Nat /\ search_offset \in 0..MaxBuffer
      /\ nalus \in Seq(Nalu)
      /\ Len(nalus) \in Nat /\ DOMAIN nalus = 1..Len(nalus) /\ kind \in {"file", "pack"}
  BY SplitTypes
<1>3. Meant' = Meant
  BY <1>1, BufferStays
<1>4. PICK t \in Nat :
         /\ Three(t) /\ t >= search_offset /\ lo = t + 3
         /\ Segment(t+2) = [lo |-> lo, hi |-> hi]
         /\ hi \in lo..Len(buf)
  <2>1. ~(pos < 0)
    <3>1. \A f \in Nat \cup {-1} : (~(f < 0) <=> f >= 0)
      OBVIOUS
    <3>2. pos \in Nat \cup {-1}
      BY <1>2, FindFacts
    <3> QED
      BY <1>1, <3>1, <3>2
  <2> QED
    BY <1>2, <2>1, TurnFacts
<1> HIDE DEF pos, lo, next, hi
<1>5. /\ HandedOn = Before(search_offset) /\ InOrder
      /\ \A i \in DOMAIN nalus : nalus[i].hi <= search_offset /\ ~nalus[i].m
  BY <1>1 DEF Turning
<1>6. \A s \in HandedOn : s.hi <= search_offset
  BY <1>5 DEF HandedOn
<1>7. ASSUME NEW u \in Nat, Three(u), Segment(u+2).hi > Segment(u+2).lo
      PROVE  Segment(u+2) \in Meant /\ Segment(u+2).lo = u + 3
  <2>1. u + 3 <= Len(buf) /\ (u+2)-2 = u
    BY <1>7 DEF Three, size
  <2>2. u+2 \in Ones
    BY <1>2, <1>7, <2>1 DEF Ones, size
  <2>3. Segment(u+2).lo = u + 3
    BY DEF Segment
  <2> QED
    BY <1>7, <2>2, <2>3 DEF Meant
<1>8. HandedOn \subseteq Meant
  BY <1>5, <1>7 DEF Before
<1>9. HandedOn /= Meant
  <2>1. Segment(t+2) \in Meant /\ Segment(t+2).hi > search_offset
    BY <1>1, <1>2, <1>4, <1>7
  <2>2. ~(Segment(t+2).hi <= search_offset)
    BY <1>1, <1>2, <1>4
  <2> QED
    BY <1>6, <2>1, <2>2
<1>10. ASSUME NEW s \in HandedOn, NEW r \in Meant \ HandedOn PROVE s.hi < r.lo
  <2>1. PICK i \in Ones : r = Segment(i) /\ r.hi > r.lo
    BY DEF Meant
  <2>2. i \in 2..Len(buf)-1 /\ Three(i-2)
    BY <2>1 DEF Ones, size
  <2>3. PICK u \in Nat : u = i-2 /\ u+2 = i
    BY <1>2, <2>2
  <2>4. ~(u < search_offset)
    <3>1. r \notin Before(search_offset)
      BY <1>5
    <3> QED
      BY <2>1, <2>2, <2>3, <3>1 DEF Before
  <2>5. r.lo = u + 3
    BY <1>7, <2>1, <2>2, <2>3
  <2>6. s.hi <= search_offset /\ s.hi \in Nat
    <3>1. PICK j \in DOMAIN nalus : s = [lo |-> nalus[j].lo, hi |-> nalus[j].hi]
      BY DEF HandedOn
    <3>2. nalus[j] \in Nalu
      BY <1>2, ElementOfSeq
    <3> QED
      BY <1>6, <3>1, <3>2 DEF Nalu
  <2> QED
    BY <1>2, <2>4, <2>5, <2>6
<1>11. AnnexBTypeOK'
  BY <1>1, <1>2 DEF AnnexBTypeOK, size
<1>12. CASE kind = "file"
  <2>1. nalus' = <<>> /\ HandedOn' = {} /\ Meant /= {}
    BY <1>1, <1>8, <1>9, <1>12 DEF HandedOn
  <2> QED
    BY <1>1, <1>3, <1>11, <2>1 DEF SplitInv, SplitIsAnnexB, MarkerOnLast
<1>13. CASE kind /= "file"
  <2>1. nalus' = nalus /\ HandedOn' = HandedOn /\ kind' /= "file"
    BY <1>1, <1>13 DEF HandedOn
  <2>2. SplitIsAnnexB'
    BY <1>1, <1>3, <1>5, <1>8, <1>9, <1>10, <1>11, <2>1 DEF SplitIsAnnexB, InOrder
  <2> QED
    BY <1>1, <1>5, <1>11, <2>1, <2>2 DEF SplitInv, MarkerOnLast
<1> QED
  BY <1>12, <1>13

LEMMA SplitStep ==
  ASSUME SplitInv, [AnnexBNext]_(annexbVars)
  PROVE  SplitInv'
<1>1. CASE UNCHANGED annexbVars
  <2>1. UNCHANGED <<kind, buf, stage, search_offset, nalus>>
    BY <1>1 DEF annexbVars
  <2>2. /\ Meant' = Meant /\ Ones' = Ones
        /\ Before(search_offset)' = Before(search_offset)
        /\ StartsWithStartCode' <=> StartsWithStartCode
        /\ \A i \in Int : (Three(i) <=> Three(i)') /\ At(i)' = At(i)
    <3>1. PICK n \in Nat : n = search_offset
      BY SplitTypes
    <3>2. Before(search_offset)' = Before(n)'
      BY <2>1, <3>1 DEF Before
    <3> QED
      BY <2>1, <3>1, <3>2, BufferStays
  <2>3. AnnexBTypeOK' /\ (stage' = "start" => nalus' = <<>> /\ search_offset' = 0)
    BY <2>1 DEF SplitInv, AnnexBTypeOK, size
  <2>4. stage' = "loop" => Turning'
    BY <2>1, <2>2 DEF SplitInv, Turning, HandedOn, InOrder
  <2>5. SplitIsAnnexB'
    <3>1. HandedOn' = HandedOn
      BY <2>1 DEF HandedOn
    <3> QED
      BY <2>1, <2>2, <2>3, <3>1 DEF SplitInv, SplitIsAnnexB
  <2>6. MarkerOnLast'
    <3>1. size' = size /\ size \in Int
      BY <2>1, SplitTypes DEF size
    <3>2. ASSUME NEW i \in Ones, \A j \in i+1..size-1 : At(j) = 0
          PROVE  i \in Ones' /\ \A j \in i+1..size'-1 : At(j)' = 0
      <4>1. i \in Int
        BY <3>1 DEF Ones
      <4> QED
        BY <2>2, <3>1, <3>2, <4>1
    <3> QED
      BY <2>1, <3>2 DEF SplitInv, MarkerOnLast
  <2> QED
    BY <2>3, <2>4, <2>5, <2>6 DEF SplitInv
<1> QED
  BY <1>1, SplitStart, SplitTurn, SplitRefused DEF AnnexBNext, Finished

(* The loop of load_annexb_nalus, send_h265_buffer_rtp and the two others  *)
(* cuts any buffer into the NALUs that Annex B means, in order, and its    *)
(* offsets stay within the buffer.                                         *)
THEOREM SplitCorrect == AnnexBSpec => []SplitIsAnnexB
<1>1. SplitInv => SplitIsAnnexB
  BY DEF SplitInv
<1> QED
  BY SplitInitInv, SplitStep, <1>1, PTL DEF AnnexBSpec

(* The marker of send_h265_buffer_rtp goes with the last NALU and no       *)
(* other, or is lost only to a start code with nothing but zeros behind.   *)
THEOREM MarkerCorrect == AnnexBSpec => []MarkerOnLast
<1>1. SplitInv => MarkerOnLast
  BY DEF SplitInv
<1> QED
  BY SplitInitInv, SplitStep, <1>1, PTL DEF AnnexBSpec
===============================================================================
