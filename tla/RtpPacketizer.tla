----------------------------- MODULE RtpPacketizer -----------------------------
(***************************************************************************)
(* send_h265_nalu_rtp and send_rtp_packet (src/rtp.c): one NALU becomes    *)
(* one RTP packet, or a run of fragmentation units (FU) each carrying a    *)
(* slice of its bytes.  A packet is described by the slice it carries, its *)
(* header fields and its size; the first header byte of the NALU, which a  *)
(* FU takes apart, is kept as a number.  sendto() may fail at any packet.  *)
(***************************************************************************)
EXTENDS Integers, Sequences

CONSTANTS MaxPayload,   \* RTP_MAX_PAYLOAD
          FuHeader,     \* H265_FU_HEADER_SIZE
          SeqMod,       \* 2^16: seq is a uint16_t
          MaxLen,       \* the longest NALU
          HeaderBytes   \* first bytes of a NALU

ASSUME PacketizerAssumption ==
  /\ FuHeader \in Nat \ {0, 1}
  /\ MaxPayload \in Nat /\ MaxPayload > FuHeader
  /\ SeqMod \in Nat \ {0}
  /\ MaxLen \in Nat \ {0, 1}
  /\ HeaderBytes \subseteq 0..255

FuType == 49   \* H265_FU_TYPE

MaxFragmentData == MaxPayload - FuHeader

VARIABLES
  pc,        \* idle, whole, fragments or done
  nalu_len,
  byte0,     \* nalu[0]: forbidden bit, type, high bit of the layer
  marker,
  offset,    \* bytes of the NALU dealt with
  first,
  out,       \* the packets sent for this NALU
  seq,
  ret        \* 0 or -1

vars == <<pc, nalu_len, byte0, marker, offset, first, out, seq, ret>>

(* A packet: the bytes lo..hi-1 of the NALU, whether they are a fragment   *)
(* and with which S and E bits, the first byte of the payload, the type in *)
(* the FU header, the marker bit, the sequence number, the payload size.   *)
Packet == [lo : Nat, hi : Nat, fu : BOOLEAN, s : BOOLEAN, e : BOOLEAN,
           b0 : 0..255, type : 0..63, m : BOOLEAN, seq : 0..SeqMod-1, size : Nat]

Type(b) == (b \div 2) % 64

PacketizerTypeOK ==
  /\ pc \in {"idle", "whole", "fragments", "done"}
  /\ nalu_len \in 0..MaxLen /\ byte0 \in 0..255
  /\ marker \in BOOLEAN /\ first \in BOOLEAN
  /\ offset \in 0..MaxLen
  /\ out \in Seq(Packet)
  /\ seq \in 0..SeqMod-1 /\ ret \in {0, -1}

PacketizerInit ==
  /\ pc = "idle" /\ nalu_len = 0 /\ byte0 = 0 /\ marker = FALSE
  /\ offset = 0 /\ first = TRUE /\ out = <<>>
  /\ seq \in 0..SeqMod-1 /\ ret = 0

-----------------------------------------------------------------------------
(* A call: too short is refused, up to MaxPayload goes as it is. *)
Call(len, b, m) ==
  /\ pc \in {"idle", "done"}
  /\ nalu_len' = len /\ byte0' = b /\ marker' = m
  /\ offset' = 2 /\ first' = TRUE /\ out' = <<>>
  /\ \/ len < 2 /\ pc' = "done" /\ ret' = -1
     \/ len \in 2..MaxPayload /\ pc' = "whole" /\ ret' = 0
     \/ len > MaxPayload /\ pc' = "fragments" /\ ret' = 0
  /\ UNCHANGED seq

(* Variant: a packet that was not sent uses up its number. *)
FailsButCounts ==
  /\ pc = "whole" \/ (pc = "fragments" /\ offset < nalu_len)
  /\ pc' = "done" /\ ret' = -1
  /\ seq' = (seq + 1) % SeqMod
  /\ UNCHANGED <<nalu_len, byte0, marker, offset, first, out>>

(* Variant: the failure of a fragment is not reported. *)
FailsUnreported ==
  /\ pc = "whole" \/ (pc = "fragments" /\ offset < nalu_len)
  /\ pc' = "done"
  /\ UNCHANGED <<nalu_len, byte0, marker, offset, first, out, seq, ret>>

(* sendto() fails: nothing is counted, the rest is given up. *)
Fails ==
  /\ pc = "whole" \/ (pc = "fragments" /\ offset < nalu_len)
  /\ pc' = "done" /\ ret' = -1
  /\ UNCHANGED <<nalu_len, byte0, marker, offset, first, out, seq>>

SendWhole ==
  /\ pc = "whole"
  /\ out' = <<[lo |-> 0, hi |-> nalu_len, fu |-> FALSE, s |-> FALSE, e |-> FALSE,
               b0 |-> byte0, type |-> Type(byte0), m |-> marker, seq |-> seq,
               size |-> nalu_len]>>
  /\ seq' = (seq + 1) % SeqMod
  /\ pc' = "done"
  /\ UNCHANGED <<nalu_len, byte0, marker, offset, first, ret>>

(* The slice of the next fragment: what is left, at most MaxFragmentData. *)
FragmentSize ==
  IF nalu_len - offset > MaxFragmentData THEN MaxFragmentData ELSE nalu_len - offset

(* Variant: the mask is 0x80. *)
FuByte0LosesLayer == (byte0 \div 128) * 128 + FuType * 2

(* fu_payload[0]: nalu[0] & 0x81 with the FU type between. *)
FuByte0 == (byte0 \div 128) * 128 + FuType * 2 + (byte0 % 2)

(* Variant: the end is seen one fragment too late. *)
IsLastStrict == offset + FragmentSize > nalu_len

IsLast == offset + FragmentSize >= nalu_len

(* One turn of the FU loop. *)
SendFragment ==
  /\ pc = "fragments" /\ offset < nalu_len
  /\ out' = Append(out,
       [lo |-> offset, hi |-> offset + FragmentSize, fu |-> TRUE,
        s |-> first, e |-> IsLast, b0 |-> FuByte0, type |-> Type(byte0),
        m |-> (IsLast /\ marker), seq |-> seq, size |-> FuHeader + FragmentSize])
  /\ seq' = (seq + 1) % SeqMod
  /\ first' = FALSE
  /\ offset' = offset + FragmentSize
  /\ UNCHANGED <<pc, nalu_len, byte0, marker, ret>>

EndLoop ==
  /\ pc = "fragments" /\ offset >= nalu_len
  /\ pc' = "done"
  /\ UNCHANGED <<nalu_len, byte0, marker, offset, first, out, seq, ret>>

PacketizerNext ==
  \/ \E len \in 0..MaxLen, b \in HeaderBytes, m \in BOOLEAN : Call(len, b, m)
  \/ Fails \/ SendWhole \/ SendFragment \/ EndLoop

PacketizerSpec == PacketizerInit /\ [][PacketizerNext]_vars

-----------------------------------------------------------------------------
(* The fragments tile the NALU behind its two header bytes, in order and   *)
(* without a gap, as far as offset; the S bit is on the first of them, the *)
(* E bit on the one that reaches the end.                                  *)
FragmentsTile ==
  \A i \in DOMAIN out : out[i].fu =>
    /\ out[i].lo = (IF i = 1 THEN 2 ELSE out[i-1].hi)
    /\ out[i].lo < out[i].hi /\ out[i].hi <= nalu_len
    /\ out[i].s <=> i = 1
    /\ out[i].e <=> out[i].hi = nalu_len

(* RFC 7798 forbids a fragmented NALU of one fragment: S and E never meet. *)
NeverStartAndEnd == \A i \in DOMAIN out : ~(out[i].s /\ out[i].e)

(* Success means that all of the NALU is out, and failure that its end is  *)
(* not: the marker and the last byte went out with the last packet or not  *)
(* at all.                                                                 *)
CompleteIffSucceeded ==
  pc = "done" =>
    (ret = 0 <=> out /= <<>> /\ out[Len(out)].hi = nalu_len)

(* No payload is larger than RTP_MAX_PAYLOAD, the size fu_payload and the  *)
(* packet buffer were made for.                                            *)
PayloadFits == \A i \in DOMAIN out : out[i].size <= MaxPayload

(* Sequence numbers of a NALU's packets are consecutive, across the wrap   *)
(* and across calls: the next packet's number follows the last one's.      *)
SeqHasNoGap ==
  /\ \A i \in 1..Len(out)-1 : out[i+1].seq = (out[i].seq + 1) % SeqMod
  /\ out /= <<>> => seq = (out[Len(out)].seq + 1) % SeqMod

(* The receiver rebuilds nalu[0] from a FU: bits 7 and 0 of the payload's  *)
(* first byte, the type from the FU header.                                *)
Rebuilt(p) ==
  IF p.fu THEN (p.b0 \div 128) * 128 + p.type * 2 + (p.b0 % 2) ELSE p.b0

HeaderSurvives == \A i \in DOMAIN out : Rebuilt(out[i]) = byte0
===============================================================================
