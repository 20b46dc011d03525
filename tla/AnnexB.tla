-------------------------------- MODULE AnnexB --------------------------------
(***************************************************************************)
(* The splitter of Annex-B byte streams.  The repository has one loop in   *)
(* four places: load_annexb_nalus and send_h265_buffer_rtp (src/rtp.c),    *)
(* datafifo_process_h265_buffer_for_playback (src/RTSP_Create.c) and       *)
(* h265_snapshot_feed_buffer (src/datafifo_snapshot.c).  A file is always  *)
(* split; a pack is split only if it begins with a start code, and is      *)
(* taken for one raw NALU otherwise.  Offsets are those of the code, so    *)
(* byte i of the buffer is buf[i + 1] here.  What a caller is told of a    *)
(* buffer that holds no NALU at all (rtp.c calls it a failure, the others  *)
(* do not) is left out.                                                    *)
(***************************************************************************)
EXTENDS Integers, Sequences, FiniteSetsExt

CONSTANTS Bytes,        \* values of a byte: 0, 1 and what stands for the others
          MaxBuffer    \* the longest buffer

ASSUME AnnexBAssumption ==
  Bytes \subseteq 0..255 /\ {0, 1} \subseteq Bytes /\ MaxBuffer \in Nat

VARIABLES
  kind,            \* file or pack
  buf,
  stage,           \* start, loop, done or failed
  search_offset,
  nalus            \* the NALUs handed on (stored, sent or snapshotted):
                   \* first byte, byte behind the last,
                   \* and whether the last marker goes with it

annexbVars == <<kind, buf, stage, search_offset, nalus>>

size == Len(buf)
At(i) == buf[i + 1]

(* A start code at offset i; its length, 4 if there is a zero more. *)
Three(i) == i + 3 <= size /\ At(i) = 0 /\ At(i+1) = 0 /\ At(i+2) = 1
Four(i) == i + 4 <= size /\ At(i) = 0 /\ At(i+1) = 0 /\ At(i+2) = 0 /\ At(i+3) = 1
CodeLen(i) == IF Three(i) THEN 3 ELSE 4

(* Variant: the last position is not searched. *)
FindStartCodeShort(from) ==
  LET found == {i \in from..size : i + 3 < size /\ (Three(i) \/ Four(i))}
  IN IF found = {} THEN -1 ELSE Min(found)

(* find_start_code: the first start code at or behind from, or -1. *)
FindStartCode(from) ==
  LET found == {i \in from..size : Three(i) \/ Four(i)}
  IN IF found = {} THEN -1 ELSE Min(found)

StartsWithStartCode == Three(0) \/ Four(0)

(* The end of a NALU that begins at lo, trailing zeros removed. *)
Trimmed(lo, hi) ==
  LET keep == {h \in lo+1..hi : At(h - 1) /= 0}
  IN IF keep = {} THEN lo ELSE Max(keep)

Nalu == [lo : 0..MaxBuffer, hi : 0..MaxBuffer, m : BOOLEAN]

AnnexBTypeOK ==
  /\ kind \in {"file", "pack"}
  /\ buf \in Seq(Bytes) /\ size <= MaxBuffer
  /\ stage \in {"start", "loop", "done", "failed"}
  /\ search_offset \in 0..MaxBuffer
  /\ nalus \in Seq(Nalu)

AnnexBInit ==
  /\ kind \in {"file", "pack"}
  /\ buf \in UNION {[1..n -> Bytes] : n \in 1..MaxBuffer}
  /\ stage = "start" /\ search_offset = 0 /\ nalus = <<>>

-----------------------------------------------------------------------------
(* A pack without a start code in front is one raw NALU, which is handed   *)
(* on or not.                                                              *)
Start ==
  /\ stage = "start"
  /\ \/ /\ kind = "pack" /\ size < 2
        /\ stage' = "done" /\ UNCHANGED nalus
     \/ /\ kind = "pack" /\ size >= 2 /\ ~StartsWithStartCode
        /\ \/ nalus' = <<[lo |-> 0, hi |-> size, m |-> TRUE]>> /\ stage' = "done"
           \/ stage' = "failed" /\ UNCHANGED nalus
     \/ /\ kind = "file" \/ (size >= 2 /\ StartsWithStartCode)
        /\ stage' = "loop" /\ UNCHANGED nalus
  /\ UNCHANGED <<kind, buf, search_offset>>

(* Variant: every NALU gets the marker. *)
SplitMarksAll ==
  LET pos == FindStartCode(search_offset)
      lo == pos + CodeLen(pos)
      next == FindStartCode(lo)
      hi == Trimmed(lo, IF next < 0 THEN size ELSE next)
  IN /\ stage = "loop"
     /\ \/ pos < 0 /\ stage' = "done" /\ UNCHANGED <<search_offset, nalus>>
        \/ /\ pos >= 0
           /\ nalus' = IF hi > lo THEN Append(nalus, [lo |-> lo, hi |-> hi, m |-> TRUE]) ELSE nalus
           /\ \/ next < 0 /\ stage' = "done" /\ UNCHANGED search_offset
              \/ next >= 0 /\ search_offset' = next /\ UNCHANGED stage
     /\ UNCHANGED <<kind, buf>>

(* Variant: an empty NALU is skipped before search_offset moves. *)
SplitSticks ==
  LET pos == FindStartCode(search_offset)
      lo == pos + CodeLen(pos)
      next == FindStartCode(lo)
      hi == Trimmed(lo, IF next < 0 THEN size ELSE next)
  IN /\ stage = "loop"
     /\ \/ pos < 0 /\ stage' = "done" /\ UNCHANGED <<search_offset, nalus>>
        \/ pos >= 0 /\ hi <= lo /\ UNCHANGED <<stage, search_offset, nalus>>
        \/ /\ pos >= 0 /\ hi > lo
           /\ nalus' = Append(nalus, [lo |-> lo, hi |-> hi, m |-> next < 0])
           /\ \/ next < 0 /\ stage' = "done" /\ UNCHANGED search_offset
              \/ next >= 0 /\ search_offset' = next /\ UNCHANGED stage
     /\ UNCHANGED <<kind, buf>>

(* One turn: the NALU between this start code and the next one, or the end *)
(* of the buffer.  Only the NALU at the end of the buffer gets the marker. *)
Split ==
  LET pos == FindStartCode(search_offset)
      lo == pos + CodeLen(pos)
      next == FindStartCode(lo)
      hi == Trimmed(lo, IF next < 0 THEN size ELSE next)
  IN /\ stage = "loop"
     /\ \/ pos < 0 /\ stage' = "done" /\ UNCHANGED <<search_offset, nalus>>
        \/ /\ pos >= 0
           /\ nalus' = IF hi > lo THEN Append(nalus, [lo |-> lo, hi |-> hi, m |-> next < 0])
                       ELSE nalus
           /\ \/ next < 0 /\ stage' = "done" /\ UNCHANGED search_offset
              \/ next >= 0 /\ search_offset' = next /\ UNCHANGED stage
     /\ UNCHANGED <<kind, buf>>

(* Variant: a NALU that is not handed on is passed over. *)
RefusedGoesOn ==
  LET pos == FindStartCode(search_offset)
      lo == pos + CodeLen(pos)
      next == FindStartCode(lo)
  IN /\ stage = "loop" /\ pos >= 0
     /\ \/ next < 0 /\ stage' = "failed" /\ UNCHANGED search_offset
        \/ next >= 0 /\ search_offset' = next /\ UNCHANGED stage
     /\ UNCHANGED <<kind, buf, nalus>>

(* The NALU found is not handed on: it cannot be sent or stored.  The loop *)
(* is left at once; a file that is not stored whole is not stored at all.  *)
Refused ==
  LET pos == FindStartCode(search_offset)
      lo == pos + CodeLen(pos)
      next == FindStartCode(lo)
      hi == Trimmed(lo, IF next < 0 THEN size ELSE next)
  IN /\ stage = "loop" /\ pos >= 0 /\ hi > lo
     /\ stage' = "failed"
     /\ nalus' = IF kind = "file" THEN <<>> ELSE nalus
     /\ UNCHANGED <<kind, buf, search_offset>>

Finished == stage \in {"done", "failed"} /\ UNCHANGED annexbVars

AnnexBNext == Start \/ Split \/ Refused \/ Finished

AnnexBSpec == AnnexBInit /\ [][AnnexBNext]_annexbVars /\ WF_annexbVars(Start \/ Split \/ Refused)

-----------------------------------------------------------------------------
(* What Annex B means: NALUs are what lies between one 0 0 1 and the next, *)
(* without trailing zeros; nothing before the first 0 0 1 counts, and what *)
(* is empty is no NALU.                                                    *)
Ones == {i \in 2..size-1 : Three(i - 2)}
Segment(i) ==    \* what follows the 0 0 1 that ends at i, up to the next one
  LET next == {j \in Ones : j > i}
  IN [lo |-> i + 1, hi |-> Trimmed(i + 1, IF next = {} THEN size ELSE Min(next) - 2)]
Meant == {s \in {Segment(i) : i \in Ones} : s.hi > s.lo}

(* A file, or a pack that begins with a start code, is split into exactly  *)
(* its NALUs, in order; if one could not be handed on, those before it     *)
(* were, none behind it was, and of a file none; no offset ever leaves the *)
(* buffer.                                                                 *)
HandedOn == {[lo |-> nalus[i].lo, hi |-> nalus[i].hi] : i \in DOMAIN nalus}
SplitIsAnnexB ==
  /\ AnnexBTypeOK
  /\ stage \in {"done", "failed"} /\ (kind = "file" \/ StartsWithStartCode) =>
       /\ stage = "done" => HandedOn = Meant
       /\ stage = "failed" =>
            /\ HandedOn \subseteq Meant /\ HandedOn /= Meant
            /\ \A s \in HandedOn, t \in Meant \ HandedOn : s.hi < t.lo
            /\ kind = "file" => HandedOn = {}
       /\ \A i, j \in DOMAIN nalus : i < j => nalus[i].hi < nalus[j].lo

(* The marker goes with the last NALU and no other, unless the buffer ends *)
(* in a start code with nothing behind it: then it is lost, as it is when  *)
(* the loop is left before the end.                                        *)
MarkerOnLast ==
  /\ stage = "done" =>
       /\ \A i \in DOMAIN nalus : nalus[i].m => i = Len(nalus)
       /\ nalus /= <<>> /\ ~nalus[Len(nalus)].m =>
            \E i \in Ones : \A j \in i+1..size-1 : At(j) = 0
  /\ stage = "failed" => \A i \in DOMAIN nalus : ~nalus[i].m

(* The loop ends: every turn moves on. *)
SplitEnds == <>(stage \in {"done", "failed"})
===============================================================================
