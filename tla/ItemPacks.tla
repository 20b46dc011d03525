------------------------------- MODULE ItemPacks -------------------------------
(***************************************************************************)
(* What the sender thread does with the packs of one DATAFIFO item:        *)
(* nalu_datafifo_validate_msg, then for a flagged frame the snapshot pass  *)
(* and in any case the playback pass, which map each pack, read it and     *)
(* unmap it (src/nalu_datafifo.c, with the loops around it in              *)
(* src/datafifo_snapshot.c and src/RTSP_Create.c).  Physical and virtual   *)
(* addresses are numbers of bytes; a mapping is a set of pages.            *)
(***************************************************************************)
EXTENDS Naturals, Sequences, FiniteSets

CONSTANTS PageSize,    \* sysconf(_SC_PAGESIZE)
          MaxPacks,    \* MPP_NALU_IPC_MAX_PACKS
          MaxLen,      \* the longest pack taken for reasonable, 8 MiB
          Word,        \* 2^32: lengths are k_u32
          Messages,    \* what the big core may leave in an item
          Bases,       \* virtual pages at which mmap() may place a mapping
          MaxFaults    \* failing open(), mmap() and munmap() calls

(* A message: whether magic and version are right, its flag, its packs and *)
(* pack_cnt, which is read before any pack and may exceed the array.       *)
Pack == [phys : Nat, len : 0..Word-1]
Message == [genuine : BOOLEAN, snapshot : BOOLEAN, pack_cnt : 0..Word-1,
            packs : Seq(Pack), total_len : 0..Word-1]

(* No item: msg is NULL. *)
NoMessage == [genuine |-> FALSE, snapshot |-> FALSE, pack_cnt |-> 0,
              packs |-> <<>>, total_len |-> 0]

ASSUME PackAssumption ==
  /\ PageSize \in Nat \ {0} /\ Word \in Nat \ {0}
  /\ MaxPacks \in Nat \ {0} /\ MaxLen \in Nat /\ MaxPacks * MaxLen < Word
  /\ Messages \subseteq Message
  /\ \A m \in Messages : Len(m.packs) = MaxPacks
  /\ Bases \subseteq Nat /\ MaxFaults \in Nat

VARIABLES
  pc,        \* idle, header, packs, total, map, use or done
  msg,
  i,         \* the pack in hand, or one past the last
  sum_len,
  accepted,  \* what nalu_datafifo_validate_msg returned
  pass,      \* snapshot or playback
  pages,     \* <<virtual, physical>> pages mapped into the process
  virt,      \* where the pack in hand is mapped
  leaked,    \* the pages that a failing munmap() left behind
  faults

loopVars == <<i, sum_len, accepted>>
mapVars == <<pages, virt, leaked>>
vars == <<pc, msg, loopVars, pass, mapVars, faults>>

PacksTypeOK ==
  /\ pc \in {"idle", "header", "packs", "total", "map", "use", "done"}
  /\ msg \in Messages \cup {NoMessage}
  /\ i \in 1..MaxPacks+1 /\ sum_len \in 0..Word-1
  /\ accepted \in BOOLEAN /\ pass \in {"snapshot", "playback"}
  /\ pages \subseteq Nat \X Nat /\ leaked \subseteq pages
  /\ virt \in Nat /\ faults \in 0..MaxFaults

PacksInit ==
  /\ pc = "idle" /\ msg = NoMessage
  /\ i = 1 /\ sum_len = 0 /\ accepted = FALSE /\ pass = "playback"
  /\ pages = {} /\ virt = 0 /\ leaked = {} /\ faults = 0

Fault == faults < MaxFaults /\ faults' = faults + 1

pack == msg.packs[i]

-----------------------------------------------------------------------------
(* nalu_datafifo_validate_msg *)

(* An item is read: its message can be anything.  (The reader asks for its *)
(* validation at once; nothing is mapped yet.)                             *)
ReadItem ==
  /\ pc = "idle"
  /\ msg' \in Messages
  /\ pc' = "header"
  /\ UNCHANGED <<loopVars, pass, mapVars, faults>>

Reject == pc' = "done" /\ UNCHANGED loopVars

CheckHeader ==
  /\ pc = "header"
  /\ \/ (~msg.genuine \/ msg.pack_cnt = 0 \/ msg.pack_cnt > MaxPacks) /\ Reject
     \/ /\ msg.genuine /\ msg.pack_cnt \in 1..MaxPacks
        /\ pc' = "packs" /\ UNCHANGED loopVars
  /\ UNCHANGED <<msg, pass, mapVars, faults>>

(* Variant: the longest pack allowed is refused. *)
UnreasonableStrict == pack.len >= MaxLen \/ sum_len > Word - 1 - pack.len

Unreasonable == pack.len > MaxLen \/ sum_len > Word - 1 - pack.len

CheckPack ==
  /\ pc = "packs" /\ i <= msg.pack_cnt
  /\ \/ (pack.phys = 0 \/ pack.len = 0 \/ Unreasonable) /\ Reject
     \/ /\ pack.phys /= 0 /\ pack.len /= 0 /\ ~Unreasonable
        /\ sum_len' = (sum_len + pack.len) % Word
        /\ i' = i + 1
        /\ UNCHANGED <<pc, accepted>>
  /\ UNCHANGED <<msg, pass, mapVars, faults>>

(* After the loop.  A message that is good goes to the snapshot pass if it *)
(* is flagged, and to playback; one whose number was passed already is     *)
(* only given back.                                                        *)
CheckTotal ==
  /\ pc = "packs" /\ i > msg.pack_cnt
  /\ \/ msg.total_len /= 0 /\ msg.total_len /= sum_len /\ Reject /\ UNCHANGED pass
     \/ /\ msg.total_len \in {0, sum_len}
        /\ accepted' = TRUE /\ i' = 1 /\ pc' \in {"map", "done"}
        /\ pass' = IF msg.snapshot THEN "snapshot" ELSE "playback"
        /\ UNCHANGED sum_len
  /\ UNCHANGED <<msg, mapVars, faults>>

-----------------------------------------------------------------------------
(* Mapping *)

RoundDown(n) == n - (n % PageSize)           \* n & ~page_mask
PageOffset(p) == p.phys % PageSize           \* phys_addr & page_mask

(* Variant: the part of the first page in front of the pack is forgotten. *)
MmapSizeShort(p) == RoundDown(p.len + PageSize - 1)

MmapSize(p) == RoundDown(p.len + PageOffset(p) + PageSize - 1)

(* The virtual pages of size bytes from addr on. *)
Span(addr, size) ==
  {addr \div PageSize + k : k \in 0..(size \div PageSize) - 1}

(* On to the next pack, the playback pass, or the end of the item. *)
NextPack ==
  \/ i < msg.pack_cnt /\ i' = i + 1 /\ pc' = "map" /\ UNCHANGED pass
  \/ /\ i = msg.pack_cnt /\ pass = "snapshot"
     /\ pass' = "playback" /\ i' = 1 /\ pc' = "map"
  \/ i = msg.pack_cnt /\ pass = "playback" /\ pc' = "done" /\ UNCHANGED <<i, pass>>

(* little_sys_mmap: mmap() finds room for whole pages. *)
MapPack ==
  /\ pc = "map"
  /\ \E b \in Bases :
       LET span == Span(b * PageSize, MmapSize(pack))
           offset == RoundDown(pack.phys) \div PageSize
       IN /\ \A p \in pages : p[1] \notin span
          /\ pages' = pages \cup {<<v, offset + (v - b)>> : v \in span}
          /\ virt' = b * PageSize + PageOffset(pack)
  /\ pc' = "use"
  /\ UNCHANGED <<msg, loopVars, pass, leaked, faults>>

(* It fails: the snapshot pass gives up, the playback pass goes on with    *)
(* the next pack.                                                          *)
MapFails ==
  /\ pc = "map" /\ Fault
  /\ \/ pass = "snapshot" /\ pass' = "playback" /\ i' = 1 /\ UNCHANGED pc
     \/ pass = "playback" /\ NextPack
  /\ UNCHANGED <<msg, sum_len, accepted, mapVars>>

(* Variant: the mapping is taken to begin at the pack. *)
UnmapSpanAtPack == Span(virt, pack.len)

(* Variant: the size to unmap is rounded without what is in front. *)
MunmapSizeShort(p) == RoundDown(p.len + PageSize - 1)

(* little_sys_munmap has arithmetic of its own. *)
MunmapSize(p) == RoundDown(p.len + PageOffset(p) + PageSize - 1)

(* The pages that it computes anew from the pack. *)
UnmapSpan == Span(virt - PageOffset(pack), MunmapSize(pack))

(* The pack was read, or reading it failed halfway: it is unmapped.  What  *)
(* munmap() says changes nothing but a log line and a result.              *)
UnmapPack ==
  /\ pc = "use"
  /\ \/ /\ pages' = {p \in pages : p[1] \notin UnmapSpan}
        /\ UNCHANGED <<leaked, faults>>
     \/ Fault /\ leaked' = pages /\ UNCHANGED pages
  /\ NextPack
  /\ UNCHANGED <<msg, sum_len, accepted, virt>>

(* Variant: the sum is not set to 0 for the next message. *)
ReturnItemKeepsSum ==
  /\ pc = "done"
  /\ pc' = "idle" /\ msg' = NoMessage /\ pass' = "playback" /\ virt' = 0
  /\ i' = 1 /\ accepted' = FALSE
  /\ UNCHANGED <<sum_len, pages, leaked, faults>>

(* nalu_datafifo_read_done; the locals of the loop and of                  *)
(* nalu_datafifo_validate_msg start afresh with the next item.             *)
ReturnItem ==
  /\ pc = "done"
  /\ pc' = "idle" /\ msg' = NoMessage /\ pass' = "playback" /\ virt' = 0
  /\ i' = 1 /\ sum_len' = 0 /\ accepted' = FALSE
  /\ UNCHANGED <<pages, leaked, faults>>

PacksNext ==
  \/ ReadItem \/ CheckHeader \/ CheckPack \/ CheckTotal
  \/ MapPack \/ MapFails \/ UnmapPack \/ ReturnItem

PacksSpec == PacksInit /\ [][PacksNext]_vars

-----------------------------------------------------------------------------
(* The bytes of the first n packs of a message, one by one. *)
Bytes(m, n) == {b \in (1..n) \X (1..MaxLen) : b[2] <= m.packs[b[1]].len}

(* What a good message is, without loops and without a word size.          *)
Good(m) ==
  /\ m.genuine /\ m.pack_cnt \in 1..MaxPacks
  /\ \A k \in 1..m.pack_cnt : m.packs[k].phys /= 0 /\ m.packs[k].len \in 1..MaxLen
  /\ m.total_len \in {0, Cardinality(Bytes(m, m.pack_cnt))}

(* nalu_datafifo_validate_msg accepts the good messages and no others: its *)
(* 32-bit sum is the sum of the lengths, and of no earlier message's.      *)
AcceptsTheGood ==
  pc \in {"map", "use", "done"} => (accepted <=> Good(msg))

(* While a pack is read, every byte of it is there at its place: virt + n  *)
(* is the encoder's byte phys + n, also across the ends of pages.          *)
SeesWholePack ==
  pc = "use" => \A n \in 0..pack.len - 1 :
    /\ <<(virt + n) \div PageSize, (pack.phys + n) \div PageSize>> \in pages
    /\ (virt + n) % PageSize = (pack.phys + n) % PageSize

(* Between packs nothing is mapped but what a failing munmap() left: the   *)
(* region to unmap, computed anew, is the region that was mapped, for as   *)
(* many frames as there are.                                               *)
NothingStaysMapped == pc /= "use" => pages = leaked
===============================================================================
