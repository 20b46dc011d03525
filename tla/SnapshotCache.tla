----------------------------- MODULE SnapshotCache -----------------------------
(***************************************************************************)
(* src/datafifo_snapshot.c: what a snapshot is made of.  Only frames the   *)
(* big core flags come here.  Their NALUs are collected in an access unit  *)
(* (AU); the parameter sets seen, the pictures since the last random       *)
(* access picture (IRAP) and that picture itself are cached; the snapshot  *)
(* is the cached sets followed by the cached pictures, and the writer      *)
(* takes its first picture (src/snapshot_writer.c, -frames:v 1).           *)
(***************************************************************************)
EXTENDS Naturals, SequencesExt

CONSTANTS ParamKinds,   \* VPS, SPS and PPS
          Cfgs,         \* encoder configurations
          MaxFrames,    \* frames the big core submits
          MaxGop,       \* H265_SNAPSHOT_MAX_GOP_BYTES, counted in NALUs
          MaxCacheFaults  \* failing mmap and realloc calls

ASSUME CacheAssumption ==
  /\ ParamKinds /= {} /\ IsFiniteSet(ParamKinds)
  /\ ParamKinds \cap {"irap", "delta", "torn"} = {}
  /\ Cfgs \subseteq Nat \ {0}
  /\ MaxFrames \in Nat /\ MaxGop \in Nat \ {0} /\ MaxCacheFaults \in Nat

NoCfg == 0

VARIABLES
  frame_no,       \* the last frame submitted: its seq and its pts
  enc,            \* the encoder's configuration
  pc,             \* idle, packs or finish
  packs,          \* the packs of the flagged frame not copied yet
  au, has_irap,   \* h265_snapshot_frame_t
  sets,           \* g_h265_snapshot_cache.vps, .sps, .pps
  current_gop, current_gop_has_irap, current_gop_pts,
  last_irap,
  out, out_pts,   \* the snapshot of the last flagged frame: empty if none
  writer_ready,
  cache_faults,
  spoilt          \* history: frames one of whose packs was given up

cache == <<sets, current_gop, current_gop_has_irap, current_gop_pts, last_irap>>
frameVars == <<packs, au, has_irap>>
cacheVars == <<frame_no, enc, pc, frameVars, cache, out, out_pts, writer_ready, cache_faults,
               spoilt>>

(* A NALU knows the frame it came with.  A torn one is a start code with   *)
(* nothing behind it.                                                      *)
Nalu == [kind : ParamKinds \cup {"irap", "delta", "torn"}, cfg : Cfgs,
         frame : 1..MaxFrames]

CacheTypeOK ==
  /\ frame_no \in 0..MaxFrames /\ enc \in Cfgs
  /\ pc \in {"idle", "packs", "finish"}
  /\ packs \in Seq(Seq(Nalu)) /\ au \in Seq(Nalu) /\ has_irap \in BOOLEAN
  /\ sets \in [ParamKinds -> Cfgs \cup {NoCfg}]
  /\ current_gop \in Seq(Nalu) /\ Len(current_gop) <= MaxGop
  /\ current_gop_has_irap \in BOOLEAN /\ current_gop_pts \in 0..MaxFrames
  /\ last_irap \in Seq(Nalu)
  /\ out \in Seq(Nalu) /\ out_pts \in 0..MaxFrames
  /\ writer_ready \in BOOLEAN /\ cache_faults \in 0..MaxCacheFaults
  /\ spoilt \subseteq 1..MaxFrames

CacheInit ==
  /\ frame_no = 0 /\ enc \in Cfgs
  /\ pc = "idle" /\ packs = <<>> /\ au = <<>> /\ has_irap = FALSE
  /\ sets = [k \in ParamKinds |-> NoCfg]
  /\ current_gop = <<>> /\ current_gop_has_irap = FALSE /\ current_gop_pts = 0
  /\ last_irap = <<>>
  /\ out = <<>> /\ out_pts = 0
  /\ writer_ready \in BOOLEAN /\ cache_faults = 0 /\ spoilt = {}

CacheFault == cache_faults < MaxCacheFaults /\ cache_faults' = cache_faults + 1

-----------------------------------------------------------------------------
(* Frames (big core): a key picture follows its parameter sets, in one     *)
(* pack or two; any frame may be flagged.                                  *)
Group(c, n) == SetToSeq({[kind |-> k, cfg |-> c, frame |-> n] : k \in ParamKinds})
Key(c, n) == [kind |-> "irap", cfg |-> c, frame |-> n]
KeyFrames(c, n) == {<<Append(Group(c, n), Key(c, n))>>, <<Group(c, n), <<Key(c, n)>>>>}
DeltaFrame(c, n) == <<<<[kind |-> "delta", cfg |-> c, frame |-> n]>>>>

(* datafifo_snapshot_process begins; a frame without the flag is passed by. *)
Frame ==
  /\ pc = "idle" /\ frame_no < MaxFrames
  /\ frame_no' = frame_no + 1
  /\ \E c \in Cfgs, flagged \in BOOLEAN :
       \E f \in KeyFrames(c, frame_no + 1)
                \cup (IF c = enc THEN {DeltaFrame(c, frame_no + 1)} ELSE {}) :
         /\ enc' = c
         /\ IF flagged THEN pc' = "packs" /\ packs' = f ELSE UNCHANGED <<pc, packs>>
  /\ au' = <<>> /\ has_irap' = FALSE /\ out' = <<>> /\ out_pts' = 0
  /\ UNCHANGED <<cache, writer_ready, cache_faults, spoilt>>

(* A pack that cannot be mapped ends the snapshot, but not what its other  *)
(* packs have put into the cache.                                          *)
MapFails ==
  /\ pc = "packs" /\ packs /= <<>> /\ CacheFault
  /\ pc' = "idle" /\ packs' = <<>>
  /\ UNCHANGED <<frame_no, enc, au, has_irap, cache, out, out_pts, writer_ready, spoilt>>

(* The sets after the first k NALUs of pack p. *)
SetsAfter(p, k) ==
  [q \in ParamKinds |->
     LET at == {i \in 1..k : p[i].kind = q}
     IN IF at = {} THEN sets[q] ELSE p[Max(at)].cfg]

(* h265_snapshot_feed_buffer: every NALU of the pack is appended to the AU *)
(* and, if it is a parameter set, replaces the cached one.  When memory    *)
(* runs out, either a cached set is emptied, or the rest of the pack is    *)
(* given up -- after has_irap was set for the NALU it failed at, of which  *)
(* the start code may have found room.  No NALU is passed by: copy_au,     *)
(* which datafifo_snapshot_process sets, keeps them all.                   *)
Feed(p) ==
  \E k \in 0..Len(p) :
    /\ \/ au' = au \o SubSeq(p, 1, k)
       \/ k < Len(p) /\ au' = au \o Append(SubSeq(p, 1, k), [p[k+1] EXCEPT !.kind = "torn"])
    /\ has_irap' = (has_irap \/ \E i \in DOMAIN p : i <= k + 1 /\ p[i].kind = "irap")
    /\ \/ k = Len(p) /\ sets' = SetsAfter(p, k) /\ UNCHANGED cache_faults
       \/ k < Len(p) /\ sets' = SetsAfter(p, k) /\ CacheFault
       \/ /\ k = Len(p) /\ CacheFault
          /\ \E i \in DOMAIN p : /\ p[i].kind \in ParamKinds
                                /\ sets' = [SetsAfter(p, k) EXCEPT ![p[i].kind] = NoCfg]
    /\ spoilt' = IF k < Len(p) THEN spoilt \cup {frame_no} ELSE spoilt

FeedPack ==
  /\ pc = "packs" /\ packs /= <<>>
  /\ Feed(Head(packs))
  /\ packs' = Tail(packs)
  /\ pc' = IF Tail(packs) = <<>> THEN "finish" ELSE "packs"
  /\ UNCHANGED <<frame_no, enc, current_gop, current_gop_has_irap, current_gop_pts,
                 last_irap, out, out_pts, writer_ready>>

(* What the GOP is before this AU: an IRAP begins a new one. *)
OldGop == IF has_irap THEN <<>> ELSE current_gop

(* Variant: the GOP that grew too large is emptied but still called one. *)
UpdateGopKeepsFlag(room) ==
  \/ /\ au = <<>> \/ ~(has_irap \/ current_gop_has_irap)
     /\ UNCHANGED <<current_gop, current_gop_has_irap, current_gop_pts>>
  \/ /\ au /= <<>> /\ (has_irap \/ current_gop_has_irap)
     /\ current_gop_pts' = IF has_irap THEN frame_no ELSE current_gop_pts
     /\ current_gop' = IF room /\ Len(OldGop) + Len(au) <= MaxGop THEN OldGop \o au ELSE <<>>
     /\ current_gop_has_irap' = TRUE

(* Variant: the GOP keeps the time of its last picture. *)
UpdateGopLatestPts(room) ==
  \/ /\ au = <<>> \/ ~(has_irap \/ current_gop_has_irap)
     /\ UNCHANGED <<current_gop, current_gop_has_irap, current_gop_pts>>
  \/ /\ au /= <<>> /\ (has_irap \/ current_gop_has_irap)
     /\ current_gop_pts' = frame_no
     /\ \/ /\ room /\ Len(OldGop) + Len(au) <= MaxGop
           /\ current_gop' = OldGop \o au
           /\ current_gop_has_irap' = TRUE
        \/ /\ ~room \/ Len(OldGop) + Len(au) > MaxGop
           /\ current_gop' = <<>>
           /\ current_gop_has_irap' = FALSE

(* h265_snapshot_update_gop_cache: an AU without a GOP to belong to is not *)
(* kept; a GOP that grows too large, or finds no room, is dropped.         *)
UpdateGop(room) ==
  \/ /\ au = <<>> \/ ~(has_irap \/ current_gop_has_irap)
     /\ UNCHANGED <<current_gop, current_gop_has_irap, current_gop_pts>>
  \/ /\ au /= <<>> /\ (has_irap \/ current_gop_has_irap)
     /\ current_gop_pts' = IF has_irap THEN frame_no ELSE current_gop_pts
     /\ \/ /\ room /\ Len(OldGop) + Len(au) <= MaxGop
           /\ current_gop' = OldGop \o au
           /\ current_gop_has_irap' = TRUE
        \/ /\ ~room \/ Len(OldGop) + Len(au) > MaxGop
           /\ current_gop' = <<>>
           /\ current_gop_has_irap' = FALSE

HaveParams == \A k \in ParamKinds : sets[k] /= NoCfg
CachedParams == SetToSeq({[kind |-> k, cfg |-> sets[k], frame |-> frame_no] : k \in ParamKinds})

GopCached == current_gop_has_irap /\ current_gop /= <<>>

(* h265_snapshot_build_output: the GOP if there is one, else the last IRAP *)
(* by itself.  The GOP goes out under the time of its IRAP, the last IRAP  *)
(* under the time of the frame that was flagged now.                       *)
BuildOutput(room) ==
  \/ /\ writer_ready /\ room /\ HaveParams /\ GopCached'
     /\ out' = CachedParams \o current_gop' /\ out_pts' = current_gop_pts'
  \/ /\ writer_ready /\ room /\ HaveParams
     /\ ~GopCached' /\ last_irap' /= <<>>
     /\ out' = CachedParams \o last_irap' /\ out_pts' = frame_no
  \/ /\ ~writer_ready \/ ~room \/ ~HaveParams \/ (~GopCached' /\ last_irap' = <<>>)
     /\ UNCHANGED <<out, out_pts>>

(* The rest of datafifo_snapshot_process.  Each of its three buffers may   *)
(* find no memory; last_irap is emptied before it is filled.               *)
Finish ==
  /\ pc = "finish"
  /\ \E gop_room, irap_room, out_room \in BOOLEAN :
       /\ IF gop_room /\ irap_room /\ out_room THEN UNCHANGED cache_faults ELSE CacheFault
       /\ UpdateGop(gop_room)
       /\ last_irap' = IF ~has_irap \/ au = <<>> THEN last_irap
                       ELSE IF irap_room THEN au ELSE <<>>
       /\ BuildOutput(out_room)
  /\ pc' = "idle"
  /\ UNCHANGED <<frame_no, enc, frameVars, sets, writer_ready, spoilt>>

CacheNext == Frame \/ MapFails \/ FeedPack \/ Finish

CacheSpec == CacheInit /\ [][CacheNext]_cacheVars

-----------------------------------------------------------------------------
(* The first picture of the snapshot, which is the one that is saved.      *)
Pictures == {i \in DOMAIN out : out[i].kind \in {"irap", "delta"}}
First == out[Min(Pictures)]

(* The set of kind k in effect at position n. *)
InEffect(k, n) == out[Max({i \in 1..n : out[i].kind = k})].cfg

(* The frame that what follows the cached sets begins with. *)
BeginsWith == out[Len(CachedParams) + 1].frame

(* "cannot build playable stream": what is built instead of this message   *)
(* starts with a random access picture, and with the sets it refers to,    *)
(* whatever was flagged, however large it was and whatever has failed, but *)
(* for one case: a pack of the very frame it begins with was given up.     *)
(* Then it may hold no random access picture at all.                       *)
PlayableSnapshot ==
  out /= <<>> /\ BeginsWith \notin spoilt =>
    /\ Pictures /= {} /\ First.kind = "irap"
    /\ \A k \in ParamKinds : InEffect(k, Min(Pictures)) = First.cfg

(* current_gop_has_irap and the bytes of current_gop are two fields set at *)
(* different places; whatever failed, they say the same between frames,    *)
(* a GOP is as old as its time says, and it stays within its limit.        *)
GopIsConsistent ==
  /\ CacheTypeOK
  /\ current_gop_has_irap <=> current_gop /= <<>>
  /\ current_gop /= <<>> => current_gop[1].frame = current_gop_pts
===============================================================================
