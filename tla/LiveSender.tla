------------------------------ MODULE LiveSender ------------------------------
(***************************************************************************)
(* DATAFIFO mode: how datafifo_rtp_sender_loop gates a live stream for the *)
(* client that plays it (src/RTSP_Create.c), beside the control thread of  *)
(* RtspServer.  An item is one frame: packs, each of them NALUs.  The      *)
(* target is copied once per item; before the first NALU of a session the  *)
(* cached parameter sets are sent, and then everything up to an IDR is     *)
(* withheld.  One receiver, Watched, is followed to see what it can        *)
(* decode.  The ring the items come from is module DatafifoReader's        *)
(* subject; here the encoder's next item is there when it is read.         *)
(***************************************************************************)
EXTENDS RtspServer, Sequences

CONSTANTS Cfgs,        \* encoder configurations: what parameter sets say
          KeyKinds,    \* the random access pictures the encoder makes
          Watched,     \* the target whose reception is followed
          MaxFaults    \* how many sendto() or mmap calls may fail

ASSUME LiveAssumption ==
  /\ Cfgs \subseteq Nat \ {0}
  /\ KeyKinds \subseteq {"idr", "cra"}
  /\ Watched \in Targets
  /\ MaxFaults \in Nat

ParamKinds == {"vps", "sps", "pps"}
NoCfg == 0   \* nothing cached

VARIABLES
  pc,            \* read, target, map, nalu, sets, mark or send
  enc,           \* the encoder's configuration
  rest,          \* the packs of the item not processed yet, first one in hand
  can_send,      \* playing && dest_valid when the item was read
  dest,
  cached,        \* g_vps_cache, g_sps_cache, g_pps_cache: configuration or NoCfg
  wait_for_idr,
  rx,            \* Watched: the sets it holds, and whether it is decoding
  blind,         \* Watched got a picture of this session it cannot decode
  excuse,        \* what went wrong in this session that can explain it
  faults

itemVars == <<enc, rest>>
watchVars == <<rx, blind, excuse>>
senderVars == <<pc, itemVars, can_send, dest, cached, wait_for_idr, faults>>
vars == <<serverVars, senderVars, watchVars>>

Nalu == [kind : ParamKinds \cup KeyKinds \cup {"delta"}, cfg : Cfgs]
Excuses == {"race", "loss", "stale"}
Fresh == [sets |-> [k \in ParamKinds |-> NoCfg], synced |-> FALSE]

LiveTypeOK ==
  /\ ServerTypeOK
  /\ pc \in {"read", "target", "map", "nalu", "sets", "mark", "send"}
  /\ enc \in Cfgs
  /\ rest \in Seq(Seq(Nalu))
  /\ pc = "read" <=> rest = <<>>
  /\ can_send \in BOOLEAN
  /\ dest \in IF can_send THEN Targets ELSE Targets \cup NoTargets
  /\ cached \in [ParamKinds -> Cfgs \cup {NoCfg}]
  /\ wait_for_idr \in BOOLEAN
  /\ rx \in [sets : [ParamKinds -> Cfgs \cup {NoCfg}], synced : BOOLEAN]
  /\ blind \in BOOLEAN
  /\ excuse \subseteq Excuses
  /\ faults \in 0..MaxFaults

LiveInit ==
  /\ ServerInit
  /\ pc = "read"
  /\ enc \in Cfgs
  /\ rest = <<>>
  /\ can_send = FALSE
  /\ dest = g_client_addr
  /\ cached = [k \in ParamKinds |-> NoCfg]
  /\ wait_for_idr = FALSE
  /\ rx = Fresh
  /\ blind = FALSE
  /\ excuse = {}
  /\ faults = 0

-----------------------------------------------------------------------------
(* The receiver. *)

Decodes(n) ==
  IF n.kind = "delta" THEN rx.synced ELSE \A k \in ParamKinds : rx.sets[k] = n.cfg

(* Watched gets NALU n, if it is the target. *)
Receive(n) ==
  IF dest /= Watched THEN UNCHANGED <<rx, blind>>
  ELSE IF n.kind \in ParamKinds
  THEN rx' = [rx EXCEPT !.sets[n.kind] = n.cfg] /\ UNCHANGED blind
  ELSE rx' = [rx EXCEPT !.synced = Decodes(n)] /\ blind' = (blind \/ ~Decodes(n))

Blame(why) == excuse' = IF dest = Watched THEN excuse \cup {why} ELSE excuse

Fault == faults < MaxFaults /\ faults' = faults + 1

-----------------------------------------------------------------------------
(* The encoder (big core) *)

ParamGroup(c) == <<[kind |-> "vps", cfg |-> c], [kind |-> "sps", cfg |-> c],
                   [kind |-> "pps", cfg |-> c]>>

(* A frame of configuration c.  A random access picture comes after a full *)
(* group of parameter sets, in the same pack or in a pack of their own.    *)
KeyItems(c) ==
  LET key(k) == [kind |-> k, cfg |-> c]
  IN {<<Append(ParamGroup(c), key(k))>> : k \in KeyKinds}
       \cup {<<ParamGroup(c), <<key(k)>>>> : k \in KeyKinds}

DeltaItem(c) == <<<<[kind |-> "delta", cfg |-> c]>>>>

-----------------------------------------------------------------------------
nalu == Head(Head(rest))
HaveAllParameterSets == \A k \in ParamKinds : cached[k] /= NoCfg

(* On to the next NALU of the pack, the next pack, or the next item. *)
NextPack ==
  /\ rest' = Tail(rest)
  /\ pc' = IF Tail(rest) = <<>> THEN "read" ELSE "map"

NextNalu ==
  \/ /\ Len(Head(rest)) > 1
     /\ rest' = [rest EXCEPT ![1] = Tail(@)]
     /\ pc' = "nalu"
  \/ Len(Head(rest)) = 1 /\ NextPack

(* nalu_datafifo_read: the item is a key picture, perhaps the first of a   *)
(* new configuration, or a picture that depends on those before it.        *)
Read ==
  /\ pc = "read"
  /\ \/ \E c \in Cfgs : rest' \in KeyItems(c) /\ enc' = c
     \/ rest' = DeltaItem(enc) /\ UNCHANGED enc
  /\ pc' = "target"
  /\ UNCHANGED <<can_send, dest, cached, wait_for_idr, faults, watchVars, serverVars>>

(* Variant: the target is copied only when playback begins. *)
GetTargetKept ==
  /\ pc = "target"
  /\ can_send' = Playing
  /\ dest' = IF can_send THEN dest ELSE g_client_addr
  /\ pc' = "map"
  /\ UNCHANGED <<itemVars, cached, wait_for_idr, faults, watchVars, serverVars>>

(* get_rtsp_target: one locked copy of the session, used for the whole item. *)
GetTarget ==
  /\ pc = "target"
  /\ can_send' = Playing
  /\ dest' = g_client_addr
  /\ pc' = "map"
  /\ UNCHANGED <<itemVars, cached, wait_for_idr, faults, watchVars, serverVars>>

(* nalu_datafifo_mmap_pack: a pack that cannot be mapped is passed over. *)
MapPack ==
  /\ pc = "map"
  /\ \/ pc' = "nalu" /\ UNCHANGED <<rest, excuse, faults>>
     \/ /\ Fault
        /\ NextPack
        /\ IF can_send THEN Blame("loss") ELSE UNCHANGED excuse
  /\ UNCHANGED <<enc, can_send, dest, cached, wait_for_idr, rx, blind, serverVars>>

(* h265_cache_parameter_set: when there is no memory for a new one, the    *)
(* old one stays, and the caller does not look at the result.              *)
CacheParameterSet ==
  \/ /\ cached' = IF nalu.kind \in ParamKinds
                  THEN [cached EXCEPT ![nalu.kind] = nalu.cfg] ELSE cached
     /\ UNCHANGED faults
  \/ nalu.kind \in ParamKinds /\ Fault /\ UNCHANGED cached

(* datafifo_process_nalu_for_playback up to the locked read of             *)
(* g_need_parameter_sets: cache the NALU, then decide what comes first.    *)
BeginNalu ==
  /\ pc = "nalu"
  /\ CacheParameterSet
  /\ \/ /\ ~can_send /\ NextNalu
     \/ /\ can_send
        /\ pc' = IF g_need_parameter_sets THEN "sets" ELSE "send"
        /\ UNCHANGED rest
  /\ UNCHANGED <<enc, can_send, dest, wait_for_idr, watchVars, serverVars>>

(* Watched gets these of the cached sets. *)
DeliverSets(kinds) ==
  rx' = IF dest = Watched
        THEN [rx EXCEPT !.sets = [k \in ParamKinds |->
                                    IF k \in kinds THEN cached[k] ELSE rx.sets[k]]]
        ELSE rx

(* Variant: whatever is cached is sent, complete or not. *)
SendCachedIncomplete ==
  /\ pc = "sets"
  /\ pc' = "mark"
  /\ DeliverSets(ParamKinds)
  /\ UNCHANGED <<itemVars, can_send, dest, cached, wait_for_idr, faults, blind,
                 excuse, serverVars>>

(* send_cached_parameter_sets: nothing is sent before all three are known; *)
(* after a refusal or a failed send this NALU is dropped, and the next one *)
(* tries again.  VPS, SPS and PPS go out in this order, as far as sends    *)
(* succeed.  Sets older than the item's configuration are sent too.        *)
SendCached ==
  /\ pc = "sets"
  /\ \/ /\ HaveAllParameterSets
        /\ pc' = "mark"
        /\ DeliverSets(ParamKinds)
        /\ IF \E k \in ParamKinds : cached[k] /= nalu.cfg
           THEN Blame("stale") ELSE UNCHANGED excuse
        /\ UNCHANGED <<rest, faults>>
     \/ ~HaveAllParameterSets /\ NextNalu /\ UNCHANGED <<faults, rx, excuse>>
     \/ /\ HaveAllParameterSets /\ Fault /\ NextNalu
        /\ \E sent \in {{}, {"vps"}, {"vps", "sps"}} : DeliverSets(sent)
        /\ UNCHANGED excuse
  /\ UNCHANGED <<enc, can_send, dest, cached, wait_for_idr, blind, serverVars>>

(* Variant: the gate opens without waiting for an IDR. *)
MarkWithoutWait ==
  /\ pc = "mark"
  /\ g_need_parameter_sets' = FALSE
  /\ pc' = "send"
  /\ UNCHANGED <<itemVars, can_send, dest, cached, wait_for_idr, faults, watchVars,
                 ctl, conn, g_play, g_client_addr_set, g_client_addr>>

(* rtsp_mark_parameter_sets_sent, a second locked region, then             *)
(* *wait_for_idr = 1.                                                      *)
MarkSent ==
  /\ pc = "mark"
  /\ g_need_parameter_sets' = FALSE
  /\ wait_for_idr' = TRUE
  /\ pc' = "send"
  /\ UNCHANGED <<itemVars, can_send, dest, cached, faults, watchVars,
                 ctl, conn, g_play, g_client_addr_set, g_client_addr>>

(* The end of datafifo_process_nalu_for_playback: withhold everything but  *)
(* an IDR while waiting for one, else send.  The wait ends before the IDR  *)
(* is sent.  A failed send gives up the rest of the pack.                  *)
SendNalu ==
  /\ pc = "send"
  /\ \/ /\ wait_for_idr /\ nalu.kind /= "idr"
        /\ IF nalu.kind \in ParamKinds /\ rx.sets[nalu.kind] /= nalu.cfg
           THEN Blame("stale") ELSE UNCHANGED excuse
        /\ NextNalu
        /\ UNCHANGED <<wait_for_idr, faults, rx, blind>>
     \/ /\ ~(wait_for_idr /\ nalu.kind /= "idr")
        /\ wait_for_idr' = FALSE
        /\ \/ /\ Receive(nalu)
              /\ NextNalu
              /\ UNCHANGED <<faults, excuse>>
           \/ /\ Fault
              /\ Blame("loss")
              /\ rx' = IF dest = Watched THEN [rx EXCEPT !.synced = FALSE] ELSE rx
              /\ NextPack
              /\ UNCHANGED blind
  /\ UNCHANGED <<enc, can_send, dest, cached, serverVars>>

Sender ==
  Read \/ GetTarget \/ MapPack \/ BeginNalu \/ SendCached \/ MarkSent \/ SendNalu

-----------------------------------------------------------------------------
(* The control thread.  It can run between any two steps of an item that   *)
(* is being sent, and the item goes on with the target it began with.      *)
Busy == can_send /\ pc \notin {"read", "target"}

SetupSession ==
  /\ \E p \in Ports : Setup(p)
  /\ IF g_client_addr' = Watched
     THEN /\ rx' = Fresh
          /\ blind' = FALSE
          /\ excuse' = IF Busy /\ dest = Watched THEN {"race"} ELSE {}
     ELSE UNCHANGED watchVars
  /\ UNCHANGED senderVars

PlaySession ==
  /\ Play
  /\ excuse' = IF Busy /\ g_client_addr = Watched /\ dest /= Watched
               THEN excuse \cup {"race"} ELSE excuse
  /\ UNCHANGED <<senderVars, rx, blind>>

OtherControl ==
  /\ (\E c \in Clients : Accept(c)) \/ Teardown \/ HangUp \/ Close
  /\ UNCHANGED <<senderVars, watchVars>>

LiveNext == Sender \/ SetupSession \/ PlaySession \/ OtherControl

(* The sender thread keeps running; the encoder keeps producing. *)
LiveSpec == LiveInit /\ [][LiveNext]_vars /\ WF_vars(Sender)

-----------------------------------------------------------------------------
(* Playback to a client is past the parameter-set gate only if all the     *)
(* sets were known when it passed: h265_have_all_parameter_sets, and no    *)
(* caching ever loses one.                                                 *)
PlayingImpliesSets == g_play /\ ~g_need_parameter_sets => HaveAllParameterSets

(* "waiting for VPS/SPS/PPS before PLAY", "parameter sets sent, waiting    *)
(* for IDR": a session's receiver gets no picture before what it needs to  *)
(* decode it -- unless the session was set up or started while an item was *)
(* being sent elsewhere or to its predecessor (race), something failed to  *)
(* be mapped or sent (loss), or the sets sent were not those of the        *)
(* picture (stale).                                                        *)
BlindHasCause == blind => excuse /= {}

(* g_need_parameter_sets is the need of the session: it is cleared once    *)
(* the parameter sets have been sent to the client that plays.             *)
SetsReachClient ==
  Playing /\ ~g_need_parameter_sets /\ g_client_addr = Watched
    => \A k \in ParamKinds : rx.sets[k] /= NoCfg

(* Whatever went wrong, a receiver whose session stays up is decoding in   *)
(* the end, if IDRs keep coming and failures stop.  Other random access    *)
(* pictures do not end the wait.                                           *)
IdrRead == pc = "target" /\ \E i \in DOMAIN rest : \E j \in DOMAIN rest[i] :
                              rest[i][j].kind = "idr"

EventuallyDecodes ==
  /\ <>[](Playing /\ g_client_addr = Watched)
  /\ []<>IdrRead
  => <>[](rx.synced)
===============================================================================
