----------------------------- MODULE EarlierSender -----------------------------
(***************************************************************************)
(* The earlier program as a whole: the sender thread of                    *)
(* src/little_app/src/RTSP_Create.c in both of its modes, beside the main  *)
(* thread of EarlierServer and the big core at the other end of the ring.  *)
(* A NALU of the file is the number of RTP packets it makes, which is 0 if *)
(* it is too short to send; a pack of a frame is what can be sent of it    *)
(* and how it ends.                                                        *)
(***************************************************************************)
EXTENDS EarlierServer, Sequences, FiniteSets

CONSTANTS File,       \* the NALUs of the file
          Frames,     \* the packs of the frames the big core lends
          RingSize,   \* entries of the ring
          Entries,    \* NALU_DATAFIFO_FIFO_ENTRIES
          TsMod,      \* RTP timestamps, counted in RTP_TS_STEP
          MaxFaults   \* failing sendto(), mmap and kd_datafifo calls

(* A pack ends with a NALU, with a start code and nothing behind it, or    *)
(* with the first NALU in it that is too short to send.                    *)
Pack == {p \in [packets : Nat, ends : {"nalu", "empty", "short"}] :
           p.ends = "nalu" => p.packets > 0}

ASSUME EarlierAssumption ==
  /\ File \in Seq(Nat) /\ File /= <<>>
  /\ Frames \subseteq Seq(Pack) \ {<<>>}
  /\ RingSize \in Nat \ {0} /\ Entries \in Nat \ {0}
  /\ MaxFaults \in Nat /\ TsMod \in Nat /\ TsMod > MaxFaults + 1

BadFrame == <<>>   \* a message that does not validate

VARIABLES
  pc,         \* none: no such thread; socket, open; file mode: wait, asleep,
              \* send; fifo mode: poll, target, map, send, done; ended
  ring,       \* items not yet released, oldest first
  idx,        \* the NALU of the file to send
  packs,      \* the packs of the item from the one in hand on
  left,       \* packets of the NALU or pack in hand not yet sent
  dest,
  timestamp,
  fresh,      \* no packet of this frame or NALU has been sent
  wire,       \* the last packet that left the socket
  faults

itemVars == <<idx, packs, left, dest, timestamp>>
vars == <<mainVars, pc, ring, itemVars, fresh, wire, faults>>

(* History, beside what is in a packet: bare, that it ends a frame whose   *)
(* last pack ends in an empty NALU; cut, that a pack of its frame failed,  *)
(* at whatever of it, after a packet of the frame was sent.                *)
Packet == [to : Ports, ts : 0..TsMod-1, marker : BOOLEAN, bare : BOOLEAN, cut : BOOLEAN]
NoPacket == [to |-> NoPort, ts |-> TsMod - 1, marker |-> TRUE, bare |-> FALSE, cut |-> FALSE]
Item == [packs : Frames \cup {BadFrame}, st : {"unread", "held", "done", "lost"}]

EarlierTypeOK ==
  /\ EarlierServerTypeOK
  /\ pc \in {"none", "socket", "open", "wait", "asleep", "poll", "target", "map",
             "send", "done", "ended"}
  /\ ring \in Seq(Item) /\ Len(ring) <= RingSize
  /\ idx \in DOMAIN File /\ packs \in Seq(Pack) /\ left \in Nat
  /\ dest \in Ports \cup {NoPort} /\ timestamp \in 0..TsMod-1
  /\ fresh \in BOOLEAN /\ wire \in Packet \cup {NoPacket}
  /\ faults \in 0..MaxFaults

EarlierInit ==
  /\ EarlierServerInit
  /\ pc = "none" /\ ring = <<>>
  /\ idx = 1 /\ packs = <<>> /\ left = 0 /\ dest = NoPort /\ timestamp = 0
  /\ fresh = TRUE /\ wire = NoPacket /\ faults = 0

Fault == faults < MaxFaults /\ faults' = faults + 1
NextTimestamp == timestamp' = (timestamp + 1) % TsMod

-----------------------------------------------------------------------------
(* rtp_sender_thread: the socket is bound to its port, or the thread ends. *)
OpenSocket ==
  /\ pc = "socket"
  /\ pc' \in {"ended", IF source = "fifo" THEN "open" ELSE "wait"}
  /\ UNCHANGED <<mainVars, ring, itemVars, fresh, wire, faults>>

(* nalu_datafifo_open *)
OpenFifo ==
  /\ pc = "open"
  /\ pc' \in {"poll", "ended"}
  /\ UNCHANGED <<mainVars, ring, itemVars, fresh, wire, faults>>

-----------------------------------------------------------------------------
(* File mode *)

(* Variant: the first NALU does not wait for PLAY. *)
WaitForNothing ==
  /\ pc = "wait" /\ pc' = "send"
  /\ dest' = g_client_addr /\ left' = File[idx]
  /\ UNCHANGED <<mainVars, ring, idx, packs, timestamp, fresh, wire, faults>>

(* wait_for_rtsp_play, then the NALU at idx is looked up. *)
WaitForPlay ==
  /\ pc = "wait"
  /\ \/ ~Playing /\ pc' = "asleep" /\ UNCHANGED <<dest, left>>
     \/ Playing /\ pc' = "send" /\ dest' = g_client_addr /\ left' = File[idx]
  /\ UNCHANGED <<mainVars, ring, idx, packs, timestamp, fresh, wire, faults>>

SpuriousWakeup ==
  /\ pc = "asleep" /\ pc' = "wait"
  /\ UNCHANGED <<mainVars, ring, itemVars, fresh, wire, faults>>

(* The NALU is out: the next one, or the first again, is a frame of its own. *)
NextNalu ==
  /\ pc' = "wait"
  /\ idx' = IF idx = Len(File) THEN 1 ELSE idx + 1
  /\ NextTimestamp /\ fresh' = TRUE
  /\ UNCHANGED packs

-----------------------------------------------------------------------------
(* DATAFIFO mode *)

Unread == {i \in DOMAIN ring : ring[i].st = "unread"}
Held == {i \in DOMAIN ring : ring[i].st = "held"}
Avail == Cardinality(Unread)

(* nalu_datafifo_read: nothing to read or a failing call is tried again.   *)
Poll ==
  /\ pc = "poll"
  /\ \/ /\ Avail \in 1..Entries
        /\ \E i \in Unread : /\ \A j \in Unread : i <= j
                             /\ ring' = [ring EXCEPT ![i].st = "held"]
                             /\ packs' = ring[i].packs
        /\ pc' = "target" /\ UNCHANGED faults
     \/ Fault /\ UNCHANGED <<ring, packs, pc>>
  /\ UNCHANGED <<mainVars, idx, left, dest, timestamp, fresh, wire>>

(* get_rtsp_target and nalu_datafifo_validate_msg: a message that is not   *)
(* valid, or that nobody asked for, is only given back.                    *)
GetTarget ==
  /\ pc = "target"
  /\ dest' = g_client_addr
  /\ \/ packs /= BadFrame /\ Playing /\ pc' = "map" /\ fresh' = TRUE
     \/ (packs = BadFrame \/ ~Playing) /\ pc' = "done" /\ UNCHANGED fresh
  /\ UNCHANGED <<mainVars, ring, idx, packs, left, timestamp, wire, faults>>

(* The pack is behind us; the timestamp moves on after the last.           *)
NextPack ==
  /\ packs' = Tail(packs)
  /\ \/ Len(packs) > 1 /\ pc' = "map" /\ UNCHANGED timestamp
     \/ Len(packs) = 1 /\ pc' = "done" /\ NextTimestamp
  /\ UNCHANGED idx

(* nalu_datafifo_mmap_pack *)
MapPack ==
  /\ pc = "map"
  /\ pc' = "send" /\ left' = Head(packs).packets
  /\ UNCHANGED <<mainVars, ring, idx, packs, dest, timestamp, fresh, wire, faults>>

(* What was sent of the frame before is a frame with a piece missing. *)
CutFrame == wire' = IF fresh THEN wire ELSE [wire EXCEPT !.cut = TRUE]

(* Variant: a pack that cannot be mapped ends the item. *)
MapFailsEndsItem ==
  /\ pc = "map" /\ Fault /\ pc' = "poll" /\ CutFrame
  /\ UNCHANGED <<mainVars, ring, itemVars, fresh>>

(* A pack that cannot be mapped is reported and passed over. *)
MapFails ==
  /\ pc = "map" /\ Fault /\ NextPack /\ CutFrame
  /\ UNCHANGED <<mainVars, ring, left, dest, fresh>>

-----------------------------------------------------------------------------
(* The RTP sender *)

LastOfPack(end) == left = 1 /\ Head(packs).ends = end

(* Variant: every pack ends a frame. *)
LastOfFrameIsLastOfPack == IF source = "file" THEN left = 1 ELSE LastOfPack("nalu")

(* The last packet of a NALU of the file, or of the NALU at the end of the *)
(* last pack: an empty NALU there takes the marker with it.                *)
LastOfFrame ==
  IF source = "file" THEN left = 1 ELSE Len(packs) = 1 /\ LastOfPack("nalu")

(* send_rtp_packet, and what follows the last packet of the NALU or pack:  *)
(* a NALU too short to send is what send_h265_buffer_rtp then fails at.    *)
SendPacket ==
  /\ pc = "send" /\ left > 0
  /\ wire' = [to |-> dest, ts |-> timestamp, marker |-> LastOfFrame,
              bare |-> source = "fifo" /\ Len(packs) = 1 /\ LastOfPack("empty"),
              cut |-> IF fresh THEN FALSE ELSE wire.cut]
  /\ left' = left - 1
  /\ \/ left > 1 /\ fresh' = FALSE /\ UNCHANGED <<pc, idx, packs, timestamp>>
     \/ left = 1 /\ source = "file" /\ NextNalu
     \/ /\ source = "fifo" /\ LastOfPack("short") /\ fresh' = FALSE
        /\ UNCHANGED <<pc, idx, packs, timestamp>>
     \/ /\ left = 1 /\ source = "fifo" /\ ~LastOfPack("short")
        /\ NextPack /\ fresh' = FALSE
  /\ UNCHANGED <<mainVars, ring, dest, faults>>

(* sendto() fails, or there is nothing (more) that can be sent: the rest of *)
(* the NALU or pack is given up.  The file's NALU is tried again after another *)
(* look at the session; the frame goes on with its next pack.              *)
SendFails ==
  /\ pc = "send"
  /\ \/ left = 0 /\ UNCHANGED faults
     \/ left > 0 /\ Fault
  /\ left' = 0
  /\ CutFrame
  /\ \/ source = "file" /\ pc' = "wait" /\ UNCHANGED <<idx, packs, timestamp>>
     \/ source = "fifo" /\ NextPack
  /\ UNCHANGED <<mainVars, ring, dest, fresh>>

(* nalu_datafifo_read_done, whatever became of the item. *)
ReadDone ==
  /\ pc = "done" /\ pc' = "poll" /\ packs' = <<>>
  /\ \E i \in Held :
       \/ ring' = [ring EXCEPT ![i].st = "done"] /\ UNCHANGED faults
       \/ ring' = [ring EXCEPT ![i].st = "lost"] /\ Fault
  /\ UNCHANGED <<mainVars, idx, left, dest, timestamp, fresh, wire>>

Sender ==
  /\ life /= "exit"
  /\ \/ OpenSocket \/ OpenFifo \/ WaitForPlay
     \/ Poll \/ GetTarget \/ MapPack \/ MapFails \/ SendPacket \/ SendFails \/ ReadDone

-----------------------------------------------------------------------------
(* The other threads *)

Start == CreateSender /\ pc' = "socket" /\ UNCHANGED <<ring, itemVars, fresh, wire, faults>>

PlayAndSignal ==
  /\ Play
  /\ pc' = IF pc = "asleep" THEN "wait" ELSE pc
  /\ UNCHANGED <<ring, itemVars, fresh, wire, faults>>

(* The process ends, and the sender with it. *)
Exit ==
  /\ life = "free" /\ life' = "exit" /\ pc' = "none"
  /\ UNCHANGED <<source, g_nalus, sessionVars, ring, itemVars, fresh, wire, faults>>

OtherMain ==
  /\ \/ LoadSource \/ CreateFails \/ Listen \/ ListenFails
     \/ Accept \/ Setup \/ EndSession \/ Close
  /\ UNCHANGED <<pc, ring, itemVars, fresh, wire, faults>>

Main == Start \/ PlayAndSignal \/ Exit \/ OtherMain

Submit ==
  /\ source = "fifo" /\ Len(ring) < RingSize
  /\ \E f \in Frames \cup {BadFrame} : ring' = Append(ring, [packs |-> f, st |-> "unread"])
  /\ UNCHANGED <<mainVars, pc, itemVars, fresh, wire, faults>>

Release ==
  /\ ring /= <<>> /\ Head(ring).st = "done"
  /\ ring' = Tail(ring)
  /\ UNCHANGED <<mainVars, pc, itemVars, fresh, wire, faults>>

EarlierNext == Sender \/ (life /= "exit" /\ SpuriousWakeup) \/ Main \/ Submit \/ Release

(* The sender is scheduled, and the big core releases what is done.        *)
EarlierSpec == EarlierInit /\ [][EarlierNext]_vars /\ WF_vars(Sender) /\ WF_vars(Release)

-----------------------------------------------------------------------------
(* The detached sender runs on while main frees the file after a failed    *)
(* listen; but what is freed it never touches, since nothing can be played *)
(* that was never connected to.                                            *)
FileOutlivesUse == pc = "send" /\ source = "file" => g_nalus = "held"

(* "This is mandatory. The big core releases the VENC stream only after    *)
(* the reader marks this DATAFIFO item as done": one item at a time, held  *)
(* until its packs were sent, then given back, whatever failed.            *)
Lender == INSTANCE FrameLease
            WITH Limit <- Entries, capacity <- RingSize,
                 frames <- [i \in DOMAIN ring |-> ring[i].st]
ImplementsLease == Lender!LeaseInit /\ [][Lender!LeaseNext]_(Lender!vars)

(* What lets a receiver put frames together: the packets of one frame go   *)
(* to one target under one timestamp, none follows the marked one, the     *)
(* next frame has another timestamp, and a frame without a marked packet   *)
(* is one of which something could not be sent, or whose last pack ends in *)
(* an empty NALU.                                                          *)
FramesKeepApart ==
  [][pc = "send" /\ left > 0 /\ left' = left - 1 /\ faults' = faults =>
       IF fresh
       THEN wire'.ts /= wire.ts /\ (wire.marker \/ wire.bare \/ wire.cut)
       ELSE /\ wire'.ts = wire.ts /\ ~wire.marker /\ ~wire.bare
            /\ source = "fifo" => wire'.to = wire.to]_vars

(* Whoever plays for good is sent packets for ever, if the sender thread   *)
(* came up and there is something to send: a file without a NALU that is   *)
(* too short, or frame after frame in a ring of which READ_DONE lost none. *)
Sends == pc = "send" /\ left > 0
Sendable(p) == \E k \in DOMAIN p : p[k].packets > 0
ServesPlayer ==
  /\ <>[](Playing /\ pc /= "ended")
  /\ source = "file" => \A n \in DOMAIN File : File[n] > 0
  /\ source = "fifo" => /\ []<>(\E i \in Unread : Sendable(ring[i].packs))
                        /\ [](\A i \in DOMAIN ring : ring[i].st /= "lost")
  => []<>Sends
===============================================================================
