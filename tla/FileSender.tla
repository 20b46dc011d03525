------------------------------ MODULE FileSender ------------------------------
(***************************************************************************)
(* File mode: rtp_sender_thread running file_rtp_sender_loop               *)
(* (src/RTSP_Create.c) beside the control thread of RtspServer.  The       *)
(* sender sleeps on g_cond until a session plays, then sends the NALUs of  *)
(* the file round and round, one per turn, each as one or more RTP packets *)
(* (send_h265_nalu_rtp, src/rtp.c).  sendto() may fail at any packet.      *)
(***************************************************************************)
EXTENDS RtspServer, Sequences

CONSTANTS Files,       \* files: for each NALU, its number of RTP packets;
                       \* 0 for a NALU of one byte, which is never sent
          SeqMod,      \* RTP sequence numbers: 2^16 in the code
          TsMod,       \* RTP timestamps, counted in RTP_TS_STEP
          MaxFaults    \* how many sendto() calls may fail

ASSUME FileAssumption ==
  /\ Files \subseteq Seq(Nat) /\ <<>> \notin Files
  /\ SeqMod \in Nat \ {0, 1}
  /\ TsMod \in Nat \ {0, 1}
  /\ MaxFaults \in Nat

VARIABLES
  g_nalus,  \* the file that load_file_source has read
  pc,       \* wait: about to take g_mutex; asleep: in pthread_cond_wait; send
  idx,      \* the current NALU
  frag,     \* its packets sent in this attempt
  dest,     \* the copy of g_client_addr this attempt sends to
  seq,
  timestamp,
  wire,     \* the last packet that left the socket
  late,     \* NALUs begun since the control thread last stopped playback
  faults

senderVars == <<g_nalus, pc, idx, frag, dest, seq, timestamp, wire, faults>>
vars == <<serverVars, senderVars, late>>

Nalus == DOMAIN g_nalus
NextNalu(n) == IF n = Len(g_nalus) THEN 1 ELSE n + 1

(* The packet a receiver sees: seq and ts are header fields, nalu and frag *)
(* identify the payload.                                                   *)
Packet == [to : Targets \cup NoTargets, nalu : Nalus, frag : Nat,
           seq : 0..SeqMod-1, ts : 0..TsMod-1]

(* The packet that would precede the first one. *)
NoPacket == [to |-> g_client_addr, nalu |-> Len(g_nalus),
             frag |-> g_nalus[Len(g_nalus)],
             seq |-> SeqMod - 1, ts |-> TsMod - 1]

FileTypeOK ==
  /\ ServerTypeOK
  /\ g_nalus \in Files
  /\ pc \in {"wait", "asleep", "send"}
  /\ idx \in Nalus
  /\ frag \in Nat
  /\ frag > 0 => frag < g_nalus[idx]
  /\ dest \in IF pc = "send" THEN Targets ELSE Targets \cup NoTargets
  /\ seq \in 0..SeqMod-1
  /\ timestamp \in 0..TsMod-1
  /\ wire \in Packet
  /\ late \in Nat
  /\ faults \in 0..MaxFaults

FileInit ==
  /\ ServerInit
  /\ g_nalus \in Files
  /\ pc = "wait"
  /\ idx = 1
  /\ frag = 0
  /\ dest = g_client_addr
  /\ seq = 0
  /\ timestamp = 0
  /\ wire = NoPacket
  /\ late = 0
  /\ faults = 0

-----------------------------------------------------------------------------
(* wait_for_rtsp_play: one test of the predicate with g_mutex held.        *)
(* pthread_cond_wait releases the mutex and sleeps in one step.            *)
WaitForPlay ==
  /\ pc = "wait"
  /\ \/ /\ Playing
        /\ pc' = "send"
        /\ dest' = g_client_addr
     \/ /\ ~Playing
        /\ pc' = "asleep"
        /\ UNCHANGED dest
  /\ UNCHANGED <<idx, frag, seq, timestamp, wire, late, faults, g_nalus, serverVars>>

(* pthread_cond_wait may return without a signal. *)
SpuriousWakeup ==
  /\ pc = "asleep"
  /\ pc' = "wait"
  /\ UNCHANGED <<idx, frag, dest, seq, timestamp, wire, late, faults, g_nalus, serverVars>>

(* A NALU is out: the loop moves to the next one and the next timestamp.   *)
Advance ==
  /\ idx' = NextNalu(idx)
  /\ timestamp' = (timestamp + 1) % TsMod
  /\ pc' = "wait"
  /\ frag' = 0

(* send_rtp_packet puts one packet on the wire; seq moves only then. *)
SendFragment ==
  /\ pc = "send"
  /\ frag < g_nalus[idx]
  /\ wire' = [to |-> dest, nalu |-> idx, frag |-> frag + 1,
              seq |-> seq, ts |-> timestamp]
  /\ seq' = (seq + 1) % SeqMod
  /\ late' = IF frag = 0 /\ ~(Playing /\ dest = g_client_addr)
             THEN late + 1 ELSE late
  /\ \/ frag + 1 = g_nalus[idx] /\ Advance
     \/ /\ frag + 1 < g_nalus[idx]
        /\ frag' = frag + 1
        /\ UNCHANGED <<pc, idx, timestamp>>
  /\ UNCHANGED <<dest, faults, g_nalus, serverVars>>

(* Variant: a failed NALU is sent again at once. *)
SendFailsRetryAtOnce ==
  /\ pc = "send"
  /\ \/ g_nalus[idx] = 0 /\ UNCHANGED faults
     \/ /\ g_nalus[idx] > 0 /\ faults < MaxFaults
        /\ faults' = faults + 1
  /\ frag' = 0
  /\ UNCHANGED <<pc, idx, dest, seq, timestamp, wire, late, g_nalus, serverVars>>

(* Variant: a NALU that cannot be sent is skipped. *)
SendFailsSkip ==
  /\ pc = "send"
  /\ \/ g_nalus[idx] = 0 /\ UNCHANGED faults
     \/ /\ g_nalus[idx] > 0 /\ faults < MaxFaults
        /\ faults' = faults + 1
  /\ Advance
  /\ UNCHANGED <<dest, seq, wire, late, g_nalus, serverVars>>

(* sendto() fails, or the NALU is too short to send: the rest of the NALU  *)
(* is abandoned, and the loop tests g_play again before it sends the same  *)
(* NALU from its first packet, under the same timestamp.                   *)
SendFails ==
  /\ pc = "send"
  /\ \/ g_nalus[idx] = 0 /\ UNCHANGED faults
     \/ /\ g_nalus[idx] > 0 /\ faults < MaxFaults
        /\ faults' = faults + 1
  /\ pc' = "wait"
  /\ frag' = 0
  /\ UNCHANGED <<idx, dest, seq, timestamp, wire, late, g_nalus, serverVars>>

Sender == WaitForPlay \/ SendFragment \/ SendFails

(* Variant: PLAY does not signal g_cond. *)
PlayUnsignalled == Play /\ UNCHANGED <<senderVars, late>>

(* PLAY signals g_cond: a sleeping sender wakes up to test again. *)
PlayAndSignal ==
  /\ Play
  /\ pc' = IF pc = "asleep" THEN "wait" ELSE pc
  /\ UNCHANGED <<g_nalus, idx, frag, dest, seq, timestamp, wire, late, faults>>

(* The steps that leave playback stopped start a new count of late NALUs:  *)
(* a SETUP, and TEARDOWN or the end of the connection.                     *)
SetupSession ==
  /\ \E p \in Ports : Setup(p)
  /\ late' = 0
  /\ UNCHANGED senderVars

StopPlayback ==
  /\ Teardown \/ Close
  /\ late' = 0
  /\ UNCHANGED senderVars

KeepSession ==
  /\ (\E c \in Clients : Accept(c)) \/ HangUp
  /\ UNCHANGED <<senderVars, late>>

Control == PlayAndSignal \/ SetupSession \/ StopPlayback \/ KeepSession

FileNext == Sender \/ SpuriousWakeup \/ Control

(* The sender is a thread the system keeps scheduling; clients need not    *)
(* send anything, and sendto() may fail only MaxFaults times.              *)
FileSpec == FileInit /\ [][FileNext]_vars /\ WF_vars(Sender)

-----------------------------------------------------------------------------
(* wait_for_rtsp_play sleeps while !g_play || !g_client_addr_set, but only *)
(* PLAY signals g_cond.  SETUP, which makes the other half of the          *)
(* predicate true, relies on clearing g_play: the sender is never asleep   *)
(* while a session plays.                                                  *)
NoLostWakeup == pc = "asleep" => ~Playing

(* What a receiver may rely on, whatever fails and whoever connects:       *)
(* sequence numbers have no gap, a NALU is sent to one target with one     *)
(* timestamp, the next NALU follows only a complete one, and a NALU that   *)
(* was cut short is started again from its first packet, its timestamp     *)
(* unchanged (src/RTSP_Create.c file loop, src/rtp.c FU fragmentation).    *)
ContinuesNalu(p, q) ==
  /\ q.nalu = p.nalu /\ q.frag = p.frag + 1
  /\ q.ts = p.ts /\ q.to = p.to

RestartsNalu(p, q) ==
  /\ q.nalu = p.nalu /\ p.frag < g_nalus[p.nalu]
  /\ q.frag = 1 /\ q.ts = p.ts

StartsNext(p, q) ==
  /\ p.frag = g_nalus[p.nalu]
  /\ q.nalu = NextNalu(p.nalu) /\ q.frag = 1
  /\ q.ts = (p.ts + 1) % TsMod

FollowsOn(p, q) ==
  /\ q.seq = (p.seq + 1) % SeqMod
  /\ ContinuesNalu(p, q) \/ RestartsNalu(p, q) \/ StartsNext(p, q)

WireIsWellFormed == [][wire' = wire \/ FollowsOn(wire, wire')]_wire

(* The target is copied under g_mutex and used without it, so a packet may *)
(* leave after playback was stopped or retargeted.  At most one NALU is    *)
(* begun that way: every attempt, a retry too, tests g_play afresh.        *)
LateAtMostOnce == late <= 1

(* load_annexb_nalus keeps a NALU of one byte, send_h265_nalu_rtp refuses  *)
(* it, and the loop retries what was refused: playback never gets past     *)
(* such a NALU, for any client.                                            *)
StallsAtShortNalu == \A n \in Nalus : g_nalus[n] = 0 => idx <= n

(* While a session goes on playing, every NALU of the file is sent again   *)
(* and again, if none of them is too short to send.                        *)
Sendable(file) == \A n \in DOMAIN file : file[n] > 0

KeepsStreaming ==
  \A file \in {f \in Files : Sendable(f)} : \A n \in DOMAIN file :
    <>[](Playing /\ g_nalus = file) => []<>(wire.nalu = n /\ wire.frag = file[n])
===============================================================================
