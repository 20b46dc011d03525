--------------------------- MODULE FileSenderProofs ---------------------------
(***************************************************************************)
(* Proofs about FileSender, for any files, any clients and ports, and any  *)
(* number of failing sendto() calls.                                       *)
(*                                                                         *)
(* The inductive invariant IInv adds to the types where an attempt stands: *)
(* what the last packet on the wire says about idx, frag, seq and          *)
(* timestamp (WireInv), and that a NALU begun late is the attempt's last   *)
(* (LateInv).  Liveness (KeepsStreaming) is left to TLC.                   *)
(***************************************************************************)
EXTENDS FileSender, TLAPS

(* Between attempts nothing of a NALU counts as sent. *)
FragInv == pc /= "send" => frag = 0

(* A late NALU was begun by an attempt that is over, or that is past its   *)
(* first packet; an attempt about to begin has a fresh target.             *)
LateInv == late = 0 \/ /\ late = 1
                       /\ pc = "send" /\ frag = 0 => Playing /\ dest = g_client_addr

(* The packet on the wire is the last of the NALU before idx ... *)
AtStart ==
  /\ frag = 0
  /\ wire.frag = g_nalus[wire.nalu]
  /\ idx = NextNalu(wire.nalu)
  /\ timestamp = (wire.ts + 1) % TsMod

(* ... or one of idx that is not its last. *)
Inside ==
  /\ wire.nalu = idx
  /\ wire.ts = timestamp
  /\ wire.frag < g_nalus[idx]
  /\ frag = 0 \/ (frag = wire.frag /\ dest = wire.to)

WireInv == seq = (wire.seq + 1) % SeqMod /\ (AtStart \/ Inside)

IInv == FileTypeOK /\ FragInv /\ NoLostWakeup /\ LateInv /\ WireInv

-----------------------------------------------------------------------------
(* A count taken modulo m stays below m: seq and timestamp. *)
LEMMA ModRange ==
  ASSUME NEW m \in Nat \ {0}, NEW k \in Nat
  PROVE  k % m \in 0..m-1
  BY SMT

(* The number before the first one: NoPacket is followed by seq 0. *)
LEMMA ModTop ==
  ASSUME NEW m \in Nat \ {0}
  PROVE  (m - 1 + 1) % m = 0
  BY SMT

(* The file's list of NALUs: every entry a number, and a next one always. *)
LEMMA NaluFacts ==
  ASSUME g_nalus \in Files
  PROVE  /\ g_nalus \in Seq(Nat) /\ Nalus = 1..Len(g_nalus)
         /\ 1 \in Nalus /\ Len(g_nalus) \in Nalus
         /\ \A n \in Nalus : g_nalus[n] \in Nat /\ NextNalu(n) \in Nalus
         /\ NextNalu(Len(g_nalus)) = 1
<1>1. g_nalus \in Seq(Nat) /\ g_nalus /= <<>>
  BY FileAssumption
<1> QED
  BY <1>1 DEF Nalus, NextNalu

(* The initial state satisfies the inductive invariant. *)
LEMMA InitIInv == FileInit => IInv
<1> SUFFICES ASSUME FileInit PROVE IInv
  OBVIOUS
<1> USE DEF FileInit
<1>1. ServerTypeOK /\ ~Playing /\ g_client_addr \in NoTargets
  BY DEF ServerInit, ServerTypeOK, Playing
<1>2. wire \in Packet
  BY <1>1, NaluFacts, FileAssumption DEF NoPacket, Packet
<1>3. FileTypeOK
  BY <1>1, <1>2, NaluFacts, FileAssumption DEF FileTypeOK
<1>4. WireInv
  <2>1. seq = (wire.seq + 1) % SeqMod
    BY ModTop, FileAssumption DEF NoPacket
  <2>2. timestamp = (wire.ts + 1) % TsMod
    BY ModTop, FileAssumption DEF NoPacket
  <2>3. AtStart
    BY <2>2, NaluFacts DEF AtStart, NoPacket
  <2> QED
    BY <2>1, <2>3 DEF WireInv
<1> QED
  BY <1>3, <1>4 DEF IInv, FragInv, NoLostWakeup, LateInv

-----------------------------------------------------------------------------
(* The control thread keeps its own types. *)
LEMMA ServerStep ==
  ASSUME ServerTypeOK,
         \/ Play \/ Teardown \/ Close \/ HangUp
         \/ \E p \in Ports : Setup(p)
         \/ \E c \in Clients : Accept(c)
  PROVE  ServerTypeOK'
<1> USE DEF ServerTypeOK, Targets, NoTargets, session
<1>1. CASE Play
  BY <1>1 DEF Play
<1>2. CASE Teardown
  BY <1>2 DEF Teardown
<1>3. CASE Close
  BY <1>3 DEF Close
<1>4. CASE HangUp
  BY <1>4 DEF HangUp
<1>5. CASE \E p \in Ports : Setup(p)
  <2>1. PICK p \in Ports : Setup(p)
    BY <1>5
  <2>2. conn \in Clients /\ g_client_addr' = <<conn, p>> /\ g_client_addr_set'
    BY <2>1 DEF Setup
  <2>3. g_client_addr' \in Targets'
    BY <2>2
  <2> QED
    BY <2>1, <2>2, <2>3 DEF Setup
<1>6. CASE \E c \in Clients : Accept(c)
  BY <1>6 DEF Accept
<1> QED
  BY <1>1, <1>2, <1>3, <1>4, <1>5, <1>6

-----------------------------------------------------------------------------
(* The steps of the sender.  Each leaves the session alone. *)

(* wait_for_rtsp_play takes the target of the session that plays. *)
LEMMA WaitStep ==
  ASSUME IInv, WaitForPlay
  PROVE  IInv'
<1> USE DEF WaitForPlay, IInv
<1>1. ServerTypeOK' /\ (Playing <=> Playing') /\ g_client_addr' = g_client_addr
  BY DEF FileTypeOK, serverVars, session, ServerTypeOK, Playing, Targets, NoTargets
<1>2. frag = 0 /\ frag' = 0 /\ pc' \in {"send", "asleep"}
  BY DEF FragInv
<1>3. pc' = "send" => Playing /\ dest' = g_client_addr /\ dest' \in Targets
  BY DEF Playing, FileTypeOK, ServerTypeOK
<1>4. FileTypeOK'
  BY <1>1, <1>2, <1>3 DEF FileTypeOK, Packet, Targets, NoTargets, Nalus
<1>5. FragInv' /\ NoLostWakeup'
  BY <1>1, <1>2 DEF FragInv, NoLostWakeup
<1>6. LateInv'
  BY <1>1, <1>2, <1>3 DEF LateInv
<1>7. WireInv'
  BY <1>2 DEF WireInv, AtStart, Inside, NextNalu
<1> QED
  BY <1>4, <1>5, <1>6, <1>7

(* A packet goes out: what the wire shows moves with frag, idx, seq and    *)
(* timestamp.                                                              *)
LEMMA SendStep ==
  ASSUME IInv, SendFragment
  PROVE  IInv'
<1> USE DEF SendFragment, IInv
<1>1. ServerTypeOK' /\ (Playing <=> Playing') /\ g_client_addr' = g_client_addr
  BY DEF FileTypeOK, serverVars, session, ServerTypeOK, Playing, Targets, NoTargets
<1>2. /\ idx \in Nalus /\ frag \in Nat /\ g_nalus[idx] \in Nat
      /\ NextNalu(idx) \in Nalus
      /\ seq \in Nat /\ timestamp \in Nat /\ SeqMod \in Nat \ {0} /\ TsMod \in Nat \ {0}
  BY NaluFacts, FileAssumption DEF FileTypeOK
<1>3. seq' \in 0..SeqMod-1 /\ (timestamp + 1) % TsMod \in 0..TsMod-1
  <2>1. seq + 1 \in Nat /\ timestamp + 1 \in Nat
    BY <1>2
  <2> QED
    BY <1>2, <2>1, ModRange
<1>4. wire' \in Packet
  BY <1>2 DEF FileTypeOK, Packet
<1>5. wire'.nalu = idx /\ wire'.frag = frag + 1 /\ wire'.seq = seq /\ wire'.ts = timestamp
      /\ wire'.to = dest
  OBVIOUS
<1>6. late' \in Nat
  BY DEF FileTypeOK
<1>7. CASE frag + 1 = g_nalus[idx] /\ Advance
  <2> USE <1>7 DEF Advance
  <2>1. FileTypeOK'
    BY <1>1, <1>2, <1>3, <1>4, <1>6 DEF FileTypeOK, Packet, Targets, NoTargets, Nalus
  <2>2. WireInv'
    BY <1>5 DEF WireInv, AtStart, NextNalu
  <2>3. LateInv'
    BY <1>1, <1>2 DEF LateInv
  <2> QED
    BY <2>1, <2>2, <2>3 DEF FragInv, NoLostWakeup
<1>8. CASE /\ frag + 1 < g_nalus[idx]
           /\ frag' = frag + 1
           /\ UNCHANGED <<pc, idx, timestamp>>
  <2> USE <1>8
  <2>1. FileTypeOK'
    BY <1>1, <1>2, <1>3, <1>4, <1>6 DEF FileTypeOK, Packet, Targets, NoTargets, Nalus
  <2>2. WireInv'
    BY <1>5 DEF WireInv, Inside
  <2>3. LateInv'
    BY <1>1, <1>2 DEF LateInv
  <2> QED
    BY <2>1, <2>2, <2>3 DEF FragInv, NoLostWakeup
<1> QED
  BY <1>7, <1>8

(* A failed attempt leaves idx and timestamp where they were. *)
LEMMA FailStep ==
  ASSUME IInv, SendFails
  PROVE  IInv'
<1> USE DEF SendFails, IInv
<1>1. ServerTypeOK'
  BY DEF FileTypeOK, serverVars, session, ServerTypeOK, Targets, NoTargets
<1>2. faults' \in 0..MaxFaults
  BY FileAssumption DEF FileTypeOK
<1>3. FileTypeOK'
  BY <1>1, <1>2 DEF FileTypeOK, Packet, Targets, NoTargets, Nalus
<1>4. WireInv'
  BY DEF WireInv, AtStart, Inside, NextNalu
<1>5. LateInv'
  BY DEF LateInv
<1> QED
  BY <1>3, <1>4, <1>5 DEF FragInv, NoLostWakeup

(* A wakeup without a signal leads back to the test. *)
LEMMA WakeupStep ==
  ASSUME IInv, SpuriousWakeup
  PROVE  IInv'
<1> USE DEF SpuriousWakeup, IInv
<1>1. ServerTypeOK'
  BY DEF FileTypeOK, serverVars, session, ServerTypeOK, Targets, NoTargets
<1>2. FileTypeOK'
  BY <1>1 DEF FileTypeOK, Packet, Targets, NoTargets, Nalus
<1>3. WireInv'
  BY DEF WireInv, AtStart, Inside, NextNalu
<1>4. LateInv'
  BY DEF LateInv
<1> QED
  BY <1>2, <1>3, <1>4 DEF FragInv, NoLostWakeup

-----------------------------------------------------------------------------
(* The steps of the control thread.  The sender's attempt goes on through  *)
(* them.                                                                   *)

(* PLAY makes Playing true or leaves it: the sender must be awake after.   *)
LEMMA PlayStep ==
  ASSUME IInv, PlayAndSignal
  PROVE  IInv'
<1> USE DEF PlayAndSignal, IInv
<1>1. ServerTypeOK'
  BY ServerStep DEF FileTypeOK
<1>2. (Playing => Playing') /\ g_client_addr' = g_client_addr
  BY DEF Play, Playing
<1>3. (pc' = "send" <=> pc = "send") /\ pc' \in {"wait", "send"}
  BY DEF FileTypeOK
<1>4. FileTypeOK'
  BY <1>1, <1>3 DEF FileTypeOK, Packet, Targets, NoTargets, Nalus
<1>5. WireInv'
  BY DEF WireInv, AtStart, Inside, NextNalu
<1>6. LateInv'
  BY <1>2, <1>3 DEF LateInv
<1> QED
  BY <1>3, <1>4, <1>5, <1>6 DEF FragInv, NoLostWakeup

(* SETUP, TEARDOWN and the end of a connection leave g_play cleared, or    *)
(* about to be: Playing does not become true.                              *)
LEMMA StopStep ==
  ASSUME IInv, SetupSession \/ StopPlayback
  PROVE  IInv'
<1> USE DEF SetupSession, StopPlayback, IInv
<1>1. ServerTypeOK'
  BY ServerStep DEF FileTypeOK
<1>2. ~Playing'
  BY DEF Setup, Teardown, Close, Playing
<1>3. UNCHANGED senderVars /\ late' = 0
  OBVIOUS
<1>4. FileTypeOK'
  BY <1>1, <1>3 DEF senderVars, FileTypeOK, Packet, Targets, NoTargets, Nalus
<1>5. WireInv'
  BY <1>3 DEF senderVars, WireInv, AtStart, Inside, NextNalu
<1> QED
  BY <1>2, <1>3, <1>4, <1>5 DEF senderVars, FragInv, LateInv, NoLostWakeup

(* A new connection, or its loss, changes nothing the sender reads. *)
LEMMA KeepStep ==
  ASSUME IInv, KeepSession
  PROVE  IInv'
<1> USE DEF KeepSession, IInv
<1>1. ServerTypeOK'
  BY ServerStep DEF FileTypeOK
<1>2. UNCHANGED <<senderVars, late>> /\ (Playing <=> Playing') /\ g_client_addr' = g_client_addr
  BY DEF Accept, HangUp, session, Playing
<1>3. FileTypeOK'
  BY <1>1, <1>2 DEF senderVars, FileTypeOK, Packet, Targets, NoTargets, Nalus
<1>4. WireInv'
  BY <1>2 DEF senderVars, WireInv, AtStart, Inside, NextNalu
<1> QED
  BY <1>2, <1>3, <1>4 DEF senderVars, FragInv, LateInv, NoLostWakeup

(* Nothing happens. *)
LEMMA StutterStep ==
  ASSUME IInv, UNCHANGED vars
  PROVE  IInv'
<1> USE DEF vars, serverVars, session, senderVars, IInv
<1>1. FileTypeOK'
  BY DEF FileTypeOK, ServerTypeOK, Packet, Targets, NoTargets, Nalus
<1>2. WireInv'
  BY DEF WireInv, AtStart, Inside, NextNalu
<1> QED
  BY <1>1, <1>2 DEF FragInv, LateInv, NoLostWakeup, Playing

(* Every step keeps the inductive invariant. *)
LEMMA NextIInv == IInv /\ [FileNext]_vars => IInv'
  BY WaitStep, SendStep, FailStep, WakeupStep, PlayStep, StopStep, KeepStep, StutterStep
     DEF FileNext, Sender, Control

-----------------------------------------------------------------------------
(* The inductive invariant holds throughout. *)
THEOREM Invariance == FileSpec => []IInv
  BY InitIInv, NextIInv, PTL DEF FileSpec

(* file_rtp_sender_loop and the request handlers keep every variable in    *)
(* its range, for every file and every schedule.                           *)
THEOREM TypeCorrect == FileSpec => []FileTypeOK
<1>1. IInv => FileTypeOK
  BY DEF IInv
<1> QED
  BY <1>1, Invariance, PTL

(* wait_for_rtsp_play never sleeps through a session: though SETUP does    *)
(* not signal g_cond, no order of SETUP, PLAY and TEARDOWN of any number   *)
(* of clients leaves the sender asleep while one of them plays.            *)
THEOREM NoWakeupIsLost == FileSpec => []NoLostWakeup
<1>1. IInv => NoLostWakeup
  BY DEF IInv
<1> QED
  BY <1>1, Invariance, PTL

(* After playback stops or moves to another client, the old target gets    *)
(* the beginning of at most one more NALU, however sends fail.             *)
THEOREM AtMostOneLate == FileSpec => []LateAtMostOnce
<1>1. IInv => LateAtMostOnce
  BY DEF IInv, LateInv, LateAtMostOnce, FileTypeOK
<1> QED
  BY <1>1, Invariance, PTL

(* A packet follows the one before it as a receiver expects.  WireInv says *)
(* which of the three ways it is: the next NALU after a whole one, the     *)
(* same NALU from its first packet, or its next packet.                    *)
LEMMA PacketFollows ==
  ASSUME IInv, SendFragment
  PROVE  FollowsOn(wire, wire')
<1> USE DEF IInv, WireInv, SendFragment
<1>1. wire'.nalu = idx /\ wire'.frag = frag + 1 /\ wire'.seq = seq /\ wire'.ts = timestamp
      /\ wire'.to = dest
  OBVIOUS
<1>2. wire'.seq = (wire.seq + 1) % SeqMod
  BY <1>1
<1>3. CASE AtStart
  BY <1>1, <1>3 DEF AtStart, StartsNext, FollowsOn
<1>4. CASE Inside /\ frag = 0
  BY <1>1, <1>4 DEF Inside, RestartsNalu, FollowsOn
<1>5. CASE Inside /\ frag = wire.frag /\ dest = wire.to
  BY <1>1, <1>5 DEF Inside, ContinuesNalu, FollowsOn
<1> QED
  BY <1>2, <1>3, <1>4, <1>5 DEF Inside

(* The packets of the file sender form a stream without gaps in sequence   *)
(* numbers, mixed timestamps or half NALUs, whatever fails and whoever     *)
(* connects (src/RTSP_Create.c file loop, src/rtp.c).                      *)
THEOREM WireCorrect == FileSpec => WireIsWellFormed
<1>1. IInv /\ [FileNext]_vars => [wire' = wire \/ FollowsOn(wire, wire')]_wire
  <2> SUFFICES ASSUME IInv, [FileNext]_vars, wire' /= wire
               PROVE  FollowsOn(wire, wire')
    OBVIOUS
  <2>1. SendFragment
    BY DEF FileNext, Sender, Control, WaitForPlay, SendFails, SpuriousWakeup,
           PlayAndSignal, SetupSession, StopPlayback, KeepSession, senderVars, vars
  <2> QED
    BY <2>1, PacketFollows
<1> QED
  BY <1>1, Invariance, PTL DEF FileSpec, WireIsWellFormed

(* A NALU of one byte is kept by load_annexb_nalus and refused by          *)
(* send_h265_nalu_rtp: whatever the file, the clients and the failures,    *)
(* file_rtp_sender_loop never gets past the first such NALU.               *)
THEOREM NeverPastShortNalu == FileSpec => []StallsAtShortNalu
<1>1. FileInit => StallsAtShortNalu
  BY NaluFacts DEF FileInit, StallsAtShortNalu
<1>2. IInv /\ StallsAtShortNalu /\ [FileNext]_vars => StallsAtShortNalu'
  <2> SUFFICES ASSUME IInv, StallsAtShortNalu, [FileNext]_vars,
                      NEW n \in Nalus', g_nalus'[n] = 0
               PROVE  idx' <= n
    BY DEF StallsAtShortNalu
  <2>1. g_nalus' = g_nalus /\ Nalus' = Nalus
    BY DEF FileNext, Sender, Control, WaitForPlay, SendFragment, SendFails, SpuriousWakeup,
           PlayAndSignal, SetupSession, StopPlayback, KeepSession, senderVars, vars, Nalus
  <2>2. n \in Nalus /\ g_nalus[n] = 0 /\ idx <= n
    BY <2>1 DEF StallsAtShortNalu
  <2>3. CASE idx' = idx
    BY <2>2, <2>3
  <2>4. CASE SendFragment /\ Advance
    <3>1. n /= idx
      <4>1. frag < g_nalus[idx]
        BY <2>4 DEF SendFragment
      <4>2. frag \in Nat
        BY DEF IInv, FileTypeOK
      <4> QED
        BY <2>2, <4>1, <4>2
    <3>2. idx \in Nat /\ n \in Nat /\ idx < n /\ n <= Len(g_nalus)
      <4>1. g_nalus \in Seq(Nat) /\ Nalus = 1..Len(g_nalus) /\ idx \in Nalus
        BY NaluFacts DEF IInv, FileTypeOK
      <4> QED
        BY <2>2, <3>1, <4>1
    <3>3. idx' = idx + 1
      BY <2>4, <3>2, NaluFacts DEF Advance, NextNalu, IInv, FileTypeOK
    <3> QED
      BY <3>2, <3>3
  <2> QED
    BY <2>3, <2>4
       DEF FileNext, Sender, Control, WaitForPlay, SendFragment, SendFails, SpuriousWakeup,
           PlayAndSignal, SetupSession, StopPlayback, KeepSession, senderVars, vars
<1> QED
  BY <1>1, <1>2, Invariance, PTL DEF FileSpec
===============================================================================
