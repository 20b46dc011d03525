----------------------------- MODULE EarlierProofs -----------------------------
(***************************************************************************)
(* Proofs about the earlier program, for every file, frame and ring: the   *)
(* sender never touches a file that main has freed, the ring keeps the     *)
(* lease of FrameLease, and frames are told apart by timestamp and marker. *)
(***************************************************************************)
EXTENDS EarlierSender, SequenceTheorems, TLAPS

Serving == {"accept", "recv", "close"}

(* Only a served client can play, and while clients are served nothing is  *)
(* freed.                                                                  *)
FileInv ==
  /\ g_play => life \in Serving
  /\ source = "file" /\ life \in {"create", "listen"} \cup Serving => g_nalus = "held"
  /\ source = "file" /\ pc = "send" => life \in Serving

(* A sender that holds an item is between reading it and giving it back.   *)
Holding == {"target", "map", "done"} \cup IF source = "fifo" THEN {"send"} ELSE {}
LeaseInv ==
  /\ Held /= {} => pc \in Holding \cup {"none"}
  /\ Held /= {} /\ pc = "none" => life = "exit"
  /\ \A i, j \in Held : i = j

FileOnly == {"wait", "asleep"}
FifoOnly == {"open", "poll", "target", "map", "done"}

(* Each mode has its own part of the sender's code. *)
ModeInv ==
  /\ source = "file" => pc \notin FifoOnly
  /\ source = "fifo" => pc \notin FileOnly
  /\ pc \in {"target", "map", "send", "done"} => Held /= {} \/ source = "file"
  /\ pc = "map" => packs /= <<>>
  /\ pc = "send" /\ source = "fifo" => packs /= <<>>
  /\ life \in {"load", "create"} => pc = "none"
  /\ pc \in {"map", "send"} => dest \in Ports
  /\ ~fresh => wire \in Packet

IInv == EarlierTypeOK /\ FileInv /\ LeaseInv /\ ModeInv

LEMMA InitIInv == EarlierInit => IInv
<1> SUFFICES ASSUME EarlierInit PROVE IInv
  OBVIOUS
<1>1. EarlierServerTypeOK
  BY DEF EarlierInit, EarlierServerInit, EarlierServerTypeOK
<1>2. TsMod \in Nat /\ 0 \in 0..TsMod-1 /\ 0 \in 0..MaxFaults /\ 1 \in DOMAIN File
  <2>1. DOMAIN File = 1..Len(File) /\ Len(File) \in Nat /\ Len(File) /= 0
    BY EarlierAssumption
  <2> QED
    BY <2>1, EarlierAssumption
<1>3. EarlierTypeOK
  <2>1. <<>> \in Seq(Pack) /\ <<>> \in Seq(Item) /\ Len(<<>>) = 0 /\ 0 <= RingSize
    BY EarlierAssumption
  <2> QED
    BY <1>1, <1>2, <2>1 DEF EarlierInit, EarlierServerInit, EarlierTypeOK
<1>4. Held = {}
  BY DEF EarlierInit, Held
<1>5. FileInv /\ LeaseInv /\ ModeInv
  BY <1>4 DEF EarlierInit, EarlierServerInit, FileInv, LeaseInv, ModeInv, FileOnly, FifoOnly,
     Serving
<1> QED
  BY <1>3, <1>5 DEF IInv

(* What the steps that leave the ring, the file and the process alone keep. *)
mainSteps == LoadSource \/ CreateFails \/ Listen \/ ListenFails
               \/ Accept \/ Setup \/ EndSession \/ Close

LEMMA MainTypes ==
  ASSUME EarlierServerTypeOK, mainSteps \/ CreateSender \/ Play
  PROVE  EarlierServerTypeOK'
<1> USE DEF EarlierServerTypeOK, sessionVars
<1>1. CASE CreateSender \/ Listen \/ Accept
  BY <1>1 DEF CreateSender, Listen, Accept
<1>2. CASE LoadSource \/ CreateFails \/ ListenFails
  BY <1>2 DEF LoadSource, CreateFails, ListenFails, FreeSource
<1>3. CASE EndSession
  <2>1. g_play' \in BOOLEAN
    BY <1>3, Zenon DEF EndSession
  <2> QED
    BY <1>3, <2>1 DEF EndSession
<1>4. CASE Close
  BY <1>4 DEF Close
<1>5. CASE Setup
  BY <1>5 DEF Setup
<1>6. CASE Play
  BY <1>6 DEF Play
<1> QED
  BY <1>1, <1>2, <1>3, <1>4, <1>5, <1>6 DEF mainSteps

LEMMA MainKeeps ==
  ASSUME IInv, Main
  PROVE  IInv'
<1>1. CASE OtherMain
  <2>1. mainSteps /\ UNCHANGED <<pc, ring, itemVars, fresh, wire, faults>> /\ source' = source
    BY <1>1 DEF OtherMain, mainSteps, LoadSource, CreateFails, Listen, ListenFails, Accept, Setup,
       EndSession, Close
  <2>2. EarlierTypeOK'
    BY <2>1, MainTypes DEF IInv, EarlierTypeOK, itemVars
  <2>3. Held' = Held
    BY <2>1 DEF Held
  <2>4. FileInv'
    <3> USE <2>1 DEF IInv, FileInv, ModeInv, Serving, sessionVars
    <3>1. CASE LoadSource \/ CreateFails \/ ListenFails
      BY <3>1 DEF LoadSource, CreateFails, ListenFails, FreeSource
    <3>2. CASE Listen \/ Accept \/ Setup
      BY <3>2 DEF Listen, Accept, Setup
    <3>3. CASE EndSession \/ Close
      BY <3>3 DEF EndSession, Close, EarlierTypeOK, EarlierServerTypeOK
    <3> QED
      BY <3>1, <3>2, <3>3 DEF mainSteps
  <2>5. life' \in {"load", "create"} => life = "load"
    BY <2>1 DEF mainSteps, LoadSource, CreateFails, Listen, ListenFails, Accept, Setup, EndSession,
       Close
  <2>6. life /= "exit"
    BY <2>1 DEF mainSteps, LoadSource, CreateFails, Listen, ListenFails, Accept, Setup, EndSession,
       Close
  <2>7. LeaseInv' /\ ModeInv'
    BY <2>1, <2>3, <2>5, <2>6 DEF IInv, LeaseInv, ModeInv, Holding, itemVars
  <2> QED
    BY <2>2, <2>4, <2>7 DEF IInv
<1>2. CASE Start
  <2>1. CreateSender /\ pc' = "socket" /\ pc = "none" /\ life = "create"
        /\ UNCHANGED <<ring, itemVars, fresh, wire, faults>> /\ Held' = Held /\ source' = source
    BY <1>2 DEF IInv, ModeInv, Start, CreateSender, Held
  <2>2. EarlierTypeOK'
    BY <2>1, MainTypes DEF IInv, EarlierTypeOK, itemVars
  <2>3. FileInv' /\ LeaseInv' /\ ModeInv'
    BY <2>1 DEF IInv, FileInv, LeaseInv, ModeInv, CreateSender, Serving, Holding, FileOnly,
       FifoOnly, sessionVars, itemVars
  <2> QED
    BY <2>2, <2>3 DEF IInv
<1>3. CASE PlayAndSignal
  <2>1. Play /\ pc' = (IF pc = "asleep" THEN "wait" ELSE pc)
        /\ UNCHANGED <<ring, itemVars, fresh, wire, faults>> /\ Held' = Held /\ source' = source
    BY <1>3 DEF PlayAndSignal, Play, Held
  <2>2. EarlierTypeOK'
    BY <2>1, MainTypes DEF IInv, EarlierTypeOK, itemVars
  <2>3. FileInv' /\ LeaseInv' /\ ModeInv'
    BY <2>1 DEF IInv, FileInv, LeaseInv, ModeInv, Play, Serving, Holding, FileOnly, FifoOnly,
       itemVars
  <2> QED
    BY <2>2, <2>3 DEF IInv
<1>4. CASE Exit
  <2>1. life' = "exit" /\ life = "free" /\ pc' = "none" /\ Held' = Held
        /\ UNCHANGED <<source, g_nalus, sessionVars, ring, itemVars, fresh, wire, faults>>
    BY <1>4 DEF Exit, Held
  <2>2. EarlierTypeOK'
    BY <2>1 DEF IInv, EarlierTypeOK, EarlierServerTypeOK, itemVars, sessionVars
  <2>3. FileInv' /\ LeaseInv' /\ ModeInv'
    BY <2>1 DEF IInv, FileInv, LeaseInv, ModeInv, Serving, Holding, FileOnly, FifoOnly, itemVars,
       sessionVars
  <2> QED
    BY <2>2, <2>3 DEF IInv
<1> QED
  BY <1>1, <1>2, <1>3, <1>4 DEF Main

-----------------------------------------------------------------------------
(* The sender *)

LEMMA SetState ==
  ASSUME ring \in Seq(Item), NEW i \in DOMAIN ring, NEW v \in {"held", "done", "lost"},
         ring' = [ring EXCEPT ![i].st = v]
  PROVE  /\ ring' \in Seq(Item) /\ Len(ring') = Len(ring) /\ DOMAIN ring' = DOMAIN ring
         /\ \A j \in DOMAIN ring : ring'[j].st = IF j = i THEN v ELSE ring[j].st
         /\ \A j \in DOMAIN ring : ring'[j].packs = ring[j].packs
         /\ Held' = IF v = "held" THEN Held \cup {i} ELSE Held \ {i}
<1>1. DOMAIN ring = 1..Len(ring) /\ Len(ring) \in Nat /\ ring[i] \in Item
  BY ElementOfSeq
<1>2. [ring[i] EXCEPT !.st = v] \in Item
  BY <1>1 DEF Item
<1>3. ring' \in Seq(Item) /\ Len(ring') = Len(ring) /\ DOMAIN ring' = DOMAIN ring
  <2>1. ring' = [ring EXCEPT ![i] = [ring[i] EXCEPT !.st = v]]
    OBVIOUS
  <2> QED
    BY <1>1, <1>2, <2>1, ExceptSeq
<1>4. \A j \in DOMAIN ring : ring[j] \in Item
  BY ElementOfSeq, <1>1
<1>5. \A j \in DOMAIN ring : ring'[j].st = IF j = i THEN v ELSE ring[j].st
  BY <1>4 DEF Item
<1>6. \A j \in DOMAIN ring : ring'[j].packs = ring[j].packs
  BY <1>4 DEF Item
<1>7. Held' = IF v = "held" THEN Held \cup {i} ELSE Held \ {i}
  BY <1>3, <1>5 DEF Held
<1> QED
  BY <1>3, <1>5, <1>6, <1>7

(* The steps of the sender that touch no item of the ring. *)
LEMMA QuietKeeps ==
  ASSUME IInv, UNCHANGED <<mainVars, ring>>, pc /= "none", EarlierTypeOK',
         pc \in Holding <=> pc' \in Holding, pc' /= "none",
         pc \in FileOnly \cup FifoOnly \cup {"send", "socket"},
         source = "file" => pc' \notin FifoOnly, source = "fifo" => pc' \notin FileOnly,
         source = "file" /\ pc' = "send" => life \in Serving,
         pc' = "map" => packs' /= <<>>, pc' = "send" /\ source = "fifo" => packs' /= <<>>,
         pc' \in {"map", "send"} => dest' \in Ports, ~fresh' => wire' \in Packet
  PROVE  IInv'
<1>1. UNCHANGED <<source, g_nalus, life, g_play>> /\ Held' = Held
  BY DEF mainVars, sessionVars, Held
<1>2. FileInv'
  BY <1>1 DEF IInv, FileInv, Serving
<1>3. LeaseInv'
  BY <1>1 DEF IInv, LeaseInv, Holding
<1>4. ModeInv'
  <2>1. source \in {"file", "fifo"}
    BY DEF IInv, EarlierTypeOK, EarlierServerTypeOK
  <2>2. pc' \in {"target", "map", "send", "done"} => Held' /= {} \/ source' = "file"
    BY <1>1, <2>1 DEF IInv, ModeInv, Holding
  <2>3. life' \in {"load", "create"} => pc' = "none"
    BY <1>1 DEF IInv, ModeInv
  <2> QED
    BY <1>1, <2>2, <2>3 DEF ModeInv
<1> QED
  BY <1>2, <1>3, <1>4 DEF IInv

LEMMA SeqFacts ==
  ASSUME NEW s \in Seq(Pack), s /= <<>>
  PROVE  Head(s) \in Pack /\ Tail(s) \in Seq(Pack) /\ Len(s) \in Nat /\ Len(s) > 0
         /\ Len(Tail(s)) = Len(s) - 1
BY EmptySeq, HeadTailProperties

LEMMA NextPackTypes ==
  ASSUME IInv, NextPack, packs /= <<>>
  PROVE  /\ packs' \in Seq(Pack) /\ pc' \in {"map", "done"} /\ timestamp' \in 0..TsMod-1
         /\ pc' = "map" => packs' /= <<>>
         /\ idx' = idx
<1>1. packs \in Seq(Pack) /\ timestamp \in 0..TsMod-1 /\ TsMod \in Nat \ {0}
  BY EarlierAssumption DEF IInv, EarlierTypeOK
<1>2. Tail(packs) \in Seq(Pack) /\ Len(Tail(packs)) = Len(packs) - 1 /\ Len(packs) \in Nat
  BY <1>1, SeqFacts
<1>3. (timestamp + 1) % TsMod \in 0..TsMod-1
  BY <1>1
<1>4. ASSUME Len(packs) > 1 PROVE Tail(packs) /= <<>>
  <2>1. Len(Tail(packs)) > 0
    BY <1>2, <1>4
  <2>2. Len(<<>>) = 0
    OBVIOUS
  <2> QED
    BY <2>1, <2>2
<1> QED
  BY <1>1, <1>2, <1>3, <1>4 DEF NextPack, NextTimestamp

LEMMA CutTypes ==
  ASSUME IInv, CutFrame
  PROVE  wire' \in Packet \cup {NoPacket} /\ (~fresh => wire' \in Packet)
<1>1. CASE fresh
  BY <1>1 DEF IInv, EarlierTypeOK, CutFrame
<1>2. CASE ~fresh
  BY <1>2 DEF IInv, ModeInv, CutFrame, Packet
<1> QED
  BY <1>1, <1>2

LEMMA FaultTypes ==
  ASSUME IInv, Fault \/ UNCHANGED faults
  PROVE  faults' \in 0..MaxFaults
BY EarlierAssumption DEF IInv, EarlierTypeOK, Fault

LEMMA StartKeeps ==
  ASSUME IInv, OpenSocket \/ OpenFifo
  PROVE  IInv'
<1>1. CASE OpenSocket
  <2>1. EarlierTypeOK'
    BY <1>1 DEF IInv, EarlierTypeOK, EarlierServerTypeOK, OpenSocket, mainVars, sessionVars, itemVars
  <2> QED
    BY <1>1, <2>1, QuietKeeps DEF IInv, ModeInv, EarlierTypeOK, EarlierServerTypeOK, OpenSocket,
       Holding, FileOnly, FifoOnly
<1>2. CASE OpenFifo
  <2>1. EarlierTypeOK'
    BY <1>2 DEF IInv, EarlierTypeOK, EarlierServerTypeOK, OpenFifo, mainVars, sessionVars, itemVars
  <2> QED
    BY <1>2, <2>1, QuietKeeps DEF IInv, ModeInv, EarlierTypeOK, EarlierServerTypeOK, OpenFifo,
       Holding, FileOnly, FifoOnly
<1> QED
  BY <1>1, <1>2

LEMMA WaitKeeps ==
  ASSUME IInv, WaitForPlay \/ SpuriousWakeup
  PROVE  IInv'
<1>1. source = "file"
  BY DEF IInv, ModeInv, EarlierTypeOK, EarlierServerTypeOK, WaitForPlay, SpuriousWakeup, FileOnly
<1>2. CASE WaitForPlay
  <2>1. File[idx] \in Nat
    BY EarlierAssumption DEF IInv, EarlierTypeOK
  <2>2. Playing => g_client_addr \in Ports /\ life \in Serving
    BY DEF IInv, EarlierTypeOK, EarlierServerTypeOK, FileInv, Playing
  <2>3. EarlierTypeOK'
    BY <1>2, <2>1, <2>2 DEF IInv, EarlierTypeOK, EarlierServerTypeOK, WaitForPlay, mainVars,
       sessionVars
  <2> QED
    BY <1>1, <1>2, <2>2, <2>3, QuietKeeps DEF IInv, ModeInv, WaitForPlay, Holding, FileOnly,
       FifoOnly
<1>3. CASE SpuriousWakeup
  <2>1. EarlierTypeOK'
    BY <1>3 DEF IInv, EarlierTypeOK, EarlierServerTypeOK, SpuriousWakeup, mainVars, sessionVars,
       itemVars
  <2> QED
    BY <1>1, <1>3, <2>1, QuietKeeps DEF IInv, ModeInv, SpuriousWakeup, Holding, FileOnly, FifoOnly,
       itemVars
<1> QED
  BY <1>2, <1>3

(* A session that plays has a target. *)
LEMMA TargetKeeps ==
  ASSUME IInv, GetTarget
  PROVE  IInv'
<1>1. source = "fifo"
  BY DEF IInv, ModeInv, EarlierTypeOK, EarlierServerTypeOK, GetTarget, FifoOnly
<1>2. g_client_addr \in Ports \cup {NoPort} /\ (Playing => g_client_addr \in Ports)
  BY DEF IInv, EarlierTypeOK, EarlierServerTypeOK, Playing
<1>3. EarlierServerTypeOK' /\ UNCHANGED <<ring, idx, packs, left, timestamp, wire, faults>>
  BY DEF IInv, EarlierTypeOK, EarlierServerTypeOK, GetTarget, mainVars, sessionVars
<1>4. dest' \in Ports \cup {NoPort} /\ fresh' \in BOOLEAN /\ pc' \in {"map", "done"}
  BY <1>2 DEF IInv, EarlierTypeOK, GetTarget
<1>5. EarlierTypeOK'
  BY <1>3, <1>4 DEF IInv, EarlierTypeOK
<1> QED
  BY <1>1, <1>2, <1>5, QuietKeeps DEF IInv, ModeInv, GetTarget, Holding, FileOnly, FifoOnly, BadFrame

LEMMA MapKeeps ==
  ASSUME IInv, MapPack \/ MapFails
  PROVE  IInv'
<1>1. source = "fifo" /\ pc = "map" /\ packs /= <<>> /\ packs \in Seq(Pack) /\ dest \in Ports
  BY DEF IInv, ModeInv, EarlierTypeOK, EarlierServerTypeOK, MapPack, MapFails, FifoOnly
<1>2. CASE MapPack
  <2>1. Head(packs).packets \in Nat
    BY <1>1, SeqFacts DEF Pack
  <2>2. EarlierTypeOK'
    BY <1>2, <2>1 DEF IInv, EarlierTypeOK, EarlierServerTypeOK, MapPack, mainVars, sessionVars
  <2> QED
    BY <1>1, <1>2, <2>2, QuietKeeps DEF IInv, ModeInv, MapPack, Holding, FileOnly, FifoOnly
<1>3. CASE MapFails
  <2>1. /\ packs' \in Seq(Pack) /\ pc' \in {"map", "done"} /\ timestamp' \in 0..TsMod-1
        /\ pc' = "map" => packs' /= <<>>
        /\ idx' = idx
    BY <1>1, <1>3, NextPackTypes DEF MapFails
  <2>2. wire' \in Packet \cup {NoPacket} /\ (~fresh => wire' \in Packet)
        /\ faults' \in 0..MaxFaults
    BY <1>3, CutTypes, FaultTypes DEF MapFails
  <2>3. EarlierTypeOK'
    BY <1>3, <2>1, <2>2 DEF IInv, EarlierTypeOK, EarlierServerTypeOK, MapFails, mainVars, sessionVars
  <2> QED
    BY <1>1, <1>3, <2>1, <2>2, <2>3, QuietKeeps DEF MapFails, Holding, FileOnly, FifoOnly
<1> QED
  BY <1>2, <1>3

LEMMA SendFailsKeeps ==
  ASSUME IInv, SendFails
  PROVE  IInv'
<1>1. source \in {"file", "fifo"} /\ pc = "send" /\ dest \in Ports /\ packs \in Seq(Pack)
      /\ (source = "fifo" => packs /= <<>>)
  BY DEF IInv, ModeInv, EarlierTypeOK, EarlierServerTypeOK, SendFails
<1>2. wire' \in Packet \cup {NoPacket} /\ (~fresh => wire' \in Packet) /\ faults' \in 0..MaxFaults
      /\ left' \in Nat /\ UNCHANGED <<mainVars, ring, dest, fresh>>
  BY CutTypes, FaultTypes DEF SendFails
<1>3. CASE source = "file" /\ pc' = "wait" /\ UNCHANGED <<idx, packs, timestamp>>
  <2>1. EarlierTypeOK'
    BY <1>2, <1>3 DEF IInv, EarlierTypeOK, EarlierServerTypeOK, mainVars, sessionVars
  <2> QED
    BY <1>1, <1>2, <1>3, <2>1, QuietKeeps DEF Holding, FileOnly, FifoOnly
<1>4. CASE source = "fifo" /\ NextPack
  <2>1. /\ packs' \in Seq(Pack) /\ pc' \in {"map", "done"} /\ timestamp' \in 0..TsMod-1
        /\ pc' = "map" => packs' /= <<>>
        /\ idx' = idx
    BY <1>1, <1>4, NextPackTypes
  <2>2. EarlierTypeOK'
    BY <1>2, <2>1 DEF IInv, EarlierTypeOK, EarlierServerTypeOK, mainVars, sessionVars
  <2> QED
    BY <1>1, <1>2, <1>4, <2>1, <2>2, QuietKeeps DEF Holding, FileOnly, FifoOnly
<1> QED
  BY <1>3, <1>4 DEF SendFails

LEMMA SendPacketKeeps ==
  ASSUME IInv, SendPacket
  PROVE  IInv'
<1>1. source \in {"file", "fifo"} /\ pc = "send" /\ dest \in Ports /\ packs \in Seq(Pack)
      /\ (source = "fifo" => packs /= <<>>) /\ timestamp \in 0..TsMod-1 /\ TsMod \in Nat \ {0}
      /\ (source = "file" => life \in Serving) /\ wire \in Packet \cup {NoPacket}
      /\ left \in Nat \ {0} /\ idx \in DOMAIN File
  BY EarlierAssumption DEF IInv, ModeInv, FileInv, EarlierTypeOK, EarlierServerTypeOK, SendPacket
<1>2. wire' \in Packet /\ left' \in Nat /\ UNCHANGED <<mainVars, ring, dest, faults>>
  <2> DEFINE bare == source = "fifo" /\ Len(packs) = 1 /\ LastOfPack("empty")
  <2>1. LastOfFrame \in BOOLEAN /\ bare \in BOOLEAN
    BY <1>1, Zenon DEF LastOfFrame, LastOfPack
  <2>2. wire.cut \in BOOLEAN
    <3>1. CASE wire \in Packet
      BY <3>1 DEF Packet
    <3>2. CASE wire = NoPacket
      BY <3>2 DEF NoPacket
    <3> QED
      BY <1>1, <3>1, <3>2
  <2> DEFINE cut == IF fresh THEN FALSE ELSE wire.cut
  <2>3. cut \in BOOLEAN
    BY <2>2
  <2>4. wire' = [to |-> dest, ts |-> timestamp, marker |-> LastOfFrame, bare |-> bare, cut |-> cut]
    BY DEF SendPacket
  <2> HIDE DEF cut, bare
  <2>5. wire' \in Packet
    BY <1>1, <2>1, <2>3, <2>4 DEF Packet
  <2> QED
    BY <1>1, <2>5 DEF SendPacket
<1>3. CASE fresh' = FALSE /\ UNCHANGED <<pc, idx, packs, timestamp>>
  <2>0. EarlierServerTypeOK'
    BY <1>2 DEF IInv, EarlierTypeOK, EarlierServerTypeOK, mainVars, sessionVars
  <2>1. EarlierTypeOK'
    BY <1>2, <1>3, <2>0 DEF IInv, EarlierTypeOK
  <2> QED
    BY <1>1, <1>2, <1>3, <2>1, QuietKeeps DEF Holding, FileOnly, FifoOnly
<1>4. CASE source = "file" /\ NextNalu
  <2>1. idx' \in DOMAIN File
    <3>1. DOMAIN File = 1..Len(File) /\ Len(File) \in Nat /\ Len(File) /= 0
      BY EarlierAssumption
    <3> QED
      BY <1>1, <1>4, <3>1 DEF NextNalu
  <2>2. timestamp' \in 0..TsMod-1
    BY <1>1, <1>4 DEF NextNalu, NextTimestamp
  <2>3. EarlierTypeOK'
    BY <1>2, <1>4, <2>1, <2>2 DEF IInv, EarlierTypeOK, EarlierServerTypeOK, mainVars, sessionVars,
       NextNalu
  <2> QED
    BY <1>1, <1>2, <1>4, <2>3, QuietKeeps DEF NextNalu, Holding, FileOnly, FifoOnly
<1>5. CASE source = "fifo" /\ NextPack /\ fresh' = FALSE
  <2>1. /\ packs' \in Seq(Pack) /\ pc' \in {"map", "done"} /\ timestamp' \in 0..TsMod-1
        /\ pc' = "map" => packs' /= <<>>
        /\ idx' = idx
    BY <1>1, <1>5, NextPackTypes
  <2>2. EarlierTypeOK'
    BY <1>2, <1>5, <2>1 DEF IInv, EarlierTypeOK, EarlierServerTypeOK, mainVars, sessionVars
  <2> QED
    BY <1>1, <1>2, <1>5, <2>1, <2>2, QuietKeeps DEF Holding, FileOnly, FifoOnly
<1> QED
  BY <1>3, <1>4, <1>5 DEF SendPacket

-----------------------------------------------------------------------------
(* The ring *)

LEMMA PollKeeps ==
  ASSUME IInv, Poll
  PROVE  IInv'
<1>1. source = "fifo" /\ pc = "poll" /\ ring \in Seq(Item) /\ life \notin {"load", "create"}
  BY DEF IInv, ModeInv, EarlierTypeOK, EarlierServerTypeOK, Poll, FifoOnly
<1>2. CASE Fault /\ UNCHANGED <<ring, packs, pc>>
  <2>1. EarlierTypeOK'
    BY <1>2, FaultTypes DEF IInv, EarlierTypeOK, EarlierServerTypeOK, Poll, mainVars, sessionVars
  <2> QED
    BY <1>1, <1>2, <2>1, QuietKeeps DEF IInv, ModeInv, Poll, Holding, FileOnly, FifoOnly
<1>3. ASSUME NEW i \in Unread, ring' = [ring EXCEPT ![i].st = "held"], packs' = ring[i].packs,
             pc' = "target", UNCHANGED faults
      PROVE  IInv'
  <2>1. i \in DOMAIN ring
    BY DEF Unread
  <2>2. Held = {}
    BY <1>1 DEF IInv, LeaseInv, Holding
  <2>3. ring' \in Seq(Item) /\ Len(ring') = Len(ring) /\ Held' = {i}
    BY <1>1, <1>3, <2>1, <2>2, SetState
  <2>4. packs' \in Seq(Pack)
    <3>1. ring[i] \in Item
      BY <1>1, <2>1, ElementOfSeq
    <3>2. <<>> \in Seq(Pack)
      OBVIOUS
    <3> QED
      BY <1>3, <3>1, <3>2, EarlierAssumption DEF Item, BadFrame
  <2>5. UNCHANGED <<mainVars, idx, left, dest, timestamp, fresh, wire>>
    BY DEF Poll
  <2>6. EarlierTypeOK'
    BY <1>3, <2>3, <2>4, <2>5 DEF IInv, EarlierTypeOK, EarlierServerTypeOK, mainVars, sessionVars
  <2>7. FileInv' /\ LeaseInv' /\ ModeInv'
    BY <1>1, <1>3, <2>3, <2>5 DEF IInv, FileInv, LeaseInv, ModeInv, Holding, FileOnly, FifoOnly,
       mainVars, sessionVars
  <2> QED
    BY <2>6, <2>7 DEF IInv
<1> QED
  BY <1>2, <1>3 DEF Poll

LEMMA ReadDoneKeeps ==
  ASSUME IInv, ReadDone
  PROVE  IInv'
<1>1. source = "fifo" /\ pc = "done" /\ ring \in Seq(Item) /\ life \notin {"load", "create"}
  BY DEF IInv, ModeInv, EarlierTypeOK, EarlierServerTypeOK, ReadDone, FifoOnly
<1>2. PICK i \in Held, v \in {"done", "lost"} : ring' = [ring EXCEPT ![i].st = v]
  BY DEF ReadDone
<1>3. i \in DOMAIN ring /\ Held = {i}
  BY DEF IInv, LeaseInv, Held
<1>4. ring' \in Seq(Item) /\ Len(ring') = Len(ring) /\ Held' = {}
  BY <1>1, <1>2, <1>3, SetState
<1>5. pc' = "poll" /\ packs' = <<>> /\ faults' \in 0..MaxFaults
      /\ UNCHANGED <<mainVars, idx, left, dest, timestamp, fresh, wire>>
  BY FaultTypes DEF ReadDone
<1>6. EarlierTypeOK'
  <2>1. <<>> \in Seq(Pack)
    OBVIOUS
  <2> QED
    BY <1>4, <1>5, <2>1 DEF IInv, EarlierTypeOK, EarlierServerTypeOK, mainVars, sessionVars
<1>7. FileInv' /\ LeaseInv' /\ ModeInv'
  BY <1>1, <1>4, <1>5 DEF IInv, FileInv, LeaseInv, ModeInv, Holding, FileOnly, FifoOnly,
     mainVars, sessionVars
<1> QED
  BY <1>6, <1>7 DEF IInv

(* A new item is unread, and an item that goes was done: whatever is held  *)
(* stays.                                                                  *)
LEMMA RingMoves ==
  ASSUME IInv, Submit \/ Release
  PROVE  /\ ring' \in Seq(Item) /\ Len(ring') <= RingSize
         /\ \A i, j \in Held' : i = j
         /\ Held' = {} <=> Held = {}
<1>1. ring \in Seq(Item) /\ Len(ring) \in Nat /\ Len(ring) <= RingSize /\ RingSize \in Nat
      /\ DOMAIN ring = 1..Len(ring) /\ \A i, j \in Held : i = j
  BY EarlierAssumption, LenProperties DEF IInv, EarlierTypeOK, LeaseInv
<1>2. CASE Submit
  <2>1. PICK f \in Frames \cup {BadFrame} :
          ring' = Append(ring, [packs |-> f, st |-> "unread"]) /\ Len(ring) < RingSize
    BY <1>2 DEF Submit
  <2>2. [packs |-> f, st |-> "unread"] \in Item
    BY DEF Item
  <2>3. ring' \in Seq(Item) /\ Len(ring') = Len(ring) + 1 /\ DOMAIN ring' = 1..Len(ring)+1
        /\ ring'[Len(ring)+1].st = "unread" /\ \A i \in 1..Len(ring) : ring'[i] = ring[i]
    BY <1>1, <2>1, <2>2, AppendProperties
  <2>4. Held' = Held
    BY <1>1, <2>3 DEF Held
  <2> QED
    BY <1>1, <2>1, <2>3, <2>4
<1>3. CASE Release
  <2>1. ring /= <<>> /\ ring[1].st = "done" /\ ring' = Tail(ring)
    BY <1>3 DEF Release
  <2>2. ring' \in Seq(Item) /\ Len(ring') = Len(ring) - 1 /\ DOMAIN ring' = 1..Len(ring)-1
        /\ \A i \in 1..Len(ring)-1 : ring'[i] = ring[i+1]
    BY <1>1, <2>1, HeadTailProperties
  <2>3. \A i \in Held' : i+1 \in Held
    BY <1>1, <2>2 DEF Held
  <2>4. \A i \in Held : i-1 \in Held'
    BY <1>1, <2>1, <2>2 DEF Held
  <2>5. \A i, j \in Held' : i \in Nat /\ j \in Nat /\ i = j
    <3>1. \A i \in Held' : i \in Nat
      BY <2>2 DEF Held
    <3> QED
      BY <1>1, <2>3, <3>1
  <2> QED
    BY <1>1, <2>2, <2>3, <2>4, <2>5
<1> QED
  BY <1>2, <1>3

LEMMA RingKeeps ==
  ASSUME IInv, Submit \/ Release
  PROVE  IInv'
<1>1. UNCHANGED <<mainVars, pc, itemVars, fresh, wire, faults>>
  BY DEF Submit, Release
<1>2. /\ ring' \in Seq(Item) /\ Len(ring') <= RingSize
      /\ \A i, j \in Held' : i = j
      /\ Held' = {} <=> Held = {}
  BY RingMoves
<1>3. EarlierTypeOK'
  BY <1>1, <1>2 DEF IInv, EarlierTypeOK, EarlierServerTypeOK, mainVars, sessionVars, itemVars
<1>4. FileInv' /\ LeaseInv' /\ ModeInv'
  BY <1>1, <1>2 DEF IInv, FileInv, LeaseInv, ModeInv, Holding, mainVars, sessionVars, itemVars
<1> QED
  BY <1>3, <1>4 DEF IInv

LEMMA StepKeeps == IInv /\ [EarlierNext]_vars => IInv'
<1> SUFFICES ASSUME IInv, [EarlierNext]_vars PROVE IInv'
  OBVIOUS
<1>1. CASE Sender
  BY <1>1, StartKeeps, WaitKeeps, PollKeeps, TargetKeeps, MapKeeps, SendPacketKeeps,
     SendFailsKeeps, ReadDoneKeeps DEF Sender
<1>2. CASE SpuriousWakeup
  BY <1>2, WaitKeeps
<1>3. CASE Main
  BY <1>3, MainKeeps
<1>4. CASE Submit \/ Release
  BY <1>4, RingKeeps
<1>5. CASE UNCHANGED vars
  <2>1. EarlierTypeOK'
    BY <1>5 DEF IInv, EarlierTypeOK, EarlierServerTypeOK, vars, mainVars, sessionVars, itemVars
  <2>2. FileInv' /\ LeaseInv' /\ ModeInv'
    <3>1. Held' = Held
      BY <1>5 DEF Held, vars
    <3> QED
      BY <1>5, <3>1 DEF IInv, FileInv, LeaseInv, ModeInv, Serving, Holding, FileOnly, FifoOnly, vars,
         mainVars, sessionVars, itemVars
  <2> QED
    BY <2>1, <2>2 DEF IInv
<1> QED
  BY <1>1, <1>2, <1>3, <1>4, <1>5 DEF EarlierNext

(* The inductive invariant of the earlier program. *)
THEOREM Invariance == EarlierSpec => []IInv
BY InitIInv, StepKeeps, PTL DEF EarlierSpec

(* Every variable of the earlier program keeps its type. *)
THEOREM TypeCorrect == EarlierSpec => []EarlierTypeOK
<1>1. IInv => EarlierTypeOK
  BY DEF IInv
<1> QED
  BY Invariance, <1>1, PTL

(* Whatever main frees after a failed listen, the sender thread it leaves  *)
(* behind never sends from the freed file.                                 *)
THEOREM FileOutlives == EarlierSpec => []FileOutlivesUse
<1>1. IInv => FileOutlivesUse
  BY DEF IInv, FileInv, FileOutlivesUse
<1> QED
  BY Invariance, <1>1, PTL

-----------------------------------------------------------------------------
(* The lease *)

St == {"unread", "held", "done", "lost"}
Statuses(r) == [i \in DOMAIN r |-> r[i].st]
lent == Statuses(ring)

LEMMA StatusesSeq ==
  ASSUME NEW r \in Seq(Item)
  PROVE  /\ Statuses(r) \in Seq(St) /\ Len(Statuses(r)) = Len(r)
         /\ DOMAIN Statuses(r) = 1..Len(r) /\ DOMAIN r = 1..Len(r) /\ Len(r) \in Nat
         /\ \A i \in 1..Len(r) : Statuses(r)[i] = r[i].st
<1>1. DOMAIN r = 1..Len(r) /\ Len(r) \in Nat /\ \A i \in DOMAIN r : r[i] \in Item
  BY ElementOfSeq, LenProperties
<1>2. Statuses(r) \in [1..Len(r) -> St]
  BY <1>1 DEF Statuses, Item, St
<1>3. Statuses(r) \in Seq(St)
  BY <1>1, <1>2
<1>4. Len(Statuses(r)) = Len(r)
  BY <1>1, <1>2, <1>3
<1>5. \A i \in 1..Len(r) : Statuses(r)[i] = r[i].st
  BY <1>1 DEF Statuses
<1> QED
  BY <1>1, <1>2, <1>3, <1>4, <1>5

(* A status that the sender writes is what the lender sees. *)
LEMMA LentSet ==
  ASSUME ring \in Seq(Item), NEW i \in DOMAIN ring, NEW v \in {"held", "done", "lost"},
         ring' = [ring EXCEPT ![i].st = v]
  PROVE  lent' = [lent EXCEPT ![i] = v]
<1>1. DOMAIN ring' = DOMAIN ring /\ \A j \in DOMAIN ring : ring'[j].st = IF j = i THEN v ELSE ring[j].st
  BY SetState
<1> QED
  BY <1>1 DEF lent, Statuses

LEMMA StatusesAppend ==
  ASSUME NEW r \in Seq(Item), NEW x \in Item
  PROVE  Statuses(Append(r, x)) = Append(Statuses(r), x.st)
<1>1. Append(r, x) \in Seq(Item) /\ Len(Append(r, x)) = Len(r)+1
      /\ Append(r, x)[Len(r)+1] = x /\ \A i \in 1..Len(r) : Append(r, x)[i] = r[i]
  BY AppendProperties
<1>2. x.st \in St
  BY DEF Item, St
<1>3. Statuses(r) \in Seq(St) /\ Len(Statuses(r)) = Len(r) /\ Len(r) \in Nat
      /\ \A i \in 1..Len(r) : Statuses(r)[i] = r[i].st
  BY StatusesSeq
<1> DEFINE a == Statuses(Append(r, x))
           b == Append(Statuses(r), x.st)
<1>4. a \in Seq(St) /\ Len(a) = Len(r)+1
      /\ \A i \in 1..Len(r)+1 : a[i] = Append(r, x)[i].st
  BY <1>1, StatusesSeq
<1>5. b \in Seq(St) /\ Len(b) = Len(r)+1 /\ b[Len(r)+1] = x.st
      /\ \A i \in 1..Len(r) : b[i] = Statuses(r)[i]
  BY <1>2, <1>3, AppendProperties
<1> HIDE DEF a, b
<1>6. \A i \in 1..Len(r)+1 : a[i] = b[i]
  BY <1>1, <1>3, <1>4, <1>5
<1>7. a = b
  BY <1>4, <1>5, <1>6, SeqEqual
<1> QED
  BY <1>7 DEF a, b

LEMMA StatusesTail ==
  ASSUME NEW r \in Seq(Item), r /= <<>>
  PROVE  Statuses(r) /= <<>> /\ Head(Statuses(r)) = Head(r).st
         /\ Statuses(Tail(r)) = Tail(Statuses(r))
<1>1. Tail(r) \in Seq(Item) /\ Len(Tail(r)) = Len(r)-1
      /\ \A i \in 1..Len(Tail(r)) : Tail(r)[i] = r[i+1]
  BY HeadTailProperties
<1>2. Statuses(r) \in Seq(St) /\ Len(Statuses(r)) = Len(r) /\ Len(r) \in Nat
      /\ \A i \in 1..Len(r) : Statuses(r)[i] = r[i].st
  BY StatusesSeq
<1>3. Len(r) > 0
  BY <1>2, EmptySeq
<1>4. Statuses(r) /= <<>> /\ Head(Statuses(r)) = Head(r).st
  <2>1. Statuses(r) /= <<>>
    BY <1>2, <1>3, EmptySeq
  <2> QED
    BY <1>2, <1>3, <2>1
<1> DEFINE a == Statuses(Tail(r))
           b == Tail(Statuses(r))
<1>5. a \in Seq(St) /\ Len(a) = Len(r)-1
      /\ \A i \in 1..Len(r)-1 : a[i] = Tail(r)[i].st
  BY <1>1, StatusesSeq
<1>6. b \in Seq(St) /\ Len(b) = Len(r)-1
      /\ \A i \in 1..Len(r)-1 : b[i] = Statuses(r)[i+1]
  BY <1>2, <1>4, HeadTailProperties
<1> HIDE DEF a, b
<1>7. \A i \in 1..Len(r)-1 : a[i] = b[i]
  BY <1>1, <1>2, <1>5, <1>6
<1>8. a = b
  BY <1>5, <1>6, <1>7, SeqEqual
<1> QED
  BY <1>4, <1>8 DEF a, b

LEMMA StepLeases ==
  ASSUME IInv, [EarlierNext]_vars
  PROVE  [Lender!LeaseNext]_(Lender!vars)
<1> USE DEF Lender!LeaseNext, Lender!vars
<1>0. ring \in Seq(Item) /\ UNCHANGED RingSize
  BY DEF IInv, EarlierTypeOK
<1>1. CASE UNCHANGED ring
  BY <1>1
<1>2. CASE Poll /\ ~UNCHANGED ring
  <2>1. PICK i \in Unread : /\ \A j \in Unread : i <= j
                            /\ ring' = [ring EXCEPT ![i].st = "held"]
                            /\ Avail \in 1..Entries /\ pc = "poll"
    BY <1>2 DEF Poll
  <2>2. i \in DOMAIN ring /\ lent' = [lent EXCEPT ![i] = "held"]
    BY <1>0, <2>1, LentSet DEF Unread
  <2>3. DOMAIN lent = DOMAIN ring /\ \A j \in DOMAIN ring : lent[j] = ring[j].st
    BY DEF lent, Statuses
  <2>4. Lender!Backlog = Unread
    BY <2>3 DEF Lender!Backlog, lent, Statuses, Unread
  <2>5. \A j \in DOMAIN lent : lent[j] /= "held"
    <3>1. Held = {}
      BY <2>1, EarlierAssumption DEF IInv, LeaseInv, ModeInv, Holding
    <3> QED
      BY <2>3, <3>1 DEF Held
  <2>6. Lender!Lease
    <3>1. Lender!Cardinality(Lender!Backlog) <= Entries
      <4>1. Lender!Cardinality(Unread) = Cardinality(Unread)
        BY DEF Lender!Cardinality, Cardinality
      <4> QED
        BY <2>1, <2>4, <4>1, EarlierAssumption DEF Avail
    <3>2. \E j \in Lender!Backlog : /\ \A k \in Lender!Backlog : j <= k
                                   /\ lent' = [lent EXCEPT ![j] = "held"]
      BY <2>1, <2>2, <2>4
    <3> QED
      BY <2>5, <3>1, <3>2 DEF Lender!Lease, lent, Statuses
  <2> QED
    BY <1>0, <2>6
<1>3. CASE ReadDone
  <2>1. PICK i \in Held, v \in {"done", "lost"} : ring' = [ring EXCEPT ![i].st = v]
    BY <1>3 DEF ReadDone
  <2>2. i \in DOMAIN ring /\ lent' = [lent EXCEPT ![i] = v] /\ i \in DOMAIN lent /\ lent[i] = "held"
    BY <1>0, <2>1, LentSet DEF Held, lent, Statuses
  <2>3. Lender!Return \/ Lender!Lose
    BY <2>1, <2>2 DEF Lender!Return, Lender!Lose, lent, Statuses
  <2> QED
    BY <1>0, <2>3
<1>4. CASE Submit
  <2>1. PICK f \in Frames \cup {BadFrame} : ring' = Append(ring, [packs |-> f, st |-> "unread"])
    BY <1>4 DEF Submit
  <2>2. lent' = Append(lent, "unread") /\ Len(lent) < RingSize
    <3>1. [packs |-> f, st |-> "unread"] \in Item
      BY DEF Item
    <3>2. lent' = Append(lent, "unread")
      BY <1>0, <2>1, <3>1, StatusesAppend DEF lent
    <3> QED
      BY <1>0, <1>4, <3>2, StatusesSeq DEF Submit, lent
  <2>3. Lender!Submit
    BY <2>2 DEF Lender!Submit, lent, Statuses
  <2> QED
    BY <1>0, <2>3
<1>5. CASE Release
  <2>1. lent /= <<>> /\ Head(lent) = "done" /\ lent' = Tail(lent)
    BY <1>0, <1>5, StatusesTail DEF Release, lent
  <2>2. Lender!Release
    BY <2>1 DEF Lender!Release, lent, Statuses
  <2> QED
    BY <1>0, <2>2
<1>6. CASE Main \/ SpuriousWakeup \/ UNCHANGED vars
  <2>1. UNCHANGED ring
    BY <1>6 DEF Main, Start, PlayAndSignal, Exit, OtherMain, SpuriousWakeup, vars
  <2> QED
    BY <1>1, <2>1
<1>7. CASE Sender /\ ~Poll /\ ~ReadDone
  <2>1. UNCHANGED ring
    BY <1>7 DEF Sender, OpenSocket, OpenFifo, WaitForPlay, GetTarget, MapPack, MapFails,
       SendPacket, SendFails
  <2> QED
    BY <1>1, <2>1
<1> QED
  BY <1>1, <1>2, <1>3, <1>4, <1>5, <1>6, <1>7 DEF EarlierNext, Sender

LEMMA InitLeases == EarlierInit => Lender!LeaseInit
<1> SUFFICES ASSUME EarlierInit PROVE Lender!LeaseInit
  OBVIOUS
<1>1. RingSize \in Nat \ {0}
  BY EarlierAssumption
<1>2. ring = <<>>
  BY DEF EarlierInit
<1>3. [i \in DOMAIN ring |-> ring[i].st] = <<>>
  BY <1>2
<1> QED
  BY <1>1, <1>3 DEF Lender!LeaseInit

(* The earlier sender keeps the lease between the cores: one item at a     *)
(* time, in order, and every one it took is given back or lost with a      *)
(* failing READ_DONE before it takes the next.                             *)
THEOREM LeaseKept == EarlierSpec => ImplementsLease
<1>1. IInv /\ [EarlierNext]_vars => [Lender!LeaseNext]_(Lender!vars)
  BY StepLeases
<1> QED
  BY Invariance, InitLeases, <1>1, PTL DEF EarlierSpec, ImplementsLease

-----------------------------------------------------------------------------
(* Frames on the wire *)

(* The big core's frames have a pack that can be sent. *)
FramesCanBeSent == \A f \in Frames : Sendable(f)

InFrame == ~fresh /\ pc \in {"wait", "asleep", "map", "send"}
Behind(k) == timestamp \in {wire.ts + k, wire.ts + k - TsMod}

(* Within a frame the last packet is of this frame and not its last.       *)
(* Before one, the frame on the wire is complete or cut, and the timestamp *)
(* is ahead of it by the frames between, of which each took a fault or     *)
(* still has something to send.                                            *)
FrameInv ==
  /\ InFrame => /\ wire.ts = timestamp /\ ~wire.marker /\ ~wire.bare
                /\ source = "fifo" => wire.to = dest
  /\ fresh \/ pc \in {"poll", "target", "done"} =>
       /\ wire.marker \/ wire.bare \/ wire.cut
       /\ \E k \in 1..faults+1 :
            /\ Behind(k)
            /\ source = "fifo" /\ pc \in {"map", "send"} => k <= faults \/ Sendable(packs)
  /\ source = "fifo" /\ pc = "send" /\ fresh => left = Head(packs).packets
  /\ pc = "target" => packs \in Frames \cup {BadFrame}
  /\ pc \in {"socket", "open"} \/ life \in {"load", "create"} => fresh

LEMMA FrameTypes ==
  ASSUME IInv
  PROVE  /\ wire.ts \in 0..TsMod-1 /\ timestamp \in 0..TsMod-1
         /\ faults \in 0..MaxFaults /\ MaxFaults \in Nat /\ TsMod \in Nat /\ TsMod > MaxFaults + 1
         /\ packs \in Seq(Pack) /\ left \in Nat /\ source \in {"file", "fifo"}
<1>1. wire \in Packet => wire.ts \in 0..TsMod-1
  BY DEF Packet
<1>2. NoPacket.ts \in 0..TsMod-1
  BY EarlierAssumption DEF NoPacket
<1> QED
  BY <1>1, <1>2, EarlierAssumption DEF IInv, EarlierTypeOK, EarlierServerTypeOK

(* One step on a circle of m. *)
LEMMA NextOf ==
  ASSUME NEW m \in Nat \ {0}, NEW t \in 0..m-1
  PROVE  (t + 1) % m = IF t = m - 1 THEN 0 ELSE t + 1
<1>1. CASE t = m - 1
  <2>1. m % m = 0
    OBVIOUS
  <2> QED
    BY <1>1, <2>1
<1>2. CASE t < m - 1
  <2>1. \A n \in 0..m-1 : n % m = n
    OBVIOUS
  <2> QED
    BY <1>2, <2>1
<1> QED
  BY <1>1, <1>2

LEMMA OneFurther ==
  ASSUME NEW m \in Nat \ {0}, NEW w \in 0..m-1, NEW k \in Nat, k < m - 1, NEW t \in 0..m-1,
         t = w + k \/ t = w + k - m
  PROVE  (t + 1) % m \in {w + (k + 1), w + (k + 1) - m}
<1>1. (t + 1) % m = IF t = m - 1 THEN 0 ELSE t + 1
  BY NextOf
<1>2. CASE t = m - 1
  BY <1>1, <1>2
<1>3. CASE t /= m - 1
  BY <1>1, <1>3
<1> QED
  BY <1>2, <1>3

LEMMA Widens ==
  ASSUME NEW a \in Nat, NEW b \in Nat, a <= b, NEW k \in 1..a+1
  PROVE  k \in 1..b+1 /\ (k <= a => k <= b)
OBVIOUS

(* The timestamp of the next frame. *)
LEMMA Turns ==
  ASSUME IInv, NEW k \in 0..MaxFaults, Behind(k), NextTimestamp, wire'.ts = wire.ts
  PROVE  Behind(k+1)'
<1>1. /\ TsMod \in Nat \ {0} /\ wire.ts \in 0..TsMod-1 /\ timestamp \in 0..TsMod-1
      /\ k \in Nat /\ k < TsMod - 1
  BY FrameTypes
<1>2. timestamp = wire.ts + k \/ timestamp = wire.ts + k - TsMod
  BY DEF Behind
<1>3. (timestamp + 1) % TsMod \in {wire.ts + (k + 1), wire.ts + (k + 1) - TsMod}
  BY ONLY <1>1, <1>2, OneFurther
<1> QED
  BY <1>3 DEF Behind, NextTimestamp

(* Steps that leave frames alone. *)
LEMMA FrameQuiet ==
  ASSUME IInv, FrameInv, UNCHANGED <<source, timestamp, wire, fresh, dest, packs>>,
         \/ pc' = pc /\ left' = left
         \/ pc = "poll" /\ pc' = "poll"
         \/ pc \in {"none", "socket", "open"} /\ fresh
            /\ pc' \in {"socket", "open", "wait", "poll", "ended"}
         \/ pc \in {"wait", "asleep"} /\ pc' \in {"wait", "asleep"}
         \/ pc' = "none",
         life' \in {"load", "create"} => fresh,
         faults' \in Nat, faults' >= faults
  PROVE  FrameInv'
<1>1. InFrame' => InFrame
  BY DEF InFrame
<1>2. fresh' \/ pc' \in {"poll", "target", "done"} => fresh \/ pc \in {"poll", "target", "done"}
  OBVIOUS
<1>3. ASSUME fresh' \/ pc' \in {"poll", "target", "done"}
      PROVE  \E k \in 1..faults'+1 :
               /\ Behind(k)'
               /\ source' = "fifo" /\ pc' \in {"map", "send"} => k <= faults' \/ Sendable(packs)'
  <2>1. PICK k \in 1..faults+1 :
          /\ Behind(k)
          /\ source = "fifo" /\ pc \in {"map", "send"} => k <= faults \/ Sendable(packs)
    BY <1>2, <1>3 DEF FrameInv
  <2>2. k \in 1..faults'+1 /\ (k <= faults => k <= faults')
    <3>1. faults \in Nat
      BY FrameTypes
    <3> QED
      BY <3>1, Widens
  <2>3. Behind(k)'
    BY <2>1 DEF Behind
  <2>4. pc' \in {"map", "send"} => pc = pc'
    OBVIOUS
  <2>5. Sendable(packs)' <=> Sendable(packs)
    BY DEF Sendable
  <2> QED
    BY <2>1, <2>2, <2>3, <2>4, <2>5
<1>4. pc' \in {"socket", "open"} => fresh
  BY DEF FrameInv
<1>5. /\ InFrame' => /\ wire'.ts = timestamp' /\ ~wire'.marker /\ ~wire'.bare
                     /\ source' = "fifo" => wire'.to = dest'
      /\ fresh' \/ pc' \in {"poll", "target", "done"} => wire'.marker \/ wire'.bare \/ wire'.cut
      /\ source' = "fifo" /\ pc' = "send" /\ fresh' => left' = Head(packs').packets
      /\ pc' = "target" => packs' \in Frames \cup {BadFrame}
  BY <1>1, <1>2 DEF FrameInv
<1> QED
  BY <1>3, <1>4, <1>5 DEF FrameInv

LEMMA PollFrames ==
  ASSUME IInv, FrameInv, Poll
  PROVE  FrameInv'
<1>1. CASE Fault /\ UNCHANGED <<ring, packs, pc>>
  BY <1>1, FrameQuiet, FrameTypes DEF Poll, Fault, mainVars, FrameInv
<1>2. ASSUME NEW i \in Unread, packs' = ring[i].packs, pc' = "target", UNCHANGED faults
      PROVE  FrameInv'
  <2>1. ring[i] \in Item
    BY ElementOfSeq DEF IInv, EarlierTypeOK, Unread
  <2>2. packs' \in Frames \cup {BadFrame}
    BY <1>2, <2>1 DEF Item
  <2>3. pc = "poll" /\ UNCHANGED <<source, life, wire, timestamp, fresh>>
    BY DEF Poll, mainVars
  <2>4. (wire.marker \/ wire.bare \/ wire.cut) /\ \E k \in 1..faults+1 : Behind(k)
    BY <2>3 DEF FrameInv
  <2>5. \E k \in 1..faults'+1 : Behind(k)'
    BY <1>2, <2>3, <2>4 DEF Behind
  <2> QED
    BY <1>2, <2>2, <2>3, <2>4, <2>5 DEF FrameInv, InFrame
<1> QED
  BY <1>1, <1>2 DEF Poll

LEMMA TargetFrames ==
  ASSUME IInv, FrameInv, FramesCanBeSent, GetTarget
  PROVE  FrameInv'
<1>1. pc = "target" /\ UNCHANGED <<source, life, wire, timestamp, packs, faults>>
  BY DEF GetTarget, mainVars
<1>2. PICK k \in 1..faults+1 : Behind(k)
  BY <1>1 DEF FrameInv
<1>3. k \in 1..faults'+1 /\ Behind(k)' /\ (wire'.marker \/ wire'.bare \/ wire'.cut)
  BY <1>1, <1>2 DEF Behind, FrameInv
<1>4. CASE pc' = "map" /\ fresh' = TRUE /\ packs /= BadFrame
  <2>1. Sendable(packs)'
    BY <1>1, <1>4 DEF FrameInv, FramesCanBeSent, Sendable
  <2> QED
    BY <1>1, <1>3, <1>4, <2>1 DEF FrameInv, InFrame
<1>5. CASE pc' = "done" /\ UNCHANGED fresh
  BY <1>1, <1>3, <1>5 DEF FrameInv, InFrame
<1> QED
  BY <1>4, <1>5 DEF GetTarget

LEMMA ReadDoneFrames ==
  ASSUME IInv, FrameInv, ReadDone
  PROVE  FrameInv'
<1>1. pc = "done" /\ pc' = "poll" /\ UNCHANGED <<source, life, wire, timestamp, fresh>>
      /\ faults' \in {faults, faults + 1}
  BY DEF ReadDone, Fault, mainVars
<1>2. PICK k \in 1..faults+1 : Behind(k)
  BY <1>1 DEF FrameInv
<1>3. k \in 1..faults'+1 /\ Behind(k)' /\ (wire'.marker \/ wire'.bare \/ wire'.cut)
  BY <1>1, <1>2, FrameTypes DEF Behind, FrameInv
<1> QED
  BY <1>1, <1>3 DEF FrameInv, InFrame

LEMMA WaitFrames ==
  ASSUME IInv, FrameInv, WaitForPlay
  PROVE  FrameInv'
<1>1. source = "file" /\ pc = "wait" /\ pc' \in {"asleep", "send"}
      /\ UNCHANGED <<source, life, wire, timestamp, fresh, faults>>
  BY DEF IInv, ModeInv, EarlierTypeOK, EarlierServerTypeOK, WaitForPlay, FileOnly, mainVars
<1>2. ASSUME fresh PROVE \E k \in 1..faults'+1 : Behind(k)'
  BY <1>1, <1>2 DEF FrameInv, Behind
<1> QED
  BY <1>1, <1>2 DEF FrameInv, InFrame

LEMMA MapFrames ==
  ASSUME IInv, FrameInv, MapPack
  PROVE  FrameInv'
<1>1. source = "fifo" /\ pc = "map" /\ pc' = "send" /\ left' = Head(packs).packets
      /\ UNCHANGED <<source, life, wire, timestamp, fresh, faults, packs, dest>>
  BY DEF IInv, ModeInv, EarlierTypeOK, EarlierServerTypeOK, MapPack, FifoOnly, mainVars
<1>2. ASSUME fresh
      PROVE  \E k \in 1..faults'+1 : Behind(k)' /\ (k <= faults' \/ Sendable(packs)')
  <2>1. PICK k \in 1..faults+1 : Behind(k) /\ (k <= faults \/ Sendable(packs))
    BY <1>1, <1>2 DEF FrameInv
  <2>2. Behind(k)' /\ (Sendable(packs) => Sendable(packs)')
    BY <1>1, <2>1 DEF Behind, Sendable
  <2> QED
    BY <1>1, <2>1, <2>2
<1> QED
  BY <1>1, <1>2 DEF FrameInv, InFrame

(* What cutting a frame leaves as it was. *)
LEMMA CutLeaves ==
  ASSUME IInv, CutFrame
  PROVE  /\ wire'.ts = wire.ts /\ wire'.to = wire.to /\ wire'.marker = wire.marker
         /\ wire'.bare = wire.bare
         /\ fresh => wire' = wire
         /\ ~fresh => wire'.cut
<1>1. CASE fresh
  BY <1>1 DEF CutFrame
<1>2. CASE ~fresh
  BY <1>2 DEF CutFrame, IInv, ModeInv, Packet
<1> QED
  BY <1>1, <1>2

(* A pack that has nothing to send does not make the item worth sending. *)
LEMMA RestSendable ==
  ASSUME NEW s \in Seq(Pack), s /= <<>>, Sendable(s), Head(s).packets = 0
  PROVE  Sendable(Tail(s)) /\ Len(s) /= 1
<1>1. PICK k \in DOMAIN s : s[k].packets > 0
  BY DEF Sendable
<1>2. Len(s) \in Nat /\ DOMAIN s = 1..Len(s) /\ s[1].packets = 0
  BY LenProperties
<1>3. k \in 2..Len(s)
  BY <1>1, <1>2
<1>4. DOMAIN Tail(s) = 1..Len(s)-1 /\ \A i \in 1..Len(s)-1 : Tail(s)[i] = s[i+1]
  BY <1>2, HeadTailProperties
<1>5. k-1 \in 1..Len(s)-1 /\ (k-1)+1 = k
  BY <1>2, <1>3
<1>6. Tail(s)[k-1].packets > 0
  BY <1>1, <1>4, <1>5
<1> QED
  BY <1>2, <1>3, <1>4, <1>5, <1>6 DEF Sendable

(* A pack of a frame that is given up, by a fault or as it cannot be sent. *)
LEMMA PackGivenUp ==
  ASSUME IInv, FrameInv, source = "fifo", pc \in {"map", "send"},
         NextPack, CutFrame, UNCHANGED <<source, life, dest, fresh>>,
         \/ faults' = faults + 1 /\ faults < MaxFaults
         \/ faults' = faults /\ pc = "send" /\ left = 0
  PROVE  FrameInv'
<1>1. packs \in Seq(Pack) /\ packs /= <<>> /\ life \notin {"load", "create"}
  BY FrameTypes DEF IInv, ModeInv
<1>2. /\ wire'.ts = wire.ts /\ wire'.to = wire.to /\ wire'.marker = wire.marker
      /\ wire'.bare = wire.bare
      /\ fresh => wire' = wire
      /\ ~fresh => wire'.cut
  BY CutLeaves
<1>3. CASE ~fresh
  <2>1. wire.ts = timestamp /\ ~wire.marker /\ ~wire.bare /\ wire.to = dest
    BY <1>3 DEF FrameInv, InFrame
  <2>2. CASE Len(packs) > 1 /\ pc' = "map" /\ UNCHANGED timestamp
    BY <1>1, <1>2, <1>3, <2>1, <2>2 DEF FrameInv, InFrame
  <2>3. CASE Len(packs) = 1 /\ pc' = "done" /\ NextTimestamp
    <3>1. Behind(0)
      BY <2>1, FrameTypes DEF Behind
    <3>2. Behind(0+1)'
      <4>1. 0 \in 0..MaxFaults
        BY FrameTypes
      <4> QED
        BY <1>2, <2>3, <3>1, <4>1, Turns
    <3>3. 0+1 \in 1..faults'+1
      BY FrameTypes
    <3> QED
      BY <1>1, <1>2, <1>3, <2>3, <3>2, <3>3 DEF FrameInv, InFrame
  <2> QED
    BY <2>2, <2>3 DEF NextPack
<1>4. CASE fresh
  <2>1. PICK k \in 1..faults+1 : Behind(k) /\ (k <= faults \/ Sendable(packs))
    BY <1>4 DEF FrameInv
  <2>2. wire.marker \/ wire.bare \/ wire.cut
    BY <1>4 DEF FrameInv
  <2>3. k <= faults' \/ (left = 0 /\ pc = "send" /\ faults' = faults /\ Sendable(packs))
    BY <2>1, FrameTypes
  <2>4. k <= faults' \/ (Sendable(Tail(packs)) /\ Len(packs) /= 1)
    BY <1>1, <1>4, <2>3, RestSendable DEF FrameInv
  <2>5. k \in Nat /\ k \in 1..faults'+1 /\ (k <= faults' => k \in 0..MaxFaults /\ k+1 \in 1..faults'+1)
    BY FrameTypes
  <2>6. CASE Len(packs) > 1 /\ pc' = "map" /\ UNCHANGED timestamp
    <3>1. Behind(k)'
      BY <1>2, <2>1, <2>6 DEF Behind
    <3>2. k <= faults' \/ Sendable(packs)'
      BY <2>4 DEF Sendable, NextPack
    <3> QED
      BY <1>1, <1>2, <1>4, <2>2, <2>5, <2>6, <3>1, <3>2 DEF FrameInv, InFrame
  <2>7. CASE Len(packs) = 1 /\ pc' = "done" /\ NextTimestamp
    <3>1. Behind(k+1)'
      BY <1>2, <2>1, <2>4, <2>5, <2>7, Turns
    <3> QED
      BY <1>1, <1>2, <1>4, <2>2, <2>4, <2>5, <2>7, <3>1 DEF FrameInv, InFrame
  <2> QED
    BY <2>6, <2>7 DEF NextPack
<1> QED
  BY <1>3, <1>4

LEMMA FailFrames ==
  ASSUME IInv, FrameInv, MapFails \/ SendFails
  PROVE  FrameInv'
<1>1. CutFrame /\ UNCHANGED <<source, life, dest, fresh>>
  BY DEF MapFails, SendFails, mainVars
<1>2. CASE MapFails
  <2>1. source = "fifo"
    BY <1>2 DEF IInv, ModeInv, EarlierTypeOK, EarlierServerTypeOK, MapFails, FifoOnly
  <2> QED
    BY <1>1, <1>2, <2>1, PackGivenUp DEF MapFails, Fault
<1>3. CASE SendFails /\ source = "fifo"
  BY <1>1, <1>3, PackGivenUp DEF SendFails, Fault
<1>4. CASE SendFails /\ source = "file"
  <2>1. pc = "send" /\ pc' = "wait" /\ UNCHANGED timestamp /\ faults' \in {faults, faults+1}
    BY <1>4 DEF SendFails, Fault
  <2>2. /\ wire'.ts = wire.ts /\ wire'.to = wire.to /\ wire'.marker = wire.marker
        /\ wire'.bare = wire.bare
        /\ fresh => wire' = wire
    BY <1>1, CutLeaves
  <2>3. ASSUME fresh PROVE \E k \in 1..faults'+1 : Behind(k)'
    <3>1. PICK k \in 1..faults+1 : Behind(k)
      BY <2>3 DEF FrameInv
    <3>2. Behind(k)' /\ k \in 1..faults'+1
      BY <2>1, <2>2, <3>1, FrameTypes DEF Behind
    <3> QED
      BY <3>2
  <2> QED
    BY <1>1, <1>4, <2>1, <2>2, <2>3 DEF FrameInv, InFrame
<1> QED
  BY <1>2, <1>3, <1>4, FrameTypes

LEMMA SendFrames ==
  ASSUME IInv, FrameInv, SendPacket
  PROVE  FrameInv'
<1>0. Len(packs) \in Nat
  BY FrameTypes, LenProperties
<1> DEFINE bare == source = "fifo" /\ Len(packs) = 1 /\ LastOfPack("empty")
<1>1. /\ wire'.ts = timestamp /\ wire'.to = dest /\ wire'.marker = LastOfFrame /\ wire'.bare = bare
      /\ pc = "send" /\ UNCHANGED <<source, life, dest, faults>>
      /\ life' \notin {"load", "create"}
  BY DEF SendPacket, mainVars, IInv, ModeInv
<1>2. ASSUME NextTimestamp PROVE Behind(0+1)' /\ 0+1 \in 1..faults'+1
  <2>1. /\ TsMod \in Nat \ {0} /\ timestamp \in 0..TsMod-1 /\ 0 < TsMod - 1 /\ faults \in Nat
        /\ timestamp = timestamp + 0
    BY FrameTypes
  <2>2. (timestamp + 1) % TsMod \in {timestamp + (0 + 1), timestamp + (0 + 1) - TsMod}
    BY ONLY <2>1, OneFurther
  <2> QED
    BY <1>1, <1>2, <2>1, <2>2 DEF Behind, NextTimestamp
<1>3. CASE left > 1 /\ fresh' = FALSE /\ UNCHANGED <<pc, idx, packs, timestamp>>
  <2>1. ~LastOfFrame /\ ~bare
    BY <1>3 DEF LastOfFrame, LastOfPack
  <2> QED
    BY <1>1, <1>3, <2>1 DEF FrameInv, InFrame
<1>4. CASE left = 1 /\ source = "file" /\ NextNalu
  BY <1>1, <1>2, <1>4 DEF FrameInv, InFrame, NextNalu, LastOfFrame
<1>5. CASE /\ source = "fifo" /\ LastOfPack("short") /\ fresh' = FALSE
           /\ UNCHANGED <<pc, idx, packs, timestamp>>
  <2>1. ~LastOfFrame /\ ~bare
    BY <1>5 DEF LastOfFrame, LastOfPack
  <2> QED
    BY <1>1, <1>5, <2>1 DEF FrameInv, InFrame
<1>6. CASE left = 1 /\ source = "fifo" /\ ~LastOfPack("short") /\ NextPack /\ fresh' = FALSE
  <2>1. CASE Len(packs) > 1 /\ pc' = "map" /\ UNCHANGED timestamp
    <3>1. ~LastOfFrame /\ ~bare
      <4> DEFINE n == Len(packs)
      <4>1. n \in Nat /\ n > 1
        BY <1>0, <2>1
      <4> HIDE DEF n
      <4>2. n /= 1
        BY <4>1
      <4> QED
        BY <1>6, <4>2 DEF LastOfFrame, n
    <3> QED
      BY <1>1, <1>6, <2>1, <3>1 DEF FrameInv, InFrame
  <2>2. CASE Len(packs) = 1 /\ pc' = "done" /\ NextTimestamp
    <3>1. Head(packs) \in Pack
      <4>1. packs \in Seq(Pack) /\ packs /= <<>>
        BY <1>1, <1>6, FrameTypes DEF IInv, ModeInv
      <4> QED
        BY <4>1, SeqFacts
    <3>2. LastOfFrame \/ bare
      BY <1>6, <2>2, <3>1 DEF LastOfFrame, LastOfPack, Pack
    <3> QED
      BY <1>1, <1>2, <1>6, <2>2, <3>2 DEF FrameInv, InFrame
  <2> QED
    BY <1>6, <2>1, <2>2 DEF NextPack
<1> QED
  BY <1>3, <1>4, <1>5, <1>6 DEF SendPacket

LEMMA InitFrames == EarlierInit => FrameInv
<1> SUFFICES ASSUME EarlierInit PROVE FrameInv
  OBVIOUS
<1>1. /\ pc = "none" /\ fresh = TRUE /\ wire = NoPacket /\ timestamp = 0 /\ faults = 0
  BY DEF EarlierInit, EarlierServerInit
<1>2. Behind(1) /\ 1 \in 1..faults+1 /\ wire.marker
  <2>1. wire.ts + 1 - TsMod = 0
    BY <1>1, EarlierAssumption DEF NoPacket
  <2> QED
    BY <1>1, <2>1 DEF Behind, NoPacket
<1> QED
  BY <1>1, <1>2 DEF FrameInv, InFrame

LEMMA StepFrames ==
  ASSUME IInv, FrameInv, FramesCanBeSent, [EarlierNext]_vars
  PROVE  FrameInv'
<1>0. faults \in Nat /\ (life \in {"load", "create"} => pc = "none" /\ fresh)
  BY FrameTypes DEF IInv, ModeInv, FrameInv
<1>1. CASE OpenSocket \/ OpenFifo
  BY <1>0, <1>1, FrameQuiet DEF OpenSocket, OpenFifo, mainVars, itemVars, FrameInv
<1>2. CASE SpuriousWakeup
  BY <1>0, <1>2, FrameQuiet DEF SpuriousWakeup, mainVars, itemVars, FrameInv
<1>3. CASE UNCHANGED <<pc, ring, itemVars, fresh, wire, faults>> /\ OtherMain
  <2>1. source' = source /\ (life' \in {"load", "create"} => fresh)
    BY <1>0, <1>3 DEF OtherMain, LoadSource, CreateFails, Listen, ListenFails, Accept, Setup,
       EndSession, Close
  <2> QED
    BY <1>0, <1>3, <2>1, FrameQuiet DEF itemVars
<1>4. CASE Start
  BY <1>0, <1>4, FrameQuiet DEF Start, CreateSender, itemVars, IInv, ModeInv
<1>5. CASE PlayAndSignal
  <2>1. source' = source /\ life' = life
        /\ (pc' = pc \/ (pc = "asleep" /\ pc' = "wait"))
    BY <1>5 DEF PlayAndSignal, Play
  <2>2. UNCHANGED <<ring, itemVars, fresh, wire, faults>>
    BY <1>5 DEF PlayAndSignal
  <2> QED
    BY <1>0, <2>1, <2>2, FrameQuiet DEF itemVars
<1>6. CASE Exit
  BY <1>0, <1>6, FrameQuiet DEF Exit, itemVars
<1>7. CASE Submit \/ Release
  BY <1>0, <1>7, FrameQuiet DEF Submit, Release, mainVars, itemVars
<1>8. CASE UNCHANGED vars
  BY <1>0, <1>8, FrameQuiet DEF vars, mainVars, itemVars
<1>9. CASE WaitForPlay \/ Poll \/ GetTarget \/ MapPack \/ MapFails \/ SendPacket \/ SendFails
           \/ ReadDone
  BY <1>9, WaitFrames, PollFrames, TargetFrames, MapFrames, FailFrames, SendFrames, ReadDoneFrames
<1> QED
  BY <1>1, <1>2, <1>3, <1>4, <1>5, <1>6, <1>7, <1>8, <1>9 DEF EarlierNext, Sender, Main, OtherMain

(* Only SendPacket sends; what is before its first packet is behind by     *)
(* less than a turn of the timestamp.                                      *)
LEMMA StepKeepsApart ==
  ASSUME IInv, FrameInv, [EarlierNext]_vars,
         pc = "send", left > 0, left' = left - 1, faults' = faults
  PROVE  IF fresh
         THEN wire'.ts /= wire.ts /\ (wire.marker \/ wire.bare \/ wire.cut)
         ELSE /\ wire'.ts = wire.ts /\ ~wire.marker /\ ~wire.bare
              /\ source = "fifo" => wire'.to = wire.to
<1>0. left \in Nat /\ left' /= left
  BY FrameTypes
<1>1. SendPacket
  <2>1. ~SendFails
    BY <1>0 DEF SendFails, Fault, IInv, EarlierTypeOK
  <2>2. ~UNCHANGED vars
    BY <1>0 DEF vars, itemVars
  <2>3. ~(Main \/ Submit \/ Release)
    BY <1>0 DEF Main, Start, PlayAndSignal, Exit, OtherMain, Submit, Release, itemVars
  <2> QED
    BY <2>1, <2>2, <2>3 DEF EarlierNext, Sender, OpenSocket, OpenFifo, WaitForPlay, Poll, GetTarget,
       MapPack, MapFails, ReadDone, SpuriousWakeup
<1>2. wire'.ts = timestamp /\ wire'.to = dest
  BY <1>1 DEF SendPacket
<1>3. CASE fresh
  <2>1. PICK k \in 1..faults+1 : Behind(k)
    BY <1>3 DEF FrameInv
  <2>2. timestamp /= wire.ts
    <3>1. /\ TsMod \in Nat /\ wire.ts \in Int /\ k \in Int /\ k > 0 /\ k < TsMod
      BY FrameTypes
    <3> QED
      BY <2>1, <3>1 DEF Behind
  <2> QED
    BY <1>2, <1>3, <2>2 DEF FrameInv
<1>4. CASE ~fresh
  BY <1>2, <1>4 DEF FrameInv, InFrame
<1> QED
  BY <1>3, <1>4

(* If the encoder hands over no frame without a pack that can be sent, the *)
(* timestamps and markers of datafifo_rtp_sender_loop and of               *)
(* rtp_sender_loop tell frames apart, whatever is given up on the way.     *)
THEOREM FramesTellApart == ASSUME FramesCanBeSent PROVE EarlierSpec => FramesKeepApart
<1>1. EarlierInit => FrameInv
  BY InitFrames
<1>2. IInv /\ FrameInv /\ [EarlierNext]_vars => FrameInv'
  BY StepFrames
<1>3. IInv /\ FrameInv /\ [EarlierNext]_vars =>
        [pc = "send" /\ left > 0 /\ left' = left - 1 /\ faults' = faults =>
           IF fresh
           THEN wire'.ts /= wire.ts /\ (wire.marker \/ wire.bare \/ wire.cut)
           ELSE /\ wire'.ts = wire.ts /\ ~wire.marker /\ ~wire.bare
                /\ source = "fifo" => wire'.to = wire.to]_vars
  BY StepKeepsApart
<1> QED
  BY Invariance, <1>1, <1>2, <1>3, PTL DEF EarlierSpec, FramesKeepApart
===============================================================================
