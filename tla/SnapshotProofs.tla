---------------------------- MODULE SnapshotProofs ----------------------------
(***************************************************************************)
(* Safety of the snapshots.  Of the writer (module SnapshotWriter), for    *)
(* rings of any depth, any number of jobs, names, deaths and failing       *)
(* calls: the ring and its counters agree, every buffer has one owner and  *)
(* is freed once, no wakeup is lost, nothing saved is lost, and each step  *)
(* is a step of JobQueue.  Of the cache (module SnapshotCache), for any    *)
(* kinds of parameter sets, configurations, frames and limits: the GOP is  *)
(* consistent whatever fails, and a snapshot is playable unless a pack of  *)
(* the frame it begins with was given up.                                  *)
(***************************************************************************)
EXTENDS SnapshotWriter, SnapshotCache, SequenceTheorems, FiniteSetTheorems,
        FunctionTheorems, WellFoundedInduction, TLAPS

USE WriterAssumption

Working == {"name", "write", "convert", "unlink", "free"}

(* How far main has come tells what the flags and the writer thread can be *)
(* and when the ring is empty.                                             *)
Phases ==
  /\ main \in {"off", "create"} => worker = "none" /\ ~started /\ ~stop
  /\ main = "mark" => worker \in {"lock", "asleep"} /\ ~started /\ ~stop
  /\ main = "up" => ~stop /\ worker /= "exited" /\ (started <=> worker /= "none")
  /\ main = "join" => started /\ stop /\ worker \notin {"none", "asleep"}
  /\ main = "free" => started /\ stop /\ worker = "exited"
  /\ main = "done" => ~started /\ ~stop /\ worker \in {"none", "exited"}
  /\ ~started => count = 0
  /\ worker \in {"none", "asleep", "exited"} => count = 0
  /\ job /= NoJob <=> worker \in Working

(* A job is in one place: not yet made, in one slot, with the writer, or   *)
(* freed once.                                                             *)
Apart ==
  /\ \A s, t \in Slots : queue[s] = queue[t] /\ queue[s] /= NoJob => s = t
  /\ \A s \in Slots : queue[s] /= NoJob => queue[s] /= job /\ queue[s] < next_job
  /\ job /= NoJob => job < next_job
  /\ \A j \in Jobs : freed[j] = IF \/ j >= next_job \/ j = job
                                   \/ \E s \in Slots : queue[s] = j
                                THEN 0 ELSE 1

(* What is on the card under the number the writer is using. *)
Files ==
  /\ worker \in {"write", "convert", "unlink"} => seq \in Names
  /\ worker = "write" => stream[seq] = [job |-> job, whole |-> FALSE]
  /\ worker \in {"convert", "unlink"} => stream[seq] = [job |-> job, whole |-> TRUE]
  /\ worker \in {"write", "convert"} => image[seq] = NoFile
  /\ worker = "unlink" => image[seq] = [job |-> job, whole |-> TRUE]

IInv == RingConsistent /\ Phases /\ Apart /\ Files

-----------------------------------------------------------------------------
(* The ring's arithmetic *)

LEMMA ModSmall ==
  ASSUME NEW q \in Nat \ {0}, NEW a \in Nat, a < q
  PROVE  a % q = a /\ (a + q) % q = a
OBVIOUS

Wrap(n) == IF n < QueueDepth THEN n ELSE n - QueueDepth

(* How far a slot is from the head. *)
LEMMA Offset ==
  ASSUME NEW h \in Slots, NEW s \in Slots
  PROVE  (s + QueueDepth - h) % QueueDepth = IF s >= h THEN s - h ELSE s + QueueDepth - h
<1>1. CASE s >= h
  <2>1. s - h \in Nat /\ s - h < QueueDepth /\ s + QueueDepth - h = (s - h) + QueueDepth
    BY <1>1 DEF Slots
  <2> QED
    BY <1>1, <2>1, ModSmall
<1>2. CASE s < h
  <2>1. s + QueueDepth - h \in Nat /\ s + QueueDepth - h < QueueDepth
    BY <1>2 DEF Slots
  <2>2. ~(s >= h)
    BY <1>2 DEF Slots
  <2> QED
    BY <2>1, <2>2, ModSmall
<1> QED
  BY <1>1, <1>2 DEF Slots

(* The slot some places after another. *)
LEMMA Around ==
  ASSUME NEW h \in Slots, NEW c \in 0..QueueDepth
  PROVE  /\ (h + c) % QueueDepth = Wrap(h + c)
         /\ Wrap(h + c) \in Slots
<1> USE DEF Wrap
<1>1. CASE h + c < QueueDepth
  BY <1>1, ModSmall DEF Slots
<1>2. CASE h + c >= QueueDepth
  <2>1. h + c - QueueDepth \in Nat /\ h + c - QueueDepth < QueueDepth
    BY <1>2 DEF Slots
  <2>2. h + c = (h + c - QueueDepth) + QueueDepth /\ ~(h + c < QueueDepth)
    BY <1>2 DEF Slots
  <2> QED
    BY <2>1, <2>2, ModSmall DEF Slots
<1> QED
  BY <1>1, <1>2 DEF Slots

LEMMA RingFacts ==
  ASSUME RingConsistent
  PROVE  /\ tail = Wrap(head + count)
         /\ \A s \in Slots : queue[s] /= NoJob <=>
              IF s >= head THEN s - head < count ELSE s + QueueDepth - head < count
         /\ head \in Slots /\ tail \in Slots /\ count \in 0..QueueDepth
         /\ queue \in [Slots -> Jobs \cup {NoJob}]
<1>1. head \in Slots /\ tail \in Slots /\ count \in 0..QueueDepth
      /\ queue \in [Slots -> Jobs \cup {NoJob}]
  BY DEF RingConsistent, WriterTypeOK
<1>2. \A s \in Slots : InRing(s) <=>
        IF s >= head THEN s - head < count ELSE s + QueueDepth - head < count
  BY <1>1, Offset DEF InRing
<1> QED
  BY <1>1, <1>2, Around DEF RingConsistent

(* A slot is taken at the tail. *)
LEMMA PushRing ==
  ASSUME RingConsistent, count < QueueDepth, next_job \in Jobs, Push, UNCHANGED head
  PROVE  /\ queue' \in [Slots -> Jobs \cup {NoJob}]
         /\ tail' \in Slots /\ count' \in 0..QueueDepth
         /\ tail' = (head' + count') % QueueDepth
         /\ \A s \in Slots : queue'[s] /= NoJob <=> InRing(s)'
         /\ queue[tail] = NoJob /\ tail \in Slots
         /\ \A s \in Slots : queue'[s] = IF s = tail THEN next_job ELSE queue[s]
<1> USE RingFacts
<1>1. queue' \in [Slots -> Jobs \cup {NoJob}] /\ count' \in 0..QueueDepth /\ head' \in Slots
  BY DEF Push
<1>2. 1 \in 0..QueueDepth /\ count + 1 \in 0..QueueDepth
  OBVIOUS
<1>3. tail' = (head' + count') % QueueDepth /\ tail' \in Slots
  <2>1. tail' = Wrap(tail + 1) /\ tail' \in Slots
    BY <1>2, Around DEF Push
  <2>2. (head' + count') % QueueDepth = Wrap(head + (count + 1))
    BY <1>2, Around DEF Push
  <2>3. Wrap(tail + 1) = Wrap(head + (count + 1))
    BY DEF Wrap, Slots
  <2> QED
    BY <2>1, <2>2, <2>3
<1>4. queue[tail] = NoJob
  BY DEF Slots, Wrap
<1>5. \A s \in Slots : queue'[s] = IF s = tail THEN next_job ELSE queue[s]
  BY DEF Push
<1>6. ASSUME NEW s \in Slots PROVE queue'[s] /= NoJob <=> InRing(s)'
  <2>1. InRing(s)' <=>
          IF s >= head THEN s - head < count + 1 ELSE s + QueueDepth - head < count + 1
    BY Offset DEF InRing, Push
  <2>2. next_job /= NoJob
    BY DEF Jobs, NoJob
  <2>3. s = tail <=>
          IF s >= head THEN s - head = count ELSE s + QueueDepth - head = count
    BY DEF Slots, Wrap
  <2>4. queue[s] /= NoJob <=>
          IF s >= head THEN s - head < count ELSE s + QueueDepth - head < count
    OBVIOUS
  <2>5. s \in Nat /\ head \in Nat /\ count \in Nat
    BY DEF Slots
  <2> QED
    BY <1>5, <2>1, <2>2, <2>3, <2>4, <2>5
<1> QED
  BY <1>1, <1>2, <1>3, <1>4, <1>5, <1>6

(* The oldest job leaves its slot. *)
LEMMA PopRing ==
  ASSUME RingConsistent, count > 0, Pop
  PROVE  /\ queue' \in [Slots -> Jobs \cup {NoJob}]
         /\ head' \in Slots /\ tail' \in Slots /\ count' \in 0..QueueDepth
         /\ tail' = (head' + count') % QueueDepth
         /\ \A s \in Slots : queue'[s] /= NoJob <=> InRing(s)'
         /\ job' \in Jobs /\ job' = queue[head] /\ head \in Slots
         /\ \A s \in Slots : queue'[s] = IF s = head THEN NoJob ELSE queue[s]
<1> USE RingFacts
<1>1. queue' \in [Slots -> Jobs \cup {NoJob}] /\ count' \in 0..QueueDepth /\ tail' \in Slots
  BY DEF Pop
<1>2. 1 \in 0..QueueDepth /\ count - 1 \in 0..QueueDepth
  OBVIOUS
<1>3. head' \in Slots /\ head' = Wrap(head + 1)
  BY <1>2, Around DEF Pop
<1>4. tail' = (head' + count') % QueueDepth
  <2>1. (head' + count') % QueueDepth = Wrap(head' + (count - 1))
    BY <1>2, <1>3, Around DEF Pop
  <2>2. Wrap(head' + (count - 1)) = Wrap(head + count)
    BY <1>3 DEF Wrap, Slots
  <2> QED
    BY <2>1, <2>2 DEF Pop
<1>5. job' = queue[head] /\ queue[head] /= NoJob
  BY DEF Pop, Slots
<1>6. \A s \in Slots : queue'[s] = IF s = head THEN NoJob ELSE queue[s]
  BY DEF Pop
<1>7. ASSUME NEW s \in Slots PROVE queue'[s] /= NoJob <=> InRing(s)'
  <2>1. InRing(s)' <=>
          IF s >= head' THEN s - head' < count - 1 ELSE s + QueueDepth - head' < count - 1
    BY <1>3, Offset DEF InRing, Pop
  <2>2. queue[s] /= NoJob <=>
          IF s >= head THEN s - head < count ELSE s + QueueDepth - head < count
    OBVIOUS
  <2>3. s \in Nat /\ s < QueueDepth /\ head \in Nat /\ head < QueueDepth
    BY DEF Slots
  <2>4. CASE head + 1 < QueueDepth
    BY <1>3, <1>6, <2>1, <2>2, <2>3, <2>4 DEF Wrap
  <2>5. CASE ~(head + 1 < QueueDepth)
    <3>1. head = QueueDepth - 1 /\ head' = 0
      BY <1>3, <2>3, <2>5 DEF Wrap
    <3> QED
      BY <1>6, <2>1, <2>2, <2>3, <3>1
  <2> QED
    BY <2>4, <2>5
<1> QED
  BY <1>1, <1>3, <1>4, <1>5, <1>6, <1>7
-----------------------------------------------------------------------------
(* The invariant, conjunct by conjunct *)

LEMMA InitIInv == WriterInit => IInv
<1> SUFFICES ASSUME WriterInit PROVE IInv
  OBVIOUS
<1>1. NoJob \notin Jobs /\ NoFile \in File \cup {NoFile} /\ 0 \in Slots
  BY DEF NoJob, Jobs, Slots
<1>2. 0 \in 0..QueueDepth /\ 0 \in 0..MaxNames /\ 0 \in 0..MaxAttempts /\ 1 \in 1..MaxJobs+1
      /\ 0 \in 0..MaxDeaths /\ 0 \in 0..MaxFaults /\ 0 \in Nat
  OBVIOUS
<1>3. WriterTypeOK
  BY <1>1, <1>2, Zenon DEF WriterInit, WriterTypeOK
<1>4. RingConsistent
  <2>1. tail = (head + count) % QueueDepth
    BY DEF WriterInit
  <2>2. \A s \in Slots : ~InRing(s)
    BY Offset, <1>1 DEF InRing, WriterInit, Slots
  <2> QED
    BY <1>3, <2>1, <2>2 DEF RingConsistent, WriterInit
<1>5. Phases /\ Files
  BY DEF WriterInit, Phases, Files, Working
<1>6. Apart
  BY DEF WriterInit, Apart, Jobs, NoJob
<1> QED
  BY <1>4, <1>5, <1>6 DEF IInv

LEMMA FaultTypes ==
  ASSUME WriterTypeOK, Fault \/ UNCHANGED bounds
  PROVE  deaths' \in 0..MaxDeaths /\ faults' \in 0..MaxFaults
BY DEF WriterTypeOK, Fault, bounds

LEMMA TypesKeep ==
  ASSUME IInv, [WriterNext]_vars
  PROVE  WriterTypeOK'
<1> USE DEF flags, ringVars, nameVars, disk, bounds
<1>0. WriterTypeOK
  BY DEF IInv, RingConsistent
<1>1. NoJob \notin Jobs /\ 0 \in Slots /\ 0 \in 0..QueueDepth /\ 0 \in 0..MaxNames
      /\ 0 \in 0..MaxAttempts
  BY DEF NoJob, Jobs, Slots
<1>2. CASE ResetQueue
  BY <1>0, <1>1, <1>2, Zenon DEF WriterTypeOK, ResetQueue
<1>3. CASE CreateThread \/ MarkStarted \/ Join \/ StopWriter \/ SpuriousWakeup
  <2>1. deaths' \in 0..MaxDeaths /\ faults' \in 0..MaxFaults
    BY <1>0, <1>3, FaultTypes DEF CreateThread, MarkStarted, Join, StopWriter, SpuriousWakeup
  <2>2. main' \in {"off", "create", "mark", "up", "join", "free", "done"}
        /\ worker' \in {"none", "lock", "asleep", "name", "write", "convert", "unlink",
                        "free", "exited"}
    BY <1>0, <1>3 DEF WriterTypeOK, CreateThread, MarkStarted, Join, StopWriter, SpuriousWakeup,
       Wake
  <2> QED
    BY <1>0, <1>3, <2>1, <2>2, Zenon DEF WriterTypeOK, CreateThread, MarkStarted, Join,
       StopWriter, SpuriousWakeup
<1>4. CASE FreeSlots
  <2>1. freed' \in [Jobs -> Nat] /\ queue' \in [Slots -> Jobs \cup {NoJob}]
    BY <1>0, <1>4 DEF WriterTypeOK, FreeSlots
  <2> QED
    BY <1>0, <1>1, <1>4, <2>1, Zenon DEF WriterTypeOK, FreeSlots
<1>5. CASE Enqueue
  <2>1. next_job \in Jobs /\ next_job' \in 1..MaxJobs+1
    BY <1>0, <1>5 DEF WriterTypeOK, Enqueue, Jobs
  <2>2. queue' \in [Slots -> Jobs \cup {NoJob}] /\ tail' \in Slots /\ count' \in 0..QueueDepth
    BY <1>0, <1>5, <2>1, PushRing DEF Enqueue, IInv, WriterTypeOK
  <2>3. freed' \in [Jobs -> Nat]
    BY <1>0, <1>5 DEF Enqueue, WriterTypeOK
  <2>4. worker' \in {"none", "lock", "asleep", "name", "write", "convert", "unlink",
                     "free", "exited"}
    BY <1>0, <1>5 DEF WriterTypeOK, Enqueue, Wake
  <2> QED
    BY <1>0, <1>5, <2>1, <2>2, <2>3, <2>4, Zenon DEF WriterTypeOK, Enqueue
<1>6. CASE TakeJob
  <2>1. /\ queue' \in [Slots -> Jobs \cup {NoJob}] /\ job' \in Jobs \cup {NoJob}
        /\ head' \in Slots /\ tail' \in Slots /\ count' \in 0..QueueDepth
    BY <1>0, <1>6, PopRing DEF TakeJob, IInv, WriterTypeOK
  <2>2. attempt' \in 0..MaxAttempts
    BY <1>0, <1>1, <1>6 DEF TakeJob, WriterTypeOK
  <2>3. worker' \in {"asleep", "exited", "name"}
    BY <1>6 DEF TakeJob
  <2> QED
    BY <1>0, <1>6, <2>1, <2>2, <2>3, Zenon DEF WriterTypeOK, TakeJob
<1>7. CASE TryName \/ NoNameLeft \/ WriteStream \/ Convert \/ Unlink
  <2>1. deaths' \in 0..MaxDeaths /\ faults' \in 0..MaxFaults
    BY <1>0, <1>7, FaultTypes DEF TryName, NoNameLeft, WriteStream, Convert, Unlink
  <2>2. seq' \in 0..MaxNames /\ attempt' \in 0..MaxAttempts
    BY <1>0, <1>7 DEF WriterTypeOK, TryName, NoNameLeft, WriteStream, Convert, Unlink, GiveUp
  <2>3. worker' \in {"name", "write", "convert", "unlink", "free"}
    BY <1>7 DEF TryName, NoNameLeft, WriteStream, Convert, Unlink, GiveUp
  <2>4. job \in Jobs
    BY <1>0, <1>7 DEF IInv, Phases, Working, WriterTypeOK, TryName, NoNameLeft, WriteStream,
       Convert, Unlink
  <2>5. [job |-> job, whole |-> FALSE] \in File /\ [job |-> job, whole |-> TRUE] \in File
    BY <2>4 DEF File
  <2>6. stream' \in [Names -> File \cup {NoFile}]
    <3>1. CASE WriteStream /\ ~UNCHANGED stream
      <4>1. stream[seq] = [job |-> job, whole |-> FALSE]
            /\ stream' = [stream EXCEPT ![seq].whole = TRUE]
        BY <3>1 DEF WriteStream, IInv, Files, GiveUp
      <4>2. [stream[seq] EXCEPT !.whole = TRUE] \in File
        <5>1. stream[seq] \in File /\ TRUE \in BOOLEAN
          BY <2>5, <4>1
        <5>2. \A f \in File, b \in BOOLEAN : [f EXCEPT !.whole = b] \in File
          BY Zenon DEF File
        <5> QED
          BY <5>1, <5>2
      <4>3. stream' = [stream EXCEPT ![seq] = [stream[seq] EXCEPT !.whole = TRUE]]
        BY <4>1
      <4> QED
        BY <1>0, <4>2, <4>3 DEF WriterTypeOK
    <3>2. CASE ~WriteStream \/ UNCHANGED stream
      BY <1>0, <1>7, <2>5, <3>2 DEF WriterTypeOK, TryName, NoNameLeft, WriteStream, Convert,
         Unlink, GiveUp
    <3> QED
      BY <3>1, <3>2
  <2>7. image' \in [Names -> File \cup {NoFile}]
    BY <1>0, <1>7, <2>5 DEF WriterTypeOK, TryName, NoNameLeft, WriteStream, Convert, Unlink,
       GiveUp
  <2>8. UNCHANGED <<main, flags, ringVars, job, next_job, freed>>
    BY <1>7 DEF TryName, NoNameLeft, WriteStream, Convert, Unlink
  <2> QED
    BY <1>0, <2>1, <2>2, <2>3, <2>6, <2>7, <2>8, Zenon DEF WriterTypeOK
<1>8. CASE FreeJob
  <2>1. job \in Jobs
    BY <1>0, <1>8 DEF IInv, Phases, Working, WriterTypeOK, FreeJob
  <2>2. freed \in [Jobs -> Nat] /\ freed' = [freed EXCEPT ![job] = freed[job] + 1]
    BY <1>0, <1>8 DEF WriterTypeOK, FreeJob
  <2>3. freed' \in [Jobs -> Nat]
    BY <2>1, <2>2
  <2> QED
    BY <1>0, <1>8, <2>3, Zenon DEF WriterTypeOK, FreeJob
<1>9. CASE Die
  <2>1. deaths' \in 0..MaxDeaths /\ freed' \in [Jobs -> Nat]
    BY <1>0, <1>9 DEF WriterTypeOK, Die
  <2>2. queue' \in [Slots -> Jobs \cup {NoJob}]
    BY <1>9 DEF Die
  <2> QED
    BY <1>0, <1>1, <1>9, <2>1, <2>2, Zenon DEF WriterTypeOK, Die
<1>10. CASE UNCHANGED vars
  BY <1>0, <1>10, Zenon DEF WriterTypeOK, vars
<1> QED
  BY <1>2, <1>3, <1>4, <1>5, <1>6, <1>7, <1>8, <1>9, <1>10 DEF WriterNext, Main, Worker

(* A ring that is emptied starts again at slot 0. *)
LEMMA EmptyRing ==
  ASSUME head' = 0, tail' = 0, count' = 0, \A s \in Slots : queue'[s] = NoJob
  PROVE  /\ tail' = (head' + count') % QueueDepth
         /\ \A s \in Slots : queue'[s] /= NoJob <=> InRing(s)'
<1>1. 0 \in Slots /\ 0 \in 0..QueueDepth
  BY DEF Slots
<1>2. tail' = (head' + count') % QueueDepth
  BY <1>1, Around DEF Wrap
<1>3. \A s \in Slots : ~InRing(s)'
  BY <1>1, Offset DEF InRing, Slots
<1> QED
  BY <1>2, <1>3

LEMMA RingKeeps ==
  ASSUME IInv, [WriterNext]_vars
  PROVE  RingConsistent'
<1> USE DEF flags, ringVars, nameVars, disk, bounds
<1>1. WriterTypeOK'
  BY TypesKeep
<1>2. CASE UNCHANGED ringVars
  BY <1>1, <1>2 DEF IInv, RingConsistent, InRing
<1>3. CASE ResetQueue \/ FreeSlots \/ Die
  <2>1. \A s \in Slots : queue'[s] = NoJob
    <3>1. CASE ResetQueue
      <4>1. count = 0 /\ queue' = queue
        BY <1>3, <3>1 DEF IInv, Phases, ResetQueue
      <4> QED
        BY <4>1, RingFacts DEF IInv, Slots
    <3>2. CASE FreeSlots \/ Die
      BY <3>2 DEF FreeSlots, Die
    <3> QED
      BY <1>3, <3>1, <3>2
  <2>2. head' = 0 /\ tail' = 0 /\ count' = 0
    BY <1>3 DEF ResetQueue, FreeSlots, Die
  <2> QED
    BY <1>1, <2>1, <2>2, EmptyRing DEF RingConsistent
<1>4. CASE Enqueue /\ Push
  <2>1. next_job \in Jobs /\ count < QueueDepth
    BY <1>4 DEF IInv, RingConsistent, WriterTypeOK, Enqueue, Jobs, Push
  <2> QED
    BY <1>1, <1>4, <2>1, PushRing DEF IInv, RingConsistent, Enqueue
<1>5. CASE TakeJob /\ Pop /\ count > 0
  BY <1>1, <1>5, PopRing DEF IInv, RingConsistent
<1>6. CASE Main /\ ~ResetQueue /\ ~FreeSlots
  BY <1>2, <1>6 DEF Main, CreateThread, MarkStarted, Join, StopWriter
<1>7. CASE Worker /\ ~TakeJob
  BY <1>2, <1>7 DEF Worker, TryName, NoNameLeft, WriteStream, Convert, Unlink, FreeJob
<1>8. CASE SpuriousWakeup \/ UNCHANGED vars
  BY <1>2, <1>8 DEF SpuriousWakeup, vars
<1>9. Enqueue => Push \/ UNCHANGED ringVars
  BY DEF Enqueue
<1>10. TakeJob => (Pop /\ count > 0) \/ UNCHANGED ringVars
  BY DEF TakeJob
<1> QED
  BY <1>2, <1>3, <1>4, <1>5, <1>6, <1>7, <1>8, <1>9, <1>10 DEF WriterNext, Worker

LEMMA PhasesKeep ==
  ASSUME IInv, [WriterNext]_vars
  PROVE  Phases'
<1> USE DEF flags, ringVars, nameVars, disk, bounds, Phases, Working
<1>0. Phases /\ count \in Nat /\ NoJob \notin Jobs
  BY DEF IInv, RingConsistent, WriterTypeOK, NoJob, Jobs
<1>1. CASE Main
  BY <1>0, <1>1 DEF Main, ResetQueue, CreateThread, MarkStarted, Join, StopWriter, FreeSlots, Wake
<1>2. CASE Enqueue
  BY <1>0, <1>2 DEF Enqueue, Push, Wake, SenderRuns
<1>3. CASE TakeJob
  <2>1. count > 0 /\ Pop => job' \in Jobs
    BY PopRing DEF IInv
  <2> QED
    BY <1>0, <1>3, <2>1 DEF TakeJob, Pop
<1>4. CASE TryName \/ NoNameLeft \/ WriteStream \/ Convert \/ Unlink \/ FreeJob
  BY <1>0, <1>4 DEF TryName, NoNameLeft, WriteStream, Convert, Unlink, FreeJob, GiveUp
<1>5. CASE SpuriousWakeup \/ Die \/ UNCHANGED vars
  BY <1>0, <1>5 DEF SpuriousWakeup, Die, vars
<1> QED
  BY <1>1, <1>2, <1>3, <1>4, <1>5 DEF WriterNext, Worker

LEMMA FilesKeep ==
  ASSUME IInv, [WriterNext]_vars
  PROVE  Files'
<1> USE DEF Files
<1>0. Files /\ seq \in 0..MaxNames /\ stream \in [Names -> File \cup {NoFile}]
      /\ image \in [Names -> File \cup {NoFile}]
  BY DEF IInv, RingConsistent, WriterTypeOK
<1>1. CASE UNCHANGED <<job, seq, disk>> /\ (UNCHANGED worker \/ worker' \notin Working)
  BY <1>0, <1>1 DEF disk, Working
<1>2. CASE UNCHANGED <<job, seq, disk>> /\ worker' = IF worker = "asleep" THEN "lock" ELSE worker
  BY <1>0, <1>2 DEF disk
<1>3. CASE TryName
  BY <1>0, <1>3 DEF TryName, Names, GiveUp
<1>4. CASE WriteStream
  <2>1. CASE stream' = [stream EXCEPT ![seq].whole = TRUE]
    <3>1. stream'[seq] = [stream[seq] EXCEPT !.whole = TRUE]
      BY <1>0, <1>4, <2>1 DEF WriteStream
    <3>2. stream[seq] = [job |-> job, whole |-> FALSE]
      BY <1>0, <1>4 DEF WriteStream
    <3>3. job \in Jobs
      BY <1>4 DEF WriteStream, IInv, Phases, Working, RingConsistent, WriterTypeOK
    <3>4. stream[seq] \in File /\ stream[seq].job = job /\ TRUE \in BOOLEAN
      BY <3>2, <3>3 DEF File
    <3>5. \A f \in File, b \in BOOLEAN : [f EXCEPT !.whole = b] = [job |-> f.job, whole |-> b]
      BY SMT DEF File
    <3>6. stream'[seq] = [job |-> job, whole |-> TRUE]
      BY <3>1, <3>4, <3>5
    <3> QED
      BY <1>0, <1>4, <2>1, <3>6 DEF WriteStream, GiveUp, nameVars
  <2>2. CASE GiveUp
    BY <2>2 DEF GiveUp
  <2> QED
    BY <1>4, <2>1, <2>2 DEF WriteStream
<1>5. CASE Convert
  BY <1>0, <1>5 DEF Convert, nameVars
<1>6. CASE worker' \in {"none", "lock", "asleep", "name", "free", "exited"}
  BY <1>6
<1>7. CASE NoNameLeft \/ Unlink \/ FreeJob \/ TakeJob \/ SpuriousWakeup \/ Die
  BY <1>6, <1>7 DEF NoNameLeft, Unlink, FreeJob, TakeJob, SpuriousWakeup, Die, GiveUp
<1>8. CASE Main \/ Enqueue \/ UNCHANGED vars
  <2>1. CASE worker' = "lock"
    BY <1>6, <2>1
  <2>2. CASE ResetQueue
    BY <1>6, <2>2 DEF ResetQueue, IInv, Phases
  <2>3. CASE worker' /= "lock" /\ ~ResetQueue
    <3>1. UNCHANGED <<job, seq, disk, worker>>
      BY <1>8, <2>3 DEF Main, CreateThread, MarkStarted, Join, StopWriter, FreeSlots, Enqueue,
         Wake, vars, nameVars, disk
    <3> QED
      BY <1>1, <3>1
  <2> QED
    BY <2>1, <2>2, <2>3
<1> QED
  BY <1>3, <1>4, <1>5, <1>7, <1>8 DEF WriterNext, Worker

LEMMA ApartKeeps ==
  ASSUME IInv, [WriterNext]_vars
  PROVE  Apart'
<1> USE DEF flags, ringVars, nameVars, disk, bounds, Apart
<1>0. /\ Apart /\ NoJob \notin Jobs /\ next_job \in Nat
      /\ queue \in [Slots -> Jobs \cup {NoJob}] /\ job \in Jobs \cup {NoJob}
      /\ freed \in [Jobs -> Nat]
  BY DEF IInv, RingConsistent, WriterTypeOK, NoJob, Jobs
<1>1. CASE UNCHANGED <<queue, job, next_job, freed>>
  BY <1>0, <1>1
<1>2. CASE FreeSlots
  <2>1. \A s \in Slots : queue[s] = NoJob
    BY <1>2, RingFacts DEF IInv, Phases, FreeSlots, Slots
  <2> QED
    BY <1>0, <1>2, <2>1 DEF FreeSlots
<1>3. CASE Die
  BY <1>0, <1>3 DEF Die, Jobs, NoJob
<1>4. CASE Enqueue
  <2>1. next_job \in Jobs /\ next_job' = next_job + 1 /\ UNCHANGED job
    BY <1>0, <1>4 DEF Enqueue, Jobs, IInv, RingConsistent, WriterTypeOK
  <2>2. CASE Push /\ UNCHANGED freed
    <3>1. /\ queue[tail] = NoJob /\ tail \in Slots
          /\ \A s \in Slots : queue'[s] = IF s = tail THEN next_job ELSE queue[s]
      BY <1>4, <2>1, <2>2, PushRing DEF Enqueue, Push, IInv, RingConsistent, WriterTypeOK
    <3>2. \A s, t \in Slots : queue'[s] = queue'[t] /\ queue'[s] /= NoJob => s = t
      BY <1>0, <3>1
    <3> QED
      BY <1>0, <2>1, <2>2, <3>1, <3>2 DEF Jobs, NoJob
  <2>3. CASE freed' = [freed EXCEPT ![next_job] = @ + 1] /\ UNCHANGED queue
    BY <1>0, <2>1, <2>3 DEF Jobs, NoJob
  <2> QED
    BY <1>4, <2>2, <2>3 DEF Enqueue
<1>5. CASE TakeJob /\ Pop /\ count > 0
  <2>1. /\ job' \in Jobs /\ job' = queue[head] /\ head \in Slots
        /\ \A s \in Slots : queue'[s] = IF s = head THEN NoJob ELSE queue[s]
    BY <1>5, PopRing DEF IInv
  <2>2. job = NoJob /\ UNCHANGED <<next_job, freed>>
    BY <1>5 DEF IInv, Phases, Working, TakeJob
  <2>3. \A j \in Jobs : (\E s \in Slots : queue[s] = j) <=>
                          (j = job' \/ \E s \in Slots : queue'[s] = j)
    BY <1>0, <2>1
  <2> QED
    BY <1>0, <2>1, <2>2, <2>3
<1>6. CASE FreeJob
  <2>1. /\ job \in Jobs /\ job' = NoJob /\ UNCHANGED <<queue, next_job>>
        /\ freed' = [freed EXCEPT ![job] = freed[job] + 1]
    BY <1>0, <1>6 DEF FreeJob, IInv, Phases, Working
  <2>2. \A s \in Slots : queue[s] /= job
    BY <1>0, <2>1
  <2>3. job < next_job /\ freed[job] = 0
    BY <1>0, <2>1
  <2>4. \A j \in Jobs : freed'[j] = IF j = job THEN 1 ELSE freed[j]
    BY <1>0, <2>1, <2>3
  <2> QED
    BY <1>0, <2>1, <2>2, <2>3, <2>4 DEF Jobs
<1>7. CASE Main /\ ~FreeSlots
  BY <1>1, <1>7 DEF Main, ResetQueue, CreateThread, MarkStarted, Join, StopWriter
<1>8. CASE Worker /\ ~TakeJob /\ ~FreeJob
  BY <1>1, <1>8 DEF Worker, TryName, NoNameLeft, WriteStream, Convert, Unlink
<1>9. CASE SpuriousWakeup \/ UNCHANGED vars
  BY <1>1, <1>9 DEF SpuriousWakeup, vars
<1>10. TakeJob => (Pop /\ count > 0) \/ UNCHANGED <<queue, job, next_job, freed>>
  BY DEF TakeJob
<1> QED
  BY <1>1, <1>2, <1>3, <1>4, <1>5, <1>6, <1>7, <1>8, <1>9, <1>10 DEF WriterNext, Worker

(* snapshot_writer_enqueue_h265_take, snapshot_writer_loop, init and       *)
(* deinit keep the invariant, and so does the death of the process.        *)
THEOREM Invariance == WriterSpec => []IInv
<1>1. IInv /\ [WriterNext]_vars => IInv'
  BY RingKeeps, PhasesKeep, ApartKeeps, FilesKeep DEF IInv
<1> QED
  BY InitIInv, <1>1, PTL DEF WriterSpec

-----------------------------------------------------------------------------
(* What follows from it *)

(* head, tail and count of the ring always describe the same slots, those  *)
(* that hold a buffer: enqueue and pop never overwrite or lose one.        *)
THEOREM RingIsConsistent == WriterSpec => []RingConsistent
<1>1. IInv => RingConsistent
  BY DEF IInv
<1> QED
  BY Invariance, <1>1, PTL

LEMMA ApartIsOwnedOnce == IInv => OwnedOnce
<1> SUFFICES ASSUME IInv, NEW j \in Jobs
             PROVE  Owners(j) + freed[j] = IF j < next_job THEN 1 ELSE 0
  BY DEF OwnedOnce
<1> DEFINE S == {s \in Slots : queue[s] = j}
<1>0. /\ Apart /\ NoJob \notin Jobs /\ next_job \in Nat /\ j \in Nat
      /\ queue \in [Slots -> Jobs \cup {NoJob}]
      /\ job \in Jobs \cup {NoJob}
  BY DEF IInv, RingConsistent, WriterTypeOK, NoJob, Jobs
<1>1. CASE S = {}
  <2>1. Cardinality(S) = 0
    BY <1>1, FS_EmptySet
  <2>2. freed[j] = IF j >= next_job \/ j = job THEN 0 ELSE 1
    BY <1>0, <1>1 DEF Apart
  <2>3. j = job => j < next_job
    BY <1>0 DEF Apart
  <2> QED
    BY <1>0, <2>1, <2>2, <2>3 DEF Owners
<1>2. CASE S /= {}
  <2>1. PICK s \in Slots : queue[s] = j
    BY <1>2
  <2>2. S = {s}
    BY <1>0, <2>1 DEF Apart
  <2>3. Cardinality(S) = 1
    BY <2>2, FS_Singleton
  <2>4. j /= job /\ j < next_job /\ freed[j] = 0
    BY <1>0, <2>1 DEF Apart
  <2> QED
    BY <1>0, <2>3, <2>4 DEF Owners
<1> QED
  BY <1>1, <1>2

(* The buffer of every snapshot handed over, accepted or refused, saved or *)
(* not, has one owner at a time and is freed exactly once.                 *)
THEOREM EachIsOwnedOnce == WriterSpec => []OwnedOnce
BY Invariance, ApartIsOwnedOnce, PTL

(* The writer sleeps on g_snapshot_cond only with an empty ring and no     *)
(* stop requested: neither an enqueue nor deinit is missed.                *)
THEOREM NoWakeupIsLost == WriterSpec => []NoLostWakeup
<1>1. IInv => NoLostWakeup
  BY DEF IInv, RingConsistent, WriterTypeOK, Phases, NoLostWakeup
<1> QED
  BY Invariance, <1>1, PTL

(* snapshot_writer_loop leaves only when the ring is empty and its last    *)
(* job freed: deinit's join means that everything accepted was worked off. *)
THEOREM ExitIsDrained == WriterSpec => []DrainedAtExit
<1>1. IInv => DrainedAtExit
  BY DEF IInv, Phases, Working, DrainedAtExit
<1> QED
  BY Invariance, <1>1, PTL

LEMMA StepLosesNothing ==
  ASSUME IInv, [WriterNext]_vars, NEW n \in Names
  PROVE  /\ image[n] /= NoFile => image'[n] = image[n]
         /\ stream[n].whole /\ stream'[n] /= stream[n]
              => image[n] = [job |-> stream[n].job, whole |-> TRUE]
<1>0. /\ Files /\ stream \in [Names -> File \cup {NoFile}]
      /\ image \in [Names -> File \cup {NoFile}]
  BY DEF IInv, RingConsistent, WriterTypeOK
<1>1. CASE UNCHANGED disk
  BY <1>1 DEF disk
<1>2. CASE TryName /\ ~UNCHANGED disk
  <2>1. UNCHANGED image /\ (stream'[n] = stream[n] \/ stream[n] = NoFile)
    BY <1>0, <1>2 DEF TryName, GiveUp, disk
  <2> QED
    BY <2>1 DEF NoFile
<1>3. CASE WriteStream /\ ~UNCHANGED disk
  <2>1. UNCHANGED image /\ (stream'[n] = stream[n] \/ n = seq)
    BY <1>0, <1>3 DEF WriteStream, GiveUp, disk
  <2>2. stream[seq] = [job |-> job, whole |-> FALSE]
    BY <1>0, <1>3 DEF WriteStream, Files
  <2> QED
    BY <2>1, <2>2
<1>4. CASE Convert
  <2>1. UNCHANGED stream /\ (image'[n] = image[n] \/ n = seq)
    BY <1>0, <1>4 DEF Convert
  <2>2. image[seq] = NoFile
    BY <1>0, <1>4 DEF Convert, Files
  <2> QED
    BY <2>1, <2>2
<1>5. CASE Unlink
  <2>1. UNCHANGED image /\ (stream'[n] = stream[n] \/ n = seq)
    BY <1>0, <1>5 DEF Unlink
  <2>2. stream[seq] = [job |-> job, whole |-> TRUE] /\ image[seq] = [job |-> job, whole |-> TRUE]
    BY <1>0, <1>5 DEF Unlink, Files
  <2> QED
    BY <2>1, <2>2
<1>6. CASE TakeJob \/ NoNameLeft \/ FreeJob \/ Main \/ Enqueue \/ SpuriousWakeup \/ Die
  BY <1>1, <1>6 DEF TakeJob, NoNameLeft, GiveUp, FreeJob, Main, ResetQueue, CreateThread,
     MarkStarted, Join, StopWriter, FreeSlots, Enqueue, SpuriousWakeup, Die
<1> QED
  BY <1>1, <1>2, <1>3, <1>4, <1>5, <1>6 DEF WriterNext, Worker, vars

(* snapshot_open_unique_h265 and snapshot_convert_h265_to_image, over any  *)
(* number of lives of the process: no image is ever replaced, and a        *)
(* finished stream goes only when its image is whole.                      *)
THEOREM SavedStays == WriterSpec => NothingSavedIsLost
<1>1. IInv /\ [WriterNext]_vars =>
        [\A n \in Names :
           /\ image[n] /= NoFile => image'[n] = image[n]
           /\ stream[n].whole /\ stream'[n] /= stream[n]
                => image[n] = [job |-> stream[n].job, whole |-> TRUE]]_disk
  BY StepLosesNothing
<1> QED
  BY Invariance, <1>1, PTL DEF WriterSpec, NothingSavedIsLost
-----------------------------------------------------------------------------
(* The ring is a queue *)

WaitingIsRing ==
  /\ Waiting \in Seq(Jobs) /\ Len(Waiting) = count
  /\ \A i \in 1..count : Waiting[i] = queue[Wrap(head + (i - 1))]

LEMMA RingWaits == RingConsistent => WaitingIsRing
<1> SUFFICES ASSUME RingConsistent PROVE WaitingIsRing
  OBVIOUS
<1>1. head \in Slots /\ count \in 0..QueueDepth /\ queue \in [Slots -> Jobs \cup {NoJob}]
  BY RingFacts
<1>2. ASSUME NEW i \in 1..count
      PROVE  /\ Wrap(head + (i - 1)) \in Slots /\ queue[Wrap(head + (i - 1))] \in Jobs
             /\ (head + i - 1) % QueueDepth = Wrap(head + (i - 1))
  <2>1. i - 1 \in 0..QueueDepth
    BY <1>1
  <2>2. Wrap(head + (i - 1)) \in Slots /\ (head + (i - 1)) % QueueDepth = Wrap(head + (i - 1))
    BY <1>1, <2>1, Around
  <2>3. head + i - 1 = head + (i - 1)
    BY <1>1 DEF Slots
  <2>4. queue[Wrap(head + (i - 1))] /= NoJob
    BY <1>1, <2>2, RingFacts DEF Wrap, Slots
  <2> QED
    BY <1>1, <2>2, <2>3, <2>4
<1>3. Waiting = [i \in 1..count |-> queue[Wrap(head + (i - 1))]]
  BY <1>2 DEF Waiting
<1>4. Waiting \in [1..count -> Jobs]
  BY <1>2, <1>3
<1>5. Waiting \in Seq(Jobs) /\ Len(Waiting) = count
  BY <1>1, <1>4
<1> QED
  BY <1>3, <1>5 DEF WaitingIsRing

LEMMA RingWaitsNext == RingConsistent' => WaitingIsRing'
BY RingWaits, PTL

LEMMA PushAppends ==
  ASSUME IInv, RingConsistent', count < QueueDepth, next_job \in Jobs, Push, UNCHANGED head
  PROVE  Waiting' = Append(Waiting, next_job)
<1>1. WaitingIsRing /\ WaitingIsRing'
  BY RingWaits, RingWaitsNext DEF IInv
<1>2. /\ tail = Wrap(head + count) /\ head \in Slots /\ count \in 0..QueueDepth
      /\ \A s \in Slots : queue'[s] = IF s = tail THEN next_job ELSE queue[s]
      /\ count' = count + 1
  BY RingFacts, PushRing DEF IInv, Push
<1> DEFINE a == Waiting'
           b == Append(Waiting, next_job)
<1>3. a \in Seq(Jobs) /\ Len(a) = count + 1
      /\ \A i \in 1..count + 1 : a[i] = queue'[Wrap(head + (i - 1))]
  BY <1>1, <1>2 DEF WaitingIsRing
<1>4. Waiting \in Seq(Jobs) /\ Len(Waiting) = count
      /\ \A i \in 1..count : Waiting[i] = queue[Wrap(head + (i - 1))]
  BY <1>1 DEF WaitingIsRing
<1>5. b \in Seq(Jobs) /\ Len(b) = count + 1 /\ b[count + 1] = next_job
      /\ \A i \in 1..count : b[i] = Waiting[i]
  BY <1>4, AppendProperties
<1> HIDE DEF a, b
<1>6. ASSUME NEW i \in 1..count + 1 PROVE a[i] = b[i]
  <2>1. i - 1 \in 0..QueueDepth /\ Wrap(head + (i - 1)) \in Slots
    BY <1>2, Around
  <2>2. CASE i = count + 1
    <3>1. i - 1 = count
      BY <1>2, <2>2
    <3> QED
      BY <1>2, <1>3, <1>5, <2>1, <2>2, <3>1
  <2>3. CASE i /= count + 1
    <3>1. i \in 1..count /\ Wrap(head + (i - 1)) /= Wrap(head + count)
      BY <1>2, <2>3 DEF Wrap, Slots
    <3> QED
      BY <1>2, <1>3, <1>4, <1>5, <2>1, <3>1
  <2> QED
    BY <2>2, <2>3
<1>7. a = b
  BY <1>3, <1>5, <1>6, SeqEqual
<1> QED
  BY <1>7 DEF a, b

LEMMA PopTakesHead ==
  ASSUME IInv, RingConsistent', count > 0, Pop
  PROVE  Waiting /= <<>> /\ job' = Head(Waiting) /\ Waiting' = Tail(Waiting)
<1>1. WaitingIsRing /\ WaitingIsRing'
  BY RingWaits, RingWaitsNext DEF IInv
<1>2. /\ head \in Slots /\ count \in 0..QueueDepth /\ head' \in Slots
      /\ head' = Wrap(head + 1) /\ count' = count - 1 /\ job' = queue[head]
      /\ \A s \in Slots : queue'[s] = IF s = head THEN NoJob ELSE queue[s]
  <2>1. head \in Slots /\ count \in 0..QueueDepth /\ 1 \in 0..QueueDepth
    BY RingFacts DEF IInv
  <2> QED
    BY <2>1, PopRing, Around DEF IInv, Pop
<1>3. Waiting \in Seq(Jobs) /\ Len(Waiting) = count
      /\ \A i \in 1..count : Waiting[i] = queue[Wrap(head + (i - 1))]
  BY <1>1 DEF WaitingIsRing
<1>4. Waiting /= <<>>
  BY <1>3, EmptySeq
<1>5. job' = Head(Waiting)
  <2>1. Head(Waiting) = Waiting[1] /\ Waiting[1] = queue[Wrap(head + (1 - 1))]
    BY <1>2, <1>3, <1>4
  <2>2. Wrap(head + (1 - 1)) = head
    BY <1>2 DEF Wrap, Slots
  <2> QED
    BY <1>2, <2>1, <2>2
<1> DEFINE a == Waiting'
           b == Tail(Waiting)
<1>6. a \in Seq(Jobs) /\ Len(a) = count - 1
      /\ \A i \in 1..count - 1 : a[i] = queue'[Wrap(head' + (i - 1))]
  BY <1>1, <1>2 DEF WaitingIsRing
<1>7. b \in Seq(Jobs) /\ Len(b) = count - 1 /\ \A i \in 1..count - 1 : b[i] = Waiting[i + 1]
  BY <1>3, <1>4, HeadTailProperties
<1> HIDE DEF a, b
<1>8. ASSUME NEW i \in 1..count - 1 PROVE a[i] = b[i]
  <2>1. i - 1 \in 0..QueueDepth /\ Wrap(head' + (i - 1)) \in Slots
    BY <1>2, Around
  <2>2. Wrap(head' + (i - 1)) = Wrap(head + ((i + 1) - 1)) /\ Wrap(head' + (i - 1)) /= head
    BY <1>2 DEF Wrap, Slots
  <2>3. i + 1 \in 1..count
    BY <1>2
  <2>4. a[i] = queue[Wrap(head' + (i - 1))]
    BY <1>2, <1>6, <2>1, <2>2
  <2>5. b[i] = queue[Wrap(head + ((i + 1) - 1))]
    BY <1>3, <1>7, <2>3
  <2> QED
    BY <2>2, <2>4, <2>5
<1>9. a = b
  BY <1>2, <1>6, <1>7, <1>8, SeqEqual
<1> QED
  BY <1>4, <1>5, <1>9 DEF a, b

LEMMA StepQueues ==
  ASSUME IInv, IInv', [WriterNext]_vars
  PROVE  [Queue!QueueNext]_(Queue!jobVars)
<1> USE DEF Queue!QueueNext, Queue!jobVars, flags, ringVars, nameVars, disk, bounds
<1>0. /\ WaitingIsRing /\ WaitingIsRing' /\ Phases /\ Phases' /\ RingConsistent'
  BY RingWaits, RingWaitsNext DEF IInv
<1>1. CASE UNCHANGED <<queue, head, count, job, started, stop>>
  BY <1>1 DEF Waiting
<1>2. count = 0 => Waiting = <<>>
  BY <1>0, EmptySeq DEF WaitingIsRing
<1>3. count' = 0 => Waiting' = <<>>
  BY <1>0, EmptySeq DEF WaitingIsRing
<1>4. CASE ResetQueue
  <2>1. Waiting = <<>> /\ Waiting' = <<>> /\ ~started /\ ~started' /\ UNCHANGED job
    BY <1>0, <1>2, <1>3, <1>4 DEF ResetQueue, Phases
  <2> QED
    BY <2>1
<1>5. CASE MarkStarted
  <2>1. /\ Waiting = <<>> /\ Waiting' = <<>> /\ job = NoJob /\ job' = NoJob
        /\ ~started /\ ~stop /\ started' /\ ~stop'
    BY <1>0, <1>2, <1>3, <1>5 DEF MarkStarted, Phases, Working
  <2> QED
    BY <2>1 DEF Queue!Open
<1>6. CASE StopWriter
  <2>1. CASE started
    <3>1. UNCHANGED Waiting /\ UNCHANGED job /\ started /\ ~stop /\ stop'
      BY <1>0, <1>6, <2>1 DEF StopWriter, Phases, Waiting
    <3> QED
      BY <3>1 DEF Queue!Shut
  <2>2. CASE ~started
    BY <1>1, <1>6, <2>2 DEF StopWriter
  <2> QED
    BY <2>1, <2>2
<1>7. CASE FreeSlots
  <2>1. /\ Waiting = <<>> /\ Waiting' = <<>> /\ UNCHANGED job
        /\ stop /\ ~started'
    BY <1>0, <1>2, <1>3, <1>7 DEF FreeSlots, Phases
  <2> QED
    BY <2>1
<1>8. CASE Enqueue /\ Push
  <2>1. next_job \in Jobs /\ count < QueueDepth /\ started /\ ~stop /\ UNCHANGED <<flags, job>>
    BY <1>8 DEF Enqueue, Push, IInv, RingConsistent, WriterTypeOK, Jobs
  <2>2. Waiting' = Append(Waiting, next_job)
    BY <1>0, <1>8, <2>1, PushAppends DEF Enqueue
  <2>3. Len(Waiting) < QueueDepth
    BY <1>0, <2>1 DEF WaitingIsRing
  <2> QED
    BY <2>1, <2>2, <2>3 DEF Queue!Accept
<1>9. CASE TakeJob /\ Pop /\ count > 0
  <2>1. Waiting /= <<>> /\ job' = Head(Waiting) /\ Waiting' = Tail(Waiting)
    BY <1>0, <1>9, PopTakesHead
  <2>2. job = NoJob /\ UNCHANGED flags
    BY <1>0, <1>9 DEF TakeJob, Phases, Working
  <2> QED
    BY <2>1, <2>2 DEF Queue!Begin
<1>10. CASE FreeJob
  <2>1. job /= NoJob /\ job' = NoJob /\ UNCHANGED <<Waiting, flags>>
    BY <1>0, <1>10 DEF FreeJob, Phases, Working, Waiting
  <2> QED
    BY <2>1 DEF Queue!Finish
<1>11. CASE Die
  <2>1. Waiting' = <<>> /\ job' = NoJob /\ ~started'
    BY <1>3, <1>11 DEF Die
  <2> QED
    BY <2>1 DEF Queue!Die
<1>12. CASE CreateThread \/ Join \/ SpuriousWakeup \/ UNCHANGED vars
  BY <1>1, <1>12 DEF CreateThread, Join, SpuriousWakeup, vars
<1>13. CASE TryName \/ NoNameLeft \/ WriteStream \/ Convert \/ Unlink
  BY <1>1, <1>13 DEF TryName, NoNameLeft, WriteStream, Convert, Unlink
<1>14. Enqueue => Push \/ UNCHANGED <<queue, head, count, job, started, stop>>
  BY DEF Enqueue
<1>15. TakeJob => (Pop /\ count > 0) \/ UNCHANGED <<queue, head, count, job, started, stop>>
  BY DEF TakeJob
<1> QED
  BY <1>1, <1>4, <1>5, <1>6, <1>7, <1>8, <1>9, <1>10, <1>11, <1>12, <1>13, <1>14, <1>15
     DEF WriterNext, Main, Worker

LEMMA InitQueues == WriterInit => Queue!QueueInit
<1> SUFFICES ASSUME WriterInit PROVE Queue!QueueInit
  OBVIOUS
<1>1. WaitingIsRing /\ count = 0
  BY InitIInv, RingWaits DEF IInv, WriterInit
<1>2. Waiting = <<>>
  BY <1>1, EmptySeq DEF WaitingIsRing
<1> QED
  BY <1>2 DEF WriterInit, Queue!QueueInit

(* What snapshot_writer.h promises, its fairness left out. *)
KeepsQueue == Queue!QueueInit /\ [][Queue!QueueNext]_(Queue!jobVars)

(* The ring of snapshot_writer.c is a bounded first-in-first-out queue:    *)
(* jobs are accepted only between init and deinit, worked on in the order  *)
(* they came, one at a time, and only the death of the process loses one.  *)
THEOREM QueueKept == WriterSpec => KeepsQueue
<1>1. IInv /\ IInv' /\ [WriterNext]_vars => [Queue!QueueNext]_(Queue!jobVars)
  BY StepQueues
<1> QED
  BY Invariance, InitQueues, <1>1, PTL DEF WriterSpec, KeepsQueue

-----------------------------------------------------------------------------
(***************************************************************************)
(* What the writer is given: the snapshot cache.                           *)
(***************************************************************************)
HIDE WriterAssumption

(* A sequence begins, but for l further sets, with all sets of a           *)
(* configuration and, at m, a random access picture of it.                 *)
KeyAt(s, l, m) ==
  /\ s[m].kind = "irap"
  /\ \A i \in 1..m-1 : s[i].kind \in ParamKinds
  /\ \A i \in l+1..m-1 : s[i].cfg = s[m].cfg
  /\ \A k \in ParamKinds : \E i \in l+1..m-1 : s[i].kind = k
Opens(s) == \E m \in 1..Len(s) : KeyAt(s, 0, m)
Playable(s) == \E l \in Nat, m \in 1..Len(s) : KeyAt(s, l, m)

(* The AU and the packs to come are of the frame at hand. *)
AuInv ==
  /\ pc \in {"packs", "finish"} =>
       /\ frame_no >= 1
       /\ \A i \in DOMAIN au : au[i].frame = frame_no
  /\ pc = "packs" =>
       \A j \in DOMAIN packs : \A i \in DOMAIN packs[j] : packs[j][i].frame = frame_no

GopInv ==
  /\ current_gop_has_irap <=> current_gop /= <<>>
  /\ current_gop /= <<>> => current_gop[1].frame = current_gop_pts

(* An AU that holds a random access picture, the GOP and the last IRAP     *)
(* begin with the sets of their first picture, unless a pack of the frame  *)
(* they begin with was given up.                                           *)
KeyInv ==
  /\ pc /= "idle" => out = <<>>
  /\ pc = "packs" /\ frame_no \notin spoilt =>
       /\ ~has_irap
       /\ \E c \in Cfgs, n \in 1..MaxFrames :
            \/ au = <<>> /\ packs \in KeyFrames(c, n) \cup {DeltaFrame(c, n)}
            \/ au = Group(c, n) /\ packs = <<<<Key(c, n)>>>>
  /\ pc = "finish" /\ has_irap /\ frame_no \notin spoilt => Opens(au)
  /\ current_gop_has_irap /\ current_gop[1].frame \notin spoilt => Opens(current_gop)
  /\ last_irap /= <<>> /\ last_irap[1].frame \notin spoilt => Opens(last_irap)
  /\ out /= <<>> /\ BeginsWith \notin spoilt => Playable(out)

CacheInv == CacheTypeOK /\ AuInv /\ GopInv /\ KeyInv

-----------------------------------------------------------------------------
(* The least and the greatest of a set of numbers. *)
LEMMA Least ==
  ASSUME NEW T, T \subseteq Nat, T /= {}
  PROVE  \E x \in T : \A y \in T : x <= y
<1> DEFINE R == {p \in Nat \X Nat : p[1] < p[2]}
<1>1. OpToRel(<, Nat) = R
  BY DEF OpToRel
<1>2. IsWellFoundedOn(R, Nat)
  BY <1>1, NatLessThanWellFounded
<1>3. PICK x \in T : \A y \in T : <<y, x>> \notin R
  BY <1>2, WFMin
<1>4. ASSUME NEW y \in T PROVE x <= y
  <2>1. x \in Nat /\ y \in Nat /\ <<y, x>> \notin R
    BY <1>3
  <2> QED
    BY <2>1
<1> QED
  BY <1>4

LEMMA MaxFacts ==
  ASSUME NEW n \in Nat, NEW S, S \subseteq 1..n, S /= {}
  PROVE  Max(S) \in S /\ \A y \in S : Max(S) >= y
<1> DEFINE T == {n - y : y \in S}
<1>1. ASSUME NEW y \in S PROVE y \in Int /\ n - y \in Nat
  <2>1. y \in 1..n
    OBVIOUS
  <2> QED
    BY <2>1
<1>2. T \subseteq Nat /\ T /= {}
  <2>1. T /= {}
    OBVIOUS
  <2> QED
    BY <1>1, <2>1
<1>3. PICK x \in T : \A y \in T : x <= y
  BY <1>2, Least
<1>4. PICK s \in S : x = n - s
  BY <1>3
<1>5. ASSUME NEW y \in S PROVE s >= y
  <2>1. n - s <= n - y
    BY <1>3, <1>4
  <2> QED
    BY <2>1, <1>1
<1> QED
  BY <1>5 DEF Max

LEMMA MinIs ==
  ASSUME NEW S, S \subseteq Nat, NEW x \in S, \A y \in S : x <= y
  PROVE  Min(S) = x
<1> DEFINE m == Min(S)
<1>1. m \in S /\ \A y \in S : m <= y
  BY DEF Min
<1> HIDE DEF m
<1>2. m \in Nat /\ x \in Nat /\ m <= x /\ x <= m
  BY <1>1
<1>3. m = x
  BY ONLY <1>2
<1> QED
  BY <1>3 DEF m

(* SetToSeq lists a finite set: every element, and nothing else. *)
LEMMA Listed ==
  ASSUME NEW S, IsFiniteSet(S)
  PROVE  /\ SetToSeq(S) \in Seq(S)
         /\ \A x \in S : \E i \in DOMAIN SetToSeq(S) : SetToSeq(S)[i] = x
<1> DEFINE n == Cardinality(S)
           s == SetToSeq(S)
<1>1. n \in Nat /\ ExistsBijection(1..n, S)
  BY FS_CardinalityType
<1>2. PICK f : f \in Bijection(1..n, S)
  BY <1>1 DEF ExistsBijection
<1>3. f \in [1..n -> S] /\ \A a, b \in 1..n : f[a] = f[b] => a = b
  BY <1>2, Fun_BijectionProperties
<1>4. s \in [1..n -> S] /\ \A a, b \in 1..n : s[a] = s[b] => a = b
  <2>1. f \in [1..n -> S] /\ IsInjective(f)
    BY <1>3 DEF IsInjective
  <2>2. s \in [1..n -> S] /\ IsInjective(s)
    BY <2>1 DEF SetToSeq
  <2> HIDE DEF s, n
  <2> QED
    BY <2>2 DEF IsInjective
<1>5. s \in Injection(1..n, S)
  BY <1>4, Fun_IsInj
<1>6. IsFiniteSet(1..n) /\ Cardinality(1..n) = n
  BY <1>1, FS_Interval
<1>7. s \in Surjection(1..n, S)
  BY <1>5, <1>6, FS_Injection
<1>8. \A x \in S : \E i \in 1..n : s[i] = x
  BY <1>7 DEF Surjection
<1>9. s \in Seq(S) /\ DOMAIN s = 1..n
  BY <1>1, <1>4
<1> QED
  BY <1>8, <1>9

(* One thing for each kind of parameter set, listed. *)
LEMMA ParamList ==
  ASSUME NEW T, NEW h \in [ParamKinds -> T], \A x \in T : \E k \in ParamKinds : h[k] = x
  PROVE  /\ SetToSeq(T) \in Seq(T)
         /\ \A k \in ParamKinds :
              \E i \in DOMAIN SetToSeq(T) : SetToSeq(T)[i] = h[k]
<1>1. IsFiniteSet(ParamKinds)
  BY CacheAssumption
<1>2. h \in Surjection(ParamKinds, T)
  BY Fun_IsSurj
<1>3. IsFiniteSet(T)
  BY <1>1, <1>2, FS_Surjection
<1> QED
  BY <1>3, Listed

(* The parameter sets of a key picture and the cached ones. *)
LEMMA GroupFacts ==
  ASSUME NEW c \in Cfgs, NEW n \in 1..MaxFrames
  PROVE  /\ Group(c, n) \in Seq(Nalu)
         /\ \A i \in DOMAIN Group(c, n) :
              /\ Group(c, n)[i].kind \in ParamKinds
              /\ Group(c, n)[i].cfg = c
              /\ Group(c, n)[i].frame = n
         /\ \A k \in ParamKinds :
              \E i \in DOMAIN Group(c, n) : Group(c, n)[i].kind = k
<1> DEFINE T == {[kind |-> k, cfg |-> c, frame |-> n] : k \in ParamKinds}
           h == [k \in ParamKinds |-> [kind |-> k, cfg |-> c, frame |-> n]]
           g == SetToSeq(T)
<1>1. h \in [ParamKinds -> T] /\ \A x \in T : \E k \in ParamKinds : h[k] = x
  OBVIOUS
<1>2. g \in Seq(T) /\ \A k \in ParamKinds : \E i \in DOMAIN g : g[i] = h[k]
  <2> HIDE DEF h, T
  <2> QED
    BY <1>1, ParamList
<1>3. T \subseteq Nalu
  BY DEF Nalu
<1>4. \A x \in T : x.kind \in ParamKinds /\ x.cfg = c /\ x.frame = n
  OBVIOUS
<1>5. \A k \in ParamKinds : h[k].kind = k
  OBVIOUS
<1>6. Group(c, n) = g
  BY DEF Group
<1> HIDE DEF h, T, g
<1>7. \A i \in DOMAIN g : g[i] \in T
  BY <1>2
<1>8. g \in Seq(Nalu)
  BY <1>2, <1>3
<1>9. \A k \in ParamKinds : \E i \in DOMAIN g : g[i].kind = k
  BY <1>2, <1>5
<1> QED
  BY <1>4, <1>6, <1>7, <1>8, <1>9

LEMMA CachedFacts ==
  ASSUME frame_no \in 1..MaxFrames,
         sets \in [ParamKinds -> Cfgs \cup {NoCfg}], HaveParams
  PROVE  /\ CachedParams \in Seq(Nalu)
         /\ \A i \in DOMAIN CachedParams : CachedParams[i].kind \in ParamKinds
<1> DEFINE T == {[kind |-> k, cfg |-> sets[k], frame |-> frame_no] : k \in ParamKinds}
           h == [k \in ParamKinds |-> [kind |-> k, cfg |-> sets[k], frame |-> frame_no]]
           g == SetToSeq(T)
<1>1. h \in [ParamKinds -> T] /\ \A x \in T : \E k \in ParamKinds : h[k] = x
  OBVIOUS
<1>2. g \in Seq(T)
  <2> HIDE DEF h, T
  <2> QED
    BY <1>1, ParamList
<1>3. T \subseteq Nalu
  BY DEF Nalu, HaveParams
<1>4. \A x \in T : x.kind \in ParamKinds
  OBVIOUS
<1>5. CachedParams = g
  BY DEF CachedParams
<1> HIDE DEF h, T, g
<1>6. \A i \in DOMAIN g : g[i] \in T
  BY <1>2
<1>7. g \in Seq(Nalu)
  BY <1>2, <1>3
<1> QED
  BY <1>4, <1>5, <1>6, <1>7

-----------------------------------------------------------------------------
(* Sequences that begin with a key picture's sets *)

(* What opens with a key picture does so whatever is appended ... *)
LEMMA OpensGrow ==
  ASSUME NEW s \in Seq(Nalu), NEW t \in Seq(Nalu), Opens(s)
  PROVE  Opens(s \o t)
<1>1. PICK m \in 1..Len(s) : KeyAt(s, 0, m)
  BY DEF Opens
<1>2. /\ Len(s \o t) = Len(s) + Len(t)
      /\ \A i \in 1..Len(s) : (s \o t)[i] = s[i]
  BY ConcatProperties
<1>3. m \in 1..Len(s \o t)
  BY <1>2, LenProperties
<1>4. KeyAt(s \o t, 0, m)
  BY <1>1, <1>2, LenProperties DEF KeyAt
<1> QED
  BY <1>3, <1>4 DEF Opens

(* ... and stays playable behind parameter sets of any kind. *)
LEMMA Behind ==
  ASSUME NEW p \in Seq(Nalu), \A i \in DOMAIN p : p[i].kind \in ParamKinds,
         NEW s \in Seq(Nalu), Opens(s)
  PROVE  Playable(p \o s)
<1> DEFINE l == Len(p)
           q == p \o s
<1>1. PICK m \in 1..Len(s) : KeyAt(s, 0, m)
  BY DEF Opens
<1>2. l \in Nat /\ Len(s) \in Nat /\ DOMAIN p = 1..l
  BY LenProperties
<1>3. /\ Len(q) = l + Len(s)
      /\ \A i \in 1..l : q[i] = p[i]
      /\ \A i \in 1..Len(s) : q[l + i] = s[i]
  <2>1. \A i \in 1..Len(p) + Len(s) :
          q[i] = IF i <= Len(p) THEN p[i] ELSE s[i - Len(p)]
    BY ConcatProperties
  <2>2. Len(q) = l + Len(s)
    BY ConcatProperties
  <2> HIDE DEF q, l
  <2>3. ASSUME NEW i \in 1..Len(s) PROVE q[l + i] = s[i]
    <3>1. l + i \in 1..l + Len(s) /\ ~(l + i <= l) /\ (l + i) - l = i
      BY <1>2
    <3> QED
      BY <2>1, <3>1 DEF l
  <2>4. ASSUME NEW i \in 1..l PROVE q[i] = p[i]
    BY <2>1, <1>2 DEF l
  <2> QED
    BY <2>2, <2>3, <2>4
<1> HIDE DEF l, q
<1>4. l + m \in 1..Len(q)
  BY <1>2, <1>3
<1>5. q[l + m] = s[m]
  BY <1>3
<1>6. ASSUME NEW i \in 1..(l + m) - 1 PROVE q[i].kind \in ParamKinds
  <2>1. CASE i <= l
    BY <2>1, <1>2, <1>3
  <2>2. CASE ~(i <= l)
    <3>1. i - l \in 1..m-1 /\ l + (i - l) = i /\ i - l \in 1..Len(s)
      BY <2>2, <1>2
    <3>2. q[i] = s[i - l]
      BY <3>1, <1>3
    <3> QED
      BY <3>1, <3>2, <1>1 DEF KeyAt
  <2> QED
    BY <2>1, <2>2
<1>7. ASSUME NEW i \in l+1..(l + m) - 1 PROVE q[i].cfg = q[l + m].cfg
  <2>1. i - l \in 1..m-1 /\ l + (i - l) = i /\ i - l \in 1..Len(s)
    BY <1>2
  <2>2. q[i] = s[i - l]
    BY <2>1, <1>3
  <2> QED
    BY <2>1, <2>2, <1>1, <1>5 DEF KeyAt
<1>8. ASSUME NEW k \in ParamKinds PROVE \E i \in l+1..(l + m) - 1 : q[i].kind = k
  <2>1. PICK j \in 1..m-1 : s[j].kind = k
    BY <1>1 DEF KeyAt
  <2>2. l + j \in l+1..(l + m) - 1 /\ j \in 1..Len(s)
    BY <1>2
  <2> QED
    BY <2>1, <2>2, <1>3
<1>9. KeyAt(q, l, l + m)
  <2>1. q[l + m].kind = "irap"
    BY <1>1, <1>5 DEF KeyAt
  <2> QED
    BY <2>1, <1>6, <1>7, <1>8 DEF KeyAt
<1> QED
  BY <1>2, <1>4, <1>9 DEF Playable, q

(* A key picture behind its sets. *)
LEMMA KeyOpens ==
  ASSUME NEW c \in Cfgs, NEW n \in 1..MaxFrames
  PROVE  Opens(Append(Group(c, n), Key(c, n)))
<1> DEFINE g == Group(c, n)
           s == Append(g, Key(c, n))
           m == Len(g) + 1
<1>1. /\ g \in Seq(Nalu)
      /\ \A i \in DOMAIN g : g[i].kind \in ParamKinds /\ g[i].cfg = c
      /\ \A k \in ParamKinds : \E i \in DOMAIN g : g[i].kind = k
  BY GroupFacts
<1>2. Key(c, n) \in Nalu /\ Key(c, n).kind = "irap" /\ Key(c, n).cfg = c
  BY DEF Key, Nalu
<1>3. Len(g) \in Nat /\ DOMAIN g = 1..Len(g)
  BY <1>1, LenProperties
<1>4. /\ Len(s) = m /\ s[m] = Key(c, n)
      /\ \A i \in 1..Len(g) : s[i] = g[i]
  BY <1>1, <1>2, AppendProperties
<1> HIDE DEF s, g
<1>5. 1..m-1 = DOMAIN g /\ m \in 1..Len(s)
  BY <1>3, <1>4
<1>6. KeyAt(s, 0, m)
  <2>1. 0 + 1 = 1
    OBVIOUS
  <2> QED
    BY <2>1, <1>1, <1>2, <1>3, <1>4, <1>5 DEF KeyAt
<1> QED
  BY <1>5, <1>6 DEF Opens, s, g

(* The first picture of a snapshot that opens behind further sets. *)
LEMMA PlayableFacts ==
  ASSUME out \in Seq(Nalu), Playable(out)
  PROVE  /\ Pictures /= {} /\ First.kind = "irap"
         /\ \A k \in ParamKinds : InEffect(k, Min(Pictures)) = First.cfg
<1>1. PICK l \in Nat, m \in 1..Len(out) : KeyAt(out, l, m)
  BY DEF Playable
<1>2. Len(out) \in Nat /\ DOMAIN out = 1..Len(out)
  BY LenProperties
<1>3. \A i \in 1..m-1 : out[i].kind \notin {"irap", "delta"}
  BY <1>1, CacheAssumption DEF KeyAt
<1>4. Pictures \subseteq Nat /\ m \in Pictures
  BY <1>1, <1>2 DEF Pictures, KeyAt
<1>5. ASSUME NEW i \in Pictures PROVE m <= i
  <2>1. i \in 1..Len(out) /\ out[i].kind \in {"irap", "delta"}
    BY <1>2 DEF Pictures
  <2> QED
    BY <2>1, <1>2, <1>3
<1>6. Min(Pictures) = m
  BY <1>4, <1>5, MinIs
<1>7. First = out[m]
  BY <1>6 DEF First
<1>8. ASSUME NEW k \in ParamKinds PROVE InEffect(k, m) = out[m].cfg
  <2> DEFINE S == {i \in 1..m : out[i].kind = k}
             j == Max(S)
  <2>1. PICK i \in l+1..m-1 : out[i].kind = k
    BY <1>1 DEF KeyAt
  <2>2. i \in S /\ S \subseteq 1..m /\ m \in Nat
    BY <2>1, <1>1
  <2>3. j \in S /\ j >= i
    BY <2>2, MaxFacts
  <2>4. InEffect(k, m) = out[j].cfg
    BY DEF InEffect
  <2> HIDE DEF j
  <2>5. j \in 1..m /\ out[j].kind = k
    BY <2>3
  <2>6. j /= m
    BY <2>5, <1>1, CacheAssumption DEF KeyAt
  <2>7. j \in l+1..m-1
    BY <2>3, <2>5, <2>6, <2>1, <1>1
  <2> QED
    BY <2>4, <2>7, <1>1 DEF KeyAt
<1> QED
  BY <1>1, <1>4, <1>6, <1>7, <1>8 DEF KeyAt

-----------------------------------------------------------------------------
(* The steps of the cache *)

(* The packs of a frame are of that frame. *)
LEMMA FrameFacts ==
  ASSUME NEW c \in Cfgs, NEW n \in 1..MaxFrames,
         NEW f \in KeyFrames(c, n) \cup {DeltaFrame(c, n)}
  PROVE  /\ f \in Seq(Seq(Nalu))
         /\ \A j \in DOMAIN f : \A i \in DOMAIN f[j] : f[j][i].frame = n
<1> DEFINE g == Group(c, n)
           k == Key(c, n)
           d == [kind |-> "delta", cfg |-> c, frame |-> n]
           a == Append(g, k)
<1>1. g \in Seq(Nalu) /\ \A i \in DOMAIN g : g[i].frame = n
  BY GroupFacts
<1>2. k \in Nalu /\ k.frame = n
  BY DEF Key, Nalu
<1>3. d \in Nalu /\ d.frame = n
  BY DEF Nalu
<1>4. f = <<a>> \/ f = <<g, <<k>>>> \/ f = <<<<d>>>>
  BY DEF KeyFrames, DeltaFrame
<1> HIDE DEF g, k, d
<1>5. a \in Seq(Nalu) /\ \A i \in DOMAIN a : a[i].frame = n
  BY <1>1, <1>2
<1>6. <<k>> \in Seq(Nalu) /\ \A i \in DOMAIN <<k>> : <<k>>[i].frame = n
  BY <1>2
<1>7. <<d>> \in Seq(Nalu) /\ \A i \in DOMAIN <<d>> : <<d>>[i].frame = n
  BY <1>3
<1> HIDE DEF a
<1>8. CASE f = <<a>>
  BY <1>5, <1>8
<1>9. CASE f = <<g, <<k>>>>
  BY <1>1, <1>6, <1>9
<1>10. CASE f = <<<<d>>>>
  BY <1>7, <1>10
<1> QED
  BY <1>4, <1>8, <1>9, <1>10

LEMMA CacheInitInv ==
  ASSUME CacheInit
  PROVE  CacheInv
<1>1. CacheTypeOK
  <2>1. 0 \in 0..MaxFrames /\ 0 \in 0..MaxCacheFaults /\ 0 <= MaxGop
    BY CacheAssumption
  <2>2. <<>> \in Seq(Seq(Nalu)) /\ <<>> \in Seq(Nalu) /\ Len(<<>>) = 0
    OBVIOUS
  <2>3. [k \in ParamKinds |-> NoCfg] \in [ParamKinds -> Cfgs \cup {NoCfg}]
    OBVIOUS
  <2> QED
    BY <2>1, <2>2, <2>3 DEF CacheTypeOK, CacheInit, Nalu
<1>2. AuInv /\ GopInv /\ KeyInv
  BY DEF AuInv, GopInv, KeyInv, CacheInit
<1> QED
  BY <1>1, <1>2 DEF CacheInv

LEMMA StepFrame ==
  ASSUME CacheInv, Frame
  PROVE  CacheInv'
<1> DEFINE n == frame_no + 1
<1>0. PICK c \in Cfgs, flagged \in BOOLEAN :
        \E f \in KeyFrames(c, n) \cup {DeltaFrame(c, n)} :
          /\ enc' = c
          /\ IF flagged THEN pc' = "packs" /\ packs' = f ELSE UNCHANGED <<pc, packs>>
  BY DEF Frame
<1>1. PICK f \in KeyFrames(c, n) \cup {DeltaFrame(c, n)} :
        /\ enc' = c
        /\ IF flagged THEN pc' = "packs" /\ packs' = f ELSE UNCHANGED <<pc, packs>>
  BY <1>0
<1>2. /\ n \in 1..MaxFrames /\ MaxFrames \in Nat /\ frame_no' = n /\ pc = "idle"
      /\ au' = <<>> /\ has_irap' = FALSE /\ out' = <<>> /\ out_pts' = 0
      /\ UNCHANGED <<sets, current_gop, current_gop_has_irap, current_gop_pts, last_irap,
                     writer_ready, cache_faults, spoilt>>
  BY CacheAssumption DEF Frame, cache, CacheInv, CacheTypeOK
<1>3. f \in Seq(Seq(Nalu)) /\ \A j \in DOMAIN f : \A i \in DOMAIN f[j] : f[j][i].frame = n
  BY <1>2, FrameFacts
<1> HIDE DEF n
<1>4. CacheTypeOK'
  <2>1. packs' \in Seq(Seq(Nalu)) /\ pc' \in {"idle", "packs", "finish"}
    BY <1>1, <1>2, <1>3 DEF CacheInv, CacheTypeOK, Nalu
  <2>2. <<>> \in Seq(Nalu) /\ 0 \in 0..MaxFrames
    BY <1>2
  <2>3. frame_no' \in 0..MaxFrames
    BY <1>2
  <2> QED
    BY <1>1, <1>2, <2>1, <2>2, <2>3 DEF CacheInv, CacheTypeOK, Nalu
<1>5. AuInv'
  BY <1>1, <1>2, <1>3 DEF AuInv
<1>6. GopInv'
  BY <1>2 DEF CacheInv, GopInv
<1>7. KeyInv'
  BY <1>1, <1>2 DEF CacheInv, KeyInv
<1> QED
  BY <1>4, <1>5, <1>6, <1>7 DEF CacheInv

LEMMA StepMapFails ==
  ASSUME CacheInv, MapFails
  PROVE  CacheInv'
<1>1. /\ pc' = "idle" /\ packs' = <<>>
      /\ cache_faults < MaxCacheFaults /\ cache_faults' = cache_faults + 1
      /\ UNCHANGED <<frame_no, enc, au, has_irap, sets, current_gop, current_gop_has_irap,
                     current_gop_pts, last_irap, out, out_pts, writer_ready, spoilt>>
  BY DEF MapFails, CacheFault, cache
<1>2. cache_faults' \in 0..MaxCacheFaults
  BY <1>1, CacheAssumption DEF CacheInv, CacheTypeOK
<1>3. CacheTypeOK'
  BY <1>1, <1>2 DEF CacheInv, CacheTypeOK
<1>4. AuInv' /\ GopInv'
  BY <1>1, <1>2 DEF CacheInv, AuInv, GopInv
<1>5. KeyInv'
  <2>1. BeginsWith' = BeginsWith
    BY <1>1 DEF BeginsWith, CachedParams
  <2> QED
    BY <1>1, <2>1 DEF CacheInv, KeyInv
<1> QED
  BY <1>3, <1>4, <1>5 DEF CacheInv

(* AU b is AU a with the first k NALUs of pack p and perhaps the start     *)
(* code of one more; it is of the frame that a and p are of.               *)
Fed(a, p, k, b) ==
  \/ b = a \o SubSeq(p, 1, k)
  \/ k < Len(p) /\ b = a \o Append(SubSeq(p, 1, k), [p[k+1] EXCEPT !.kind = "torn"])

OfFrame(s, n) == s \in Seq(Nalu) /\ \A i \in DOMAIN s : s[i].frame = n

LEMMA FedFacts ==
  ASSUME NEW p, NEW a, NEW n, OfFrame(p, n), OfFrame(a, n),
         NEW k \in 0..Len(p), NEW b, Fed(a, p, k, b)
  PROVE  OfFrame(b, n)
<1> USE DEF OfFrame
<1> DEFINE T == {x \in Nalu : x.frame = n}
           q == SubSeq(p, 1, k)
<1>1. p \in Seq(T) /\ a \in Seq(T)
  <2>1. ASSUME NEW s \in Seq(Nalu), \A i \in DOMAIN s : s[i].frame = n PROVE s \in Seq(T)
    <3>1. Len(s) \in Nat /\ DOMAIN s = 1..Len(s) /\ \A i \in 1..Len(s) : s[i] \in Nalu
      BY LenProperties
    <3>2. ASSUME NEW i \in 1..Len(s) PROVE s[i] \in T
      <4>1. s[i] \in Nalu
        BY <3>1
      <4>2. s[i].frame = n
        BY <3>1, <2>1
      <4> QED
        BY <4>1, <4>2
    <3> HIDE DEF T
    <3>3. \A i \in 1..Len(s) : s[i] \in T
      BY <3>2
    <3> QED
      BY <3>1, <3>3, SeqDef
  <2> QED
    BY <2>1
<1>2. k < Len(p) => [p[k+1] EXCEPT !.kind = "torn"] \in T
  <2> SUFFICES ASSUME k < Len(p) PROVE [p[k+1] EXCEPT !.kind = "torn"] \in T
    OBVIOUS
  <2>1. k + 1 \in 1..Len(p)
    BY LenProperties
  <2>2. p[k+1] \in Nalu /\ p[k+1].frame = n
    BY <1>1, <2>1
  <2> QED
    BY <2>2 DEF Nalu
<1> HIDE DEF T
<1>3. q \in Seq(T)
  <2>1. Len(p) \in Nat /\ DOMAIN p = 1..Len(p)
    BY LenProperties
  <2>2. \A i \in 1..k : p[i] \in T
    BY <1>1, <2>1
  <2> QED
    BY <2>1, <2>2, SubSeqProperties, <1>1
<1>4. k < Len(p) => Append(q, [p[k+1] EXCEPT !.kind = "torn"]) \in Seq(T)
  BY <1>2, <1>3
<1> HIDE DEF q
<1>5. b \in Seq(T)
  <2>1. CASE b = a \o q
    BY <2>1, <1>1, <1>3
  <2>2. CASE k < Len(p) /\ b = a \o Append(q, [p[k+1] EXCEPT !.kind = "torn"])
    BY <2>2, <1>1, <1>4
  <2> QED
    BY <2>1, <2>2 DEF q, Fed
<1>6. b \in Seq(Nalu)
  BY <1>5 DEF T
<1>7. \A i \in DOMAIN b : b[i] \in T
  BY <1>5
<1> QED
  BY <1>6, <1>7 DEF T

(* Caching keeps a configuration, or none, for each kind. *)
LEMMA SetsFacts ==
  ASSUME NEW p \in Seq(Nalu), NEW k \in 0..Len(p),
         sets \in [ParamKinds -> Cfgs \cup {NoCfg}]
  PROVE  SetsAfter(p, k) \in [ParamKinds -> Cfgs \cup {NoCfg}]
<1> DEFINE S(q) == {i \in 1..k : p[i].kind = q}
           h(q) == IF S(q) = {} THEN sets[q] ELSE p[Max(S(q))].cfg
<1>1. ASSUME NEW q \in ParamKinds PROVE h(q) \in Cfgs \cup {NoCfg}
  <2>1. CASE S(q) = {}
    BY <2>1
  <2>2. CASE S(q) /= {}
    <3>1. Max(S(q)) \in S(q)
      <4>1. k \in Nat /\ S(q) \subseteq 1..k
        BY LenProperties
      <4> HIDE DEF S
      <4> QED
        BY <4>1, <2>2, MaxFacts
    <3>2. Max(S(q)) \in 1..Len(p)
      BY <3>1, LenProperties
    <3>3. p[Max(S(q))] \in Nalu
      BY <3>2
    <3> QED
      BY <3>3, <2>2 DEF Nalu
  <2> QED
    BY <2>1, <2>2
<1>2. SetsAfter(p, k) = [q \in ParamKinds |-> h(q)]
  BY DEF SetsAfter
<1> HIDE DEF h
<1> QED
  BY <1>1, <1>2

(* Unless a pack was given up, the whole pack went into the AU. *)
LEMMA StepFeedPack ==
  ASSUME CacheInv, FeedPack
  PROVE  CacheInv'
<1>1. /\ pc = "packs" /\ packs \in Seq(Seq(Nalu)) /\ packs /= <<>>
      /\ packs' = Tail(packs)
      /\ pc' = IF Tail(packs) = <<>> THEN "finish" ELSE "packs"
      /\ UNCHANGED <<frame_no, enc, current_gop, current_gop_has_irap, current_gop_pts,
                     last_irap, out, out_pts, writer_ready>>
  BY DEF FeedPack, CacheInv, CacheTypeOK, Nalu
<1>2. PICK p : p = Head(packs)
  OBVIOUS
<1>3. p \in Seq(Nalu) /\ 1 \in DOMAIN packs /\ p = packs[1]
  BY <1>1, <1>2
<1>4. PICK k \in 0..Len(p) :
        /\ \/ au' = au \o SubSeq(p, 1, k)
           \/ k < Len(p) /\ au' = au \o Append(SubSeq(p, 1, k), [p[k+1] EXCEPT !.kind = "torn"])
        /\ has_irap' = (has_irap \/ \E i \in DOMAIN p : i <= k + 1 /\ p[i].kind = "irap")
        /\ \/ k = Len(p) /\ sets' = SetsAfter(p, k) /\ UNCHANGED cache_faults
           \/ k < Len(p) /\ sets' = SetsAfter(p, k) /\ CacheFault
           \/ /\ k = Len(p) /\ CacheFault
              /\ \E i \in DOMAIN p :
                   /\ p[i].kind \in ParamKinds
                   /\ sets' = [SetsAfter(p, k) EXCEPT ![p[i].kind] = NoCfg]
        /\ spoilt' = IF k < Len(p) THEN spoilt \cup {frame_no} ELSE spoilt
  BY <1>2 DEF FeedPack, Feed
<1>5. /\ au \in Seq(Nalu) /\ has_irap \in BOOLEAN /\ frame_no >= 1
      /\ \A i \in DOMAIN au : au[i].frame = frame_no
      /\ \A i \in DOMAIN p : p[i].frame = frame_no
  BY <1>1, <1>3 DEF CacheInv, CacheTypeOK, AuInv, Nalu
<1>6. au' \in Seq(Nalu) /\ \A i \in DOMAIN au' : au'[i].frame = frame_no
  <2>1. PICK a, b, n : a = au /\ b = au' /\ n = frame_no
    OBVIOUS
  <2>2. Fed(a, p, k, b)
    BY <1>4, <2>1 DEF Fed
  <2>3. OfFrame(p, n) /\ OfFrame(a, n)
    BY <1>3, <1>5, <2>1 DEF OfFrame
  <2>4. OfFrame(b, n)
    BY <2>2, <2>3, FedFacts
  <2> QED
    BY <2>1, <2>4 DEF OfFrame
<1>7. sets' \in [ParamKinds -> Cfgs \cup {NoCfg}]
  <2>1. SetsAfter(p, k) \in [ParamKinds -> Cfgs \cup {NoCfg}]
    BY <1>3, SetsFacts DEF CacheInv, CacheTypeOK
  <2> QED
    BY <1>4, <2>1
<1>8. /\ cache_faults' \in 0..MaxCacheFaults /\ cache_faults \in Nat
      /\ UNCHANGED cache_faults \/ cache_faults' = cache_faults + 1
  <2>1. \/ UNCHANGED cache_faults
        \/ cache_faults < MaxCacheFaults /\ cache_faults' = cache_faults + 1
    BY <1>4 DEF CacheFault
  <2>2. cache_faults \in 0..MaxCacheFaults /\ MaxCacheFaults \in Nat
    BY CacheAssumption DEF CacheInv, CacheTypeOK
  <2> QED
    BY <2>1, <2>2
<1>9. /\ packs' \in Seq(Seq(Nalu))
      /\ \A j \in DOMAIN packs' : j + 1 \in DOMAIN packs /\ packs'[j] = packs[j + 1]
  BY <1>1
<1>10. CacheTypeOK'
  <2>1. has_irap' \in BOOLEAN
    BY <1>4, <1>5
  <2>2. pc' \in {"idle", "packs", "finish"}
    BY <1>1
  <2>3. spoilt' \subseteq 1..MaxFrames
    <3>1. frame_no \in 1..MaxFrames /\ spoilt \subseteq 1..MaxFrames
      BY <1>5, CacheAssumption DEF CacheInv, CacheTypeOK
    <3> QED
      BY <1>4, <3>1
  <2> QED
    BY <1>1, <1>6, <1>7, <1>8, <1>9, <2>1, <2>2, <2>3 DEF CacheInv, CacheTypeOK, Nalu
<1>11. AuInv'
  <2>1. \A j \in DOMAIN packs' : \A i \in DOMAIN packs'[j] : packs'[j][i].frame = frame_no
    BY <1>1, <1>9 DEF CacheInv, AuInv
  <2> QED
    BY <1>1, <1>5, <1>6, <2>1 DEF AuInv
<1>12. GopInv'
  BY <1>1 DEF CacheInv, GopInv
<1>13. KeyInv'
  <2>0. /\ spoilt \subseteq spoilt' /\ out = <<>>
        /\ UNCHANGED <<current_gop, current_gop_has_irap, last_irap, out>>
        /\ current_gop_has_irap /\ current_gop[1].frame \notin spoilt => Opens(current_gop)
        /\ last_irap /= <<>> /\ last_irap[1].frame \notin spoilt => Opens(last_irap)
    BY <1>1, <1>4 DEF CacheInv, KeyInv
  <2>7. /\ pc' /= "idle" => out' = <<>>
        /\ current_gop_has_irap' /\ current_gop'[1].frame \notin spoilt' => Opens(current_gop')
        /\ last_irap' /= <<>> /\ last_irap'[1].frame \notin spoilt' => Opens(last_irap')
        /\ out' /= <<>> /\ BeginsWith' \notin spoilt' => Playable(out')
        /\ frame_no' = frame_no
    BY <1>1, <2>0
  <2> SUFFICES ASSUME frame_no \notin spoilt' PROVE KeyInv'
    BY <2>7 DEF KeyInv
  <2>1. frame_no \notin spoilt
    BY <2>0
  <2>2. k = Len(p)
    <3>1. Len(p) \in Nat /\ ~(k < Len(p))
      BY <1>3, <1>4
    <3> QED
      BY <3>1
  <2>3. Len(p) \in Nat /\ DOMAIN p = 1..Len(p) /\ SubSeq(p, 1, Len(p)) = p
    BY <1>3
  <2>4. au' = au \o p
    <3>1. ~(k < Len(p))
      BY <2>2, <2>3
    <3>2. au' = au \o SubSeq(p, 1, k)
      BY <1>4, <3>1
    <3> QED
      BY <3>2, <2>2, <2>3
  <2>5. ~has_irap
    BY <2>1, <1>1 DEF CacheInv, KeyInv
  <2>6. has_irap' => \E i \in DOMAIN p : p[i].kind = "irap"
    BY <1>4, <2>5
  <2>8. PICK c \in Cfgs, n \in 1..MaxFrames :
          \/ au = <<>> /\ packs \in KeyFrames(c, n) \cup {DeltaFrame(c, n)}
          \/ au = Group(c, n) /\ packs = <<<<Key(c, n)>>>>
    BY <2>1, <1>1 DEF CacheInv, KeyInv
  <2> DEFINE g == Group(c, n)
             key == Key(c, n)
  <2>9. /\ g \in Seq(Nalu) /\ \A i \in DOMAIN g : g[i].kind /= "irap"
        /\ Opens(Append(g, key))
    BY GroupFacts, KeyOpens, CacheAssumption
  <2>10. \/ au = <<>> /\ packs = <<Append(g, key)>>
         \/ au = <<>> /\ packs = <<g, <<key>>>>
         \/ au = <<>> /\ packs = <<<<[kind |-> "delta", cfg |-> c, frame |-> n]>>>>
         \/ au = g /\ packs = <<<<key>>>>
    BY <2>8 DEF KeyFrames, DeltaFrame
  <2> HIDE DEF g, key
  <2> DEFINE w == Append(g, key)
  <2>11. CASE au = <<>> /\ packs = <<w>>
    <3> HIDE DEF w
    <3>1. p = w /\ Tail(packs) = <<>>
      BY <2>11, <1>3
    <3>2. pc' = "finish" /\ au' = w
      BY <3>1, <2>4, <2>11, <1>1, <1>3
    <3>3. Opens(au')
      BY <3>2, <2>9 DEF w
    <3> QED
      BY <3>2, <3>3, <2>7 DEF KeyInv
  <2>12. CASE au = <<>> /\ packs = <<g, <<key>>>>
    <3>1. p = g /\ Tail(packs) = <<<<key>>>>
      BY <2>12, <1>3
    <3>2. pc' = "packs" /\ au' = g /\ packs' = <<<<key>>>>
      BY <3>1, <2>4, <2>12, <2>9, <1>1
    <3>3. ~has_irap'
      BY <3>1, <2>6, <2>9
    <3> QED
      BY <3>2, <3>3, <2>7 DEF KeyInv, g, key
  <2>13. CASE au = <<>> /\ packs = <<<<[kind |-> "delta", cfg |-> c, frame |-> n]>>>>
    <3>1. p = <<[kind |-> "delta", cfg |-> c, frame |-> n]>> /\ Tail(packs) = <<>>
      BY <2>13, <1>3
    <3>2. pc' = "finish"
      BY <3>1, <1>1
    <3>3. ~has_irap'
      BY <3>1, <2>6
    <3> QED
      BY <3>2, <3>3, <2>7 DEF KeyInv
  <2>14. CASE au = g /\ packs = <<<<key>>>>
    <3>1. p = <<key>> /\ Tail(packs) = <<>>
      BY <2>14, <1>3
    <3>2. pc' = "finish" /\ au' = g \o <<key>>
      BY <3>1, <2>4, <2>14, <1>1
    <3>3. g \o <<key>> = w
      BY <2>9, <1>3, <3>1, AppendIsConcat
    <3>4. Opens(au')
      BY <3>2, <3>3, <2>9 DEF w
    <3> QED
      BY <3>2, <3>4, <2>7 DEF KeyInv
  <2> QED
    BY <2>10, <2>11, <2>12, <2>13, <2>14 DEF w
<1> QED
  BY <1>10, <1>11, <1>12, <1>13 DEF CacheInv

(* An AU with an IRAP begins the GOP, another one only goes behind a GOP. *)
LEMMA GopFacts ==
  ASSUME CacheInv, frame_no \in 1..MaxFrames,
         \A i \in DOMAIN au : au[i].frame = frame_no,
         NEW room \in BOOLEAN, UpdateGop(room), NEW W
  PROVE  /\ current_gop' \in Seq(Nalu) /\ Len(current_gop') <= MaxGop
         /\ current_gop_has_irap' \in BOOLEAN /\ current_gop_pts' \in 0..MaxFrames
         /\ GopInv'
         /\ /\ has_irap /\ frame_no \notin W => Opens(au)
            /\ current_gop_has_irap /\ current_gop[1].frame \notin W => Opens(current_gop)
            => (current_gop_has_irap' /\ current_gop'[1].frame \notin W => Opens(current_gop'))
<1>1. /\ au \in Seq(Nalu) /\ current_gop \in Seq(Nalu) /\ has_irap \in BOOLEAN
      /\ Len(current_gop) <= MaxGop /\ MaxGop \in Nat /\ MaxFrames \in Nat
      /\ current_gop_has_irap \in BOOLEAN /\ current_gop_pts \in 0..MaxFrames
      /\ current_gop_has_irap <=> current_gop /= <<>>
      /\ current_gop /= <<>> => current_gop[1].frame = current_gop_pts
  BY CacheAssumption DEF CacheInv, CacheTypeOK, GopInv, Nalu
<1>2. CASE UNCHANGED <<current_gop, current_gop_has_irap, current_gop_pts>>
  BY <1>1, <1>2 DEF GopInv
<1>3. CASE /\ current_gop_pts' = IF has_irap THEN frame_no ELSE current_gop_pts
           /\ current_gop' = <<>> /\ current_gop_has_irap' = FALSE
  <2>1. current_gop_pts' \in 0..MaxFrames
    BY <1>1, <1>3
  <2>2. current_gop' \in Seq(Nalu) /\ Len(current_gop') <= MaxGop
    BY <1>1, <1>3
  <2> QED
    BY <1>3, <2>1, <2>2 DEF GopInv
<1>4. CASE /\ au /= <<>> /\ (has_irap \/ current_gop_has_irap)
           /\ current_gop_pts' = IF has_irap THEN frame_no ELSE current_gop_pts
           /\ Len(OldGop) + Len(au) <= MaxGop
           /\ current_gop' = OldGop \o au
           /\ current_gop_has_irap' = TRUE
  <2>1. 1 \in DOMAIN au /\ Len(au) \in Nat \ {0}
    BY <1>1, <1>4
  <2>2. CASE has_irap
    <3>1. OldGop = <<>> /\ current_gop' = au /\ Len(OldGop) = 0
      BY <2>2, <1>1, <1>4 DEF OldGop
    <3>2. Len(au) <= MaxGop
      BY <3>1, <1>4, <2>1
    <3>3. au[1].frame = frame_no /\ current_gop_pts' = frame_no
      BY <2>1, <2>2, <1>4
    <3>4. current_gop_pts' \in 0..MaxFrames
      BY <3>3, <1>1
    <3> QED
      BY <1>1, <1>4, <2>2, <3>1, <3>2, <3>3, <3>4 DEF GopInv
  <2>3. CASE ~has_irap
    <3>1. /\ OldGop = current_gop /\ current_gop' = current_gop \o au
          /\ current_gop_has_irap /\ current_gop_pts' = current_gop_pts
      BY <2>3, <1>4 DEF OldGop
    <3>2. 1 \in DOMAIN current_gop /\ Len(current_gop) \in Nat \ {0}
      BY <3>1, <1>1
    <3>3. /\ current_gop' \in Seq(Nalu) /\ Len(current_gop') = Len(current_gop) + Len(au)
          /\ current_gop'[1] = current_gop[1]
      BY <3>1, <3>2, <2>1, <1>1, ConcatProperties
    <3>4. current_gop' /= <<>> /\ Len(current_gop') <= MaxGop
      BY <3>1, <3>2, <3>3, <1>4, <2>1, <1>1
    <3>5. Opens(current_gop) => Opens(current_gop')
      BY <3>1, <1>1, OpensGrow
    <3> QED
      BY <1>1, <1>4, <3>1, <3>2, <3>3, <3>4, <3>5 DEF GopInv
  <2> QED
    BY <1>1, <2>2, <2>3
<1> QED
  BY <1>2, <1>3, <1>4 DEF UpdateGop

(* The snapshot is the cached sets in front of what opens with a key       *)
(* picture.                                                                *)
LEMMA StepFinish ==
  ASSUME CacheInv, Finish
  PROVE  CacheInv'
<1>1. PICK gop_room, irap_room, out_room \in BOOLEAN :
        /\ IF gop_room /\ irap_room /\ out_room THEN UNCHANGED cache_faults ELSE CacheFault
        /\ UpdateGop(gop_room)
        /\ last_irap' = IF ~has_irap \/ au = <<>> THEN last_irap
                        ELSE IF irap_room THEN au ELSE <<>>
        /\ BuildOutput(out_room)
  BY DEF Finish
<1>2. /\ pc = "finish" /\ pc' = "idle"
      /\ UNCHANGED <<frame_no, enc, packs, au, has_irap, sets, writer_ready, spoilt>>
  BY DEF Finish, frameVars
<1>3. /\ frame_no \in 1..MaxFrames /\ MaxFrames \in Nat
      /\ \A i \in DOMAIN au : au[i].frame = frame_no
      /\ au \in Seq(Nalu) /\ last_irap \in Seq(Nalu)
      /\ out \in Seq(Nalu) /\ out_pts \in 0..MaxFrames
      /\ sets \in [ParamKinds -> Cfgs \cup {NoCfg}]
  BY <1>2, CacheAssumption DEF CacheInv, CacheTypeOK, AuInv, Nalu
<1>4. /\ current_gop' \in Seq(Nalu) /\ Len(current_gop') <= MaxGop
      /\ current_gop_has_irap' \in BOOLEAN /\ current_gop_pts' \in 0..MaxFrames
      /\ GopInv'
      /\ /\ has_irap /\ frame_no \notin spoilt => Opens(au)
         /\ current_gop_has_irap /\ current_gop[1].frame \notin spoilt => Opens(current_gop)
         => (current_gop_has_irap' /\ current_gop'[1].frame \notin spoilt => Opens(current_gop'))
  BY <1>1, <1>3, GopFacts
<1>5. last_irap' \in Seq(Nalu)
  BY <1>1, <1>3
<1>6. /\ cache_faults' \in 0..MaxCacheFaults /\ cache_faults \in Nat
      /\ UNCHANGED cache_faults \/ cache_faults' = cache_faults + 1
  <2>1. \/ UNCHANGED cache_faults
        \/ cache_faults < MaxCacheFaults /\ cache_faults' = cache_faults + 1
    BY <1>1 DEF CacheFault
  <2>2. cache_faults \in 0..MaxCacheFaults /\ MaxCacheFaults \in Nat
    BY CacheAssumption DEF CacheInv, CacheTypeOK
  <2> QED
    BY <2>1, <2>2
<1>7. \/ /\ HaveParams /\ current_gop_has_irap' /\ current_gop' /= <<>>
         /\ out' = CachedParams \o current_gop' /\ out_pts' = current_gop_pts'
      \/ /\ HaveParams /\ last_irap' /= <<>>
         /\ out' = CachedParams \o last_irap' /\ out_pts' = frame_no
      \/ UNCHANGED <<out, out_pts>>
  BY <1>1 DEF BuildOutput, GopCached
<1>8. HaveParams =>
        /\ CachedParams \in Seq(Nalu)
        /\ \A i \in DOMAIN CachedParams : CachedParams[i].kind \in ParamKinds
  BY <1>3, CachedFacts
<1>9. out' \in Seq(Nalu) /\ out_pts' \in 0..MaxFrames
  <2>1. HaveParams => /\ CachedParams \o current_gop' \in Seq(Nalu)
                            /\ CachedParams \o last_irap' \in Seq(Nalu)
    BY <1>4, <1>5, <1>8
  <2>2. /\ frame_no \in 0..MaxFrames /\ current_gop_pts' \in 0..MaxFrames
        /\ out \in Seq(Nalu) /\ out_pts \in 0..MaxFrames
    BY <1>3, <1>4
  <2>3. out' \in Seq(Nalu)
    BY ONLY <1>7, <2>1, <2>2
  <2>4. out_pts' \in 0..MaxFrames
    BY ONLY <1>7, <2>2
  <2> QED
    BY <2>3, <2>4
<1>10. CacheTypeOK'
  BY <1>2, <1>3, <1>4, <1>5, <1>6, <1>9 DEF CacheInv, CacheTypeOK, Nalu
<1>11. AuInv'
  BY <1>2 DEF AuInv
<1>12. KeyInv'
  <2>1. /\ has_irap /\ frame_no \notin spoilt => Opens(au)
        /\ current_gop_has_irap /\ current_gop[1].frame \notin spoilt => Opens(current_gop)
        /\ last_irap /= <<>> /\ last_irap[1].frame \notin spoilt => Opens(last_irap)
        /\ out = <<>>
    BY <1>2 DEF CacheInv, KeyInv
  <2>2. current_gop_has_irap' /\ current_gop'[1].frame \notin spoilt => Opens(current_gop')
    BY <1>4, <2>1
  <2>3. last_irap' /= <<>> /\ last_irap'[1].frame \notin spoilt => Opens(last_irap')
    <3>1. au /= <<>> => 1 \in DOMAIN au
      BY <1>3
    <3>2. au /= <<>> => au[1].frame = frame_no
      BY <3>1, <1>3
    <3> QED
      BY <1>1, <2>1, <3>2
  <2>4. out' /= <<>> /\ BeginsWith' \notin spoilt => Playable(out')
    <3>1. PICK p : p = CachedParams
      OBVIOUS
    <3>2. PICK g, r : g = current_gop' /\ r = last_irap'
      OBVIOUS
    <3>3. HaveParams => p \in Seq(Nalu) /\ \A i \in DOMAIN p : p[i].kind \in ParamKinds
      BY <1>8, <3>1
    <3>4. HaveParams /\ Opens(g) => Playable(p \o g)
      BY <3>2, <3>3, <1>4, Behind
    <3>5. HaveParams /\ Opens(r) => Playable(p \o r)
      BY <3>2, <3>3, <1>5, Behind
    <3>6. BeginsWith' = out'[Len(p) + 1].frame
      BY <1>2, <3>1 DEF BeginsWith, CachedParams
    <3>7. ASSUME NEW t \in Seq(Nalu), t /= <<>>, HaveParams, out' = p \o t
          PROVE  out'[Len(p) + 1] = t[1]
      BY <3>3, <3>7, ConcatProperties
    <3>8. g \in Seq(Nalu) /\ r \in Seq(Nalu)
      BY <3>2, <1>4, <1>5
    <3>9. CASE HaveParams /\ current_gop_has_irap' /\ g /= <<>> /\ out' = p \o g
      BY <3>9, <3>2, <3>4, <3>6, <3>7, <3>8, <2>2
    <3>10. CASE HaveParams /\ r /= <<>> /\ out' = p \o r
      BY <3>10, <3>2, <3>5, <3>6, <3>7, <3>8, <2>3
    <3> QED
      BY <1>7, <2>1, <3>1, <3>2, <3>9, <3>10
  <2> QED
    BY <1>2, <2>2, <2>3, <2>4 DEF KeyInv
<1> QED
  BY <1>4, <1>10, <1>11, <1>12 DEF CacheInv

-----------------------------------------------------------------------------
(* The flag, the bytes and the time of the GOP agree, and what the cache   *)
(* holds is playable unless the frame it begins with was not fed whole.    *)
THEOREM CacheInvariance == CacheSpec => []CacheInv
<1>1. CacheInit => CacheInv
  BY CacheInitInv
<1>2. CacheInv /\ [CacheNext]_(cacheVars) => CacheInv'
  <2> SUFFICES ASSUME CacheInv, [CacheNext]_(cacheVars) PROVE CacheInv'
    OBVIOUS
  <2>1. CASE UNCHANGED cacheVars
    <3>1. BeginsWith' = BeginsWith
      BY <2>1 DEF cacheVars, cache, BeginsWith, CachedParams
    <3> QED
      BY <2>1, <3>1 DEF cacheVars, cache, frameVars, CacheInv, CacheTypeOK, AuInv,
                  GopInv, KeyInv
  <2> QED
    BY <2>1, StepFrame, StepMapFails, StepFeedPack, StepFinish DEF CacheNext
<1> QED
  BY <1>1, <1>2, PTL DEF CacheSpec

(* h265_snapshot_update_gop_cache and what it is called from: the type of  *)
(* the cache and the consistency of the GOP, whatever has failed.          *)
THEOREM GopCorrect == CacheSpec => []GopIsConsistent
<1>1. CacheInv => GopIsConsistent
  BY DEF CacheInv, GopInv, GopIsConsistent
<1> QED
  BY <1>1, CacheInvariance, PTL

(* h265_snapshot_build_output: whatever has failed, unless a pack of the   *)
(* frame it begins with was given up, a snapshot starts with a random      *)
(* access picture that is decoded with its own sets.                       *)
THEOREM SnapshotPlays == CacheSpec => []PlayableSnapshot
<1>1. CacheInv => PlayableSnapshot
  <2> SUFFICES ASSUME CacheInv, out /= <<>>, BeginsWith \notin spoilt
               PROVE  /\ Pictures /= {} /\ First.kind = "irap"
                      /\ \A k \in ParamKinds :
                           InEffect(k, Min(Pictures)) = First.cfg
    BY DEF PlayableSnapshot
  <2>1. out \in Seq(Nalu) /\ Playable(out)
    BY DEF CacheInv, CacheTypeOK, KeyInv, Nalu
  <2> QED
    BY <2>1, PlayableFacts
<1> QED
  BY <1>1, CacheInvariance, PTL
===============================================================================
