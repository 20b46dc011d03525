---------------------------- MODULE SnapshotWriter ----------------------------
(***************************************************************************)
(* src/snapshot_writer.c: a ring of jobs under g_snapshot_mutex between    *)
(* the DATAFIFO thread, which enqueues, and a writer thread, which saves   *)
(* each job as a stream under a fresh number, has ffmpeg make an image of  *)
(* it and then removes the stream.  main starts and stops the writer       *)
(* (src/RTSP_Create.c: main, cleanup_resources).  The process may die at   *)
(* any step and start again on the same directory.                         *)
(***************************************************************************)
EXTENDS Naturals, Sequences, FiniteSets

CONSTANTS QueueDepth,    \* SNAPSHOT_QUEUE_DEPTH
          MaxAttempts,   \* names tried for one job: 1000000 in the code
          MaxJobs,       \* snapshots taken, over all lives of the process
          MaxNames,      \* numbers the model has room for on the card
          MaxDeaths,     \* ends of the process
          MaxFaults      \* failing calls: create, open, write, ffmpeg, unlink

ASSUME WriterAssumption ==
  /\ QueueDepth \in Nat \ {0} /\ MaxAttempts \in Nat \ {0}
  /\ MaxJobs \in Nat /\ MaxNames \in Nat
  /\ MaxDeaths \in Nat /\ MaxFaults \in Nat

VARIABLES
  main,      \* off, create, mark, up, join, free or done
  started, stop,
  queue, head, tail, count,
  worker,    \* none, lock, asleep, name, write, convert, unlink, free or exited
  job,       \* the writer thread's local job
  seq,       \* g_snapshot_seq: the last number tried
  attempt,   \* of the current job
  stream, image,   \* the files of each number
  next_job,
  freed,     \* how often each job's buffer was freed
  deaths, faults

flags == <<started, stop>>
ringVars == <<queue, head, tail, count>>
nameVars == <<seq, attempt>>
disk == <<stream, image>>
bounds == <<deaths, faults>>
vars == <<main, flags, ringVars, worker, job, nameVars, disk, next_job, freed, bounds>>

Jobs == 1..MaxJobs
NoJob == 0
Names == 1..MaxNames
Slots == 0..QueueDepth-1

(* A file: the job it was made from, and whether all of it was written. *)
File == [job : Jobs, whole : BOOLEAN]
NoFile == [job |-> NoJob, whole |-> FALSE]

WriterTypeOK ==
  /\ main \in {"off", "create", "mark", "up", "join", "free", "done"}
  /\ started \in BOOLEAN /\ stop \in BOOLEAN
  /\ queue \in [Slots -> Jobs \cup {NoJob}]
  /\ head \in Slots /\ tail \in Slots /\ count \in 0..QueueDepth
  /\ worker \in {"none", "lock", "asleep", "name", "write", "convert", "unlink",
                 "free", "exited"}
  /\ job \in Jobs \cup {NoJob}
  /\ seq \in 0..MaxNames /\ attempt \in 0..MaxAttempts
  /\ stream \in [Names -> File \cup {NoFile}]
  /\ image \in [Names -> File \cup {NoFile}]
  /\ next_job \in 1..MaxJobs+1
  /\ freed \in [Jobs -> Nat]
  /\ deaths \in 0..MaxDeaths /\ faults \in 0..MaxFaults

WriterInit ==
  /\ main = "off" /\ worker = "none"
  /\ started = FALSE /\ stop = FALSE
  /\ queue = [s \in Slots |-> NoJob] /\ head = 0 /\ tail = 0 /\ count = 0
  /\ job = NoJob /\ seq = 0 /\ attempt = 0
  /\ stream = [n \in Names |-> NoFile] /\ image = [n \in Names |-> NoFile]
  /\ next_job = 1 /\ freed = [j \in Jobs |-> 0]
  /\ deaths = 0 /\ faults = 0

Fault == faults < MaxFaults /\ faults' = faults + 1 /\ UNCHANGED deaths

-----------------------------------------------------------------------------
(* main: snapshot_writer_init *)

ResetQueue ==
  /\ main = "off"
  /\ ~started
  /\ stop' = FALSE /\ head' = 0 /\ tail' = 0 /\ count' = 0 /\ seq' = 0
  /\ main' = "create"
  /\ UNCHANGED <<started, queue, worker, job, attempt, disk, next_job, freed, bounds>>

(* pthread_create: when it fails, the program goes on without snapshots. *)
CreateThread ==
  /\ main = "create"
  /\ \/ worker' = "lock" /\ main' = "mark" /\ UNCHANGED bounds
     \/ Fault /\ main' = "up" /\ UNCHANGED worker
  /\ UNCHANGED <<flags, ringVars, job, nameVars, disk, next_job, freed>>

MarkStarted ==
  /\ main = "mark"
  /\ started' = TRUE
  /\ main' = "up"
  /\ UNCHANGED <<stop, ringVars, worker, job, nameVars, disk, next_job, freed, bounds>>

Wake == worker' = IF worker = "asleep" THEN "lock" ELSE worker

-----------------------------------------------------------------------------
(* main: snapshot_writer_deinit *)

(* Variant: the sleeping writer is not signalled. *)
StopUnsignalled ==
  /\ main = "up"
  /\ stop' = TRUE /\ main' = "join" /\ started
  /\ UNCHANGED <<started, ringVars, worker, job, nameVars, disk, next_job, freed,
                 bounds>>

StopWriter ==
  /\ main = "up"
  /\ \/ started /\ stop' = TRUE /\ main' = "join" /\ Wake
     \/ ~started /\ main' = "done" /\ UNCHANGED <<stop, worker>>
  /\ UNCHANGED <<started, ringVars, job, nameVars, disk, next_job, freed, bounds>>

Join ==
  /\ main = "join" /\ worker = "exited"
  /\ main' = "free"
  /\ UNCHANGED <<flags, ringVars, worker, job, nameVars, disk, next_job, freed, bounds>>

(* Whatever is left in the slots is freed, and the queue is reset. *)
FreeSlots ==
  /\ main = "free"
  /\ freed' = [j \in Jobs |-> IF \E s \in Slots : queue[s] = j
                              THEN freed[j] + 1 ELSE freed[j]]
  /\ queue' = [s \in Slots |-> NoJob]
  /\ started' = FALSE /\ stop' = FALSE
  /\ head' = 0 /\ tail' = 0 /\ count' = 0
  /\ main' = "done"
  /\ UNCHANGED <<worker, job, nameVars, disk, next_job, bounds>>

-----------------------------------------------------------------------------
(* The DATAFIFO thread: snapshot_writer_enqueue_h265_take.  It runs from   *)
(* when main has started the writer until the process ends, beside         *)
(* deinit too.                                                             *)

SenderRuns == main \in {"up", "join", "free", "done"}

Push ==
  /\ queue' = [queue EXCEPT ![tail] = next_job]
  /\ tail' = (tail + 1) % QueueDepth
  /\ count' = count + 1

(* Variant: jobs are accepted while the writer is being stopped. *)
EnqueueWhileStopping ==
  /\ SenderRuns /\ next_job <= MaxJobs
  /\ \/ started /\ count < QueueDepth
        /\ Push /\ Wake /\ UNCHANGED freed
     \/ /\ ~started \/ count >= QueueDepth
        /\ freed' = [freed EXCEPT ![next_job] = @ + 1]
        /\ UNCHANGED <<queue, tail, count, worker>>
  /\ next_job' = next_job + 1
  /\ UNCHANGED <<main, flags, head, job, nameVars, disk, bounds>>

(* The buffer is taken over in every case: a refused job is freed. *)
Enqueue ==
  /\ SenderRuns /\ next_job <= MaxJobs
  /\ \/ started /\ ~stop /\ count < QueueDepth
        /\ Push /\ Wake /\ UNCHANGED freed
     \/ /\ ~started \/ stop \/ count >= QueueDepth
        /\ freed' = [freed EXCEPT ![next_job] = @ + 1]
        /\ UNCHANGED <<queue, tail, count, worker>>
  /\ next_job' = next_job + 1
  /\ UNCHANGED <<main, flags, head, job, nameVars, disk, bounds>>

-----------------------------------------------------------------------------
(* The writer thread: snapshot_writer_loop *)

(* Variant: the popped slot keeps its pointer. *)
PopKeepsSlot ==
  /\ job' = queue[head]
  /\ head' = (head + 1) % QueueDepth
  /\ count' = count - 1
  /\ UNCHANGED <<queue, tail>>

(* snapshot_pop_job *)
Pop ==
  /\ job' = queue[head]
  /\ queue' = [queue EXCEPT ![head] = NoJob]
  /\ head' = (head + 1) % QueueDepth
  /\ count' = count - 1
  /\ UNCHANGED tail

(* Variant: the writer leaves as soon as it is told to stop. *)
TakeJobStopFirst ==
  /\ worker = "lock"
  /\ \/ ~stop /\ count = 0 /\ worker' = "asleep" /\ UNCHANGED <<ringVars, job, attempt>>
     \/ stop /\ worker' = "exited" /\ UNCHANGED <<ringVars, job, attempt>>
     \/ ~stop /\ count > 0 /\ Pop /\ attempt' = 0 /\ worker' = "name"
  /\ UNCHANGED <<main, flags, seq, disk, next_job, freed, bounds>>

(* With the mutex held: sleep, leave, or take the next job. *)
TakeJob ==
  /\ worker = "lock"
  /\ \/ ~stop /\ count = 0 /\ worker' = "asleep" /\ UNCHANGED <<ringVars, job, attempt>>
     \/ stop /\ count = 0 /\ worker' = "exited" /\ UNCHANGED <<ringVars, job, attempt>>
     \/ count > 0 /\ Pop /\ attempt' = 0 /\ worker' = "name"
  /\ UNCHANGED <<main, flags, seq, disk, next_job, freed, bounds>>

SpuriousWakeup ==
  /\ worker = "asleep"
  /\ worker' = "lock"
  /\ UNCHANGED <<main, flags, ringVars, job, nameVars, disk, next_job, freed, bounds>>

GiveUp == worker' = "free" /\ UNCHANGED disk

(* Variant: only the stream's name has to be new. *)
TryNameStreamOnly ==
  /\ worker = "name" /\ seq < MaxNames /\ attempt < MaxAttempts
  /\ seq' = seq + 1
  /\ \/ /\ stream[seq + 1] /= NoFile
        /\ attempt' = attempt + 1
        /\ UNCHANGED <<worker, disk>>
     \/ /\ stream[seq + 1] = NoFile
        /\ stream' = [stream EXCEPT ![seq + 1] = [job |-> job, whole |-> FALSE]]
        /\ worker' = "write"
        /\ UNCHANGED <<attempt, image>>
  /\ UNCHANGED <<main, flags, ringVars, job, next_job, freed, bounds>>

(* snapshot_open_unique_h265, one attempt: a number is passed over when    *)
(* its image or its stream exists; another error gives up the job.         *)
TryName ==
  /\ worker = "name" /\ seq < MaxNames /\ attempt < MaxAttempts
  /\ seq' = seq + 1
  /\ \/ /\ image[seq + 1] /= NoFile \/ stream[seq + 1] /= NoFile
        /\ attempt' = attempt + 1
        /\ UNCHANGED <<worker, disk, bounds>>
     \/ /\ image[seq + 1] = NoFile /\ stream[seq + 1] = NoFile
        /\ stream' = [stream EXCEPT ![seq + 1] = [job |-> job, whole |-> FALSE]]
        /\ worker' = "write"
        /\ UNCHANGED <<attempt, image, bounds>>
     \/ Fault /\ GiveUp /\ UNCHANGED attempt
  /\ UNCHANGED <<main, flags, ringVars, job, next_job, freed>>

NoNameLeft ==
  /\ worker = "name" /\ attempt = MaxAttempts
  /\ GiveUp
  /\ UNCHANGED <<main, flags, ringVars, job, nameVars, next_job, freed, bounds>>

(* snapshot_write_all and close: a failure leaves what was written. *)
WriteStream ==
  /\ worker = "write"
  /\ \/ /\ stream' = [stream EXCEPT ![seq].whole = TRUE]
        /\ worker' = "convert"
        /\ UNCHANGED <<image, bounds>>
     \/ Fault /\ GiveUp
  /\ UNCHANGED <<main, flags, ringVars, job, nameVars, next_job, freed>>

(* snapshot_convert_h265_to_image: ffmpeg -y creates or replaces the       *)
(* image; when it fails it may leave part of one, and the stream is kept.  *)
Convert ==
  /\ worker = "convert"
  /\ \/ /\ image' = [image EXCEPT ![seq] = [job |-> job, whole |-> TRUE]]
        /\ worker' = "unlink"
        /\ UNCHANGED bounds
     \/ /\ Fault
        /\ \/ UNCHANGED image
           \/ image' = [image EXCEPT ![seq] = [job |-> job, whole |-> FALSE]]
        /\ worker' = "free"
  /\ UNCHANGED <<main, flags, ringVars, job, nameVars, stream, next_job, freed>>

Unlink ==
  /\ worker = "unlink"
  /\ \/ stream' = [stream EXCEPT ![seq] = NoFile] /\ UNCHANGED bounds
     \/ Fault /\ UNCHANGED stream
  /\ worker' = "free"
  /\ UNCHANGED <<main, flags, ringVars, job, nameVars, image, next_job, freed>>

(* snapshot_free_job, saved or not. *)
FreeJob ==
  /\ worker = "free"
  /\ freed' = [freed EXCEPT ![job] = @ + 1]
  /\ job' = NoJob
  /\ worker' = "lock"
  /\ UNCHANGED <<main, flags, ringVars, nameVars, disk, next_job, bounds>>

(* The process ends, by itself after deinit or in the middle of anything,  *)
(* and a new one starts: memory is gone, the card keeps what it has.       *)
Die ==
  /\ deaths < MaxDeaths
  /\ deaths' = deaths + 1
  /\ main' = "off" /\ worker' = "none"
  /\ started' = FALSE /\ stop' = FALSE
  /\ queue' = [s \in Slots |-> NoJob] /\ head' = 0 /\ tail' = 0 /\ count' = 0
  /\ job' = NoJob /\ seq' = 0 /\ attempt' = 0
  /\ freed' = [j \in Jobs |-> IF j < next_job THEN 1 ELSE 0]
  /\ UNCHANGED <<disk, next_job, faults>>

Worker == TakeJob \/ TryName \/ NoNameLeft \/ WriteStream \/ Convert \/ Unlink \/ FreeJob
Main == ResetQueue \/ CreateThread \/ MarkStarted \/ StopWriter \/ Join \/ FreeSlots

WriterNext == Main \/ Enqueue \/ Worker \/ SpuriousWakeup \/ Die

(* The writer thread and main keep running; nobody has to stop the writer, *)
(* enqueue anything or die.                                                *)
WriterSpec ==
  /\ WriterInit /\ [][WriterNext]_vars
  /\ WF_vars(Worker) /\ WF_vars(Join \/ FreeSlots)

-----------------------------------------------------------------------------
(* All variables in their ranges, and the ring in order: count jobs from   *)
(* head to tail, every other slot empty.                                   *)
InRing(s) == (s + QueueDepth - head) % QueueDepth < count

RingConsistent ==
  /\ WriterTypeOK
  /\ tail = (head + count) % QueueDepth
  /\ \A s \in Slots : queue[s] /= NoJob <=> InRing(s)

(* Each buffer handed over has one owner until it is freed, and is freed   *)
(* once: a slot of the ring, or the writer's local, or nobody any more.    *)
Owners(j) == Cardinality({s \in Slots : queue[s] = j}) + (IF job = j THEN 1 ELSE 0)

OwnedOnce == \A j \in Jobs :
  Owners(j) + freed[j] = IF j < next_job THEN 1 ELSE 0

(* The writer sleeps only with nothing to do and nothing to hear: every    *)
(* enqueue and the stop signal g_snapshot_cond.                            *)
NoLostWakeup == worker = "asleep" => count = 0 /\ ~stop

(* When deinit joins the writer, it has worked off everything accepted.    *)
DrainedAtExit == worker = "exited" => count = 0 /\ job = NoJob

(* Over any number of lives of the process: an image is never replaced,    *)
(* and a stream that was saved is removed only when its image is whole.    *)
NothingSavedIsLost ==
  [][\A n \in Names :
       /\ image[n] /= NoFile => image'[n] = image[n]
       /\ stream[n].whole /\ stream'[n] /= stream[n]
            => image[n] = [job |-> stream[n].job, whole |-> TRUE]]_disk

(* snapshot_writer.h as an abstract queue. *)
Waiting == [i \in 1..count |-> queue[(head + i - 1) % QueueDepth]]
Queue == INSTANCE JobQueue WITH Capacity <- QueueDepth, open <- started /\ ~stop,
                                waiting <- Waiting, working <- job
ImplementsQueue == Queue!QueueSpec

(* deinit returns: its join does not wait for ever. *)
DeinitReturns == main = "join" ~> main \in {"done", "off"}
===============================================================================
