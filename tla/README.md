# A TLA+ development of the little-core RTSP sender

The program under `src/src` and `src/lnc` runs on the little core of a two-core camera.  It serves one
H.265 stream over RTSP/RTP, taken either from a file or live from the big core through a
shared-memory ring (DATAFIFO), and on the side saves snapshots the big core asks for.  An earlier
version of the program, without the gate and without snapshots, is kept in `src/little_app`.  These
modules model the threads, buffers and algorithms of both; TLC checks them on small instances, and the
theorems in the `*Proofs` modules hold for every value of the constants.

Paths below are relative to the repository, so `src/rtsp.c` is the present program's own `rtsp.c`.

## 1. The system

### Threads

| Thread | Code | What it does |
| --- | --- | --- |
| control | `main`, `handle_rtsp_client` | accepts one RTSP client at a time and handles its requests |
| sender, file mode | `file_rtp_sender_loop` | sleeps on `g_cond` until a session plays, then sends the file's NALUs round and round |
| sender, live mode | `datafifo_rtp_sender_loop` | polls the ring, gates and sends the NALUs of each item, feeds the snapshot cache, returns the item |
| snapshot writer | `snapshot_writer_loop` | saves queued streams and has ffmpeg make images of them |

The big core (encoder, DATAFIFO writer, pipeline restarts), the RTSP clients, the SD card and the
operating system (`sendto`, `mmap`, `malloc`, `pthread_cond_wait`) are environment.

### Components: state, operations, what makes them right

**RTSP control thread** (`src/rtsp.c`, `main`).  State: `g_play`, `g_client_addr_set`,
`g_client_addr`, `g_need_parameter_sets`, all under `g_mutex`.  Operations: SETUP, PLAY, TEARDOWN,
end of the connection; every other request only answers.  It talks to the senders through these
globals and by signalling `g_cond` on PLAY.  Right if: whoever waits for a session is woken; a
session gets what its receiver needs to decode; after a session no stream goes on to the old target.

**File sender** (`src/RTSP_Create.c`, `wait_for_rtsp_play`, `file_rtp_sender_loop`).  State: index,
sequence number, timestamp, its copy of the target.  A NALU that fails is retried whole after the
session was looked at again.  Right if: a receiver sees a well-formed stream whatever fails or
connects, and streaming goes on.

**Live gate** (`datafifo_process_nalu_for_playback` and what it calls).  State: three cached
parameter sets, `wait_for_idr`, the copy of the session taken once per item.  A new session first
gets the cached sets, then nothing until an IDR.  Right if: no picture reaches a client before what
it refers to.

**DATAFIFO reader** (`src/nalu_datafifo.c` and the loop around it).  State: the item in hand,
`last_read_seq`, `last_sent_seq`.  The big core frees an encoder buffer only after READ_DONE.  Right
if: each item is used while it is held and returned exactly once, nothing is sent twice, and the big
core never waits for good.

**RTP packetizer** (`send_h265_nalu_rtp`, `send_rtp_packet`).  One packet or a run of fragmentation
units.  Right if: the fragments tile the NALU, S and E bits are right, numbers are dense, and the
return value tells whether it all went out.

**Annex-B splitter** (four copies of one loop in `src/rtp.c`, `src/RTSP_Create.c`,
`src/datafifo_snapshot.c`).  Right if it finds exactly the NALUs of the byte stream.

**Snapshot cache** (`src/datafifo_snapshot.c`).  State: cached sets, the current GOP, the last IRAP.
Right if what it queues can be decoded, and flags agree with bytes after any failure.

**Snapshot writer** (`src/snapshot_writer.c`).  State: a ring of jobs under `g_snapshot_mutex`, the
thread's job, a file number.  Right if: buffers have one owner and are freed once, the queue drains
before it closes, `deinit` returns, and no saved file is lost or replaced.

**RTSP messages** (`src/rtsp.c`, `parse_rtsp_request`, `parse_client_port` and the loop around them).
State: what `recv` has not returned yet, the session globals.  What one `recv` returns is taken for one
request.  Right if: however TCP cuts or joins the stream, a request answered 200 was carried out, none
is carried out twice or out of order, and the session is what the client was told.

**Items and their memory** (`nalu_datafifo_validate_msg`, `nalu_datafifo_mmap_pack` and `_munmap_pack`,
`little_sys_mmap`).  State: the pack in hand, the 32-bit sum of lengths, the pages mapped.  Right if:
exactly the good messages are accepted, every byte of a pack is where the pointer says, and nothing
stays mapped.

**The earlier program** (`little_app/src/RTSP_Create.c`, `nalu_datafifo.c`, `rtsp.c`).  State: the
session globals, the file's NALUs, the item in hand, the timestamp.  Right if: the file outlives its use,
items are returned exactly once, frames keep apart on the wire, and whoever plays is served.

**Start and cleanup** (`main`, `cleanup_resources`), **file input** (`src/file.c`), **socket setup**
and **logging** complete the repository; section 7 says what is left out.

### What is hard here

The session globals are read under the lock and used without it, once per item, while the control
thread moves on; the gate reads `g_need_parameter_sets`, acts and clears it in three steps; a
multi-step send can fail anywhere and is retried; the big core restarts its numbering; the writer is
stopped while it sleeps or works and jobs still come in; memory runs out between setting a flag and
filling the buffer it speaks of; requests come in pieces or together; the region to unmap is computed
anew from the pack; a detached sender runs on while `main` frees what it reads.  `PROJECT.json` lists
these hazards, each with its line and the properties that would notice it going wrong.

## 2. The modules

| Module | Models | Kind |
| --- | --- | --- |
| `RtspServer` | the control thread and the session globals | component, composed by `FileSender`, `LiveSender` and `RtspStream` |
| `FileSender` (`MCFileSender`) | file-mode sender beside the control thread | composition |
| `LiveSender` (`MCLiveSender`) | live gate beside the control thread, with a receiver that decodes | composition |
| `DatafifoReader` | ring, big core, reader loop | component |
| `FrameLease` | what the cores promise each other about a frame | abstract specification |
| `SnapshotCache` | what a snapshot is made of | component |
| `SnapshotWriter` | ring of jobs, writer thread, names, `init`/`deinit`, deaths of the process | component |
| `JobQueue` | what `snapshot_writer.h` offers | abstract specification |
| `RtpPacketizer` | one NALU into packets | algorithm |
| `AnnexB` | the splitter | algorithm |
| `RtspStream` | one connection as the stream of bytes that `recv` cuts | composition with `RtspServer` |
| `ItemPacks` (`MCItemPacks`) | validation, mapping and unmapping of the packs of an item | component |
| `EarlierServer` | `main` and the session of the earlier program | component, composed by the next |
| `EarlierSender` (`MCEarlierSender`) | the earlier program as a whole, with the ring and the big core | composition |
| `FileSenderProofs`, `LiveProofs`, `DatafifoProofs`, `RtspStreamProofs`, `ItemPacksProofs`, `EarlierProofs` | theorems about the module of that name | proofs |
| `SnapshotProofs` | theorems about `SnapshotWriter` and `SnapshotCache` | proofs |
| `RtpProofs` | theorems about `RtpPacketizer` and `AnnexB` | proofs |

How state and actions correspond to the code:

* A region under `g_mutex` or `g_snapshot_mutex` is one action; so is each call of the system that can
  fail (`sendto`, `mmap`, `write`, ffmpeg).  `pthread_cond_wait` is two steps: falling asleep, which
  releases the mutex in the same step, and waking, by a signal or for no reason.
* Variables have the code's names where it names them.  `pc`, `worker`, `main` and `ctl` say where a
  thread is.  A client is a host and its target `<<host, port>>`.
* A NALU is its kind and the encoder configuration it belongs to (`LiveSender`, `SnapshotCache`), its
  number of packets (`FileSender`) or its length and first byte (`RtpPacketizer`).  A parameter set is
  the configuration it describes, so "the receiver can decode" is "it holds the sets of this
  picture's configuration, and has decoded what the picture refers to".
* An RTSP request is its line, its CSeq and its client_port, each in two halves, as `recv` can end inside
  any of them (`RtspStream`).  A mapping is a set of pairs of a virtual and a physical page (`ItemPacks`).
* Failing calls are counted by `faults` (`cache_faults`), bounded by `MaxFaults` (`MaxCacheFaults`).
* `Variant` operators are the definition above or below them with one plausible mistake; no
  specification uses them.  `PROJECT.json` pairs each property with the variant that breaks it.

History variables, which the code does not have: `late` (`FileSender`: NALUs begun after playback
stopped), `rx`, `blind` and `excuse` (`LiveSender`: what the watched receiver has, and what went wrong
in its session), `freed` (`SnapshotWriter`), `spoilt` (`SnapshotCache`: frames a pack of which was given
up), `sent`, `saved` and `read_life` (`DatafifoReader`: the frames sent and those snapshotted, each with the
life of the big core that numbered it, and the life of the frame read last), `reply`, `done`, `answered`,
`told` and `torn` (`RtspStream`: what the client has heard, what was obeyed, and whether a `recv` ended
between a request line and its number), `leaked` (`ItemPacks`: pages a failing `munmap` left), `fresh`
and `wire` (`EarlierSender`: whether nothing of the frame was sent yet, and the last packet sent, with
whether a pack of its frame failed, `cut`, and whether it ends a frame that ends in an empty NALU, `bare`).

## 3. The runs

`file_sender` and the live runs have two clients; `rtsp_stream` is about the connections of one, which
may come again, and `earlier_sender` about ports.  Passing runs explore the whole state space of their
instance.

| Run | Distinct states | Shows |
| --- | --- | --- |
| `file_sender` | 17 thousand | With a good file and one that holds a NALU of one byte: the sender never sleeps through a session (`NoLostWakeup`), at most one NALU is begun for a target that was stopped or replaced (`LateAtMostOnce`), consecutive packets continue, restart or follow a NALU with dense numbers (`WireIsWellFormed`), streaming goes on while a session plays (`KeepsStreaming`), and the file with the short NALU is never played past it (`StallsAtShortNalu`). |
| `live_sender` | 3.9 million | With two configurations: a session is past the gate only with all sets known (`PlayingImpliesSets`); a receiver gets a picture it cannot decode only after a race, a loss or stale sets in its own session (`BlindHasCause`). |
| `live_progress` | 440 thousand | A receiver whose session stays up decodes in the end if IDRs keep coming, whatever raced or failed before, CRA pictures among the IDRs (`EventuallyDecodes`). |
| `live_race` | violation | A finding: `SetsReachClient`. |
| `datafifo_reader` | 1.0 million | The loop implements `FrameLease` (`ImplementsLease`); over all that was ever sent, and all that was ever snapshotted, no frame and no number comes twice and none comes behind a later one, across restarts of the big core (`NeverReplays`); the price of that, good frames passed over as stale, is paid for frames of a later life than the one read last and for no others (`DropsOnlyRestarted`); the writer is not starved while READ_DONE succeeds (`WriterNeverStarves`); with a ring larger than the reader was compiled for a backlog beyond its limit is final (`BacklogIsFinal`). |
| `snapshot_writer` | 583 thousand | The writer implements `JobQueue` (`ImplementsQueue`); the ring agrees with its counters (`RingConsistent`); each buffer has one owner and is freed once (`OwnedOnce`); no wakeup is lost; the queue is drained when the thread ends (`DrainedAtExit`); `deinit` returns; over several lives of the process no image is replaced and no stream removed without its image (`NothingSavedIsLost`). |
| `packetizer` | 2.6 thousand | Every length around two fragment boundaries, failures at every packet, numbers that wrap: the fragments tile the NALU with the right S and E bits (`FragmentsTile`), the return value tells whether all went out (`CompleteIffSucceeded`), numbers are dense (`SeqHasNoGap`), the receiver can rebuild the NALU header (`HeaderSurvives`). |
| `annexb` | 61 thousand | Every buffer of up to 8 bytes over {0, 1, other}, and a NALU that cannot be handed on at any point: what the loop hands on are the NALUs Annex B means, all of them if none failed and only those in front of the failing one otherwise, of a file none (`SplitIsAnnexB`); it marks the last one and no other (`MarkerOnLast`), and ends (`SplitEnds`). |
| `snapshot_cache` | 109 thousand | Whatever fails, a snapshot begins with a random access picture under its own sets, unless a pack of the very frame it begins with was given up (`PlayableSnapshot`), and the GOP's flag, bytes and time agree (`GopIsConsistent`). |
| `rtsp_stream` | 74 thousand | Every way to cut and join the requests of one connection, with a client that may leave and a process that may end in answering it: a 200 with a request's number means that very request was carried out (`OkMeansDone`), requests are carried out in order and none twice (`DoneOnceInOrder`), the session is what the client was told as long as no request was cut off from its number (`SessionIsAsTold`), and a client that waits for answers gets them (`PatientIsAnswered`). |
| `item_packs` | 35 thousand | Exactly the good messages are accepted (`AcceptsTheGood`); while a pack is in use each of its bytes is mapped at its place (`SeesWholePack`); between packs nothing is mapped but what a failing `munmap` left (`NothingStaysMapped`). |
| `earlier_sender` | 1.0 million | The earlier program in both modes: the file outlives its use whatever fails at start (`FileOutlivesUse`); it takes the steps `FrameLease` allows (`ImplementsLease`); frames are told apart by timestamp, and the last packet of a frame is marked unless a pack of the frame failed or its last pack ends in an empty NALU (`FramesKeepApart`); whoever plays for good is sent packets for ever, if the sender and the big core go on (`ServesPlayer`). |

Every type invariant is proved (section 4).  Those
of the writer, the cache and the splitter are part of `RingConsistent`, `GopIsConsistent` and
`SplitIsAnnexB`.

### Bounds, and why they are enough

* `FileSender`: files of three NALUs with 1, 3 and 2 packets have whole, first, middle and last
  fragments and the wrap of `idx`; `SeqMod = 4` and `TsMod = 3` wrap within one round;
  two failures let a retry fail again.  One port: SETUP of the same host again is still a
  step of its own.  The proofs lift all these bounds.
* `LiveSender`: a second client is needed for a target that changes hands; two configurations for
  sets that are stale; one failure, as `BlindHasCause` asks for the first cause.  Every key item comes
  as one pack or as two.  `Watched` breaks the symmetry of clients, so none is declared.
* `live_progress` has one configuration: with `[]<>IdrRead` the run asks what the gate does after
  its last race or failure, and the liveness check of the larger instance adds nothing but time.
* `DatafifoReader`: the reader's limit is 2 entries and the ring has 2 or 3; the code's ring has 3.
  The interesting events are an empty, a full and an overfull ring, which 2 and 3 have.  Three frame
  numbers and one restart give a stale frame, a fresh one, a gap and a frame of a new life passed over.
* `SnapshotWriter`: a ring of 3 slots with 5 jobs wraps; two deaths leave files of two earlier lives;
  two failures; at most 2 names per job, so that running out of names happens.
* `RtpPacketizer`: `MaxPayload = 6`, `FuHeader = 3` (as in the code) and lengths to 13 give one to
  four fragments, exact and ragged; the header bytes exercise bits 0 and 7 and types 0 to 63.
* `AnnexB`: 8 bytes hold two long start codes, or two short ones with payload and zeros around them.
* `RtspStream`: two requests of any kind can be joined, cut in each of their halves and dropped; the
  first is number 9, so that numbers of one and of two digits are cut.  Three requests of five kinds
  show nothing more.  SETUP has a client_port or none; a cut port is a shorter one.
* `ItemPacks`: a page of 4 bytes, packs at the start, in the middle and over the end of a page, two packs
  of at most 6 bytes, `Word = 16` above their sum as 2^32 is above 8 packs of 8 MiB; three places for
  `mmap`, so that a leaked mapping and the next one may touch; two failures.  The proofs lift these bounds.
* `EarlierSender`: a ring of 2 items, frames with a fragmented pack, one that ends in an empty NALU and ones
  that go wrong at their first or second NALU, a file of two NALUs, two failures, two ports.  `TsMod = 4` exceeds the frames that failures can leave
  unsent between two that are sent, as 2^32 does; below that the same timestamp would come round.
* `SnapshotCache`: four frames make a GOP, its overflow (`MaxGop = 4` NALUs) and a second GOP; two
  kinds of parameter sets stand for the three, which the code treats alike.

### Fairness, and why the code justifies it

Weak fairness is assumed of threads that loop without waiting for anybody: the senders
(`WF(Sender)`), the reader and the big core's release of finished frames (`WF(Reader)`,
`WF(Release)`), the writer thread and the `join` of `deinit` (`WF(Worker)`, `WF(Join \/ FreeSlots)`).
Sleeping on a condition variable disables the sleeper's actions, so fairness does not hide a lost
wakeup.  Nothing is assumed of clients, of the big core's submissions, of whether the program is
stopped, or of spurious wakeups.  Failures are bounded: liveness is claimed for a system in which calls
stop failing.  In `RtspStream` the thread handles what has arrived and notices the end of a connection
(`WF(Recv)`, `WF(RecvEnds)`, `WF(CloseConnection)`); nobody has to ask or leave.  In `EarlierSender`
fairness is that of the sender and of the big core's release.  Fairness of the writer thread includes that
`system()` returns: a hanging ffmpeg hangs `deinit`, which waits for the thread without a limit.  In `JobQueue`
the process may die at any time, so jobs queued at a death are lost by permission; that none is lost
otherwise is what `ImplementsQueue` and `DrainedAtExit` say.  `CHECK_DEADLOCK FALSE` appears where the
system may stop: in the snapshot modules, when the bounded supply of frames or jobs ends; in `RtspStream`,
when the one client has nothing more to ask and stays, or the process has ended; in `EarlierSender`, when the program has exited.

## 4. What the proofs show

Every safety property that a passing run checks is proved for every value of the constants.  For each
component there is an inductive invariant (`IInv`, or the one named below), one lemma per action that
says the action keeps it, and a theorem per property that it implies.

`FileSenderProofs`, for any set of files (each with any NALUs), clients, ports, moduli and number of
failures:

* `TypeCorrect`, `NoWakeupIsLost`, `AtMostOneLate`, `WireCorrect`, `NeverPastShortNalu`.
* The inductive invariant is `IInv == FileTypeOK /\ FragInv /\ NoLostWakeup /\ LateInv /\ WireInv`.
  The properties are not inductive by themselves.  `LateAtMostOnce` needs to know that an attempt that
  has not sent anything yet was begun with a fresh target as long as `late = 1` (`LateInv`): otherwise
  a second late NALU could start.  `WireIsWellFormed` speaks of two packets, and `WireInv` is what the
  sender's variables must say about the last one: either it was the last packet of the NALU before
  `idx` and the next timestamp is due, or it was an inner packet of `idx` under the current
  timestamp.  There is one lemma per action; `NextIInv` joins them.
* `NeverPastShortNalu` has its own small induction on top: `idx` only advances past NALUs that were
  sent.

`DatafifoProofs`, for any ring sizes, reader's limit, restarts and failures:

* `TypeCorrect`, `ReplaysNothing` (`NeverReplays`), `DropsAreRestarted` (`DropsOnlyRestarted`), `BacklogStays`
  (`BacklogIsFinal`) and `LeaseKept`: every step of the loop and of the big core is a step of `FrameLease` or none, which is the safety part of
  `ImplementsLease`.
* `IInv == ReaderTypeOK /\ OneHeld /\ InUse /\ Ordered /\ NeverReplays`.  `OneHeld`: at most one item is held,
  so READ_DONE always finds its item.  `InUse`: everything sent or saved is at most as new as the frame read
  last, by number and by life, and while an item is in the snapshot or the send pass it is that frame, and its
  number is above all that was sent, or saved before its own snapshot.  That is what the check for
  stale frames, several steps before, has to leave behind for `NeverReplays`.  `Ordered`: frames stand in the
  ring in the order of lives and numbers, and what is still to be checked is behind what was read last, so
  that a number that is not larger can only be of a later life, which is `DropsOnlyRestarted`.

`SnapshotProofs`, for rings of any depth, any jobs, names, deaths of the process and failures:

* `RingIsConsistent`, `EachIsOwnedOnce`, `NoWakeupIsLost`, `ExitIsDrained` (`DrainedAtExit`), `SavedStays`
  (`NothingSavedIsLost`) and `QueueKept`: every step is a step of `JobQueue` or none, the safety part of
  `ImplementsQueue`.
* `IInv == RingConsistent /\ Phases /\ Apart /\ Files`.  `Phases` says what the flags and the thread can be
  for each place `main` is at: the ring is empty whenever the writer is not started, sleeps or has ended.
  `Apart`: a job is in one slot, with the writer, or freed once, never in two places.  `Files` is what
  the card holds under the number in use, so that a stream is removed only behind its image.

and, for any kinds of parameter sets, configurations, frames and limits:

* `GopCorrect` (`GopIsConsistent`) and `SnapshotPlays` (`PlayableSnapshot`).
* `CacheInv == CacheTypeOK /\ AuInv /\ GopInv /\ KeyInv`.  `AuInv`: what is collected is of the frame at hand,
  which makes the GOP as old as its first NALU.  `KeyInv`: an AU that holds a random access picture, the GOP and the
  last IRAP begin with all sets of a configuration and then a picture of it (`Opens`), unless a pack of the
  frame they begin with was given up.  Appending keeps that
  (`OpensGrow`), and so do further sets in front (`Behind`), as those in effect at the picture are its own.

`RtpProofs`, for any payload limit larger than the FU header, any FU header of at least the
two bytes of the NALU header it replaces, any length, modulus and first byte:

* `TypeCorrect`, `FragmentsCorrect` (`FragmentsTile`, `NeverStartAndEnd`), `ReturnCorrect`
  (`CompleteIffSucceeded`), `PacketsCorrect` (`PayloadFits`, `SeqHasNoGap`), `HeaderRebuilt`
  (`HeaderSurvives`).
* The strengthening is `LoopInv`, what the FU loop knows between two packets: the NALU is longer than
  `MaxPayload`, `offset` is where the last fragment ended, `first` says that none is out.  That the
  first fragment is never the last follows from `FuHeader >= 2`: what the FU header takes is at least
  what dropping the NALU header saves, so a NALU that does not fit whole does not fit in one fragment.
* `ByteFacts` is the arithmetic of taking the NALU header apart and rebuilding it.

and, for buffers of any length and contents:

* `SplitCorrect` (`SplitIsAnnexB`) and `MarkerCorrect` (`MarkerOnLast`).
* `SplitInv` says with `Turning` what is true between two turns of the loop: the NALUs handed on are those
  of the start codes passed so far, in order, unmarked, and another start code is to come.  A turn adds
  the one segment between two codes: codes are at least three bytes apart (`CodesApart`), a code of four
  bytes is one of three bytes, one further (`FourIsThree`), and its zero, like any in front of a code, is a
  trailing zero that belongs to no NALU (`TrimSame`).  What a code is followed by and where a NALU ends is found
  as the least or greatest element of a set of positions (`Least`, from the well-foundedness of `<`).
  `SplitRefused` is the turn that ends the loop early: what was handed on before is a prefix of the NALUs.

`LiveProofs`, for any configurations, clients, ports, random access kinds and number of failures:

* `TypeCorrect`, `GateHasSets` (`PlayingImpliesSets`) and `BlindnessHasCause` (`BlindHasCause`).
* `IInv == LiveTypeOK /\ NoEmptyPack /\ MarkInv /\ PlayingImpliesSets`.  The gate looks at the cache in one
  step and clears the need in another, so `MarkInv` carries the fact over: at `mark` all sets are cached.
  `CacheKeeps` says that caching never loses one, as a cached set is of a configuration.  Every request
  that starts playback sets the need, so the control thread cannot get past the gate by itself.
  `NoEmptyPack` makes the NALU in hand a NALU.
* `BlindnessHasCause` has an invariant of its own on top, `BlindInv == ItemInv /\ StageInv /\ GateInv`.  As long
  as nothing happened that excuses it, whenever the sender is past the gate for the watched receiver
  (`Granted`), that receiver holds the sets of the item at hand or is about to get them, and decodes already
  unless an IDR is still awaited (`Prepared`).  `ItemInv`: an item is of one configuration and its picture
  comes last.  `StageInv`: a session that began after the target was copied still needs the sets.

`ItemPacksProofs`, for any page size, messages, mapping addresses and failures, as long as the largest
sum of lengths is below the word size:

* `TypeCorrect`, `NeverWraps` (the check for overflow of the sum never decides), `WholePackSeen`
  (`SeesWholePack`), `Unmapped` (`NothingStaysMapped`), `VerdictCorrect` (`AcceptsTheGood`).
* `IInv == PacksTypeOK /\ Progress /\ SumBounded /\ Mapping`.  `SumBounded` bounds the sum by the packs
  passed so far, `Progress` says that a pack in use was checked, and `Mapping` that while a pack is in use
  the pages are the leaked ones and its own, which are apart; the rest is arithmetic of `div` and `mod`
  (`MmapSize` reaches over the pack's last byte, and `MunmapSize`, which the code computes anew, comes to the
  same region).
* `VerdictCorrect` adds `Counted`: the sum is the number of bytes of the packs passed, as the code's one
  addition per pack is the cardinality of a disjoint union.

`RtspStreamProofs`, for any requests, ports and numbers and any way to cut and join them:

* `TypeCorrect`, `OkIsForTheDone` (`OkMeansDone`), `ObeyedOnce` (`DoneOnceInOrder`), `AsTold`
  (`SessionIsAsTold`).
* `IInv` joins the three properties with the type and with `Stream` (what is on the way are pieces of
  requests that were made, in order, the last one whole), `Obeyed` (what was carried out is older than every
  request whose line is still to come) and `Stopped` (nothing plays between connections).  `First` is
  `strstr()`: the number answered is the first in the bytes, the line obeyed is the first line, and they are of
  one request unless a `recv` ended between them.
* The proof found the type of `told` too narrow: after a cut the first digits of a number can be those of
  an older SETUP, so that a PLAY that nothing has set up is answered as if it were that SETUP.

`EarlierProofs`, for any file, frames, ring, ports and number of failures:

* `TypeCorrect`, `FileOutlives` (`FileOutlivesUse`), `FramesTellApart` (`FramesKeepApart`) and `LeaseKept`
  (`ImplementsLease`: initial states map to initial states, and every step of the program and of the big
  core is a step of `FrameLease` or none).  The fairness of `FrameLease` is no part of it: the earlier
  program may exit with an item in hand.
* `IInv == EarlierTypeOK /\ FileInv /\ LeaseInv /\ ModeInv`.  `FileInv`: playback starts only once clients
  are served, and the file is held from loading to the end of that, so a sender that reads the file reads
  it in time; a sender that outlives a failed `listen` sleeps.  `LeaseInv`: at most one item is held, and
  only between reading and READ_DONE.  `ModeInv` keeps the program counters of the two modes apart.
* `FramesTellApart` adds `FrameInv`: within a frame the last packet is of that frame and unmarked, between two
  it is marked, or of a frame that was cut or ends in an empty NALU, and before one the timestamp is ahead of the wire by the frames in between, each of which took a failure or has
  still something to send; `TsMod` exceeds those.  Its hypothesis `FramesCanBeSent`, that each frame has a
  pack with packets, holds of what an encoder writes; without it 2^32 empty frames in a row would bring
  the same timestamp round.

The assumptions are the named ones of the modules: `ClientAssumption`, `FileAssumption` (files are
non-empty sequences of numbers, moduli are at least 2), `LiveAssumption`, `DatafifoAssumption`,
`WriterAssumption`, `CacheAssumption`, `PacketizerAssumption`, `AnnexBAssumption`, `PackAssumption`,
`StreamAssumption`, `PortAssumption` and `EarlierAssumption`.  TLC evaluates them in every run.  One theorem
has a hypothesis besides, `FramesCanBeSent`, which is true of the frames of the run.

Only model-checked: liveness (`KeepsStreaming`, `EventuallyDecodes`, `WriterNeverStarves`,
`DeinitReturns`, `SplitEnds`, `PatientIsAnswered`, `ServesPlayer`) and the fairness part of the refinements
(`ImplementsLease` of `DatafifoReader`, `ImplementsQueue`), as reasoning about `ENABLED` is beyond the
provers used; and `SetsReachClient`, which does not hold.

## 5. Findings

1. **The need for parameter sets can be lost** (`live_race`, `src/RTSP_Create.c:525`).
   `rtsp_mark_parameter_sets_sent` clears the need of whatever session is current.  If SETUP and PLAY
   come between the sending of the sets to the old target and that line, the new session gets no sets
   until the encoder repeats them in front of a later IDR.  `EventuallyDecodes` shows that it recovers
   then; `BlindHasCause` that nothing else goes wrong.

Also met, without a run of their own:

* The cached sets are sent when the first NALU of an item asks for them, the new SPS and PPS that follow
  in the same item are withheld by `wait_for_idr`, and the IDR goes out: a session can begin with the sets
  of an old configuration in front of an IDR of a new one (`src/RTSP_Create.c:522`).  `BlindHasCause` counts
  it as the cause `stale`.
* The loop does not drain to the newest item (`src/RTSP_Create.c:764`), which
  `LOW_LATENCY_CHANGE_COMPARISON.md:36-41` says it does.
* A snapshot does not show the frame that was flagged, unless that frame is itself a random access picture
  (`src/datafifo_snapshot.c:415`).
* A request that is cut between its line and its number can be carried out and answered with CSeq 0 or the
  first digits of its number, and its rest is answered 405 or 400; requests that arrive together are dropped
  after the first (`src/rtsp.c:200`).  `SessionIsAsTold` and `PatientIsAnswered` say what holds nevertheless.
* The `gap` field of the statistics line is always 0 for a frame that was sent (`src/RTSP_Create.c:848` is
  given `last_sent_seq` after line 838 set it), where the same document counts skipped frames.
* An IRAP that finds no memory leaves `has_irap` set and makes a snapshot without a picture
  (`src/datafifo_snapshot.c:244`).
* A pack with a further zero before a four-byte start code is sent as one raw NALU (`src/rtp.c:328`).
* The marker is given to a NALU that reaches the end of the buffer (`src/rtp.c:364`, and
  `little_app/src/rtp.c:364`), so where the buffer ends in a start code with nothing behind it the last
  packet of the frame goes out unmarked.  `MarkerOnLast` and `FramesKeepApart` say that a
  frame sent whole is unmarked in no other case.
* `send_all` answers without `MSG_NOSIGNAL` and `main` does not ignore SIGPIPE, so answering a client that
  has gone can end the process, sender, snapshots and all (`src/rtsp.c:11`).
* With CRA pictures only, a session that starts gets its sets and then nothing, as the gate waits for an IDR;
  `EventuallyDecodes` has the coming of IDRs as its condition.

`StallsAtShortNalu` and `BacklogIsFinal` state two more behaviours nobody may have meant, which no
document contradicts.

## 6. Plan

Done, in this order: `RtspServer`, `FileSender`, `LiveSender` (what clients see); `DatafifoReader` with
`FrameLease` and `SnapshotWriter` with `JobQueue` (who owns what); `RtpPacketizer`, `AnnexB`,
`SnapshotCache` (the algorithms); `ItemPacks`, `RtspStream` (memory and messages); `EarlierServer` and
`EarlierSender` (the earlier program).  Proofs of the safety of all of them.

Next, extending the model:

* `LittleCore`: reader, live gate and control thread in one specification, so that a slow or failing
  send holds up the ring and an item is returned whatever the gate did with it; `DatafifoReader` and
  `LiveSender` as its two projections.  `EarlierSender` is this composition for the earlier program.
* cleanup of the present program: a failing `listen` runs `cleanup_resources` while the detached sender is
  at work, as `EarlierServer` has it for the earlier one.

Then, proving more: the invariants of `LittleCore` from those of its parts; what the splitter does with
a buffer as what the packetizer is given, so that a pack's bytes and the packets on the wire are related in
one theorem.

## 7. Not modelled, and why

* Wording of RTSP answers and the SDP: they change no state.  Nobody looks at the result of a `send` of an
  answer; that it can end the process is `AnswerKills` of `RtspStream`, and the other modules take the process
  to live on.  The number of NALUs a splitter reports (`sent_count`, `src/rtp.c:387`).  Strings in requests beyond the parts named above (URLs, headers the server does not read).
* `src/file.c` and the present program's socket setup: system calls done once; that they fail is
  modelled for the earlier program.
* The `USE_RT_SMART` build, which maps with the vendor library.
* Creation of the snapshot directory, quoting of the ffmpeg command line, argument parsing: done once,
  no interaction.
* Logging, statistics and rate limits; the pacing by `usleep`, as the models have no clock.
* The packetizer, splitter and request parsing of `little_app`: the loops of the present program, modelled
  there.

To run: `tlc -config FileSender.cfg MCFileSender`, and likewise `LiveSender.cfg`, `LiveProgress.cfg` and
`LiveRace.cfg` with `MCLiveSender`, `ItemPacks.cfg` with `MCItemPacks`, `EarlierSender.cfg` with
`MCEarlierSender`, and the other `.cfg` files with the module of their name;
`tlapm FileSenderProofs.tla` and likewise for the other `*Proofs` modules.
