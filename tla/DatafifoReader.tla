---------------------------- MODULE DatafifoReader ----------------------------
(***************************************************************************)
(* The path of a frame from the big core's encoder to READ_DONE: the       *)
(* DATAFIFO ring of the vendor library, nalu_datafifo_read / _validate_msg *)
(* / _read_done (src/nalu_datafifo.c) and the loop of                      *)
(* datafifo_rtp_sender_loop around them (src/RTSP_Create.c): the check for *)
(* stale sequence numbers, the snapshot pass and the send pass.  What a    *)
(* send pass sends is LiveSender's subject.                                *)
(***************************************************************************)
EXTENDS Naturals, Sequences, FiniteSets

CONSTANTS RingSizes,       \* entries a ring created by the big core may have
          Entries,         \* NALU_DATAFIFO_FIFO_ENTRIES, what the reader expects
          MaxSeq,          \* the last frame number the big core uses
          MaxRestarts,     \* restarts of the big core's pipeline
          MaxFaults        \* failing kd_datafifo calls

ASSUME DatafifoAssumption ==
  /\ RingSizes \subseteq Nat \ {0} /\ Entries \in Nat \ {0}
  /\ MaxSeq \in Nat \ {0} /\ MaxRestarts \in Nat /\ MaxFaults \in Nat

VARIABLES
  ring_size,       \* entries of the ring the big core created
  ring,            \* items not yet released, oldest first
  next_seq,        \* the big core's frame counter
  restarts,
  pc,              \* poll, target, check, snap, send or done
  can_send,
  last_read_seq,
  last_sent_seq,
  faults,
  read_life,       \* history: the life of the big core last_read_seq is of
  sent, saved      \* history: the frames sent, and those snapshotted

writerVars == <<ring_size, next_seq, restarts>>
readVars == <<last_read_seq, read_life>>
useVars == <<last_sent_seq, sent, saved>>
vars == <<ring, writerVars, pc, can_send, readVars, useVars, faults>>

(* A frame is a number and, which no message says, the life of the big     *)
(* core that it was numbered in.                                           *)
Lives == 0..MaxRestarts
Frame == [seq : 1..MaxSeq, life : Lives]

(* kind: whether the message validates, and whether bit 0 of reserved asks *)
(* for a snapshot.  st: where the item is on its way through the ring.     *)
Item == [seq : 1..MaxSeq, life : Lives, kind : {"plain", "flagged", "invalid"},
         st : {"unread", "held", "done", "lost"}]

Unread == {i \in DOMAIN ring : ring[i].st = "unread"}
Held == {i \in DOMAIN ring : ring[i].st = "held"}
Avail == Cardinality(Unread)
held == CHOOSE i \in Held : TRUE
msg == ring[held]
FrameOf(item) == [seq |-> item.seq, life |-> item.life]

ReaderTypeOK ==
  /\ ring_size \in RingSizes
  /\ ring \in Seq(Item) /\ Len(ring) <= ring_size
  /\ next_seq \in 1..MaxSeq+1 /\ restarts \in Lives
  /\ pc \in {"poll", "target", "check", "snap", "send", "done"}
  /\ Held /= {} <=> pc /= "poll"
  /\ can_send \in BOOLEAN
  /\ last_read_seq \in 0..MaxSeq /\ read_life \in Lives
  /\ last_sent_seq \in 0..last_read_seq
  /\ sent \in Seq(Frame) /\ saved \in Seq(Frame)
  /\ faults \in 0..MaxFaults

ReaderInit ==
  /\ ring_size \in RingSizes /\ ring = <<>>
  /\ next_seq = 1 /\ restarts = 0
  /\ pc = "poll" /\ can_send = FALSE
  /\ last_read_seq = 0 /\ last_sent_seq = 0 /\ faults = 0
  /\ read_life = 0 /\ sent = <<>> /\ saved = <<>>

Fault == faults < MaxFaults /\ faults' = faults + 1

-----------------------------------------------------------------------------
(* The big core *)

(* It submits a frame, or gives up one when it has no room or no buffer:   *)
(* either way the frame has used its number.                               *)
Submit ==
  /\ next_seq <= MaxSeq
  /\ Len(ring) < ring_size
  /\ \E k \in {"plain", "flagged", "invalid"} :
       ring' = Append(ring, [seq |-> next_seq, life |-> restarts, kind |-> k, st |-> "unread"])
  /\ next_seq' = next_seq + 1
  /\ UNCHANGED <<ring_size, restarts, pc, can_send, readVars, useVars, faults>>

SkipFrame ==
  /\ next_seq <= MaxSeq
  /\ next_seq' = next_seq + 1
  /\ UNCHANGED <<ring, ring_size, restarts, pc, can_send, readVars, useVars, faults>>

(* Its pipeline restarts and counts from 1 again. *)
Restart ==
  /\ restarts < MaxRestarts
  /\ restarts' = restarts + 1
  /\ next_seq' = 1
  /\ UNCHANGED <<ring, ring_size, pc, can_send, readVars, useVars, faults>>

(* It releases the VENC stream of the oldest item once that is done. *)
Release ==
  /\ ring /= <<>> /\ Head(ring).st = "done"
  /\ ring' = Tail(ring)
  /\ UNCHANGED <<writerVars, pc, can_send, readVars, useVars, faults>>

-----------------------------------------------------------------------------
(* The little core *)

(* kd_datafifo_read hands out the oldest unread item. *)
TakeItem ==
  /\ \E i \in Unread : /\ \A j \in Unread : i <= j
                       /\ ring' = [ring EXCEPT ![i].st = "held"]
  /\ pc' = "target"

(* Variant: no check of the length at all. *)
PollUnchecked ==
  /\ pc = "poll"
  /\ Avail >= 1 /\ TakeItem
  /\ UNCHANGED <<writerVars, can_send, readVars, useVars, faults>>

(* nalu_datafifo_read: nothing to read, more to read than the ring can     *)
(* hold, or a failing call make the loop sleep and poll again.             *)
Poll ==
  /\ pc = "poll"
  /\ \/ Avail >= 1 /\ Avail <= Entries /\ TakeItem /\ UNCHANGED faults
     \/ (Avail < 1 \/ Avail > Entries) /\ UNCHANGED <<ring, pc, faults>>
     \/ Fault /\ UNCHANGED <<ring, pc>>
  /\ UNCHANGED <<writerVars, can_send, readVars, useVars>>

(* get_rtsp_target: a session may or may not be playing. *)
GetTarget ==
  /\ pc = "target"
  /\ can_send' \in BOOLEAN
  /\ pc' = "check"
  /\ UNCHANGED <<ring, writerVars, readVars, useVars, faults>>

(* Variant: an invalid item goes back to polling at once. *)
CheckSkipsInvalid ==
  /\ pc = "check"
  /\ \/ msg.kind = "invalid" /\ pc' = "poll" /\ UNCHANGED readVars
     \/ /\ msg.kind /= "invalid"
        /\ last_read_seq' = msg.seq /\ read_life' = msg.life
        /\ pc' = IF msg.kind = "flagged" THEN "snap" ELSE "send"
  /\ UNCHANGED <<ring, writerVars, can_send, useVars, faults>>

(* Variant: a number that comes again is not taken for an old one. *)
StaleStrict == last_read_seq /= 0 /\ msg.seq < last_read_seq

(* Variant: only the next number is taken for a fresh one. *)
StaleOrGap == last_read_seq /= 0 /\ msg.seq /= last_read_seq + 1

Stale == last_read_seq /= 0 /\ msg.seq <= last_read_seq

(* nalu_datafifo_validate_msg, then the sequence check.  An invalid or a   *)
(* stale item is only marked done; a stale one is not snapshotted either.  *)
Check ==
  /\ pc = "check"
  /\ \/ (msg.kind = "invalid" \/ Stale) /\ pc' = "done" /\ UNCHANGED readVars
     \/ /\ msg.kind /= "invalid" /\ ~Stale
        /\ last_read_seq' = msg.seq /\ read_life' = msg.life
        /\ pc' = IF msg.kind = "flagged" THEN "snap" ELSE "send"
  /\ UNCHANGED <<ring, writerVars, can_send, useVars, faults>>

(* datafifo_snapshot_process copies the packs of a flagged frame. *)
Snapshot ==
  /\ pc = "snap"
  /\ saved' = Append(saved, FrameOf(msg))
  /\ pc' = "send"
  /\ UNCHANGED <<ring, writerVars, can_send, readVars, last_sent_seq, sent, faults>>

(* The packs are sent if a session plays. *)
Send ==
  /\ pc = "send"
  /\ \/ can_send /\ last_sent_seq' = msg.seq /\ sent' = Append(sent, FrameOf(msg))
     \/ ~can_send /\ UNCHANGED <<last_sent_seq, sent>>
  /\ pc' = "done"
  /\ UNCHANGED <<ring, writerVars, can_send, readVars, saved, faults>>

(* nalu_datafifo_read_done: the loop does not look at its result.  Its     *)
(* locals start afresh with the next item.                                 *)
ReadDone ==
  /\ pc = "done"
  /\ \/ ring' = [ring EXCEPT ![held].st = "done"] /\ UNCHANGED faults
     \/ ring' = [ring EXCEPT ![held].st = "lost"] /\ Fault
  /\ pc' = "poll"
  /\ can_send' = FALSE
  /\ UNCHANGED <<writerVars, readVars, useVars>>

Reader == Poll \/ GetTarget \/ Check \/ Snapshot \/ Send \/ ReadDone
BigCore == Submit \/ SkipFrame \/ Restart \/ Release

ReaderNext == Reader \/ BigCore

(* The reader polls for ever; the big core releases what is done.  Polling *)
(* a ring with something in it is not a stutter, so WF makes it happen.    *)
ReaderSpec ==
  /\ ReaderInit /\ [][ReaderNext]_vars
  /\ WF_vars(Reader) /\ WF_vars(Release)

-----------------------------------------------------------------------------
(* "This is mandatory. The big core releases the VENC stream only after    *)
(* the reader marks this DATAFIFO item as done": the reader holds one item *)
(* at a time, the oldest, and hands it back exactly once, whatever is      *)
(* wrong with it, before it takes the next; the big core uses no entry     *)
(* again before.  An item whose READ_DONE fails is lost to both.           *)
LeaseFrames == [i \in DOMAIN ring |-> ring[i].st]
Lender == INSTANCE FrameLease
            WITH Limit <- Entries, capacity <- ring_size, frames <- LeaseFrames
ImplementsLease == Lender!LeaseSpec

(* However often the big core begins to count anew, no frame is sent or    *)
(* snapshotted twice, no number is used twice, and none goes out or to the *)
(* card behind a later one, by its number or by the life it is of.         *)
InOrder(frames) ==
  \A i, j \in DOMAIN frames : i < j => /\ frames[i].seq < frames[j].seq
                                      /\ frames[i].life <= frames[j].life
NeverReplays == InOrder(sent) /\ InOrder(saved)

(* The price of the check for stale numbers is paid after a restart only:  *)
(* a good frame is passed over when it is of a later life of the big core  *)
(* than the frame read last, and never because numbers were left out or an *)
(* item in between was invalid, lost or not sent.                          *)
DropsOnlyRestarted ==
  [][pc = "check" /\ pc' = "done" /\ msg.kind /= "invalid" => msg.life > read_life]_vars

(* While every READ_DONE succeeds and the backlog stays within the         *)
(* reader's own limit, the big core is never left without a free entry for *)
(* good, whether or not anyone plays.                                      *)
WriterNeverStarves ==
  [](Avail <= Entries /\ \A i \in DOMAIN ring : ring[i].st /= "lost")
    => []<>(Len(ring) < ring_size)

(* With a ring of more entries than the reader was compiled for, a backlog *)
(* beyond its own limit is refused as corrupt on every later poll: the     *)
(* reader never reads again.                                               *)
BacklogIsFinal == [][Avail > Entries => Avail' >= Avail]_vars
===============================================================================
