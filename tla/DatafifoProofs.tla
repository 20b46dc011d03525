---------------------------- MODULE DatafifoProofs ----------------------------
(***************************************************************************)
(* Safety of the reader's loop (module DatafifoReader) for rings of any    *)
(* sizes, any limit of the reader, and any number of frames, restarts and  *)
(* failures: types, no frame used twice, a backlog that never shrinks once *)
(* it is too long, and each step a step of FrameLease.                     *)
(***************************************************************************)
EXTENDS DatafifoReader, SequenceTheorems, FunctionTheorems, FiniteSetTheorems, TLAPS

USE DatafifoAssumption

(* The reader holds one item at a time. *)
OneHeld == \A i, j \in Held : i = j

(* The item in the snapshot or the send pass is the one read last, and     *)
(* nothing as new was sent before it, or snapshotted before its snapshot.  *)
Upto(frames) ==
  \A i \in DOMAIN frames : frames[i].seq <= last_read_seq /\ frames[i].life <= read_life
Below(frames) == \A i \in DOMAIN frames : frames[i].seq < last_read_seq
InUse ==
  /\ Upto(sent) /\ Upto(saved)
  /\ pc \in {"snap", "send"} =>
       /\ \A i \in Held : ring[i].seq = last_read_seq /\ ring[i].life = read_life
       /\ Below(sent)
  /\ pc = "snap" => Below(saved)

(* The big core numbers frames in order, life after life, and the reader   *)
(* reads them in that order: what it has yet to check is behind what it    *)
(* has read.                                                               *)
Older(x, y) == x.life < y.life \/ (x.life = y.life /\ x.seq < y.seq)
LastRead == [seq |-> last_read_seq, life |-> read_life]
NextFrame == [seq |-> next_seq, life |-> restarts]
Due == Unread \cup IF pc \in {"target", "check"} THEN Held ELSE {}
Ordered ==
  /\ \A i, j \in DOMAIN ring : i < j => Older(ring[i], ring[j])
  /\ \A i \in DOMAIN ring : Older(ring[i], NextFrame)
  /\ Older(LastRead, NextFrame)
  /\ \A i \in Due : Older(LastRead, ring[i])
  /\ \A i \in Held, j \in Unread : i < j

IInv == ReaderTypeOK /\ OneHeld /\ InUse /\ Ordered /\ NeverReplays

-----------------------------------------------------------------------------
(* What the steps do to the ring *)

LEMMA RingFacts ==
  ASSUME ring \in Seq(Item)
  PROVE  /\ Len(ring) \in Nat /\ DOMAIN ring = 1..Len(ring)
         /\ \A i \in DOMAIN ring : ring[i] \in Item
BY LenProperties, ElementOfSeq

(* A status is changed. *)
LEMMA SetState ==
  ASSUME ring \in Seq(Item), NEW i \in DOMAIN ring, NEW v \in {"held", "done", "lost"},
         ring' = [ring EXCEPT ![i].st = v]
  PROVE  /\ ring' \in Seq(Item) /\ Len(ring') = Len(ring) /\ DOMAIN ring' = DOMAIN ring
         /\ \A j \in DOMAIN ring : /\ ring'[j].st = IF j = i THEN v ELSE ring[j].st
                                   /\ ring'[j].seq = ring[j].seq
                                   /\ ring'[j].life = ring[j].life
         /\ Held' = IF v = "held" THEN Held \cup {i} ELSE Held \ {i}
         /\ Unread' = Unread \ {i}
<1>1. Len(ring) \in Nat /\ DOMAIN ring = 1..Len(ring) /\ \A j \in DOMAIN ring : ring[j] \in Item
  BY RingFacts
<1>2. [ring[i] EXCEPT !.st = v] \in Item
  BY <1>1 DEF Item
<1>3. ring' = [ring EXCEPT ![i] = [ring[i] EXCEPT !.st = v]]
  OBVIOUS
<1>4. ring' \in Seq(Item) /\ Len(ring') = Len(ring) /\ DOMAIN ring' = DOMAIN ring
  BY <1>1, <1>2, <1>3, ExceptSeq
<1>5. \A j \in DOMAIN ring : /\ ring'[j].st = IF j = i THEN v ELSE ring[j].st
                             /\ ring'[j].seq = ring[j].seq
                             /\ ring'[j].life = ring[j].life
  BY <1>1, <1>3 DEF Item
<1>6. Held' = IF v = "held" THEN Held \cup {i} ELSE Held \ {i}
  BY <1>4, <1>5 DEF Held
<1>7. Unread' = Unread \ {i}
  BY <1>4, <1>5 DEF Unread
<1> QED
  BY <1>4, <1>5, <1>6, <1>7

(* An item comes in. *)
LEMMA AppendItem ==
  ASSUME ring \in Seq(Item), NEW x \in Item, x.st = "unread", ring' = Append(ring, x)
  PROVE  /\ ring' \in Seq(Item) /\ Len(ring') = Len(ring) + 1
         /\ DOMAIN ring' = DOMAIN ring \cup {Len(ring) + 1} /\ ring'[Len(ring) + 1] = x
         /\ \A j \in DOMAIN ring : j < Len(ring) + 1 /\ ring'[j] = ring[j]
         /\ Held' = Held /\ Unread' = Unread \cup {Len(ring) + 1}
<1>1. Len(ring) \in Nat /\ DOMAIN ring = 1..Len(ring)
  BY RingFacts
<1>2. /\ ring' \in Seq(Item) /\ Len(ring') = Len(ring) + 1 /\ ring'[Len(ring) + 1] = x
      /\ \A j \in 1..Len(ring) : ring'[j] = ring[j]
  BY AppendProperties
<1>3. DOMAIN ring' = 1..Len(ring) + 1
  BY <1>2, LenProperties
<1>4. Held' = Held /\ Unread' = Unread \cup {Len(ring) + 1}
  BY <1>1, <1>2, <1>3 DEF Held, Unread
<1> QED
  BY <1>1, <1>2, <1>3, <1>4

(* The oldest item, which is done, leaves. *)
LEMMA DropItem ==
  ASSUME ring \in Seq(Item), ring /= <<>>, Head(ring).st = "done", ring' = Tail(ring)
  PROVE  /\ ring' \in Seq(Item) /\ Len(ring') = Len(ring) - 1
         /\ \A j \in DOMAIN ring' : j + 1 \in DOMAIN ring /\ ring'[j] = ring[j + 1]
         /\ \A j \in Held : j - 1 \in Held'
         /\ \A j \in Held' : j + 1 \in Held
         /\ \A j \in Unread : j - 1 \in Unread'
         /\ \A j \in Unread' : j + 1 \in Unread
<1>1. Len(ring) \in Nat /\ DOMAIN ring = 1..Len(ring)
  BY RingFacts
<1>2. /\ ring' \in Seq(Item) /\ Len(ring') = Len(ring) - 1
      /\ \A j \in 1..Len(ring') : ring'[j] = ring[j + 1]
  BY HeadTailProperties
<1>3. DOMAIN ring' = 1..Len(ring) - 1
  BY <1>2, LenProperties
<1>4. ring[1].st = "done"
  OBVIOUS
<1>5. \A j \in DOMAIN ring' : j + 1 \in DOMAIN ring /\ ring'[j] = ring[j + 1]
  BY <1>1, <1>2, <1>3
<1>6. \A j \in DOMAIN ring : j /= 1 => j - 1 \in DOMAIN ring' /\ ring'[j - 1] = ring[j]
  BY <1>1, <1>2, <1>3
<1>7. \A j \in Held \cup Unread : j \in DOMAIN ring /\ j /= 1
  BY <1>4 DEF Held, Unread
<1> QED
  BY <1>2, <1>5, <1>6, <1>7 DEF Held, Unread

(* While the reader is not polling, msg is the item it holds. *)
LEMMA InHand ==
  ASSUME IInv, pc /= "poll"
  PROVE  /\ held \in Held /\ held \in DOMAIN ring /\ Held = {held}
         /\ msg \in Item /\ msg.seq \in 1..MaxSeq /\ FrameOf(msg) \in Frame
<1>1. Held /= {} /\ ring \in Seq(Item)
  BY DEF IInv, ReaderTypeOK
<1>2. held \in Held
  BY <1>1 DEF held
<1>3. held \in DOMAIN ring /\ msg \in Item
  BY <1>1, <1>2, RingFacts DEF Held, msg
<1> QED
  BY <1>2, <1>3 DEF IInv, OneHeld, Item, FrameOf, Frame

LEMMA UnreadFinite ==
  ASSUME ring \in Seq(Item)
  PROVE  IsFiniteSet(Unread) /\ Avail \in Nat
<1>1. Unread \in SUBSET (1..Len(ring)) /\ Len(ring) \in Nat
  BY RingFacts DEF Unread
<1>2. IsFiniteSet(1..Len(ring))
  BY <1>1, FS_Interval
<1>3. IsFiniteSet(Unread)
  BY <1>1, <1>2, FS_Subset
<1> QED
  BY <1>3, FS_CardinalityType DEF Avail

(* The frame in hand is the one read last, and goes into a history that    *)
(* has nothing as new.                                                     *)
LEMMA Recorded ==
  ASSUME NEW frames \in Seq(Frame), InOrder(frames), Upto(frames), Below(frames),
         NEW f \in Frame, f.seq = last_read_seq, f.life = read_life
  PROVE  /\ Append(frames, f) \in Seq(Frame)
         /\ InOrder(Append(frames, f)) /\ Upto(Append(frames, f))
<1> DEFINE g == Append(frames, f)
<1>1. /\ g \in Seq(Frame) /\ Len(g) = Len(frames) + 1 /\ g[Len(frames) + 1] = f
      /\ \A j \in 1..Len(frames) : g[j] = frames[j]
  BY AppendProperties
<1>2. Len(frames) \in Nat /\ DOMAIN frames = 1..Len(frames) /\ DOMAIN g = 1..Len(frames) + 1
  BY <1>1, LenProperties
<1> HIDE DEF g
<1>3. \A j \in DOMAIN g : \/ j \in DOMAIN frames /\ g[j] = frames[j] /\ j < Len(frames) + 1
                          \/ j = Len(frames) + 1 /\ g[j] = f
  BY <1>1, <1>2
<1>4. f.seq \in Nat /\ f.life \in Nat
  BY DEF Frame, Lives
<1>5. \A i, j \in DOMAIN g : i < j => i \in DOMAIN frames /\ g[i] = frames[i]
  BY <1>2, <1>3
<1>6. InOrder(g)
  BY <1>2, <1>3, <1>5 DEF InOrder, Upto, Below
<1>7. Upto(g)
  BY <1>3, <1>4 DEF Upto
<1> QED
  BY <1>1, <1>6, <1>7 DEF g

(* What is neither sent nor saved leaves the histories in order. *)
LEMMA HistoryStays ==
  ASSUME IInv, UNCHANGED <<readVars, useVars>>
  PROVE  /\ Upto(sent)' /\ Upto(saved)' /\ NeverReplays'
         /\ Below(sent)' = Below(sent) /\ Below(saved)' = Below(saved)
BY DEF IInv, InUse, readVars, useVars, Upto, Below, NeverReplays, InOrder

(* A status is changed, and no item becomes due. *)
LEMMA OrderStays ==
  ASSUME IInv, NEW i \in DOMAIN ring, NEW v \in {"held", "done", "lost"},
         ring' = [ring EXCEPT ![i].st = v],
         UNCHANGED <<readVars, next_seq, restarts>>,
         Due' \subseteq Due,
         \A k \in Held', j \in Unread' : k < j
  PROVE  Ordered'
<1>1. ring \in Seq(Item)
  BY DEF IInv, ReaderTypeOK
<1>2. /\ DOMAIN ring' = DOMAIN ring
      /\ \A j \in DOMAIN ring : ring'[j].seq = ring[j].seq /\ ring'[j].life = ring[j].life
  BY <1>1, SetState
<1>3. Due \subseteq DOMAIN ring
  BY DEF Due, Unread, Held
<1> QED
  BY <1>2, <1>3 DEF IInv, Ordered, Older, LastRead, NextFrame, readVars

-----------------------------------------------------------------------------
(* The invariant *)

LEMMA InitIInv == ReaderInit => IInv
<1> SUFFICES ASSUME ReaderInit PROVE IInv
  OBVIOUS
<1>1. ring = <<>> /\ ring \in Seq(Item) /\ Len(ring) = 0 /\ DOMAIN ring = {}
  BY EmptySeq DEF ReaderInit
<1>2. Held = {} /\ Unread = {}
  BY <1>1 DEF Held, Unread
<1>3. ring_size \in Nat /\ Len(ring) <= ring_size /\ 1 \in 1..MaxSeq+1
  BY <1>1 DEF ReaderInit
<1>4. 0 \in 0..MaxSeq /\ 0 \in Lives /\ 0 \in 0..MaxFaults /\ 0 \in 0..0
      /\ <<>> \in Seq(Frame)
  BY EmptySeq DEF Lives
<1>5. ReaderTypeOK
  <2>1. Held /= {} <=> pc /= "poll"
    BY <1>2 DEF ReaderInit
  <2> QED
    BY <1>1, <1>3, <1>4, <2>1, Zenon DEF ReaderInit, ReaderTypeOK
<1>6. Ordered
  BY <1>1, <1>2 DEF Ordered, Due, Older, LastRead, NextFrame, ReaderInit
<1>7. Upto(sent) /\ Upto(saved) /\ NeverReplays
  BY DEF Upto, NeverReplays, InOrder, ReaderInit
<1> QED
  BY <1>2, <1>5, <1>6, <1>7 DEF IInv, OneHeld, InUse, ReaderInit

LEMMA SubmitKeeps == IInv /\ Submit => IInv'
<1> SUFFICES ASSUME IInv, Submit PROVE IInv'
  OBVIOUS
<1>0. UNCHANGED <<readVars, useVars, pc, ring_size, restarts, can_send, faults>>
  BY DEF Submit
<1>1. PICK k \in {"plain", "flagged", "invalid"} :
        ring' = Append(ring, [seq |-> next_seq, life |-> restarts, kind |-> k, st |-> "unread"])
  BY DEF Submit
<1> DEFINE x == [seq |-> next_seq, life |-> restarts, kind |-> k, st |-> "unread"]
<1>2. ring \in Seq(Item) /\ x \in Item
  BY DEF IInv, ReaderTypeOK, Submit, Item
<1>3. /\ ring' \in Seq(Item) /\ Len(ring') = Len(ring) + 1
      /\ DOMAIN ring' = DOMAIN ring \cup {Len(ring) + 1} /\ ring'[Len(ring) + 1] = x
      /\ \A j \in DOMAIN ring : j < Len(ring) + 1 /\ ring'[j] = ring[j]
      /\ Held' = Held /\ Unread' = Unread \cup {Len(ring) + 1}
  BY <1>1, <1>2, AppendItem
<1>4. Len(ring) \in Nat /\ ring_size \in Nat /\ DOMAIN ring = 1..Len(ring)
  BY <1>2, RingFacts DEF IInv, ReaderTypeOK
<1>5. ReaderTypeOK'
  BY <1>3, <1>4 DEF IInv, ReaderTypeOK, Submit, readVars, useVars
<1>6. OneHeld' /\ InUse' /\ NeverReplays'
  BY <1>0, <1>3, HistoryStays DEF IInv, OneHeld, InUse, readVars, useVars, Held
<1>7. x.seq = next_seq /\ x.life = restarts /\ next_seq' = next_seq + 1 /\ next_seq \in Nat
  BY DEF Submit, IInv, ReaderTypeOK
<1> HIDE DEF x
<1>8. Due' = Due \cup {Len(ring) + 1} /\ Due \subseteq DOMAIN ring /\ Held \subseteq DOMAIN ring
  BY <1>0, <1>3 DEF Due, Unread, Held
<1>9. \A j \in DOMAIN ring : ring[j].seq \in Nat
  BY <1>2, RingFacts DEF Item
<1>10. last_read_seq \in Nat
  BY DEF IInv, ReaderTypeOK
<1>11. Ordered'
  <2>1. \A i, j \in DOMAIN ring' : i < j => Older(ring'[i], ring'[j])
    <3> SUFFICES ASSUME NEW i \in DOMAIN ring', NEW j \in DOMAIN ring', i < j
                 PROVE  Older(ring'[i], ring'[j])
      OBVIOUS
    <3>1. i \in DOMAIN ring /\ ring'[i] = ring[i]
      BY <1>3, <1>4
    <3>2. CASE j \in DOMAIN ring
      BY <1>3, <3>1, <3>2 DEF IInv, Ordered
    <3>3. CASE j = Len(ring) + 1
      BY <1>3, <1>7, <3>1, <3>3 DEF IInv, Ordered, Older, NextFrame
    <3> QED
      BY <1>3, <3>2, <3>3
  <2>2. \A i \in DOMAIN ring' : Older(ring'[i], NextFrame')
    BY <1>0, <1>3, <1>7, <1>9 DEF IInv, Ordered, Older, NextFrame
  <2>3. Older(LastRead', NextFrame')
    BY <1>0, <1>7, <1>10 DEF IInv, Ordered, Older, NextFrame, LastRead, readVars
  <2>4. \A i \in Due' : Older(LastRead', ring'[i])
    BY <1>0, <1>3, <1>7, <1>8 DEF IInv, Ordered, Older, NextFrame, LastRead, readVars
  <2>5. \A i \in Held', j \in Unread' : i < j
    BY <1>3, <1>8 DEF IInv, Ordered
  <2> QED
    BY <2>1, <2>2, <2>3, <2>4, <2>5 DEF Ordered
<1> QED
  BY <1>5, <1>6, <1>11 DEF IInv

LEMMA ReleaseKeeps == IInv /\ Release => IInv'
<1> SUFFICES ASSUME IInv, Release PROVE IInv'
  OBVIOUS
<1>0. UNCHANGED <<readVars, useVars, writerVars, pc>>
  BY DEF Release
<1>1. ring \in Seq(Item)
  BY DEF IInv, ReaderTypeOK
<1>2. /\ ring' \in Seq(Item) /\ Len(ring') = Len(ring) - 1
      /\ \A j \in DOMAIN ring' : j + 1 \in DOMAIN ring /\ ring'[j] = ring[j + 1]
      /\ \A j \in Held : j - 1 \in Held'
      /\ \A j \in Held' : j + 1 \in Held
      /\ \A j \in Unread' : j + 1 \in Unread
  BY <1>1, DropItem DEF Release
<1>3. Len(ring) \in Nat /\ ring_size \in Nat
  BY <1>1, RingFacts DEF IInv, ReaderTypeOK
<1>4. Held' /= {} <=> Held /= {}
  BY <1>2
<1>5. ReaderTypeOK'
  BY <1>2, <1>3, <1>4 DEF IInv, ReaderTypeOK, Release, readVars, useVars, writerVars
<1>6. DOMAIN ring' \subseteq Nat
  BY <1>2, LenProperties
<1>7. OneHeld'
  BY <1>2, <1>6 DEF IInv, OneHeld, Held
<1>8. \A j \in Held' : ring'[j].seq = ring[j + 1].seq /\ ring'[j].life = ring[j + 1].life
  BY <1>2 DEF Held
<1>9. InUse' /\ NeverReplays'
  BY <1>0, <1>2, <1>8, HistoryStays DEF IInv, InUse, readVars, useVars
<1>10. \A j \in Due' : j \in DOMAIN ring' /\ j + 1 \in Due
  BY <1>0, <1>2 DEF Due, Held, Unread
<1>11. Ordered'
  <2>1. \A i, j \in DOMAIN ring' : i < j => Older(ring'[i], ring'[j])
    <3> SUFFICES ASSUME NEW i \in DOMAIN ring', NEW j \in DOMAIN ring', i < j
                 PROVE  Older(ring'[i], ring'[j])
      OBVIOUS
    <3>1. i + 1 < j + 1
      BY <1>6
    <3> QED
      BY <1>2, <3>1 DEF IInv, Ordered
  <2>2. NextFrame' = NextFrame /\ LastRead' = LastRead
    BY <1>0 DEF NextFrame, LastRead, writerVars, readVars
  <2>3. \A i \in Held', j \in Unread' : i < j
    BY <1>2, <1>6 DEF IInv, Ordered, Held, Unread
  <2> QED
    BY <1>2, <1>10, <2>1, <2>2, <2>3 DEF IInv, Ordered
<1> QED
  BY <1>5, <1>7, <1>9, <1>11 DEF IInv

LEMMA PollKeeps == IInv /\ Poll => IInv'
<1> SUFFICES ASSUME IInv, Poll PROVE IInv'
  OBVIOUS
<1>0. UNCHANGED <<readVars, useVars, next_seq, restarts>> /\ pc = "poll"
  BY DEF Poll, writerVars
<1>1. CASE TakeItem /\ UNCHANGED faults
  <2>1. PICK i \in Unread : /\ \A j \in Unread : i <= j
                            /\ ring' = [ring EXCEPT ![i].st = "held"]
    BY <1>1 DEF TakeItem
  <2>2. ring \in Seq(Item) /\ i \in DOMAIN ring /\ Held = {}
    BY DEF IInv, ReaderTypeOK, Unread, Poll
  <2>3. ring' \in Seq(Item) /\ Len(ring') = Len(ring) /\ Held' = {i} /\ Unread' = Unread \ {i}
    BY <2>1, <2>2, SetState
  <2>4. ReaderTypeOK'
    BY <1>1, <2>3 DEF IInv, ReaderTypeOK, Poll, TakeItem, readVars, useVars, writerVars
  <2>5. Due' \subseteq Due
    BY <2>3 DEF Due
  <2>6. \A k \in Held', j \in Unread' : k < j
    <3>1. DOMAIN ring \subseteq Nat
      BY <2>2, RingFacts
    <3> QED
      BY <2>1, <2>2, <2>3, <3>1 DEF Unread
  <2>7. Ordered'
    BY <1>0, <2>1, <2>2, <2>5, <2>6, OrderStays
  <2> QED
    BY <1>0, <1>1, <2>3, <2>4, <2>7, HistoryStays DEF IInv, OneHeld, InUse, TakeItem
<1>2. CASE UNCHANGED <<ring, pc>> /\ (Fault \/ UNCHANGED faults)
  <2>1. Held' = Held /\ Unread' = Unread /\ faults' \in 0..MaxFaults
    BY <1>2 DEF Held, Unread, Fault, IInv, ReaderTypeOK
  <2>2. ReaderTypeOK' /\ OneHeld'
    BY <1>2, <2>1 DEF IInv, ReaderTypeOK, OneHeld, Poll, readVars, useVars, writerVars
  <2>3. Ordered'
    BY <1>0, <1>2, <2>1 DEF IInv, Ordered, Due, LastRead, NextFrame, readVars
  <2> QED
    BY <1>0, <1>2, <2>2, <2>3, HistoryStays DEF IInv, InUse
<1> QED
  BY <1>1, <1>2 DEF Poll

(* The passes: the ring stays as it is. *)
LEMMA PassKeeps == IInv /\ (GetTarget \/ Check \/ Snapshot \/ Send) => IInv'
<1> SUFFICES ASSUME IInv, GetTarget \/ Check \/ Snapshot \/ Send PROVE IInv'
  OBVIOUS
<1>1. pc /= "poll" /\ pc' /= "poll" /\ UNCHANGED <<ring, writerVars, faults>>
  BY DEF GetTarget, Check, Snapshot, Send
<1>2. Held' = Held /\ Unread' = Unread
  BY <1>1 DEF Held, Unread
<1>3. Held = {held} /\ held \in DOMAIN ring /\ msg.seq \in 1..MaxSeq /\ msg.life \in Lives
      /\ FrameOf(msg) \in Frame
  BY <1>1, InHand DEF Item
<1>4. \A i \in Held : ring[i].seq = msg.seq /\ ring[i].life = msg.life
  BY <1>3 DEF msg
<1>5. FrameOf(msg).seq = msg.seq /\ FrameOf(msg).life = msg.life
  BY DEF FrameOf
<1>6. sent \in Seq(Frame) /\ saved \in Seq(Frame) /\ InOrder(sent) /\ InOrder(saved)
      /\ Upto(sent) /\ Upto(saved)
  BY DEF IInv, ReaderTypeOK, NeverReplays, InUse
<1>7. ASSUME UNCHANGED readVars, pc' /= "target", pc' = "check" => pc = "target"
      PROVE  Ordered'
  <2>1. Due' \subseteq Due
    BY <1>2, <1>7 DEF Due
  <2>2. LastRead' = LastRead /\ NextFrame' = NextFrame
    BY <1>1, <1>7 DEF LastRead, NextFrame, readVars, writerVars
  <2> QED
    BY <1>1, <1>2, <2>1, <2>2 DEF IInv, Ordered
<1>8. CASE GetTarget
  <2>1. UNCHANGED <<readVars, useVars>> /\ pc = "target" /\ pc' = "check"
    BY <1>8 DEF GetTarget
  <2>2. ReaderTypeOK' /\ OneHeld'
    BY <1>1, <1>2, <1>8 DEF IInv, ReaderTypeOK, OneHeld, GetTarget, readVars, useVars, writerVars
  <2> QED
    BY <1>7, <2>1, <2>2, HistoryStays DEF IInv, InUse
<1>9. CASE Check
  <2>1. pc = "check" /\ UNCHANGED <<useVars, can_send>>
    BY <1>9 DEF Check
  <2>2. CASE pc' = "done" /\ UNCHANGED readVars
    <3>1. ReaderTypeOK' /\ OneHeld'
      BY <1>1, <1>2, <2>1, <2>2 DEF IInv, ReaderTypeOK, OneHeld, readVars, useVars, writerVars
    <3> QED
      BY <1>7, <2>1, <2>2, <3>1, HistoryStays DEF IInv, InUse
  <2>3. CASE /\ ~Stale /\ last_read_seq' = msg.seq /\ read_life' = msg.life
             /\ pc' \in {"snap", "send"}
    <3>1. last_read_seq \in 0..MaxSeq /\ last_read_seq < msg.seq
      BY <1>3, <2>3 DEF Stale, IInv, ReaderTypeOK
    <3>2. read_life \in Nat /\ read_life <= msg.life
      <4>1. held \in Due
        BY <1>3, <2>1 DEF Due
      <4>2. Older(LastRead, msg)
        BY <4>1 DEF IInv, Ordered, msg
      <4> QED
        BY <1>3, <4>2 DEF Older, LastRead, IInv, ReaderTypeOK, Lives
    <3>3. ASSUME NEW f \in {sent, saved}, NEW j \in DOMAIN f
          PROVE  f[j].seq < msg.seq /\ f[j].life <= msg.life
      <4>1. f[j].seq <= last_read_seq /\ f[j].life <= read_life
        BY <1>6 DEF Upto
      <4>2. f[j] \in Frame
        BY <1>6, ElementOfSeq
      <4> QED
        BY <1>3, <3>1, <3>2, <4>1, <4>2 DEF Frame, Lives
    <3>4. last_read_seq' \in 0..MaxSeq /\ last_sent_seq' \in 0..last_read_seq'
      BY <1>3, <2>1, <2>3, <3>1 DEF IInv, ReaderTypeOK, useVars
    <3>5. ReaderTypeOK' /\ OneHeld'
      BY <1>1, <1>2, <1>3, <2>1, <2>3, <3>4 DEF IInv, ReaderTypeOK, OneHeld, useVars, writerVars
    <3>6. Upto(sent)' /\ Upto(saved)' /\ Below(sent)' /\ Below(saved)' /\ NeverReplays'
      <4>1. /\ \A j \in DOMAIN sent : sent[j].seq < msg.seq /\ sent[j].life <= msg.life
            /\ \A j \in DOMAIN saved : saved[j].seq < msg.seq /\ saved[j].life <= msg.life
        BY <3>3
      <4>2. /\ \A j \in DOMAIN sent : sent[j].seq \in Nat
            /\ \A j \in DOMAIN saved : saved[j].seq \in Nat
        <5>1. \A f \in {sent, saved} : \A j \in DOMAIN f : f[j] \in Frame
          <6> SUFFICES ASSUME NEW f \in {sent, saved}, NEW j \in DOMAIN f PROVE f[j] \in Frame
            OBVIOUS
          <6>1. f \in Seq(Frame)
            BY <1>6
          <6> QED
            BY <6>1, ElementOfSeq, LenProperties
        <5> QED
          BY <5>1 DEF Frame
      <4>3. Upto(sent)' /\ Below(sent)'
        BY <1>3, <2>1, <2>3, <4>1, <4>2 DEF useVars, Upto, Below
      <4>4. Upto(saved)' /\ Below(saved)'
        BY <1>3, <2>1, <2>3, <4>1, <4>2 DEF useVars, Upto, Below
      <4> QED
        BY <1>6, <2>1, <4>3, <4>4 DEF useVars, NeverReplays, InOrder
    <3>7. InUse'
      BY <1>1, <1>2, <1>4, <2>3, <3>6 DEF InUse
    <3>8. Ordered'
      <4>1. Due' = Unread
        BY <1>2, <2>3 DEF Due
      <4>2. \A j \in Unread : j \in DOMAIN ring /\ held < j
        BY <1>3 DEF IInv, Ordered, Unread
      <4>3. \A j \in DOMAIN ring : held < j => Older(msg, ring[j])
        BY <1>3 DEF IInv, Ordered, msg
      <4>4. Older(msg, NextFrame)
        BY <1>3 DEF IInv, Ordered, msg
      <4>5. NextFrame' = NextFrame
        BY <1>1 DEF NextFrame, writerVars
      <4>6. \A y : Older(LastRead', y) <=> Older(msg, y)
        BY <2>3 DEF Older, LastRead
      <4>7. /\ \A i, j \in DOMAIN ring : i < j => Older(ring[i], ring[j])
            /\ \A i \in DOMAIN ring : Older(ring[i], NextFrame)
            /\ \A i \in Held, j \in Unread : i < j
        BY DEF IInv, Ordered
      <4>8. ring' = ring
        BY <1>1
      <4> HIDE DEF LastRead, NextFrame, Older, Due
      <4> QED
        BY <1>2, <4>1, <4>2, <4>3, <4>4, <4>5, <4>6, <4>7, <4>8 DEF Ordered
    <3> QED
      BY <3>5, <3>6, <3>7, <3>8 DEF IInv
  <2> QED
    BY <1>9, <2>2, <2>3 DEF Check
<1>10. CASE Snapshot
  <2>1. msg.seq = last_read_seq /\ msg.life = read_life /\ Below(sent) /\ Below(saved)
    BY <1>3, <1>4, <1>10 DEF IInv, InUse, Snapshot
  <2>2. /\ saved' = Append(saved, FrameOf(msg)) /\ pc' = "send"
        /\ UNCHANGED <<readVars, last_sent_seq, sent, can_send>>
    BY <1>10 DEF Snapshot
  <2>3. saved' \in Seq(Frame) /\ InOrder(saved') /\ Upto(saved')
    BY <1>3, <1>5, <1>6, <2>1, <2>2, Recorded
  <2>4. Upto(saved)' /\ Upto(sent)' /\ Below(sent)' /\ NeverReplays'
    BY <1>6, <2>1, <2>2, <2>3 DEF readVars, Upto, Below, NeverReplays, InOrder
  <2>5. ReaderTypeOK' /\ OneHeld'
    BY <1>1, <1>2, <2>2, <2>3 DEF IInv, ReaderTypeOK, OneHeld, readVars, writerVars
  <2>6. InUse'
    BY <1>1, <1>2, <1>4, <2>1, <2>2, <2>4 DEF InUse, readVars
  <2>7. Ordered'
    BY <1>7, <2>2
  <2> QED
    BY <2>4, <2>5, <2>6, <2>7 DEF IInv
<1>11. CASE Send
  <2>1. msg.seq = last_read_seq /\ msg.life = read_life /\ Below(sent)
    BY <1>3, <1>4, <1>11 DEF IInv, InUse, Send
  <2>2. pc' = "done" /\ UNCHANGED <<readVars, saved, can_send>>
    BY <1>11 DEF Send
  <2>3. /\ sent' \in Seq(Frame) /\ InOrder(sent') /\ Upto(sent')
        /\ last_sent_seq' \in 0..last_read_seq
    <3>1. CASE sent' = Append(sent, FrameOf(msg)) /\ last_sent_seq' = msg.seq
      <4>1. last_sent_seq' \in 0..last_read_seq
        BY <1>3, <2>1, <3>1
      <4> QED
        BY <1>3, <1>5, <1>6, <2>1, <3>1, <4>1, Recorded
    <3>2. CASE UNCHANGED <<last_sent_seq, sent>>
      BY <1>6, <3>2 DEF IInv, ReaderTypeOK
    <3> QED
      BY <1>11, <3>1, <3>2 DEF Send
  <2>4. Upto(saved)' /\ Upto(sent)' /\ NeverReplays'
    BY <1>6, <2>2, <2>3 DEF readVars, Upto, NeverReplays, InOrder
  <2>5. ReaderTypeOK' /\ OneHeld'
    BY <1>1, <1>2, <2>2, <2>3 DEF IInv, ReaderTypeOK, OneHeld, readVars, writerVars
  <2>6. InUse'
    BY <2>2, <2>4 DEF InUse
  <2>7. Ordered'
    BY <1>7, <2>2
  <2> QED
    BY <2>4, <2>5, <2>6, <2>7 DEF IInv
<1> QED
  BY <1>8, <1>9, <1>10, <1>11

LEMMA ReadDoneKeeps == IInv /\ ReadDone => IInv'
<1> SUFFICES ASSUME IInv, ReadDone PROVE IInv'
  OBVIOUS
<1>0. UNCHANGED <<readVars, useVars, next_seq, restarts>> /\ pc' = "poll"
  BY DEF ReadDone, writerVars
<1>1. PICK v \in {"done", "lost"} : ring' = [ring EXCEPT ![held].st = v]
  BY DEF ReadDone
<1>2. ring \in Seq(Item) /\ held \in DOMAIN ring /\ Held = {held}
  BY InHand DEF IInv, ReaderTypeOK, ReadDone
<1>3. ring' \in Seq(Item) /\ Len(ring') = Len(ring) /\ Held' = {} /\ Unread' = Unread \ {held}
  BY <1>1, <1>2, SetState
<1>4. faults' \in 0..MaxFaults
  BY DEF ReadDone, Fault, IInv, ReaderTypeOK
<1>5. ReaderTypeOK'
  BY <1>3, <1>4 DEF IInv, ReaderTypeOK, ReadDone, readVars, useVars, writerVars
<1>6. Due' \subseteq Due
  BY <1>0, <1>3 DEF Due
<1>7. Ordered'
  BY <1>0, <1>1, <1>2, <1>3, <1>6, OrderStays
<1> QED
  BY <1>0, <1>3, <1>5, <1>7, HistoryStays DEF IInv, OneHeld, InUse

(* The steps of the big core that touch nothing but its own counters. *)
LEMMA CountersKeep == IInv /\ (SkipFrame \/ Restart \/ UNCHANGED vars) => IInv'
<1> SUFFICES ASSUME IInv, SkipFrame \/ Restart \/ UNCHANGED vars PROVE IInv'
  OBVIOUS
<1>1. UNCHANGED <<ring, ring_size, pc, can_send, readVars, useVars, faults>>
  BY DEF SkipFrame, Restart, vars, writerVars
<1>2. next_seq' \in 1..MaxSeq+1 /\ restarts' \in Lives
  BY DEF IInv, ReaderTypeOK, SkipFrame, Restart, vars, writerVars, Lives
<1>3. Held' = Held /\ Unread' = Unread
  BY <1>1 DEF Held, Unread
<1>4. ReaderTypeOK' /\ OneHeld'
  BY <1>1, <1>2, <1>3 DEF IInv, ReaderTypeOK, OneHeld, readVars, useVars
<1>5. \/ restarts' = restarts /\ next_seq' \in {next_seq, next_seq + 1}
      \/ restarts' = restarts + 1
  BY DEF SkipFrame, Restart, vars, writerVars
<1>6. next_seq \in Nat /\ restarts \in Nat
  BY DEF IInv, ReaderTypeOK, Lives
<1>7. \A x : x.seq \in Nat /\ x.life \in Nat /\ Older(x, NextFrame) => Older(x, NextFrame')
  BY <1>5, <1>6 DEF Older, NextFrame
<1>8. \A i \in DOMAIN ring : ring[i].seq \in Nat /\ ring[i].life \in Nat
  BY RingFacts DEF IInv, ReaderTypeOK, Item, Lives
<1>9. LastRead.seq \in Nat /\ LastRead.life \in Nat /\ LastRead' = LastRead
  BY <1>1 DEF LastRead, IInv, ReaderTypeOK, Lives, readVars
<1>10. Ordered'
  BY <1>1, <1>3, <1>7, <1>8, <1>9 DEF IInv, Ordered, Due
<1>11. InUse' /\ NeverReplays'
  <2>1. NeverReplays' /\ Upto(sent)' /\ Upto(saved)' /\ Below(sent)' = Below(sent)
        /\ Below(saved)' = Below(saved)
    BY <1>1 DEF IInv, InUse, NeverReplays, InOrder, Upto, Below, readVars, useVars
  <2> QED
    BY <1>1, <1>3, <2>1 DEF IInv, InUse, readVars
<1> QED
  BY <1>4, <1>10, <1>11 DEF IInv

LEMMA StepKeeps == IInv /\ [ReaderNext]_vars => IInv'
BY SubmitKeeps, ReleaseKeeps, PollKeeps, PassKeeps, ReadDoneKeeps, CountersKeep
   DEF ReaderNext, Reader, BigCore

(* datafifo_rtp_sender_loop holds one item at a time, and what it sends or *)
(* snapshots is newer than everything sent or snapshotted before.          *)
THEOREM Invariance == ReaderSpec => []IInv
BY InitIInv, StepKeeps, PTL DEF ReaderSpec

(* Every variable of the loop, of the ring and of the big core stays in    *)
(* its range; an item is in hand exactly while the loop is not polling.    *)
THEOREM TypeCorrect == ReaderSpec => []ReaderTypeOK
<1>1. IInv => ReaderTypeOK
  BY DEF IInv
<1> QED
  BY Invariance, <1>1, PTL
-----------------------------------------------------------------------------
(* Each step, as it is seen from outside *)

(* However often the big core starts counting from 1 again, every frame    *)
(* sent or snapshotted has a greater number and is of no earlier life than *)
(* all before it: the check for stale sequence numbers.                    *)
THEOREM ReplaysNothing == ReaderSpec => []NeverReplays
<1>1. IInv => NeverReplays
  BY DEF IInv
<1> QED
  BY Invariance, <1>1, PTL

LEMMA StepDrops ==
  ASSUME IInv, [ReaderNext]_vars, pc = "check", pc' = "done", msg.kind /= "invalid"
  PROVE  msg.life > read_life
<1>1. Check
  BY DEF ReaderNext, Reader, BigCore, Poll, TakeItem, GetTarget, Snapshot, Send, ReadDone, Submit,
     SkipFrame, Restart, Release, vars
<1>2. msg.seq <= last_read_seq
  BY <1>1 DEF Check, Stale
<1>3. held \in Due /\ held \in DOMAIN ring /\ msg \in Item
  BY InHand DEF Due
<1>4. Older(LastRead, msg)
  BY <1>3 DEF IInv, Ordered, msg
<1> QED
  BY <1>2, <1>3, <1>4 DEF Older, LastRead, Item, IInv, ReaderTypeOK, Lives

(* The check for stale numbers drops good frames of a later life of the    *)
(* big core only: within a life the ring keeps their order.                *)
THEOREM DropsAreRestarted == ReaderSpec => DropsOnlyRestarted
<1>1. IInv /\ [ReaderNext]_vars =>
        [pc = "check" /\ pc' = "done" /\ msg.kind /= "invalid" => msg.life > read_life]_vars
  BY StepDrops
<1> QED
  BY Invariance, <1>1, PTL DEF ReaderSpec, DropsOnlyRestarted

(* Items that move up by one place are as many as before. *)
LEMMA ShiftedAreAsMany ==
  ASSUME NEW S, NEW T, IsFiniteSet(S), S \subseteq Nat, T \subseteq Nat,
         \A j \in S : j - 1 \in T, \A j \in T : j + 1 \in S
  PROVE  Cardinality(T) = Cardinality(S)
<1> DEFINE f == [j \in S |-> j - 1]
<1>1. f \in Bijection(S, T)
  <2>1. f \in [S -> T]
    OBVIOUS
  <2>2. \A a, b \in S : f[a] = f[b] => a = b
    OBVIOUS
  <2>3. \A j \in T : f[j + 1] = j
    OBVIOUS
  <2>4. \A j \in T : \E i \in S : f[i] = j
    BY <2>3
  <2> QED
    BY <2>1, <2>2, <2>4, Fun_IsBij
<1>2. ExistsBijection(S, T)
  BY <1>1 DEF ExistsBijection
<1> QED
  BY <1>2, FS_Bijection

LEMMA StepNeverShortens ==
  ASSUME IInv, [ReaderNext]_vars, Avail > Entries
  PROVE  Avail' >= Avail
<1>0. ring \in Seq(Item) /\ IsFiniteSet(Unread) /\ Avail \in Nat
  BY UnreadFinite DEF IInv, ReaderTypeOK
<1>1. CASE UNCHANGED ring
  <2>1. Unread' = Unread
    BY <1>1 DEF Unread
  <2> QED
    BY <1>0, <2>1 DEF Avail
<1>2. CASE Poll
  BY <1>0, <1>1, <1>2 DEF Poll
<1>3. CASE ReadDone
  <2>1. PICK v \in {"done", "lost"} : ring' = [ring EXCEPT ![held].st = v]
    BY <1>3 DEF ReadDone
  <2>2. held \in Held /\ held \in DOMAIN ring
    BY <1>3, InHand DEF ReadDone
  <2>3. Unread' = Unread \ {held} /\ held \notin Unread
    BY <1>0, <2>1, <2>2, SetState DEF Held, Unread
  <2>4. Unread' = Unread
    BY <2>3
  <2> QED
    BY <1>0, <2>4 DEF Avail
<1>4. CASE Submit
  <2>1. PICK k \in {"plain", "flagged", "invalid"} :
          ring' = Append(ring, [seq |-> next_seq, life |-> restarts, kind |-> k, st |-> "unread"])
    BY <1>4 DEF Submit
  <2>2. [seq |-> next_seq, life |-> restarts, kind |-> k, st |-> "unread"] \in Item
    BY <1>4 DEF IInv, ReaderTypeOK, Submit, Item
  <2>3. Unread' = Unread \cup {Len(ring) + 1}
    BY <1>0, <2>1, <2>2, AppendItem
  <2>4. Cardinality(Unread') \in {Cardinality(Unread), Cardinality(Unread) + 1}
    BY <1>0, <2>3, FS_AddElement
  <2> QED
    BY <1>0, <2>4 DEF Avail
<1>5. CASE Release
  <2>1. /\ \A j \in Unread : j - 1 \in Unread'
        /\ \A j \in Unread' : j + 1 \in Unread
        /\ ring' \in Seq(Item)
    BY <1>0, <1>5, DropItem DEF Release
  <2>2. Unread \subseteq Nat /\ Unread' \subseteq Nat
    BY <1>0, <2>1, LenProperties DEF Unread
  <2>3. Cardinality(Unread') = Cardinality(Unread)
    BY <1>0, <2>1, <2>2, ShiftedAreAsMany
  <2> QED
    BY <1>0, <2>3 DEF Avail
<1>6. CASE GetTarget \/ Check \/ Snapshot \/ Send \/ SkipFrame \/ Restart \/ UNCHANGED vars
  BY <1>1, <1>6 DEF GetTarget, Check, Snapshot, Send, SkipFrame, Restart, vars
<1> QED
  BY <1>2, <1>3, <1>4, <1>5, <1>6 DEF ReaderNext, Reader, BigCore

(* nalu_datafifo_read refuses a backlog above its own limit as corrupt, so *)
(* nothing ever shortens it again: the reader is stuck for good.           *)
THEOREM BacklogStays == ReaderSpec => BacklogIsFinal
<1>1. IInv /\ [ReaderNext]_vars => [Avail > Entries => Avail' >= Avail]_vars
  BY StepNeverShortens
<1> QED
  BY Invariance, <1>1, PTL DEF ReaderSpec, BacklogIsFinal
-----------------------------------------------------------------------------
(* The lease *)

St == {"unread", "held", "done", "lost"}

LEMMA FramesSeq ==
  ASSUME ring \in Seq(Item)
  PROVE  /\ LeaseFrames \in Seq(St) /\ Len(LeaseFrames) = Len(ring)
         /\ DOMAIN LeaseFrames = DOMAIN ring
         /\ \A i \in DOMAIN ring : LeaseFrames[i] = ring[i].st
<1>1. Len(ring) \in Nat /\ DOMAIN ring = 1..Len(ring) /\ \A i \in DOMAIN ring : ring[i] \in Item
  BY RingFacts
<1>2. LeaseFrames \in [1..Len(ring) -> St]
  BY <1>1 DEF LeaseFrames, Item, St
<1>3. LeaseFrames \in Seq(St) /\ Len(LeaseFrames) = Len(ring)
  BY <1>1, <1>2
<1> QED
  BY <1>1, <1>3 DEF LeaseFrames

LEMMA FramesSeqNext ==
  ASSUME ring' \in Seq(Item)
  PROVE  /\ LeaseFrames' \in Seq(St) /\ Len(LeaseFrames') = Len(ring')
         /\ DOMAIN LeaseFrames' = DOMAIN ring'
         /\ \A i \in DOMAIN ring' : LeaseFrames'[i] = ring'[i].st
<1>1. /\ Len(ring') \in Nat /\ DOMAIN ring' = 1..Len(ring')
      /\ \A i \in DOMAIN ring' : ring'[i] \in Item
  BY LenProperties, ElementOfSeq
<1>2. LeaseFrames' \in [1..Len(ring') -> St]
  BY <1>1 DEF LeaseFrames, Item, St
<1>3. LeaseFrames' \in Seq(St) /\ Len(LeaseFrames') = Len(ring')
  BY <1>1, <1>2
<1> QED
  BY <1>1, <1>3 DEF LeaseFrames

(* A status that the reader writes is what the lender sees. *)
LEMMA LentSet ==
  ASSUME ring \in Seq(Item), NEW i \in DOMAIN ring, NEW v \in {"held", "done", "lost"},
         ring' = [ring EXCEPT ![i].st = v]
  PROVE  LeaseFrames' = [LeaseFrames EXCEPT ![i] = v]
<1>1. /\ DOMAIN ring' = DOMAIN ring
      /\ \A j \in DOMAIN ring : ring'[j].st = IF j = i THEN v ELSE ring[j].st
  BY SetState
<1> QED
  BY <1>1 DEF LeaseFrames

LEMMA LentAppend ==
  ASSUME ring \in Seq(Item), NEW x \in Item, x.st = "unread", ring' = Append(ring, x)
  PROVE  LeaseFrames' = Append(LeaseFrames, "unread")
<1>1. /\ ring' \in Seq(Item) /\ Len(ring') = Len(ring) + 1 /\ ring'[Len(ring) + 1] = x
      /\ \A j \in 1..Len(ring) : ring'[j] = ring[j]
  BY AppendProperties
<1>2. Len(ring) \in Nat /\ DOMAIN ring = 1..Len(ring) /\ DOMAIN ring' = 1..Len(ring) + 1
  BY <1>1, RingFacts, LenProperties
<1> DEFINE a == LeaseFrames'
           b == Append(LeaseFrames, "unread")
<1>3. a \in Seq(St) /\ Len(a) = Len(ring) + 1 /\ \A i \in 1..Len(ring) + 1 : a[i] = ring'[i].st
  BY <1>1, <1>2, FramesSeqNext
<1>4. "unread" \in St /\ LeaseFrames \in Seq(St) /\ Len(LeaseFrames) = Len(ring)
      /\ \A i \in 1..Len(ring) : LeaseFrames[i] = ring[i].st
  BY <1>2, FramesSeq DEF St
<1>5. b \in Seq(St) /\ Len(b) = Len(ring) + 1 /\ b[Len(ring) + 1] = "unread"
      /\ \A i \in 1..Len(ring) : b[i] = LeaseFrames[i]
  BY <1>4, AppendProperties
<1> HIDE DEF a, b
<1>6. \A i \in 1..Len(ring) + 1 : a[i] = b[i]
  BY <1>1, <1>2, <1>3, <1>4, <1>5
<1>7. a = b
  BY <1>3, <1>5, <1>6, SeqEqual
<1> QED
  BY <1>7 DEF a, b

LEMMA LentTail ==
  ASSUME ring \in Seq(Item), ring /= <<>>, Head(ring).st = "done", ring' = Tail(ring)
  PROVE  /\ LeaseFrames /= <<>> /\ Head(LeaseFrames) = "done"
         /\ LeaseFrames' = Tail(LeaseFrames)
<1>1. /\ ring' \in Seq(Item) /\ Len(ring') = Len(ring) - 1
      /\ \A j \in DOMAIN ring' : j + 1 \in DOMAIN ring /\ ring'[j] = ring[j + 1]
  BY DropItem
<1>2. Len(ring) \in Nat /\ DOMAIN ring = 1..Len(ring) /\ DOMAIN ring' = 1..Len(ring) - 1
  BY <1>1, RingFacts, LenProperties
<1>3. Len(ring) > 0
  BY <1>2, EmptySeq
<1>4. LeaseFrames \in Seq(St) /\ Len(LeaseFrames) = Len(ring)
      /\ \A i \in 1..Len(ring) : LeaseFrames[i] = ring[i].st
  BY <1>2, FramesSeq
<1>5. LeaseFrames /= <<>>
  BY <1>3, <1>4, EmptySeq
<1>6. Head(LeaseFrames) = "done"
  BY <1>2, <1>3, <1>4, <1>5
<1> DEFINE a == LeaseFrames'
           b == Tail(LeaseFrames)
<1>7. a \in Seq(St) /\ Len(a) = Len(ring) - 1 /\ \A i \in 1..Len(ring) - 1 : a[i] = ring'[i].st
  BY <1>1, <1>2, FramesSeqNext
<1>8. b \in Seq(St) /\ Len(b) = Len(ring) - 1
      /\ \A i \in 1..Len(ring) - 1 : b[i] = LeaseFrames[i + 1]
  BY <1>4, <1>5, HeadTailProperties
<1> HIDE DEF a, b
<1>9. \A i \in 1..Len(ring) - 1 : a[i] = b[i]
  BY <1>1, <1>2, <1>4, <1>7, <1>8
<1>10. a = b
  BY <1>7, <1>8, <1>9, SeqEqual
<1> QED
  BY <1>5, <1>6, <1>10 DEF a, b

LEMMA StepLeases ==
  ASSUME IInv, [ReaderNext]_vars
  PROVE  [Lender!LeaseNext]_(Lender!vars)
<1> USE DEF Lender!LeaseNext, Lender!vars
<1>0. ring \in Seq(Item) /\ UNCHANGED ring_size
  BY DEF IInv, ReaderTypeOK, ReaderNext, Reader, BigCore, Poll, GetTarget, Check, Snapshot,
     Send, ReadDone, Submit, SkipFrame, Restart, Release, vars, writerVars
<1>1. CASE UNCHANGED ring
  BY <1>0, <1>1 DEF LeaseFrames
<1>2. CASE Poll /\ TakeItem /\ Avail <= Entries
  <2>1. PICK i \in Unread : /\ \A j \in Unread : i <= j
                            /\ ring' = [ring EXCEPT ![i].st = "held"]
    BY <1>2 DEF TakeItem
  <2>2. i \in DOMAIN ring /\ LeaseFrames' = [LeaseFrames EXCEPT ![i] = "held"]
    BY <1>0, <2>1, LentSet DEF Unread
  <2>3. DOMAIN LeaseFrames = DOMAIN ring /\ \A j \in DOMAIN ring : LeaseFrames[j] = ring[j].st
    BY <1>0, FramesSeq
  <2>4. Lender!Backlog = Unread
    BY <2>3 DEF Lender!Backlog, Unread
  <2>5. \A j \in DOMAIN LeaseFrames : LeaseFrames[j] /= "held"
    BY <1>2, <2>3 DEF Poll, IInv, ReaderTypeOK, Held
  <2>6. Lender!Cardinality(Lender!Backlog) <= Entries
    <3>1. Lender!Cardinality(Unread) = Cardinality(Unread)
      BY DEF Lender!Cardinality, Cardinality
    <3> QED
      BY <1>2, <2>4, <3>1 DEF Avail
  <2>7. Lender!Lease
    BY <2>1, <2>2, <2>4, <2>5, <2>6 DEF Lender!Lease
  <2> QED
    BY <1>0, <2>7
<1>3. CASE ReadDone
  <2>1. PICK v \in {"done", "lost"} : ring' = [ring EXCEPT ![held].st = v]
    BY <1>3 DEF ReadDone
  <2>2. held \in Held /\ held \in DOMAIN ring
    BY <1>3, InHand DEF ReadDone
  <2>3. LeaseFrames' = [LeaseFrames EXCEPT ![held] = v]
    BY <1>0, <2>1, <2>2, LentSet
  <2>4. held \in DOMAIN LeaseFrames /\ LeaseFrames[held] = "held"
    BY <1>0, <2>2, FramesSeq DEF Held
  <2>5. Lender!Return \/ Lender!Lose
    BY <2>3, <2>4 DEF Lender!Return, Lender!Lose
  <2> QED
    BY <1>0, <2>5
<1>4. CASE Submit
  <2>1. PICK k \in {"plain", "flagged", "invalid"} :
          ring' = Append(ring, [seq |-> next_seq, life |-> restarts, kind |-> k, st |-> "unread"])
    BY <1>4 DEF Submit
  <2>2. [seq |-> next_seq, life |-> restarts, kind |-> k, st |-> "unread"] \in Item
    BY <1>4 DEF IInv, ReaderTypeOK, Submit, Item
  <2>3. LeaseFrames' = Append(LeaseFrames, "unread")
    BY <1>0, <2>1, <2>2, LentAppend
  <2>4. Len(LeaseFrames) < ring_size
    BY <1>0, <1>4, FramesSeq DEF Submit
  <2>5. Lender!Submit
    BY <2>3, <2>4 DEF Lender!Submit
  <2> QED
    BY <1>0, <2>5
<1>5. CASE Release
  <2>1. LeaseFrames /= <<>> /\ Head(LeaseFrames) = "done" /\ LeaseFrames' = Tail(LeaseFrames)
    BY <1>0, <1>5, LentTail DEF Release
  <2>2. Lender!Release
    BY <2>1 DEF Lender!Release
  <2> QED
    BY <1>0, <2>2
<1>6. CASE \/ Poll /\ UNCHANGED ring
           \/ GetTarget \/ Check \/ Snapshot \/ Send \/ SkipFrame \/ Restart \/ UNCHANGED vars
  BY <1>1, <1>6 DEF GetTarget, Check, Snapshot, Send, SkipFrame, Restart, vars
<1>7. Poll => (TakeItem /\ Avail <= Entries) \/ UNCHANGED ring
  BY DEF Poll
<1> QED
  BY <1>2, <1>3, <1>4, <1>5, <1>6, <1>7 DEF ReaderNext, Reader, BigCore

LEMMA InitLeases == ReaderInit => Lender!LeaseInit
BY DEF ReaderInit, Lender!LeaseInit, LeaseFrames

(* What the lease promises, its fairness left out. *)
KeepsLease == Lender!LeaseInit /\ [][Lender!LeaseNext]_(Lender!vars)

(* The loop around nalu_datafifo_read and nalu_datafifo_read_done takes    *)
(* one item at a time, the oldest, never from a backlog above its limit,   *)
(* and gives each back, or loses it with a failing READ_DONE, before it    *)
(* takes the next; the big core reuses only what was given back.           *)
THEOREM LeaseKept == ReaderSpec => KeepsLease
<1>1. IInv /\ [ReaderNext]_vars => [Lender!LeaseNext]_(Lender!vars)
  BY StepLeases
<1> QED
  BY Invariance, InitLeases, <1>1, PTL DEF ReaderSpec, KeepsLease
===============================================================================
