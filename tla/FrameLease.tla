------------------------------ MODULE FrameLease ------------------------------
(***************************************************************************)
(* What the two cores promise each other about encoded frames.  The big    *)
(* core lends frames in order; the little core holds one at a time and     *)
(* returns it; only a returned frame's buffer goes back to the encoder.    *)
(* A return that fails is a frame the big core never gets back; from a     *)
(* backlog beyond its limit the little core takes nothing.                 *)
(***************************************************************************)
EXTENDS Naturals, Sequences, FiniteSets

CONSTANT Limit  \* the longest backlog the little core reads from

VARIABLES
  capacity,     \* frames that can be on loan or waiting
  frames        \* the state of each frame lent, oldest first

vars == <<capacity, frames>>

Backlog == {i \in DOMAIN frames : frames[i] = "unread"}

LeaseInit == capacity \in Nat \ {0} /\ frames = <<>>

Submit == Len(frames) < capacity /\ frames' = Append(frames, "unread")

(* The oldest unread frame, when no other frame is held. *)
Lease ==
  /\ \A i \in DOMAIN frames : frames[i] /= "held"
  /\ Cardinality(Backlog) <= Limit
  /\ \E i \in Backlog :
       /\ \A j \in Backlog : i <= j
       /\ frames' = [frames EXCEPT ![i] = "held"]

Return == \E i \in DOMAIN frames :
            frames[i] = "held" /\ frames' = [frames EXCEPT ![i] = "done"]

Lose == \E i \in DOMAIN frames :
          frames[i] = "held" /\ frames' = [frames EXCEPT ![i] = "lost"]

Release == frames /= <<>> /\ Head(frames) = "done" /\ frames' = Tail(frames)

LeaseNext == UNCHANGED capacity /\ (Submit \/ Lease \/ Return \/ Lose \/ Release)

LeaseSpec ==
  /\ LeaseInit /\ [][LeaseNext]_vars
  /\ WF_frames(Lease) /\ WF_frames(Return \/ Lose) /\ WF_frames(Release)
===============================================================================
