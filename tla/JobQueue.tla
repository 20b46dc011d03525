------------------------------- MODULE JobQueue -------------------------------
(***************************************************************************)
(* What snapshot_writer.h offers: while it is open, a bounded queue whose  *)
(* jobs are worked on in the order they were accepted, one at a time.      *)
(* Closing it accepts no more jobs but loses none, and it opens again only *)
(* when everything accepted before is finished.  Only the death of the     *)
(* process loses jobs.                                                     *)
(***************************************************************************)
EXTENDS Naturals, Sequences

CONSTANTS Jobs, NoJob, Capacity

VARIABLES open, waiting, working
jobVars == <<open, waiting, working>>

QueueInit == open = FALSE /\ waiting = <<>> /\ working = NoJob

Open ==
  /\ ~open /\ waiting = <<>> /\ working = NoJob
  /\ open' = TRUE /\ UNCHANGED <<waiting, working>>

Accept ==
  /\ open /\ Len(waiting) < Capacity
  /\ \E j \in Jobs : waiting' = Append(waiting, j)
  /\ UNCHANGED <<open, working>>

Begin ==
  /\ working = NoJob /\ waiting /= <<>>
  /\ working' = Head(waiting) /\ waiting' = Tail(waiting)
  /\ UNCHANGED open

Finish == working /= NoJob /\ working' = NoJob /\ UNCHANGED <<open, waiting>>

Shut == open /\ open' = FALSE /\ UNCHANGED <<waiting, working>>

Die == open' = FALSE /\ waiting' = <<>> /\ working' = NoJob

QueueNext == Open \/ Accept \/ Begin \/ Finish \/ Shut \/ Die

QueueSpec ==
  QueueInit /\ [][QueueNext]_jobVars /\ WF_jobVars(Begin) /\ WF_jobVars(Finish)
===============================================================================
