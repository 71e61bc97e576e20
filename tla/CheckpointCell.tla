---------------------------- MODULE CheckpointCell ----------------------------
(***************************************************************************)
(* What the rolling checkpoint is to one process at a time: a cell that a  *)
(* run takes its cursor from, and that a write either replaces by the      *)
(* run's own progress or leaves as it is.                                  *)
(***************************************************************************)
EXTENDS Integers

VARIABLES
  persisted,  \* the checkpoint: [status, last]
  cursor,     \* the last completed page of the live run; 0 when none is live
  live        \* whether a run is live

vars == <<persisted, cursor, live>>

Missing == [status |-> "missing", last |-> 0]

Init == persisted = Missing /\ cursor = 0 /\ live = FALSE

\* A write replaces what is persisted, or is lost.
Write(c) == persisted' \in {persisted, c}

\* An unfinished pass is resumed behind its last page, any other starts over.
Start ==
  /\ ~live /\ live' = TRUE
  /\ cursor' = IF persisted.status = "running" THEN persisted.last ELSE 0
  /\ UNCHANGED persisted

\* A page has been gathered and is checkpointed.
CompletePage ==
  /\ live /\ live' = TRUE
  /\ cursor' = cursor + 1
  /\ Write([status |-> "running", last |-> cursor + 1])

\* The run concludes, stops short or dies.
End ==
  /\ live /\ live' = FALSE
  /\ cursor' = 0
  /\ Write([status |-> "complete", last |-> cursor])

Next == Start \/ CompletePage \/ End

Spec == Init /\ [][Next]_vars
=============================================================================
