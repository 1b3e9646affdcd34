---------------------------- MODULE MCScheduler ----------------------------
(* Instances of Scheduler for TLC. *)
EXTENDS Scheduler

CONSTANTS idle, a, b, c

MCFourTasks == {idle, a, b, c}

\* 0 is due at once, 2 is not.
MCDelays == {0, 2}
=============================================================================
