--------------------------- MODULE MCTimerService ---------------------------
(* Instances of TimerService for TLC. *)
EXTENDS TimerService

CONSTANTS t1, t2, t3

MCTimers == {t1, t2, t3}

\* A word so small that now() + delay wraps; delays 0, 1 and one that
\* wraps to 0 and to the past; absolute deadlines 0 (disarms) and ordinary.
MCDeadlines == {0, 2, 3}
MCDelays == {0, 1, 3}
=============================================================================
