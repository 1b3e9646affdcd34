----------------------------- MODULE MCKvmClock ------------------------------
(* Counters faster and slower than the nanosecond.                          *)
EXTENDS KvmClock

MCCalibration == {<<16, 0>>, <<21, 0>>, <<31, 2>>, <<17, 1>>, <<27, -2>>, <<25, -1>>, <<31, 5>>}

\* The hypothesis of DelaysAreKept in KvmClockProofs holds here.
ASSUME AllNormalized == Normalized
==============================================================================
