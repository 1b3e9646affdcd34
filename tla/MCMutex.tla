------------------------------ MODULE MCMutex ------------------------------
(* Instances of Mutex for TLC. *)
EXTENDS Mutex

CONSTANTS idle, a, b, c

MCTasks == {idle, a, b, c}

\* A sleep that is over at the next interrupt, for the clock does not have to
\* advance.
MCDelays == {0}
=============================================================================
