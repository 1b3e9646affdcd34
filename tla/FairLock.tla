------------------------------ MODULE FairLock ------------------------------
(***************************************************************************)
(* What a mutex promises: one owner, which may lock it again; tasks that   *)
(* find it taken queue up, and get it in that order.                       *)
(***************************************************************************)
EXTENDS Naturals, Sequences

CONSTANTS Task, NULL

VARIABLES owner, depth, queue

lockVars == <<owner, depth, queue>>

Init ==
    /\ owner = NULL
    /\ depth = 0
    /\ queue = <<>>

Acquire(t) ==
    /\ owner = NULL
    /\ queue = <<>>
    /\ owner' = t
    /\ depth' = 1
    /\ UNCHANGED queue

Reenter ==
    /\ owner # NULL
    /\ depth' = depth + 1
    /\ UNCHANGED <<owner, queue>>

Wait(t) ==
    /\ owner \notin {NULL, t}
    /\ \A i \in 1 .. Len(queue) : queue[i] # t
    /\ queue' = Append(queue, t)
    /\ UNCHANGED <<owner, depth>>

Release ==
    /\ owner # NULL
    /\ depth' = depth - 1
    /\ owner' = IF depth' = 0 THEN NULL ELSE owner
    /\ UNCHANGED queue

Grant ==
    /\ owner = NULL
    /\ queue # <<>>
    /\ owner' = Head(queue)
    /\ depth' = 1
    /\ queue' = Tail(queue)

Next ==
    \/ \E t \in Task : Acquire(t) \/ Wait(t)
    \/ Reenter
    \/ Release
    \/ Grant

Spec == Init /\ [][Next]_lockVars
=============================================================================
