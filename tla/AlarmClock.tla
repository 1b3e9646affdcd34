----------------------------- MODULE AlarmClock -----------------------------
(***************************************************************************)
(* What the timer queue promises, without its list, its hardware or its    *)
(* interrupt: a set of armed timers, of which one rings only when it is    *)
(* due and no other armed timer is due before it, one function at a time.  *)
(***************************************************************************)
EXTENDS Naturals

CONSTANTS Timer, NULL, Word, MaxTsc

VARIABLES armed, when, tsc, firing

clockVars == <<armed, when, tsc, firing>>

Init ==
    /\ armed = {}
    /\ when = [t \in Timer |-> 0]
    /\ tsc = 1
    /\ firing = NULL

Arm(t, at) ==
    /\ t \notin armed
    /\ armed' = armed \cup {t}
    /\ when' = [when EXCEPT ![t] = at]
    /\ UNCHANGED <<tsc, firing>>

Disarm(t) ==
    /\ armed' = armed \ {t}
    /\ UNCHANGED <<when, tsc, firing>>

Ring(t) ==
    /\ firing = NULL
    /\ t \in armed
    /\ when[t] <= tsc
    /\ \A u \in armed : when[t] <= when[u]
    /\ armed' = armed \ {t}
    /\ firing' = t
    /\ UNCHANGED <<when, tsc>>

Done ==
    /\ firing # NULL
    /\ firing' = NULL
    /\ UNCHANGED <<armed, when, tsc>>

Tick ==
    /\ tsc < MaxTsc
    /\ tsc' = tsc + 1
    /\ UNCHANGED <<armed, when, firing>>

Next ==
    \/ \E t \in Timer : Disarm(t) \/ Ring(t)
    \/ \E t \in Timer, at \in 0 .. Word - 1 : Arm(t, at)
    \/ Done
    \/ Tick

Spec == Init /\ [][Next]_clockVars
=============================================================================
