---------------------------- MODULE TimerService ----------------------------
(***************************************************************************)
(* The timer queue driven by an arbitrary kernel: calls of the operations  *)
(* of timers.h, from kernel code and from the timer functions themselves,  *)
(* interleaved with the hardware and the interrupt handler.  Kernel code   *)
(* runs with interrupts disabled, so a call is one step; it cannot come    *)
(* between two steps of the handler unless a timer function makes it.      *)
(***************************************************************************)
EXTENDS Timers

CONSTANTS
    Deadline,   \* the deadlines passed to timer_register_absolute
    TimerDelay  \* the delays passed to timer_register_relative

ASSUME TimerServiceAssumption ==
    /\ Deadline \subseteq Time
    /\ TimerDelay \subseteq Nat

CanCall == ~in_isr \/ firing # NULL

\* Callers register a timer only when it is not registered: timers.h stores
\* the deadline before timer_register finds out that the timer is queued.
RegisterAbsolute(t, at) ==
    /\ CanCall
    /\ ~timer_is_registered(t)
    /\ timer_register_absolute(t, at)
    /\ UNCHANGED <<pending, tsc, in_isr, firing>>

RegisterRelative(t, delay) ==
    /\ CanCall
    /\ ~timer_is_registered(t)
    /\ timer_register_relative(t, delay)
    /\ UNCHANGED <<pending, tsc, in_isr, firing>>

Unregister(t) ==
    /\ CanCall
    /\ timer_unregister(t)
    /\ UNCHANGED <<pending, tsc, in_isr, firing>>

Call(t) ==
    \/ \E at \in Deadline : RegisterAbsolute(t, at)
    \/ \E delay \in TimerDelay : RegisterRelative(t, delay)
    \/ Unregister(t)

TimersNext ==
    \/ \E t \in Timer : Call(t)
    \/ Tick
    \/ DeadlineExpires
    \/ IsrEnter
    \/ IsrDrained
    \/ IsrNotDue
    \/ IsrFire
    \/ IsrFuncReturn

TimersSpec == TimersInit /\ [][TimersNext]_timerVars

\* The counter counts, the hardware delivers, the handler runs on, a timer
\* function returns.  Nothing is assumed of the callers.
TimersFairness ==
    /\ WF_timerVars(Tick)
    /\ WF_timerVars(DeadlineExpires)
    /\ WF_timerVars(IsrEnter)
    /\ WF_timerVars(IsrLoop)
    /\ WF_timerVars(IsrFuncReturn)

TimersFairSpec == TimersSpec /\ TimersFairness
-----------------------------------------------------------------------------
\* Timers with equal deadlines fire in the order of their registration: a
\* registration goes behind every timer due no later and in front of every
\* other, and no call or interrupt exchanges two registered timers.
FifoStep ==
    /\ \A a, b \in ToSet(timers) \cap ToSet(timers') :
            Before(timers, a, b) => Before(timers', a, b)
    /\ \A a \in ToSet(timers), b \in ToSet(timers') \ ToSet(timers) :
            (a \in ToSet(timers') /\ when'[a] = when'[b]) => Before(timers', a, b)

FifoAmongEqualDeadlines == [][FifoStep]_timerVars

\* The queue is an alarm clock: the handler never runs a timer's function
\* before its deadline, never runs a later one first, and never runs one
\* that was unregistered.
Clock == INSTANCE AlarmClock WITH armed <- ToSet(timers)

IsAlarmClock == Clock!Spec

\* A timer whose time has come is run, or unregistered, or stays behind timers
\* with earlier deadlines: neither callers that keep changing the queue nor
\* functions that register themselves again for now can hold it back.
IsOvertaken(t) == \E u \in ToSet(timers) : when[u] < when[t]

DueTimerFires ==
    \A t \in Timer :
        (timer_is_registered(t) /\ 0 < when[t] /\ when[t] <= tsc)
            ~> (~timer_is_registered(t) \/ IsOvertaken(t))
=============================================================================
