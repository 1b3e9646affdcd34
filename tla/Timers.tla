------------------------------- MODULE Timers -------------------------------
(***************************************************************************)
(* The kernel's timer queue (lib/timers.c, include/timers.h) on the local  *)
(* APIC's TSC-deadline timer (drivers/timers/apic.c).  The module has the  *)
(* state and the operations; TimerService drives them from an arbitrary    *)
(* kernel, Scheduler from the task scheduler.  A timer's func and arg are  *)
(* never changed after timer_init, so a timer is identified with them.     *)
(***************************************************************************)
EXTENDS Lists

CONSTANTS
    Timer,      \* the timer_t objects
    NULL,       \* the null pointer: no timer, no task
    Word,       \* uint64_t arithmetic is modulo Word
    MaxTsc      \* bound: the time stamp counter stops here

ASSUME TimersAssumption ==
    /\ NULL \notin Timer
    /\ Word \in Nat
    /\ MaxTsc \in Nat
    /\ 1 <= MaxTsc
    /\ MaxTsc < Word

VARIABLES
    timers,     \* static list_t timers, as a sequence
    when,       \* timer_t.when of every timer
    deadline,   \* IA32_TSC_DEADLINE (MSR 0x6E0); 0 is disarmed
    pending,    \* the timer's vector is pending in the local APIC
    tsc,        \* the time stamp counter, read by now()
    in_isr,     \* inside timer_interrupt_entry_point
    firing      \* the timer whose func runs inside it, or NULL

timerVars == <<timers, when, deadline, pending, tsc, in_isr, firing>>

Time == 0 .. Word - 1

TimersTypeOK ==
    /\ timers \in Seq(Timer)
    /\ when \in [Timer -> Time]
    /\ deadline \in Time
    /\ pending \in BOOLEAN
    /\ tsc \in 1 .. MaxTsc
    /\ in_isr \in BOOLEAN
    /\ firing \in Timer \cup {NULL}

\* timer_init(.., 0, ..) of every timer; the counter runs since reset.
TimersInit ==
    /\ timers = <<>>
    /\ when = [t \in Timer |-> 0]
    /\ deadline = 0
    /\ pending = FALSE
    /\ tsc = 1
    /\ in_isr = FALSE
    /\ firing = NULL
-----------------------------------------------------------------------------
(* The backend and the hardware behind it. *)

\* apic_set_timer: the MSR takes the value, an interrupt that is already
\* pending stays pending.
timer_backend_set(value) == deadline' = value

\* Time passes, at any point of the kernel's execution.
Tick ==
    /\ tsc < MaxTsc
    /\ tsc' = tsc + 1
    /\ UNCHANGED <<timers, when, deadline, pending, in_isr, firing>>

\* The counter is at or past an armed deadline: the APIC disarms the timer
\* and makes its vector pending.
DeadlineExpires ==
    /\ deadline # 0
    /\ deadline <= tsc
    /\ pending' = TRUE
    /\ deadline' = 0
    /\ UNCHANGED <<timers, when, tsc, in_isr, firing>>
-----------------------------------------------------------------------------
(* The operations of timers.c and timers.h.  They set timers, when and     *)
(* deadline; their callers say what becomes of the rest.                   *)

timer_is_registered(t) == list_linked(timers, t)

\* A slip of timer_register's search: it stops at an equal deadline.
TimerPlaceBeforeEqual(s, w, t) == list_stop(s, LAMBDA u : w[t] <= w[u])

\* Where timer_register's loop stops: at the first timer that is due
\* strictly later than t.
TimerPlace(s, w, t) == list_stop(s, LAMBDA u : w[t] < w[u])

\* The body of timer_register; reads the deadline its caller just stored.
timer_register(t) ==
    \/ /\ timer_is_registered(t)
       /\ UNCHANGED <<timers, deadline>>
    \/ /\ ~timer_is_registered(t)
       /\ timers' = list_insert_before(timers, TimerPlace(timers, when', t), t)
       /\ timer_backend_set(when'[Head(timers')])

timer_register_absolute(t, at) ==
    /\ when' = [when EXCEPT ![t] = at]
    /\ timer_register(t)

\* now() + delay, in 64-bit arithmetic.
timer_register_relative(t, delay) ==
    timer_register_absolute(t, (tsc + delay) % Word)

\* A slip: the hardware keeps the deadline of the timer that is gone.
timer_unregister_NoRearm(t) ==
    /\ UNCHANGED <<when, deadline>>
    /\ timers' = list_remove(timers, t)

timer_unregister(t) ==
    /\ UNCHANGED when
    /\ \/ /\ ~timer_is_registered(t)
          /\ UNCHANGED <<timers, deadline>>
       \/ /\ timer_is_registered(t)
          /\ timers' = list_remove(timers, t)
          /\ timer_backend_set(IF timers' = <<>> THEN 0 ELSE when[Head(timers')])
-----------------------------------------------------------------------------
(* timer_interrupt_entry_point, one action per turn of its loop.  It runs  *)
(* with interrupts disabled, so only hardware and the timer functions it   *)
(* calls interleave with it.                                               *)

\* apic_timer_handler acknowledges the interrupt and enters the loop.
IsrEnter ==
    /\ pending
    /\ ~in_isr
    /\ pending' = FALSE
    /\ in_isr' = TRUE
    /\ UNCHANGED <<timers, when, deadline, tsc, firing>>

InLoop == in_isr /\ firing = NULL

\* The list is empty: disarm and return.
IsrDrained ==
    /\ InLoop
    /\ timers = <<>>
    /\ timer_backend_set(0)
    /\ in_isr' = FALSE
    /\ UNCHANGED <<timers, when, pending, tsc, firing>>

\* A slip: the handler returns without arming the hardware again.
IsrNotDue_NoRearm ==
    /\ InLoop
    /\ timers # <<>>
    /\ tsc < when[Head(timers)]
    /\ in_isr' = FALSE
    /\ UNCHANGED <<timers, when, deadline, pending, tsc, firing>>

\* The first timer is not due yet: arm the hardware for it and return.
IsrNotDue ==
    /\ InLoop
    /\ timers # <<>>
    /\ tsc < when[Head(timers)]
    /\ timer_backend_set(when[Head(timers)])
    /\ in_isr' = FALSE
    /\ UNCHANGED <<timers, when, pending, tsc, firing>>

\* A slip: the loop does not look at the time.
IsrFire_NoDueTest ==
    /\ InLoop
    /\ timers # <<>>
    /\ firing' = Head(timers)
    /\ timers' = list_remove(timers, Head(timers))
    /\ UNCHANGED <<when, deadline, pending, tsc, in_isr>>

\* The first timer is due: unlink it and call its function.
IsrFire ==
    /\ InLoop
    /\ timers # <<>>
    /\ ~(tsc < when[Head(timers)])
    /\ firing' = Head(timers)
    /\ timers' = list_remove(timers, Head(timers))
    /\ UNCHANGED <<when, deadline, pending, tsc, in_isr>>

\* The timer's function returns to the loop.
IsrFuncReturn ==
    /\ firing # NULL
    /\ firing' = NULL
    /\ UNCHANGED <<timers, when, deadline, pending, tsc, in_isr>>

IsrLoop == IsrDrained \/ IsrNotDue \/ IsrFire
-----------------------------------------------------------------------------
(* Properties of the queue, for every module that uses it. *)

\* The list holds a timer once and is ordered by deadline.  It is what lets
\* timer_interrupt_entry_point stop at the first timer that is not due, and
\* what timer_register's search relies on.
TimersSorted ==
    /\ NoDuplicates(timers)
    /\ \A i, j \in DOMAIN timers :
            i <= j => when[timers[i]] <= when[timers[j]]

\* Outside the handler the hardware is always set for the earliest timer, or
\* has fired for it already: no timer waits for an interrupt that will not
\* come.  A timer registered for time 0 is the exception, because writing 0
\* disarms the hardware; and no timer means no interrupt to come.
DeadlineArmed ==
    ~in_isr =>
        IF timers = <<>>
        THEN deadline = 0
        ELSE when[Head(timers)] # 0 => pending \/ deadline = when[Head(timers)]

\* What lib/timers.c keeps together whoever calls it and whenever the
\* interrupt comes: a well typed queue, its order, the hardware behind it.
TimersInvariant == TimersTypeOK /\ TimersSorted /\ DeadlineArmed
=============================================================================
