------------------------------- MODULE Mutex -------------------------------
(***************************************************************************)
(* One mutex_t of lib/mutex.c and the tasks of the scheduler that lock it. *)
(* mutex_lock gives the CPU away in its middle, so it is two steps for a   *)
(* task that waits; everything else of a call runs with interrupts         *)
(* disabled and is one step.                                               *)
(***************************************************************************)
EXTENDS Scheduler

CONSTANTS
    NestWord,   \* uint32_t arithmetic is modulo NestWord
    Barging     \* whether tasks lock a free mutex that others wait for

ASSUME MutexAssumption ==
    /\ NestWord \in Nat
    /\ 1 < NestWord
    /\ Barging \in BOOLEAN

VARIABLES
    locker,     \* mutex_t.locker
    nesting,    \* mutex_t.nesting
    waiters,    \* mutex_t.waiters, as the sequence of the waiting tasks
    holds,      \* how many calls of mutex_lock returned to each task, less
                \* its calls of mutex_unlock: what the tasks know
    panicked    \* a PANIC_IF of mutex.c froze the system

mutexVars == <<locker, nesting, waiters, holds, panicked>>
mvars == <<vars, mutexVars>>

Waiting == ToSet(waiters)

\* mutex_init.
MutexInit ==
    /\ Init
    /\ locker = NULL
    /\ nesting = 0
    /\ waiters = <<>>
    /\ holds = [t \in Task |-> 0]
    /\ panicked = FALSE
-----------------------------------------------------------------------------
(* mutex_lock. *)

\* The end of mutex_lock: ++nesting, PANIC_IF it wrapped to 0, return.
Lock(t) ==
    /\ locker' = t
    /\ nesting' = (nesting + 1) % NestWord
    /\ panicked' = (nesting' = 0)
    /\ holds' = [holds EXCEPT ![t] = @ + 1]

\* A slip: locking again does not count.
MutexReenter_NoCount(t) ==
    /\ locker = t
    /\ holds' = [holds EXCEPT ![t] = @ + 1]
    /\ UNCHANGED <<vars, locker, nesting, waiters, panicked>>

\* The locker locks again.
MutexReenter(t) ==
    /\ locker = t
    /\ Lock(t)
    /\ UNCHANGED <<vars, waiters>>

\* The mutex is free.  Without Barging a task does not lock it in the time
\* from an unlock that woke a waiter to the waiter's return.
MutexTake(t) ==
    /\ locker = NULL
    /\ Barging \/ waiters = <<>>
    /\ Lock(t)
    /\ UNCHANGED <<vars, waiters>>

\* A slip: the task queues up but keeps running, as unschedule_task would
\* let it.
MutexWait_NoSwitch(t) ==
    /\ locker \notin {NULL, t}
    /\ waiters' = Append(waiters, t)
    /\ unschedule_task(t)
    /\ UNCHANGED <<timerVars, current_task, bootVars, idle_pc,
                   locker, nesting, holds, panicked>>

\* Another task has it: queue up and give the CPU away.
MutexWait(t) ==
    /\ locker \notin {NULL, t}
    /\ waiters' = list_insert_before(waiters, EndOf(waiters), t)
    /\ unschedule
    /\ UNCHANGED <<timerVars, bootVars, idle_pc, locker, nesting, holds, panicked>>

\* unschedule() returns: the waiter takes the mutex, whatever happened to it
\* since.
MutexWaitReturns(t) ==
    /\ waiters' = list_remove(waiters, t)
    /\ Lock(t)
    /\ UNCHANGED vars
-----------------------------------------------------------------------------
(* mutex_unlock. *)

Wakeup(t) ==
    /\ schedule_task(t)
    /\ UNCHANGED <<timerVars, current_task, bootVars, idle_pc>>

Unlock(t) ==
    /\ locker = t
    /\ nesting # 0
    /\ nesting' = nesting - 1
    /\ locker' = IF nesting' = 0 THEN NULL ELSE t
    /\ holds' = [holds EXCEPT ![t] = @ - 1]
    /\ UNCHANGED <<waiters, panicked>>

UnlockPanics(t) ==
    /\ locker # t \/ nesting = 0
    /\ panicked' = TRUE
    /\ UNCHANGED <<vars, locker, nesting, waiters, holds>>

\* Slips of mutex_unlock: nobody is woken; the last waiter is woken; a
\* waiter is woken at every level of nesting.
MutexUnlock_NoWake(t) == UnlockPanics(t) \/ (Unlock(t) /\ UNCHANGED vars)
MutexUnlock_WakeLast(t) ==
    \/ UnlockPanics(t)
    \/ /\ Unlock(t)
       /\ IF nesting' = 0 /\ waiters # <<>>
          THEN Wakeup(Last(waiters)) ELSE UNCHANGED vars
MutexUnlock_EveryLevel(t) ==
    \/ UnlockPanics(t)
    \/ /\ Unlock(t)
       /\ IF waiters # <<>>
          THEN Wakeup(Head(waiters)) ELSE UNCHANGED vars

\* The outermost unlock frees the mutex and wakes the first waiter, which
\* stays on the list until it runs.
MutexUnlock(t) ==
    \/ UnlockPanics(t)
    \/ /\ Unlock(t)
       /\ IF nesting' = 0 /\ waiters # <<>>
          THEN Wakeup(Head(waiters)) ELSE UNCHANGED vars
-----------------------------------------------------------------------------
(* The kernel around the mutex. *)

\* A task unlocks what it locked, and leaves alone the tasks that wait.
MutexTaskStep(t) ==
    /\ t # Idle
    /\ Runs(t)
    /\ IF t \in Waiting
       THEN MutexWaitReturns(t)
       ELSE \/ MutexReenter(t)
            \/ MutexTake(t)
            \/ MutexWait(t)
            \/ (holds[t] > 0 /\ MutexUnlock(t))

OtherTaskStep(t) ==
    /\ t \notin Waiting \cup {Idle}
    /\ Runs(t)
    /\ Switch(t) \/ \E u \in Task \ Waiting : CallOn(u)
    /\ UNCHANGED mutexVars

\* Boot, idle, the interrupt handler and the hardware.
SystemStep ==
    /\ \/ SchedulerCtor
       \/ \E t \in Task : SpawnAtBoot(t)
       \/ scheduler_start
       \/ IdleGiveup \/ IdleTest \/ IdleCli
       \/ TimerInterrupt \/ HandlerLoop \/ TimerCallback
       \/ Hardware
    /\ UNCHANGED mutexVars

MutexNext ==
    /\ ~panicked
    /\ \/ SystemStep
       \/ \E t \in Task : OtherTaskStep(t) \/ MutexTaskStep(t)

MutexSpec == MutexInit /\ [][MutexNext]_mvars

\* As in Scheduler; and a waiter that is dispatched runs on.
MutexFairness ==
    /\ WF_mvars(~panicked /\ SchedulerCtor /\ UNCHANGED mutexVars)
    /\ WF_mvars(~panicked /\ scheduler_start /\ UNCHANGED mutexVars)
    /\ WF_mvars(~panicked /\ (IdleGiveup \/ IdleTest \/ IdleCli) /\ UNCHANGED mutexVars)
    /\ \A t \in Task \ {Idle} :
        /\ WF_mvars(~panicked /\ Runs(t) /\ t \in Waiting /\ MutexWaitReturns(t))
        /\ WF_mvars(~panicked /\ Runs(t) /\ t \notin Waiting /\ Switch(t)
                              /\ UNCHANGED mutexVars)

MutexFairSpec == MutexSpec /\ MutexFairness
-----------------------------------------------------------------------------
MutexTypeOK ==
    /\ locker \in Task \cup {NULL}
    /\ nesting \in 0 .. NestWord - 1
    /\ waiters \in Seq(Task)
    /\ holds \in [Task -> Nat]
    /\ panicked \in BOOLEAN

\* Only the locker is between a mutex_lock that returned and its unlock, and
\* nesting counts its calls: no two tasks are ever inside the mutex.
MutualExclusion ==
    ~panicked => \A t \in Task : holds[t] = IF locker = t THEN nesting ELSE 0

\* The wakeup of a free mutex is never lost, barging or not: when it is free
\* and tasks wait, the first of them is on the run queue; the others are not.
WakeupNotLost ==
    /\ locker = NULL /\ waiters # <<>> => Head(waiters) \in Queued
    /\ \A t \in Waiting : t \in Queued => t = Head(waiters)

\* A waiter is on the run queue exactly while the mutex is free and it is the
\* waiter's turn: the task that returns from unschedule() finds it free.
HandoverSound ==
    \A t \in Waiting :
        t \in Queued <=> locker = NULL /\ t = Head(waiters)

\* What is true at every moment of the three variables of the mutex and the
\* tasks that wait.
MutexInvariant == MutexTypeOK /\ HandoverSound /\ WakeupNotLost

\* No PANIC_IF of mutex.c fires for tasks that unlock only what they locked
\* (and lock it less than 2^32 times).
NeverPanics == (\A t \in Task : holds[t] < NestWord) => ~panicked

\* The mutex is a fair lock.
FLock == INSTANCE FairLock WITH owner <- locker, depth <- nesting, queue <- waiters

IsFairLock == [][~panicked' => [FLock!Next]_(FLock!lockVars)]_mvars

\* Locking uses the scheduler as its other callers do, so what holds of the
\* scheduler holds with mutexes too.
IsScheduler == Spec

\* If every task that locks the mutex unlocks it in the end, every task that
\* waits for it gets it.
WaitersLock ==
    (\A h \in Task \ {Idle} : (holds[h] > 0) ~> (holds[h] = 0)) =>
        \A t \in Task \ {Idle} : (t \in Waiting) ~> (holds[t] > 0)
=============================================================================
