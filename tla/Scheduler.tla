------------------------------ MODULE Scheduler ------------------------------
(***************************************************************************)
(* The cooperative scheduler of lib/scheduler.c with the timer queue it    *)
(* puts sleepers on.  Tasks run with interrupts disabled and switch only   *)
(* by calling giveup_cpu, unschedule or sleep_tsc; the idle task is the    *)
(* only code that enables interrupts, around its hlt.  So a call of a task *)
(* is one step, and the timer interrupt comes only while idle halts or in  *)
(* the few instructions from there to its cli.                             *)
(*                                                                         *)
(* A task is identified with the timer_t inside its task_t.                *)
(***************************************************************************)
EXTENDS Timers

CONSTANTS
    Idle,       \* the task created by the scheduler's constructor
    Delay       \* the durations passed to sleep_tsc

Task == Timer

ASSUME SchedulerAssumption ==
    /\ Idle \in Task
    /\ Delay \subseteq Nat

VARIABLES
    run_queue,          \* list_t run_queue, as a sequence
    tasks_in_run_queue, \* its counter
    current_task,
    scheduler_started,
    created,            \* the tasks create_kernel_task has returned
    idle_pc             \* where the idle task is in its loop

queueVars == <<run_queue, tasks_in_run_queue, current_task>>
bootVars == <<scheduler_started, created>>
schedVars == <<queueVars, bootVars, idle_pc>>
vars == <<timerVars, schedVars>>

\* idle() is about to run for the first time; before giveup_cpu; before the
\* test of tasks_in_run_queue; in hlt; after hlt with interrupts enabled.
IdlePc == {"entry", "giveup", "test", "halted", "woken"}

Init ==
    /\ TimersInit
    /\ run_queue = <<>>
    /\ tasks_in_run_queue = 0
    /\ current_task = NULL
    /\ scheduler_started = FALSE
    /\ created = {}
    /\ idle_pc = "entry"

Queued == ToSet(run_queue)
Asleep(t) == timer_is_registered(t) \/ firing = t
-----------------------------------------------------------------------------
(* The functions of scheduler.c. *)

\* A slip: list_insert_after puts the task in front.
schedule_task_Front(t) ==
    \/ /\ list_linked(run_queue, t)
       /\ UNCHANGED <<run_queue, tasks_in_run_queue>>
    \/ /\ ~list_linked(run_queue, t)
       /\ run_queue' = list_insert_before(run_queue, 1, t)
       /\ tasks_in_run_queue' = tasks_in_run_queue + 1

schedule_task(t) ==
    \/ /\ list_linked(run_queue, t)
       /\ UNCHANGED <<run_queue, tasks_in_run_queue>>
    \/ /\ ~list_linked(run_queue, t)
       /\ run_queue' = list_insert_before(run_queue, EndOf(run_queue), t)
       /\ tasks_in_run_queue' = tasks_in_run_queue + 1

\* A slip: no test that the task is queued.
unschedule_task_Unguarded(t) ==
    /\ run_queue' = list_remove(run_queue, t)
    /\ tasks_in_run_queue' = tasks_in_run_queue - 1

unschedule_task(t) ==
    \/ /\ ~list_linked(run_queue, t)
       /\ UNCHANGED <<run_queue, tasks_in_run_queue>>
    \/ /\ list_linked(run_queue, t)
       /\ run_queue' = list_remove(run_queue, t)
       /\ tasks_in_run_queue' = tasks_in_run_queue - 1

\* schedule() switches to the task next_task() finds first on the new queue.
schedule == current_task' = Head(run_queue')

\* A slip: the running task is not moved behind the others.
giveup_cpu_Stay == UNCHANGED <<run_queue, tasks_in_run_queue>> /\ schedule

giveup_cpu ==
    /\ run_queue' = LET q == list_remove(run_queue, current_task)
                    IN list_insert_before(q, EndOf(q), current_task)
    /\ UNCHANGED tasks_in_run_queue
    /\ schedule

unschedule ==
    /\ run_queue' = list_remove(run_queue, current_task)
    /\ tasks_in_run_queue' = tasks_in_run_queue - 1
    /\ schedule

\* Once the scheduler has started; before, sleep_tsc only spins.
sleep_tsc(delay) ==
    /\ timer_register_relative(current_task, delay)
    /\ unschedule

\* Slips of cancel_sleep: one of its two halves is missing.
cancel_sleep_NoUnregister(t) ==
    UNCHANGED <<timers, when, deadline>> /\ schedule_task(t)
cancel_sleep_NoSchedule(t) ==
    timer_unregister(t) /\ UNCHANGED <<run_queue, tasks_in_run_queue>>

cancel_sleep(t) ==
    /\ timer_unregister(t)
    /\ schedule_task(t)

create_kernel_task(t) ==
    /\ t \notin created
    /\ created' = created \cup {t}

start_kernel_task(t) ==
    /\ create_kernel_task(t)
    /\ schedule_task(t)
-----------------------------------------------------------------------------
(* Boot: the constructors run one after the other, then startup() calls    *)
(* scheduler_start, which jumps into current_task wherever it is queued.   *)

SchedulerCtor ==
    /\ ~scheduler_started
    /\ start_kernel_task(Idle)
    /\ current_task' = Idle
    /\ UNCHANGED <<timerVars, scheduler_started, idle_pc>>

\* Another constructor, before or after the scheduler's, starts a task.
SpawnAtBoot(t) ==
    /\ ~scheduler_started
    /\ t # Idle
    /\ start_kernel_task(t)
    /\ UNCHANGED <<timerVars, current_task, scheduler_started, idle_pc>>

scheduler_start ==
    /\ ~scheduler_started
    /\ Idle \in created
    /\ scheduler_started' = TRUE
    /\ UNCHANGED <<timerVars, queueVars, created, idle_pc>>
-----------------------------------------------------------------------------
(* The idle task. *)

Runs(t) == scheduler_started /\ current_task = t /\ ~in_isr

IdleGiveup ==
    /\ Runs(Idle)
    /\ idle_pc \in {"entry", "giveup"}
    /\ giveup_cpu
    /\ idle_pc' = "test"
    /\ UNCHANGED <<timerVars, bootVars>>

\* A slip: idle does not count itself.
IdleTest_OffByOne ==
    /\ Runs(Idle)
    /\ idle_pc = "test"
    /\ idle_pc' = IF tasks_in_run_queue <= 2 THEN "halted" ELSE "giveup"
    /\ UNCHANGED <<timerVars, queueVars, bootVars>>

\* sti takes effect after the following instruction, which is the hlt:
\* nothing can come between the two.
IdleTest ==
    /\ Runs(Idle)
    /\ idle_pc = "test"
    /\ idle_pc' = IF tasks_in_run_queue <= 1 THEN "halted" ELSE "giveup"
    /\ UNCHANGED <<timerVars, queueVars, bootVars>>

IdleCli ==
    /\ Runs(Idle)
    /\ idle_pc = "woken"
    /\ idle_pc' = "giveup"
    /\ UNCHANGED <<timerVars, queueVars, bootVars>>

InterruptsEnabled == Runs(Idle) /\ idle_pc \in {"halted", "woken"}

TimerInterrupt ==
    /\ InterruptsEnabled
    /\ IsrEnter
    /\ idle_pc' = "woken"
    /\ UNCHANGED <<queueVars, bootVars>>

HandlerLoop == IsrLoop /\ UNCHANGED schedVars

\* The function of every task's timer.
TimerCallback ==
    /\ IsrFuncReturn
    /\ schedule_task(firing)
    /\ UNCHANGED <<current_task, bootVars, idle_pc>>

Hardware == (Tick \/ DeadlineExpires) /\ UNCHANGED schedVars
-----------------------------------------------------------------------------
(* A kernel task and the calls it can make.  It uses the interface as its  *)
(* names say: it wakes a sleeper with cancel_sleep, which unregisters the  *)
(* timer, not with schedule_task; it takes itself off the queue with       *)
(* unschedule, not with unschedule_task; and it leaves idle alone.         *)

Yield(t) == giveup_cpu /\ UNCHANGED <<timerVars, bootVars, idle_pc>>

Block(t) == unschedule /\ UNCHANGED <<timerVars, bootVars, idle_pc>>

Sleep(t, delay) ==
    /\ sleep_tsc(delay)
    /\ UNCHANGED <<pending, tsc, in_isr, firing, bootVars, idle_pc>>

Wake(u) ==
    /\ ~timer_is_registered(u)
    /\ schedule_task(u)
    /\ UNCHANGED <<timerVars, current_task, bootVars, idle_pc>>

Suspend(u) ==
    /\ u \notin {Idle, current_task}
    /\ unschedule_task(u)
    /\ UNCHANGED <<timerVars, current_task, bootVars, idle_pc>>

CancelSleep(u) ==
    /\ cancel_sleep(u)
    /\ UNCHANGED <<pending, tsc, in_isr, firing, current_task, bootVars, idle_pc>>

Create(u) ==
    /\ create_kernel_task(u)
    /\ UNCHANGED <<timerVars, queueVars, scheduler_started, idle_pc>>

Start(u) ==
    /\ start_kernel_task(u)
    /\ UNCHANGED <<timerVars, current_task, scheduler_started, idle_pc>>

\* The calls that give the CPU away, and those that do not.
Switch(t) == Yield(t) \/ Block(t) \/ \E delay \in Delay : Sleep(t, delay)

CallOn(u) ==
    \/ u \in created /\ (Wake(u) \/ Suspend(u) \/ CancelSleep(u))
    \/ Create(u)
    \/ Start(u)

TaskStep(t) ==
    /\ t # Idle
    /\ Runs(t)
    /\ Switch(t) \/ \E u \in Task : CallOn(u)
-----------------------------------------------------------------------------
Next ==
    \/ SchedulerCtor
    \/ \E t \in Task : SpawnAtBoot(t)
    \/ scheduler_start
    \/ IdleGiveup
    \/ IdleTest
    \/ IdleCli
    \/ TimerInterrupt
    \/ HandlerLoop
    \/ TimerCallback
    \/ Hardware
    \/ \E t \in Task : TaskStep(t)

Spec == Init /\ [][Next]_vars

\* The kernel boots, idle and the handler run on, time passes and the
\* hardware delivers.  Of the tasks only what a cooperative scheduler must
\* ask for: a running task eventually gives the CPU away.
Fairness ==
    /\ WF_vars(SchedulerCtor)
    /\ WF_vars(scheduler_start)
    /\ WF_vars(IdleGiveup \/ IdleTest \/ IdleCli)
    /\ WF_vars(TimerInterrupt)
    /\ WF_vars(HandlerLoop)
    /\ WF_vars(TimerCallback)
    /\ WF_vars(Tick /\ UNCHANGED schedVars)
    /\ WF_vars(DeadlineExpires /\ UNCHANGED schedVars)
    /\ \A t \in Task \ {Idle} : WF_vars(Runs(t) /\ Switch(t))

FairSpec == Spec /\ Fairness
-----------------------------------------------------------------------------
TypeOK ==
    /\ TimersTypeOK
    /\ run_queue \in Seq(Task)
    /\ tasks_in_run_queue \in Nat
    /\ current_task \in Task \cup {NULL}
    /\ scheduler_started \in BOOLEAN
    /\ created \subseteq Task
    /\ idle_pc \in IdlePc

\* The run queue and its counter agree, so that idle's test of the counter
\* is a test of the queue; a task is queued once; and once the scheduler
\* runs, idle is always queued (next_task never reads an empty list).
RunQueueSound ==
    /\ NoDuplicates(run_queue)
    /\ tasks_in_run_queue = Len(run_queue)
    /\ Queued \subseteq created
    /\ Idle \in created => Idle \in Queued

\* From idle's first giveup_cpu on, the running task is the head of the run
\* queue: giveup_cpu and unschedule act on the task schedule() dispatched.
CurrentIsHead ==
    /\ scheduler_started => current_task \in Queued
    /\ idle_pc # "entry" => current_task = Head(run_queue)

\* A sleeping task is on the timer queue or on the run queue, never on both,
\* so sleep_tsc never finds its own timer registered (it would move the
\* deadline of a queued timer) and a timer never wakes a running task.
SleepersOffQueue == \A t \in Task : Asleep(t) => t \notin Queued /\ t \in created \ {Idle}

\* The queue, its counter, the running task and the sleepers agree at every
\* step of every task, of idle and of the interrupt handler.
SchedulerSound == TypeOK /\ RunQueueSound /\ CurrentIsHead /\ SleepersOffQueue

\* Idle halts only when no other task can run; an interrupt that makes one
\* ready takes idle out of its hlt, and idle gives the CPU away before it
\* halts again.
IdleHaltsOnlyAlone == idle_pc = "halted" => run_queue = <<Idle>>

\* A sleeper is never forgotten: a step that takes a task off the timer
\* queue hands it to the handler, and the step that ends its sleep queues it.
NoSleeperLost ==
    [][\A t \in Task : Asleep(t) /\ ~Asleep(t)' => t \in Queued']_vars

\* Round robin: only the running task is ever moved behind another queued
\* task, and a task that becomes ready goes behind all that are.
RoundRobinStep ==
    /\ \A a, b \in Queued \cap Queued' :
            Before(run_queue, a, b) /\ a # current_task => Before(run_queue', a, b)
    /\ \A a \in Queued \cap Queued', b \in Queued' \ Queued :
            Before(run_queue', a, b)

RoundRobin == [][RoundRobinStep]_vars

\* The scheduler uses the timer queue as TimerService lets a kernel use it:
\* in particular it never registers a registered timer.
Service == INSTANCE TimerService WITH Deadline <- {}, TimerDelay <- Delay

IsTimerService == Service!TimersSpec

\* A task on the run queue is dispatched, or taken off the queue by another.
EveryReadyTaskRuns ==
    \A t \in Task :
        (scheduler_started /\ t \in Queued) ~> (current_task = t \/ t \notin Queued)

\* If idle halts again and again, every sleeper whose time has come is woken.
\* (It is a premise: while two tasks keep yielding to each other idle finds
\* more than one task queued and never enables interrupts.)
SleepersWake ==
    ([]<>(idle_pc = "halted")) =>
        \A t \in Task : (Asleep(t) /\ when[t] <= tsc) ~> t \in Queued
=============================================================================
