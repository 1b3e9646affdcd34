--------------------------- MODULE SchedulerProofs ---------------------------
(***************************************************************************)
(* What each operation of the timer queue does to it, for any number of    *)
(* timers: every module that drives the queue proves its invariants from   *)
(* these lemmas.  Then that the queue keeps its invariants, and is an      *)
(* alarm clock, for any word size and any callers.                         *)
(* After it the scheduler's invariants, and that it drives the timer queue *)
(* as TimerService allows, for any number of tasks and any sleep durations.*)
(* Last the mutex: it uses the scheduler as its other callers do; and as   *)
(* long as nobody locks it between an unlock and the return of the waiter  *)
(* it woke, it excludes, loses no wakeup, and is a fair lock.              *)
(***************************************************************************)
EXTENDS Mutex, TimerService, ListsTheorems

\* A list ordered by the deadlines w.
OrderedBy(s, w) == \A i, j \in DOMAIN s : i <= j => w[s[i]] <= w[s[j]]

\* The loop of timer_register stops behind every timer that is due no later
\* than t and in front of the first that is due later.
LEMMA TimerPlaceProperties ==
    ASSUME NEW s \in Seq(Timer), NEW w \in [Timer -> Time], NEW t \in Timer
    PROVE  /\ TimerPlace(s, w, t) \in 1 .. Len(s) + 1
           /\ \A j \in 1 .. Len(s) : j < TimerPlace(s, w, t) => w[s[j]] <= w[t]
           /\ TimerPlace(s, w, t) <= Len(s) => w[t] < w[s[TimerPlace(s, w, t)]]
<1> DEFINE I == {i \in 1 .. Len(s) : w[t] < w[s[i]]}
           p == IF I = {} THEN Len(s) + 1 ELSE Min(I)
<1>1. Len(s) \in Nat /\ \A i \in 1 .. Len(s) : s[i] \in Timer
    BY LenProperties, ElementOfSeq
<1>2. \A u \in Timer : w[u] \in Int
    BY TimersAssumption DEF Time
<1>3. I \in SUBSET Nat
    BY <1>1
<1>4. I # {} => Min(I) \in I /\ \A y \in I : Min(I) <= y
    BY <1>3, MinIsLeast, Zenon
<1>5. TimerPlace(s, w, t) = p
    <2>1. CASE I = {}
        BY <2>1 DEF TimerPlace, list_stop, SelectInSeq, EndOf
    <2>2. CASE I # {}
        <3>1. Min(I) # 0
            BY <1>1, <1>4, <2>2
        <3>2. QED
            BY <2>2, <3>1 DEF TimerPlace, list_stop, SelectInSeq, EndOf
    <2>3. QED
        BY <2>1, <2>2
<1>6. p \in 1 .. Len(s) + 1
    BY <1>1, <1>4
<1>7. ASSUME NEW j \in 1 .. Len(s), j < p
      PROVE  w[s[j]] <= w[t]
    <2>1. j \notin I
        BY <1>1, <1>4, <1>7
    <2>2. QED
        BY <1>1, <1>2, <2>1
<1>8. p <= Len(s) => w[t] < w[s[p]]
    BY <1>1, <1>4
<1>9. QED
    BY <1>5, <1>6, <1>7, <1>8

\* Inserting a timer at its place keeps the list ordered, and puts it in
\* front exactly when it is the earliest.
LEMMA InsertKeepsOrder ==
    ASSUME NEW s \in Seq(Timer), NEW w \in [Timer -> Time], NEW t \in Timer,
           OrderedBy(s, w)
    PROVE  OrderedBy(list_insert_before(s, TimerPlace(s, w, t), t), w)
<1> DEFINE p == TimerPlace(s, w, t)
           r == list_insert_before(s, p, t)
<1>1. Len(s) \in Nat /\ DOMAIN s = 1 .. Len(s) /\ \A i \in 1 .. Len(s) : s[i] \in Timer
    BY LenProperties, ElementOfSeq
<1>2. \A u \in Timer : w[u] \in Int
    BY TimersAssumption DEF Time
<1>3. /\ p \in 1 .. Len(s) + 1
      /\ \A j \in 1 .. Len(s) : j < p => w[s[j]] <= w[t]
      /\ p <= Len(s) => w[t] < w[s[p]]
    BY TimerPlaceProperties
<1> HIDE DEF p
<1>4. /\ r \in Seq(Timer)
      /\ Len(r) = Len(s) + 1
      /\ \A j \in 1 .. Len(s) + 1 :
            r[j] = IF j < p THEN s[j] ELSE IF j = p THEN t ELSE s[j - 1]
    BY <1>3, InsertProperties
<1>5. DOMAIN r = 1 .. Len(s) + 1
    BY <1>4, LenProperties
<1> HIDE DEF r
<1>6. \A j \in 1 .. Len(s) : p <= j => w[t] <= w[s[j]]
    <2>1. SUFFICES ASSUME NEW j \in 1 .. Len(s), p <= j
                   PROVE  w[t] <= w[s[j]]
        OBVIOUS
    <2>2. p \in 1 .. Len(s)
        BY <1>1, <1>3, <2>1
    <2>3. w[s[p]] <= w[s[j]]
        BY <1>1, <2>1, <2>2 DEF OrderedBy
    <2>4. s[p] \in Timer /\ s[j] \in Timer
        BY <1>1, <2>2
    <2>5. w[t] \in Int /\ w[s[p]] \in Int /\ w[s[j]] \in Int
        BY <1>2, <2>4
    <2>6. w[t] < w[s[p]]
        BY <1>1, <1>3, <2>2
    <2>7. QED
        BY <2>3, <2>5, <2>6
<1>7. SUFFICES ASSUME NEW i \in 1 .. Len(s) + 1, NEW j \in 1 .. Len(s) + 1, i <= j
               PROVE  w[r[i]] <= w[r[j]]
    BY <1>5 DEF OrderedBy, r, p
<1>8. \A m, n \in 1 .. Len(s) : m <= n => w[s[m]] <= w[s[n]]
    BY <1>1 DEF OrderedBy
<1>9. CASE i < p /\ j < p
    BY <1>1, <1>3, <1>4, <1>7, <1>8, <1>9
<1>10. CASE i < p /\ j = p
    BY <1>1, <1>3, <1>4, <1>7, <1>10
<1>11. CASE i < p /\ j > p
    BY <1>1, <1>3, <1>4, <1>7, <1>8, <1>11
<1>12. CASE i = p /\ j = p
    BY <1>2, <1>4, <1>12
<1>13. CASE i = p /\ j > p
    <2>1. j - 1 \in 1 .. Len(s) /\ p <= j - 1
        BY <1>1, <1>3, <1>13
    <2>2. r[i] = t /\ r[j] = s[j - 1]
        BY <1>1, <1>3, <1>4, <1>13
    <2>3. QED
        BY <1>6, <2>1, <2>2
<1>14. CASE i > p /\ j > p
    <2>1. i - 1 \in 1 .. Len(s) /\ j - 1 \in 1 .. Len(s) /\ i - 1 <= j - 1
        BY <1>1, <1>3, <1>7, <1>14
    <2>2. r[i] = s[i - 1] /\ r[j] = s[j - 1]
        BY <1>1, <1>3, <1>4, <1>14
    <2>3. QED
        BY <1>8, <2>1, <2>2
<1>15. QED
    BY <1>1, <1>3, <1>7, <1>9, <1>10, <1>11, <1>12, <1>13, <1>14

\* Removing a timer keeps the list ordered.
LEMMA RemoveKeepsOrder ==
    ASSUME NEW s \in Seq(Timer), NEW w \in [Timer -> Time], NEW t,
           NoDuplicates(s), OrderedBy(s, w)
    PROVE  OrderedBy(list_remove(s, t), w)
<1> DEFINE r == list_remove(s, t)
<1>1. Len(s) \in Nat /\ DOMAIN s = 1 .. Len(s)
    BY LenProperties
<1>2. CASE ~list_linked(s, t)
    <2>1. r = s
        BY <1>1, <1>2 DEF list_linked, list_remove, RemoveFirst, ToSet
    <2>2. QED
        BY <2>1
<1>3. CASE list_linked(s, t)
    <2>1. PICK k \in 1 .. Len(s) : s[k] = t
        BY <1>1, <1>3 DEF list_linked, ToSet
    <2>2. /\ r \in Seq(Timer)
          /\ Len(r) = Len(s) - 1
          /\ \A j \in 1 .. Len(s) - 1 : r[j] = IF j < k THEN s[j] ELSE s[j + 1]
        BY <2>1, RemoveProperties
    <2>3. DOMAIN r = 1 .. Len(s) - 1
        BY <2>2, LenProperties
    <2> HIDE DEF r
    <2>4. SUFFICES ASSUME NEW i \in 1 .. Len(s) - 1, NEW j \in 1 .. Len(s) - 1, i <= j
                   PROVE  w[r[i]] <= w[r[j]]
        BY <2>3 DEF OrderedBy, r
    <2>5. \A m, n \in 1 .. Len(s) : m <= n => w[s[m]] <= w[s[n]]
        BY <1>1 DEF OrderedBy
    <2>6. /\ i \in 1 .. Len(s) /\ i + 1 \in 1 .. Len(s)
          /\ j \in 1 .. Len(s) /\ j + 1 \in 1 .. Len(s)
        BY <1>1
    <2>7. QED
        BY <1>1, <2>2, <2>4, <2>5, <2>6
<1>4. QED
    BY <1>2, <1>3

-----------------------------------------------------------------------------
\* Registering an unregistered timer links it, keeps the list ordered by the
\* deadlines it has now, and arms the hardware for the head.
LEMMA RegisterKeeps ==
    ASSUME TimersTypeOK, TimersSorted,
           NEW t \in Timer, NEW at \in Time,
           ~timer_is_registered(t),
           timer_register_absolute(t, at)
    PROVE  /\ timers' \in Seq(Timer)
           /\ when' \in [Timer -> Time]
           /\ deadline' \in Time
           /\ TimersSorted'
           /\ timers' # <<>>
           /\ deadline' = when'[Head(timers')]
           /\ ToSet(timers') = ToSet(timers) \cup {t}
<1> DEFINE p == TimerPlace(timers, when', t)
<1>1. timers \in Seq(Timer) /\ when \in [Timer -> Time] /\ NoDuplicates(timers)
    BY DEF TimersTypeOK, TimersSorted
<1>2. when' = [when EXCEPT ![t] = at]
    BY DEF timer_register_absolute
<1>3. when' \in [Timer -> Time]
    BY <1>1, <1>2
<1>4. /\ timers' = list_insert_before(timers, p, t)
      /\ deadline' = when'[Head(timers')]
    BY DEF timer_register_absolute, timer_register, timer_backend_set
<1>5. Len(timers) \in Nat /\ DOMAIN timers = 1 .. Len(timers)
    BY <1>1, LenProperties
<1>6. OrderedBy(timers, when')
    <2>1. \A i \in DOMAIN timers : timers[i] \in Timer /\ timers[i] # t
        BY <1>1, <1>5, ElementOfSeq DEF timer_is_registered, list_linked, ToSet
    <2>2. \A i \in DOMAIN timers : when'[timers[i]] = when[timers[i]]
        BY <1>1, <1>2, <2>1
    <2>3. QED
        BY <2>2 DEF OrderedBy, TimersSorted
<1>7. p \in 1 .. Len(timers) + 1
    BY <1>1, <1>3, TimerPlaceProperties
<1>8. OrderedBy(timers', when')
    BY <1>1, <1>3, <1>4, <1>6, InsertKeepsOrder
<1>9. timers' \in Seq(Timer) /\ Len(timers') = Len(timers) + 1
    BY <1>1, <1>4, <1>7, InsertProperties
<1>10. ToSet(timers') = ToSet(timers) \cup {t} /\ NoDuplicates(timers')
    BY <1>1, <1>4, <1>7, InsertKeeps DEF timer_is_registered
<1>11. timers' # <<>>
    BY <1>5, <1>9
<1>12. TimersSorted'
    BY <1>8, <1>10 DEF TimersSorted, OrderedBy
<1>13. deadline' \in Time
    BY <1>3, <1>4, <1>9, <1>11, HeadTailProperties
<1>14. QED
    BY <1>3, <1>4, <1>9, <1>10, <1>11, <1>12, <1>13

\* Unregistering a timer unlinks it and no other, and arms the hardware for
\* the head that is left, if any.
LEMMA UnregisterKeeps ==
    ASSUME TimersTypeOK, TimersSorted, NEW t \in Timer, timer_unregister(t)
    PROVE  /\ timers' \in Seq(Timer)
           /\ when' = when
           /\ deadline' \in Time
           /\ TimersSorted'
           /\ ToSet(timers') = ToSet(timers) \ {t}
           /\ \/ timers' = timers /\ deadline' = deadline
              \/ deadline' = IF timers' = <<>> THEN 0 ELSE when'[Head(timers')]
<1>1. timers \in Seq(Timer) /\ when \in [Timer -> Time] /\ NoDuplicates(timers)
    BY DEF TimersTypeOK, TimersSorted
<1>2. when' = when
    BY DEF timer_unregister
<1>3. CASE timer_is_registered(t)
    <2>1. /\ timers' = list_remove(timers, t)
          /\ deadline' = IF timers' = <<>> THEN 0 ELSE when[Head(timers')]
        BY <1>3 DEF timer_unregister, timer_backend_set
    <2>2. /\ timers' \in Seq(Timer)
          /\ ToSet(timers') = ToSet(timers) \ {t}
          /\ NoDuplicates(timers')
        BY <1>1, <2>1, RemoveKeeps
    <2>3. OrderedBy(timers', when)
        BY <1>1, <2>1, RemoveKeepsOrder DEF OrderedBy, TimersSorted
    <2>4. 0 \in Time
        BY TimersAssumption DEF Time
    <2>5. deadline' \in Time
        BY <1>1, <2>1, <2>2, <2>4, HeadTailProperties
    <2>6. QED
        BY <1>2, <2>1, <2>2, <2>3, <2>5 DEF OrderedBy, TimersSorted
<1>4. CASE ~timer_is_registered(t)
    <2>1. UNCHANGED <<timers, deadline>>
        BY <1>4 DEF timer_unregister
    <2>2. t \notin ToSet(timers)
        BY <1>4 DEF timer_is_registered, list_linked
    <2>3. QED
        BY <1>1, <1>2, <2>1, <2>2 DEF TimersTypeOK, TimersSorted, NoDuplicates
<1>5. QED
    BY <1>3, <1>4

\* The steps of the hardware and of the handler keep the queue's invariant.
LEMMA HandlerKeeps ==
    ASSUME TimersInvariant,
           \/ Tick \/ DeadlineExpires \/ IsrEnter \/ IsrLoop \/ IsrFuncReturn
    PROVE  TimersInvariant'
<1> USE DEF TimersInvariant
<1>1. timers \in Seq(Timer) /\ when \in [Timer -> Time] /\ 0 \in Time
    BY TimersAssumption DEF TimersTypeOK, Time
<1>2. timers # <<>> => Head(timers) \in Timer /\ when[Head(timers)] \in Time
    BY <1>1, HeadTailProperties
<1>3. CASE Tick
    <2>1. TimersTypeOK'
        BY <1>3, TimersAssumption DEF Tick, TimersTypeOK
    <2>2. TimersSorted' /\ DeadlineArmed'
        BY <1>3 DEF Tick, TimersSorted, DeadlineArmed, NoDuplicates
    <2>3. QED
        BY <2>1, <2>2
<1>4. CASE DeadlineExpires
    <2>1. TimersTypeOK'
        BY <1>1, <1>4 DEF DeadlineExpires, TimersTypeOK
    <2>2. TimersSorted' /\ DeadlineArmed'
        BY <1>4 DEF DeadlineExpires, TimersSorted, DeadlineArmed, NoDuplicates
    <2>3. QED
        BY <2>1, <2>2
<1>5. CASE IsrEnter
    BY <1>5 DEF IsrEnter, TimersTypeOK, TimersSorted, DeadlineArmed, NoDuplicates
<1>6. CASE IsrDrained
    BY <1>1, <1>6 DEF IsrDrained, timer_backend_set, TimersTypeOK, TimersSorted,
                      DeadlineArmed, NoDuplicates
<1>7. CASE IsrNotDue
    BY <1>1, <1>2, <1>7 DEF IsrNotDue, timer_backend_set, TimersTypeOK, TimersSorted,
                            DeadlineArmed, NoDuplicates
<1>8. CASE IsrFire
    <2>1. /\ timers' = list_remove(timers, Head(timers))
          /\ in_isr /\ firing' = Head(timers)
          /\ timers # <<>>
          /\ UNCHANGED <<when, deadline, pending, tsc, in_isr>>
        BY <1>8 DEF IsrFire, InLoop
    <2>2. timers' \in Seq(Timer) /\ NoDuplicates(timers')
        BY <1>1, <2>1, RemoveKeeps DEF TimersSorted
    <2>3. OrderedBy(timers', when)
        BY <1>1, <2>1, RemoveKeepsOrder DEF OrderedBy, TimersSorted
    <2>4. TimersTypeOK'
        BY <1>2, <2>1, <2>2 DEF TimersTypeOK
    <2>5. TimersSorted'
        BY <2>1, <2>2, <2>3 DEF OrderedBy, TimersSorted
    <2>6. DeadlineArmed'
        BY <2>1 DEF DeadlineArmed
    <2>7. QED
        BY <2>4, <2>5, <2>6
<1>9. CASE IsrFuncReturn
    BY <1>9 DEF IsrFuncReturn, TimersTypeOK, TimersSorted, DeadlineArmed, NoDuplicates
<1>10. QED
    BY <1>3, <1>4, <1>5, <1>6, <1>7, <1>8, <1>9 DEF IsrLoop

\* The initial state.
LEMMA InitEstablishes == TimersInit => TimersInvariant
<1>1. ASSUME TimersInit PROVE TimersInvariant
    <2>1. <<>> \in Seq(Timer) /\ Len(<<>>) = 0
        BY EmptySeq
    <2>2. DOMAIN <<>> = {}
        BY <2>1, LenProperties
    <2>3. TimersTypeOK
        <3>1. 0 \in Time /\ 1 \in 1 .. MaxTsc
            BY TimersAssumption DEF Time
        <3>2. timers \in Seq(Timer)
            BY <1>1, <2>1 DEF TimersInit
        <3>3. when \in [Timer -> Time]
            BY <1>1, <3>1 DEF TimersInit
        <3>4. QED
            BY <1>1, <3>1, <3>2, <3>3 DEF TimersInit, TimersTypeOK
    <2>4. TimersSorted /\ DeadlineArmed
        BY <1>1, <2>2 DEF TimersInit, TimersSorted, DeadlineArmed, NoDuplicates
    <2>5. QED
        BY <2>3, <2>4 DEF TimersInvariant
<1>2. QED
    BY <1>1
-----------------------------------------------------------------------------
(* The queue with any callers.                                             *)


\* A call of any of the three operations, with any argument.
LEMMA CallKeeps ==
    ASSUME TimersInvariant, NEW t \in Timer, Call(t)
    PROVE  TimersInvariant'
<1> USE DEF TimersInvariant
<1>1. ASSUME NEW at \in Time, ~timer_is_registered(t),
             timer_register_absolute(t, at),
             UNCHANGED <<pending, tsc, in_isr, firing>>
      PROVE  TimersInvariant'
    <2>1. /\ timers' \in Seq(Timer)
          /\ when' \in [Timer -> Time]
          /\ deadline' \in Time
          /\ TimersSorted'
          /\ timers' # <<>>
          /\ deadline' = when'[Head(timers')]
        BY <1>1, RegisterKeeps
    <2>2. TimersTypeOK'
        BY <1>1, <2>1 DEF TimersTypeOK
    <2>3. DeadlineArmed'
        BY <2>1 DEF DeadlineArmed
    <2>4. QED
        BY <2>1, <2>2, <2>3
<1>2. ASSUME NEW at \in Deadline, RegisterAbsolute(t, at)
      PROVE  TimersInvariant'
    BY <1>1, <1>2, TimerServiceAssumption DEF RegisterAbsolute
<1>3. ASSUME NEW delay \in TimerDelay, RegisterRelative(t, delay)
      PROVE  TimersInvariant'
    <2>1. (tsc + delay) % Word \in Time
        <3>1. tsc + delay \in Nat /\ Word \in Nat /\ Word > 0
            BY TimersAssumption, TimerServiceAssumption DEF TimersTypeOK
        <3>2. QED
            BY <3>1 DEF Time
    <2>2. QED
        BY <1>1, <1>3, <2>1 DEF RegisterRelative, timer_register_relative
<1>4. CASE Unregister(t)
    <2>1. timer_unregister(t) /\ UNCHANGED <<pending, tsc, in_isr, firing>>
        BY <1>4 DEF Unregister
    <2>2. /\ timers' \in Seq(Timer)
          /\ when' = when
          /\ deadline' \in Time
          /\ TimersSorted'
          /\ \/ timers' = timers /\ deadline' = deadline
             \/ deadline' = IF timers' = <<>> THEN 0 ELSE when'[Head(timers')]
        BY <2>1, UnregisterKeeps
    <2>3. TimersTypeOK'
        BY <2>1, <2>2 DEF TimersTypeOK
    <2>4. DeadlineArmed'
        BY <2>1, <2>2 DEF DeadlineArmed
    <2>5. QED
        BY <2>2, <2>3, <2>4
<1>5. QED
    BY <1>2, <1>3, <1>4 DEF Call

\* The queue is well typed, ordered by deadline without duplicates, and the
\* hardware is always armed for its head: lib/timers.c keeps this together
\* whoever calls it and whenever the interrupt comes.
THEOREM TimerServiceInvariant ==
    TimersSpec => []TimersInvariant
<1>1. TimersInit => TimersInvariant
    BY InitEstablishes
<1>2. TimersInvariant /\ [TimersNext]_timerVars => TimersInvariant'
    <2>1. SUFFICES ASSUME TimersInvariant, [TimersNext]_timerVars
                   PROVE  TimersInvariant'
        OBVIOUS
    <2>2. ASSUME NEW t \in Timer, Call(t)
          PROVE  TimersInvariant'
        BY <2>1, <2>2, CallKeeps
    <2>3. CASE Tick \/ DeadlineExpires \/ IsrEnter \/ IsrDrained \/ IsrNotDue
                \/ IsrFire \/ IsrFuncReturn
        BY <2>1, <2>3, HandlerKeeps DEF IsrLoop
    <2>4. CASE UNCHANGED timerVars
        BY <2>1, <2>4 DEF timerVars, TimersInvariant, TimersTypeOK, TimersSorted,
                          DeadlineArmed, NoDuplicates
    <2>5. QED
        BY <2>1, <2>2, <2>3, <2>4 DEF TimersNext
<1>3. QED
    BY <1>1, <1>2, PTL DEF TimersSpec

-----------------------------------------------------------------------------
\* Registering is arming: what a registration does to the abstract clock.
LEMMA RegisterIsArm ==
    ASSUME TimersInvariant, NEW t \in Timer, NEW at \in Time,
           ~timer_is_registered(t), timer_register_absolute(t, at),
           UNCHANGED <<tsc, firing>>
    PROVE  Clock!Next
<1>1. ToSet(timers') = ToSet(timers) \cup {t}
    BY RegisterKeeps DEF TimersInvariant
<1>2. when' = [when EXCEPT ![t] = at]
    BY DEF timer_register_absolute
<1>3. t \notin ToSet(timers)
    BY DEF timer_is_registered, list_linked
<1>4. Clock!Arm(t, at)
    BY <1>1, <1>2, <1>3 DEF Clock!Arm
<1>5. QED
    BY <1>4 DEF Clock!Next, Time

\* A turn of the handler's loop that runs a timer's function rings the clock:
\* the head of an ordered list is due before every other.
LEMMA FireIsRing ==
    ASSUME TimersInvariant, IsrFire
    PROVE  Clock!Next
<1> DEFINE h == Head(timers)
<1>1. /\ timers \in Seq(Timer) /\ timers # <<>> /\ NoDuplicates(timers)
      /\ when \in [Timer -> Time] /\ tsc \in 1 .. MaxTsc
    BY DEF TimersInvariant, TimersTypeOK, TimersSorted, IsrFire
<1>2. /\ Len(timers) \in Nat /\ DOMAIN timers = 1 .. Len(timers) /\ Len(timers) # 0
      /\ h = timers[1] /\ h \in Timer
    BY <1>1, LenProperties, HeadTailProperties
<1>3. h \in ToSet(timers)
    BY <1>2 DEF ToSet
<1>4. ASSUME NEW u \in ToSet(timers)
      PROVE  when[h] <= when[u]
    <2>1. PICK i \in 1 .. Len(timers) : timers[i] = u
        BY <1>2 DEF ToSet
    <2>2. QED
        BY <1>2, <2>1 DEF TimersInvariant, TimersSorted
<1>5. when[h] <= tsc
    <2>1. when[h] \in Int /\ tsc \in Int
        BY <1>1, <1>2, TimersAssumption DEF Time
    <2>2. ~(tsc < when[h])
        BY DEF IsrFire
    <2>3. QED
        BY <2>1, <2>2
<1>6. ToSet(timers') = ToSet(timers) \ {h}
    BY <1>1, RemoveKeeps DEF IsrFire
<1> HIDE DEF h
<1>7. firing = NULL /\ firing' = h /\ UNCHANGED <<when, tsc>>
    BY DEF IsrFire, InLoop, h
<1>8. Clock!Ring(h)
    BY <1>3, <1>4, <1>5, <1>6, <1>7 DEF Clock!Ring
<1>9. QED
    BY <1>2, <1>8 DEF Clock!Next

\* The queue implements the alarm clock: in every interleaving of calls,
\* hardware and handler, a timer's function runs only when it is due, not
\* after it was unregistered, and after every function due before it.
THEOREM TimerServiceImplementsAlarmClock == TimersSpec => IsAlarmClock
<1>1. TimersInit => Clock!Init
    <2>1. ToSet(<<>>) = {}
        BY EmptySeq, LenProperties DEF ToSet
    <2>2. QED
        BY <2>1 DEF TimersInit, Clock!Init
<1>2. TimersInvariant /\ [TimersNext]_timerVars => [Clock!Next]_Clock!clockVars
    <2>1. SUFFICES ASSUME TimersInvariant, [TimersNext]_timerVars
                   PROVE  Clock!Next \/ UNCHANGED Clock!clockVars
        OBVIOUS
    <2>2. ASSUME NEW t \in Timer, NEW at \in Deadline, RegisterAbsolute(t, at)
          PROVE  Clock!Next
        BY <2>1, <2>2, RegisterIsArm, TimerServiceAssumption DEF RegisterAbsolute
    <2>3. ASSUME NEW t \in Timer, NEW delay \in TimerDelay, RegisterRelative(t, delay)
          PROVE  Clock!Next
        <3>1. tsc + delay \in Nat /\ Word \in Nat /\ Word > 0
            BY <2>1, TimersAssumption, TimerServiceAssumption
               DEF TimersInvariant, TimersTypeOK
        <3>2. (tsc + delay) % Word \in Time
            BY <3>1 DEF Time
        <3>3. QED
            BY <2>1, <2>3, <3>2, RegisterIsArm
               DEF RegisterRelative, timer_register_relative
    <2>4. ASSUME NEW t \in Timer, Unregister(t)
          PROVE  Clock!Next
        <3>1. ToSet(timers') = ToSet(timers) \ {t} /\ when' = when
            BY <2>1, <2>4, UnregisterKeeps DEF Unregister, TimersInvariant
        <3>2. Clock!Disarm(t)
            BY <2>4, <3>1 DEF Unregister, Clock!Disarm
        <3>3. QED
            BY <3>2 DEF Clock!Next
    <2>5. CASE Tick
        <3>1. Clock!Tick
            BY <2>5 DEF Tick, Clock!Tick
        <3>2. QED
            BY <3>1 DEF Clock!Next
    <2>6. CASE IsrFire
        BY <2>1, <2>6, FireIsRing
    <2>7. CASE IsrFuncReturn
        <3>1. Clock!Done
            BY <2>7 DEF IsrFuncReturn, Clock!Done
        <3>2. QED
            BY <3>1 DEF Clock!Next
    <2>8. CASE DeadlineExpires \/ IsrEnter \/ IsrDrained \/ IsrNotDue \/ UNCHANGED timerVars
        BY <2>8 DEF DeadlineExpires, IsrEnter, IsrDrained, IsrNotDue, timerVars,
                    Clock!clockVars
    <2>9. QED
        BY <2>1, <2>2, <2>3, <2>4, <2>5, <2>6, <2>7, <2>8 DEF TimersNext, Call
<1>3. QED
    BY <1>1, <1>2, TimerServiceInvariant, PTL DEF TimersSpec, IsAlarmClock, Clock!Spec
-----------------------------------------------------------------------------
(* The order among the timers. *)

\* A registration exchanges no two timers, and the new one goes behind those
\* with its own deadline.
LEMMA RegisterKeepsOrder ==
    ASSUME TimersInvariant, NEW t \in Timer, NEW at \in Time,
           ~timer_is_registered(t), timer_register_absolute(t, at)
    PROVE  FifoStep
<1> DEFINE p == TimerPlace(timers, when', t)
<1>1. /\ timers \in Seq(Timer) /\ when \in [Timer -> Time]
      /\ t \notin ToSet(timers) /\ TimersSorted
    BY DEF TimersInvariant, TimersTypeOK, timer_is_registered, list_linked
<1>2. /\ when' = [when EXCEPT ![t] = at] /\ when' \in [Timer -> Time]
      /\ timers' = list_insert_before(timers, p, t)
    BY <1>1 DEF timer_register_absolute, timer_register
<1>3. Len(timers) \in Nat /\ DOMAIN timers = 1 .. Len(timers)
      /\ \A i \in 1 .. Len(timers) : timers[i] \in Timer /\ timers[i] # t
    BY <1>1, LenProperties, ElementOfSeq DEF ToSet
<1>4. /\ p \in 1 .. Len(timers) + 1
      /\ p <= Len(timers) => when'[t] < when'[timers[p]]
    BY <1>1, <1>2, TimerPlaceProperties
<1> HIDE DEF p
<1>5. /\ \A a, b : Before(timers, a, b) => Before(timers', a, b)
      /\ \A j \in 1 .. Len(timers) : j < p => Before(timers', timers[j], t)
    BY <1>1, <1>2, <1>4, InsertKeepsBefore
<1>6. ToSet(timers') = ToSet(timers) \cup {t}
    BY <1>1, <1>2, <1>4, InsertKeeps
<1>7. ASSUME NEW j \in 1 .. Len(timers), when'[timers[j]] = when'[t]
      PROVE  j < p
    <2>1. SUFFICES ASSUME ~(j < p) PROVE FALSE
        OBVIOUS
    <2>2. p \in 1 .. Len(timers) /\ p <= j
        BY <1>3, <1>4, <2>1
    <2>3. when[timers[p]] <= when[timers[j]]
        BY <1>1, <1>3, <2>2 DEF TimersSorted
    <2>4. when'[timers[p]] = when[timers[p]] /\ when'[timers[j]] = when[timers[j]]
        BY <1>1, <1>2, <1>3, <2>2
    <2>5. when[timers[p]] \in Int /\ when[timers[j]] \in Int
        BY <1>1, <1>3, <2>2, TimersAssumption DEF Time
    <2>6. when'[t] < when'[timers[p]]
        BY <1>4, <2>2
    <2>7. QED
        BY <1>7, <2>3, <2>4, <2>5, <2>6
<1>8. ASSUME NEW a \in ToSet(timers), when'[a] = when'[t]
      PROVE  Before(timers', a, t)
    BY <1>3, <1>5, <1>7, <1>8 DEF ToSet
<1>9. QED
    BY <1>5, <1>6, <1>8 DEF FifoStep

LEMMA RemoveIsFifo ==
    ASSUME TimersInvariant, NEW e, timers' = list_remove(timers, e)
    PROVE  FifoStep
<1>1. timers \in Seq(Timer) /\ NoDuplicates(timers)
    BY DEF TimersInvariant, TimersTypeOK, TimersSorted
<1>2. ToSet(timers') = ToSet(timers) \ {e}
    BY <1>1, RemoveKeeps
<1>3. \A a, b \in ToSet(timers') : Before(timers, a, b) => Before(timers', a, b)
    BY <1>1, <1>2, RemoveKeepsBefore
<1>4. QED
    BY <1>2, <1>3 DEF FifoStep

LEMMA StepIsFifo ==
    ASSUME TimersInvariant, [TimersNext]_timerVars
    PROVE  FifoStep
<1>1. CASE timers' = timers
    BY <1>1 DEF FifoStep
<1>2. ASSUME NEW t \in Timer, NEW at \in Deadline, RegisterAbsolute(t, at)
      PROVE  FifoStep
    BY <1>2, RegisterKeepsOrder, TimerServiceAssumption DEF RegisterAbsolute
<1>3. ASSUME NEW t \in Timer, NEW delay \in TimerDelay, RegisterRelative(t, delay)
      PROVE  FifoStep
    <2>1. (tsc + delay) % Word \in Time
        <3>1. tsc + delay \in Nat /\ Word \in Nat /\ Word > 0
            BY TimersAssumption, TimerServiceAssumption DEF TimersInvariant, TimersTypeOK
        <3>2. QED
            BY <3>1 DEF Time
    <2>2. QED
        BY <1>3, <2>1, RegisterKeepsOrder DEF RegisterRelative, timer_register_relative
<1>4. ASSUME NEW t \in Timer, Unregister(t)
      PROVE  FifoStep
    BY <1>1, <1>4, RemoveIsFifo DEF Unregister, timer_unregister
<1>5. CASE IsrFire
    BY <1>5, RemoveIsFifo DEF IsrFire
<1>6. CASE Tick \/ DeadlineExpires \/ IsrEnter \/ IsrDrained \/ IsrNotDue \/ IsrFuncReturn
        \/ UNCHANGED timerVars
    BY <1>1, <1>6 DEF Tick, DeadlineExpires, IsrEnter, IsrDrained, IsrNotDue, IsrFuncReturn,
                      timerVars
<1>7. QED
    BY <1>2, <1>3, <1>4, <1>5, <1>6 DEF TimersNext, Call

\* Timers with equal deadlines fire first come, first served, whatever calls
\* and interrupts come between their registrations and their deadline.
THEOREM TimersAreFifo == TimersSpec => FifoAmongEqualDeadlines
<1>1. TimersInvariant /\ [TimersNext]_timerVars => [FifoStep]_timerVars
    BY StepIsFifo
<1>2. QED
    BY <1>1, TimerServiceInvariant, PTL DEF TimersSpec, FifoAmongEqualDeadlines

-----------------------------------------------------------------------------
(* The scheduler.                                                          *)

\* The run queue and its counter, without what the tasks do with them.
QueueInv ==
    /\ run_queue \in Seq(Task)
    /\ NoDuplicates(run_queue)
    /\ tasks_in_run_queue = Len(run_queue)

LEMMA HeadIsMember ==
    ASSUME NEW S, NEW s \in Seq(S), s # <<>>
    PROVE  Head(s) \in ToSet(s) /\ Head(s) = s[1] /\ 1 \in DOMAIN s
<1>1. /\ Len(s) \in Nat /\ DOMAIN s = 1 .. Len(s) /\ Len(s) # 0
      /\ Head(s) = s[1]
    BY LenProperties
<1>2. QED
    BY <1>1 DEF ToSet

\* Appending to a list that is not empty keeps its head.
LEMMA HeadOfAppend ==
    ASSUME NEW S, NEW s \in Seq(S), NEW e \in S
    PROVE  /\ list_insert_before(s, EndOf(s), e) \in Seq(S)
           /\ list_insert_before(s, EndOf(s), e) # <<>>
           /\ Len(list_insert_before(s, EndOf(s), e)) = Len(s) + 1
           /\ ToSet(list_insert_before(s, EndOf(s), e)) = ToSet(s) \cup {e}
           /\ NoDuplicates(s) /\ ~list_linked(s, e)
                => NoDuplicates(list_insert_before(s, EndOf(s), e))
           /\ s # <<>> => Head(list_insert_before(s, EndOf(s), e)) = Head(s)
<1> DEFINE r == list_insert_before(s, EndOf(s), e)
<1>1. Len(s) \in Nat /\ EndOf(s) \in 1 .. Len(s) + 1 /\ EndOf(s) = Len(s) + 1
    BY LenProperties DEF EndOf
<1>2. /\ r \in Seq(S)
      /\ Len(r) = Len(s) + 1
      /\ \A j \in 1 .. Len(s) + 1 :
            r[j] = IF j < EndOf(s) THEN s[j] ELSE IF j = EndOf(s) THEN e ELSE s[j - 1]
    <2> DEFINE i == EndOf(s)
    <2>1. i \in 1 .. Len(s) + 1
        BY <1>1
    <2> HIDE DEF i
    <2>2. /\ list_insert_before(s, i, e) \in Seq(S)
          /\ Len(list_insert_before(s, i, e)) = Len(s) + 1
          /\ \A j \in 1 .. Len(s) + 1 : list_insert_before(s, i, e)[j] =
                IF j < i THEN s[j] ELSE IF j = i THEN e ELSE s[j - 1]
        BY <2>1, InsertProperties
    <2>3. QED
        BY <2>2 DEF i
<1>3. /\ ToSet(r) = ToSet(s) \cup {e}
      /\ NoDuplicates(s) /\ ~list_linked(s, e) => NoDuplicates(r)
    BY <1>1, InsertKeeps
<1> HIDE DEF r
<1>4. r # <<>>
    BY <1>1, <1>2
<1>5. s # <<>> => Head(r) = Head(s)
    <2>1. SUFFICES ASSUME s # <<>> PROVE Head(r) = Head(s)
        OBVIOUS
    <2>2. Head(r) = r[1] /\ Head(s) = s[1]
        BY <1>2, <1>4, <2>1, HeadIsMember
    <2>3. Len(s) # 0
        BY <2>1
    <2>4. QED
        BY <1>1, <1>2, <2>2, <2>3
<1>6. QED
    BY <1>2, <1>3, <1>4, <1>5 DEF r

\* Removing another element keeps the head.
LEMMA HeadOfRemove ==
    ASSUME NEW S, NEW s \in Seq(S), NoDuplicates(s), s # <<>>, NEW e, e # Head(s)
    PROVE  list_remove(s, e) # <<>> /\ Head(list_remove(s, e)) = Head(s)
<1> DEFINE r == list_remove(s, e)
<1>1. Len(s) \in Nat /\ DOMAIN s = 1 .. Len(s) /\ Head(s) = s[1] /\ Len(s) # 0
    BY LenProperties, HeadIsMember
<1>2. CASE ~list_linked(s, e)
    <2>1. r = s
        BY <1>1, <1>2 DEF list_linked, list_remove, RemoveFirst, ToSet
    <2>2. QED
        BY <2>1
<1>3. CASE list_linked(s, e)
    <2>1. PICK k \in 1 .. Len(s) : s[k] = e
        BY <1>1, <1>3 DEF list_linked, ToSet
    <2>2. k # 1 /\ 1 \in 1 .. Len(s) - 1 /\ 1 < k
        BY <1>1, <2>1
    <2>3. /\ r \in Seq(S)
          /\ Len(r) = Len(s) - 1
          /\ \A j \in 1 .. Len(s) - 1 : r[j] = IF j < k THEN s[j] ELSE s[j + 1]
        BY <2>1, RemoveProperties
    <2> HIDE DEF r
    <2>4. r # <<>>
        BY <1>1, <2>2, <2>3
    <2>5. Head(r) = r[1]
        BY <2>3, <2>4, HeadIsMember
    <2>6. QED
        BY <1>1, <2>2, <2>3, <2>4, <2>5 DEF r
<1>4. QED
    BY <1>2, <1>3

\* Moving an element to the end of its list: what giveup_cpu does.
Rotated(s, e) == LET q == list_remove(s, e) IN list_insert_before(q, EndOf(q), e)

LEMMA RotateKeeps ==
    ASSUME NEW S, NEW s \in Seq(S), NoDuplicates(s), NEW e \in ToSet(s)
    PROVE  /\ Rotated(s, e) \in Seq(S)
           /\ Rotated(s, e) # <<>>
           /\ Len(Rotated(s, e)) = Len(s)
           /\ ToSet(Rotated(s, e)) = ToSet(s)
           /\ NoDuplicates(Rotated(s, e))
<1> DEFINE q == list_remove(s, e)
           r == list_insert_before(q, EndOf(q), e)
<1>1. /\ q \in Seq(S)
      /\ ToSet(q) = ToSet(s) \ {e}
      /\ NoDuplicates(q)
      /\ Len(q) = Len(s) - 1
    BY RemoveKeeps DEF list_linked
<1>2. e \in S /\ Len(s) \in Nat
    BY LenProperties, ElementOfSeq DEF ToSet
<1>3. Rotated(s, e) = r
    BY DEF Rotated
<1> HIDE DEF q
<1>4. ~list_linked(q, e)
    BY <1>1 DEF list_linked
<1>5. /\ r \in Seq(S)
      /\ r # <<>>
      /\ Len(r) = Len(q) + 1
      /\ ToSet(r) = ToSet(q) \cup {e}
      /\ NoDuplicates(r)
    <2>1. /\ r \in Seq(S)
          /\ r # <<>>
          /\ Len(r) = Len(q) + 1
          /\ ToSet(r) = ToSet(q) \cup {e}
          /\ NoDuplicates(q) /\ ~list_linked(q, e) => NoDuplicates(r)
          /\ q # <<>> => Head(r) = Head(q)
        <3>1. q \in Seq(S) /\ e \in S
            BY <1>1, <1>2
        <3>2. QED
            BY <3>1, HeadOfAppend, Zenon
    <2>2. QED
        BY <1>1, <1>4, <2>1
<1> HIDE DEF r
<1>6. QED
    BY <1>1, <1>2, <1>3, <1>5
-----------------------------------------------------------------------------
\* What each operation does to a sound queue: nothing but what it says, and
\* the head stays where it is unless the running task gives the CPU away.
LEMMA ScheduleTaskKeeps ==
    ASSUME QueueInv, NEW t \in Task, schedule_task(t)
    PROVE  /\ QueueInv'
           /\ Queued' = Queued \cup {t}
           /\ run_queue # <<>> => Head(run_queue') = Head(run_queue)
<1> USE DEF QueueInv, Queued
<1>1. CASE list_linked(run_queue, t)
    <2>1. UNCHANGED <<run_queue, tasks_in_run_queue>>
        BY <1>1 DEF schedule_task
    <2>2. t \in ToSet(run_queue)
        BY <1>1 DEF list_linked
    <2>3. QED
        BY <2>1, <2>2 DEF NoDuplicates
<1>2. CASE ~list_linked(run_queue, t)
    <2>1. /\ run_queue' = list_insert_before(run_queue, EndOf(run_queue), t)
          /\ tasks_in_run_queue' = tasks_in_run_queue + 1
        BY <1>2 DEF schedule_task
    <2>2. QED
        BY <1>2, <2>1, HeadOfAppend
<1>3. QED
    BY <1>1, <1>2

LEMMA UnscheduleTaskKeeps ==
    ASSUME QueueInv, NEW t \in Task, unschedule_task(t)
    PROVE  /\ QueueInv'
           /\ Queued' = Queued \ {t}
           /\ run_queue # <<>> /\ t # Head(run_queue) => Head(run_queue') = Head(run_queue)
<1> USE DEF QueueInv, Queued
<1>1. CASE ~list_linked(run_queue, t)
    <2>1. UNCHANGED <<run_queue, tasks_in_run_queue>>
        BY <1>1 DEF unschedule_task
    <2>2. t \notin ToSet(run_queue)
        BY <1>1 DEF list_linked
    <2>3. QED
        BY <2>1, <2>2 DEF NoDuplicates
<1>2. CASE list_linked(run_queue, t)
    <2>1. /\ run_queue' = list_remove(run_queue, t)
          /\ tasks_in_run_queue' = tasks_in_run_queue - 1
        BY <1>2 DEF unschedule_task
    <2>2. /\ run_queue' \in Seq(Task)
          /\ ToSet(run_queue') = ToSet(run_queue) \ {t}
          /\ NoDuplicates(run_queue')
          /\ Len(run_queue') = Len(run_queue) - 1
        BY <1>2, <2>1, RemoveKeeps
    <2>3. run_queue # <<>> /\ t # Head(run_queue) => Head(run_queue') = Head(run_queue)
        BY <2>1, HeadOfRemove
    <2>4. QED
        BY <2>1, <2>2, <2>3
<1>3. QED
    BY <1>1, <1>2

LEMMA GiveupKeeps ==
    ASSUME QueueInv, current_task \in Queued, giveup_cpu
    PROVE  /\ QueueInv'
           /\ Queued' = Queued
           /\ current_task' = Head(run_queue')
           /\ current_task' \in Queued'
<1>1. /\ run_queue' = Rotated(run_queue, current_task)
      /\ tasks_in_run_queue' = tasks_in_run_queue
      /\ current_task' = Head(run_queue')
    BY DEF giveup_cpu, schedule, Rotated
<1>2. /\ run_queue' \in Seq(Task)
      /\ run_queue' # <<>>
      /\ Len(run_queue') = Len(run_queue)
      /\ ToSet(run_queue') = ToSet(run_queue)
      /\ NoDuplicates(run_queue')
    BY <1>1, RotateKeeps DEF QueueInv, Queued
<1>3. Head(run_queue') \in ToSet(run_queue')
    BY <1>2, HeadIsMember
<1>4. QED
    BY <1>1, <1>2, <1>3 DEF QueueInv, Queued

LEMMA UnscheduleKeeps ==
    ASSUME QueueInv, current_task \in Queued,
           NEW u \in Queued, u # current_task,
           unschedule
    PROVE  /\ QueueInv'
           /\ Queued' = Queued \ {current_task}
           /\ current_task' = Head(run_queue')
           /\ current_task' \in Queued'
<1> USE DEF QueueInv, Queued
<1>1. /\ run_queue' = list_remove(run_queue, current_task)
      /\ tasks_in_run_queue' = tasks_in_run_queue - 1
      /\ current_task' = Head(run_queue')
    BY DEF unschedule, schedule
<1>2. /\ run_queue' \in Seq(Task)
      /\ ToSet(run_queue') = ToSet(run_queue) \ {current_task}
      /\ NoDuplicates(run_queue')
      /\ Len(run_queue') = Len(run_queue) - 1
    BY <1>1, RemoveKeeps DEF list_linked
<1>3. run_queue' # <<>>
    <2>1. ToSet(<<>>) = {}
        BY EmptySeq, LenProperties DEF ToSet
    <2>2. u \in ToSet(run_queue')
        BY <1>2
    <2>3. QED
        BY <2>1, <2>2
<1>4. Head(run_queue') \in ToSet(run_queue')
    BY <1>2, <1>3, HeadIsMember
<1>5. QED
    BY <1>1, <1>2, <1>4

-----------------------------------------------------------------------------
(* The inductive invariant. *)

\* Where control is: nothing but idle runs until idle first gives the CPU
\* away and while it has interrupts enabled, and the handler is inside that
\* window.  The named invariants are not inductive without it: a handler
\* that ran over a task could end the sleep of a queued one.
ControlSound ==
    /\ (current_task = NULL) <=> (Idle \notin created)
    /\ ~scheduler_started =>
            idle_pc = "entry" /\ timers = <<>> /\ current_task \in {NULL, Idle}
    /\ scheduler_started => Idle \in created
    /\ scheduler_started /\ idle_pc \in {"entry", "halted", "woken"} => current_task = Idle
    /\ in_isr => idle_pc = "woken"
    /\ firing # NULL => in_isr /\ ~timer_is_registered(firing)

Inv ==
    /\ TypeOK
    /\ TimersSorted
    /\ DeadlineArmed
    /\ RunQueueSound
    /\ CurrentIsHead
    /\ SleepersOffQueue
    /\ IdleHaltsOnlyAlone
    /\ ControlSound

LEMMA InvFacts ==
    ASSUME Inv
    PROVE  TimersInvariant /\ QueueInv
BY DEF Inv, TypeOK, RunQueueSound, TimersInvariant, QueueInv

\* The conjuncts of Inv that speak of the timer queue and of control depend
\* on nothing that a step leaving timerVars and idle_pc alone changes.
LEMMA TimersUntouched ==
    ASSUME Inv, UNCHANGED timerVars
    PROVE  /\ TimersTypeOK' /\ TimersSorted' /\ DeadlineArmed'
           /\ \A t : Asleep(t)' <=> Asleep(t)
           /\ \A t : timer_is_registered(t)' <=> timer_is_registered(t)
BY DEF Inv, TypeOK, timerVars, TimersTypeOK, TimersSorted, DeadlineArmed, NoDuplicates,
       Asleep, timer_is_registered, list_linked

LEMMA InitInv == Init => Inv
<1> SUFFICES ASSUME Init PROVE Inv
    OBVIOUS
<1>1. TimersInvariant
    BY InitEstablishes DEF Init
<1>2. <<>> \in Seq(Task) /\ Len(<<>>) = 0 /\ DOMAIN <<>> = {} /\ ToSet(<<>>) = {}
    BY EmptySeq, LenProperties DEF ToSet
<1>3. \A t : ~timer_is_registered(t)
    BY <1>2 DEF Init, TimersInit, timer_is_registered, list_linked
<1>4. TypeOK
    BY <1>1, <1>2 DEF Init, TypeOK, TimersInvariant, IdlePc
<1>5. RunQueueSound
    BY <1>2 DEF Init, RunQueueSound, NoDuplicates, Queued
<1>6. CurrentIsHead /\ IdleHaltsOnlyAlone
    BY DEF Init, CurrentIsHead, IdleHaltsOnlyAlone
<1>7. SleepersOffQueue
    BY <1>3, TimersAssumption DEF Init, TimersInit, SleepersOffQueue, Asleep, Task
<1>8. ControlSound
    BY DEF Init, TimersInit, ControlSound
<1>9. QED
    BY <1>1, <1>4, <1>5, <1>6, <1>7, <1>8 DEF Inv, TimersInvariant
-----------------------------------------------------------------------------
\* Boot.
LEMMA SchedulerCtorInv ==
    ASSUME Inv, SchedulerCtor
    PROVE  Inv'
<1>1. /\ ~scheduler_started /\ Idle \notin created
      /\ created' = created \cup {Idle}
      /\ schedule_task(Idle)
      /\ current_task' = Idle
      /\ UNCHANGED timerVars /\ UNCHANGED <<scheduler_started, idle_pc>>
    BY DEF SchedulerCtor, start_kernel_task, create_kernel_task
<1>2. QueueInv' /\ Queued' = Queued \cup {Idle}
    BY <1>1, InvFacts, ScheduleTaskKeeps, SchedulerAssumption
<1>3. /\ TimersTypeOK' /\ TimersSorted' /\ DeadlineArmed'
      /\ \A t : Asleep(t)' <=> Asleep(t)
      /\ \A t : timer_is_registered(t)' <=> timer_is_registered(t)
    BY <1>1, TimersUntouched
<1>4. idle_pc = "entry" /\ timers = <<>> /\ firing = firing' /\ in_isr' = in_isr
      /\ timers' = timers
    BY <1>1 DEF Inv, ControlSound, timerVars
<1>5. TypeOK'
    BY <1>1, <1>2, <1>3, SchedulerAssumption, LenProperties DEF Inv, TypeOK, QueueInv
<1>6. RunQueueSound'
    BY <1>1, <1>2 DEF Inv, RunQueueSound, QueueInv
<1>7. CurrentIsHead' /\ IdleHaltsOnlyAlone'
    BY <1>1, <1>4 DEF CurrentIsHead, IdleHaltsOnlyAlone
<1>8. SleepersOffQueue'
    BY <1>1, <1>2, <1>3 DEF Inv, SleepersOffQueue
<1>9. ControlSound'
    BY <1>1, <1>3, <1>4, TimersAssumption, SchedulerAssumption DEF Inv, ControlSound, Task
<1>10. QED
    BY <1>3, <1>5, <1>6, <1>7, <1>8, <1>9 DEF Inv

LEMMA SpawnAtBootInv ==
    ASSUME Inv, NEW t \in Task, SpawnAtBoot(t)
    PROVE  Inv'
<1>1. /\ ~scheduler_started /\ t # Idle /\ t \notin created
      /\ created' = created \cup {t}
      /\ schedule_task(t)
      /\ UNCHANGED timerVars /\ UNCHANGED <<current_task, scheduler_started, idle_pc>>
    BY DEF SpawnAtBoot, start_kernel_task, create_kernel_task
<1>2. QueueInv' /\ Queued' = Queued \cup {t}
    BY <1>1, InvFacts, ScheduleTaskKeeps
<1>3. /\ TimersTypeOK' /\ TimersSorted' /\ DeadlineArmed'
      /\ \A u : Asleep(u)' <=> Asleep(u)
      /\ \A u : timer_is_registered(u)' <=> timer_is_registered(u)
    BY <1>1, TimersUntouched
<1>4. idle_pc = "entry" /\ timers = <<>> /\ firing = firing' /\ in_isr' = in_isr
      /\ timers' = timers
    BY <1>1 DEF Inv, ControlSound, timerVars
<1>5. TypeOK'
    BY <1>1, <1>2, <1>3, LenProperties DEF Inv, TypeOK, QueueInv
<1>6. RunQueueSound'
    BY <1>1, <1>2 DEF Inv, RunQueueSound, QueueInv
<1>7. CurrentIsHead' /\ IdleHaltsOnlyAlone'
    BY <1>1, <1>4 DEF CurrentIsHead, IdleHaltsOnlyAlone
<1>8. SleepersOffQueue'
    BY <1>1, <1>2, <1>3 DEF Inv, SleepersOffQueue
<1>9. ControlSound'
    BY <1>1, <1>3, <1>4 DEF Inv, ControlSound
<1>10. QED
    BY <1>3, <1>5, <1>6, <1>7, <1>8, <1>9 DEF Inv

LEMMA SchedulerStartInv ==
    ASSUME Inv, scheduler_start
    PROVE  Inv'
<1>1. /\ ~scheduler_started /\ Idle \in created /\ scheduler_started'
      /\ UNCHANGED timerVars /\ UNCHANGED <<queueVars, created, idle_pc>>
    BY DEF scheduler_start
<1>2. current_task = Idle /\ idle_pc = "entry"
    BY <1>1 DEF Inv, ControlSound
<1>3. /\ TimersTypeOK' /\ TimersSorted' /\ DeadlineArmed'
      /\ \A t : Asleep(t)' <=> Asleep(t)
      /\ \A t : timer_is_registered(t)' <=> timer_is_registered(t)
    BY <1>1, TimersUntouched
<1>4. run_queue' = run_queue /\ Queued' = Queued
    BY <1>1 DEF queueVars, Queued
<1>5. TypeOK'
    BY <1>1, <1>3 DEF Inv, TypeOK, queueVars, scheduler_start
<1>6. RunQueueSound'
    BY <1>1, <1>4 DEF Inv, RunQueueSound, queueVars, NoDuplicates
<1>7. CurrentIsHead' /\ IdleHaltsOnlyAlone'
    BY <1>1, <1>2, <1>4 DEF Inv, CurrentIsHead, IdleHaltsOnlyAlone, RunQueueSound, queueVars
<1>8. SleepersOffQueue'
    BY <1>1, <1>3, <1>4 DEF Inv, SleepersOffQueue
<1>9. ControlSound'
    BY <1>1, <1>2, <1>3 DEF Inv, ControlSound, queueVars, timerVars
<1>10. QED
    BY <1>3, <1>5, <1>6, <1>7, <1>8, <1>9 DEF Inv
-----------------------------------------------------------------------------
\* While task t runs it is queued, as idle is, and the handler is not.
LEMMA RunsFacts ==
    ASSUME Inv, NEW t, Runs(t)
    PROVE  /\ scheduler_started /\ current_task = t /\ t \in Task
           /\ t \in Queued /\ Idle \in Queued /\ Idle \in created
           /\ ~in_isr /\ firing = NULL
           /\ run_queue # <<>>
           /\ t \in created
           /\ t # Idle => idle_pc \in {"giveup", "test"} /\ t = Head(run_queue)
<1>1. scheduler_started /\ current_task = t /\ ~in_isr
    BY DEF Runs
<1>2. t \in Queued /\ Idle \in created /\ Idle \in Queued /\ firing = NULL
    BY <1>1 DEF Inv, CurrentIsHead, ControlSound, RunQueueSound
<1>3. t \in Task /\ run_queue # <<>>
    <2>1. run_queue \in Seq(Task)
        BY DEF Inv, TypeOK
    <2>2. ToSet(<<>>) = {}
        BY EmptySeq, LenProperties DEF ToSet
    <2>3. QED
        BY <1>2, <2>1, <2>2, ElementOfSeq, LenProperties DEF Queued, ToSet
<1>4. t \in created
    BY <1>2 DEF Inv, RunQueueSound
<1>5. t # Idle => idle_pc \in {"giveup", "test"} /\ t = Head(run_queue)
    BY <1>1 DEF Inv, ControlSound, TypeOK, IdlePc, CurrentIsHead
<1>6. QED
    BY <1>1, <1>2, <1>3, <1>4, <1>5

\* The idle task.
LEMMA IdleGiveupInv ==
    ASSUME Inv, IdleGiveup
    PROVE  Inv'
<1>1. /\ Runs(Idle) /\ giveup_cpu /\ idle_pc' = "test"
      /\ UNCHANGED timerVars /\ UNCHANGED bootVars
    BY DEF IdleGiveup
<1>2. /\ scheduler_started /\ current_task = Idle /\ Idle \in Queued
      /\ ~in_isr /\ firing = NULL
    BY <1>1, RunsFacts
<1>3. /\ QueueInv' /\ Queued' = Queued
      /\ current_task' = Head(run_queue') /\ current_task' \in Queued'
    BY <1>1, <1>2, InvFacts, GiveupKeeps
<1>4. /\ TimersTypeOK' /\ TimersSorted' /\ DeadlineArmed'
      /\ \A t : Asleep(t)' <=> Asleep(t)
      /\ \A t : timer_is_registered(t)' <=> timer_is_registered(t)
    BY <1>1, TimersUntouched
<1>5. current_task' \in Task
    BY <1>3, ElementOfSeq, LenProperties DEF QueueInv, Queued, ToSet
<1>6. TypeOK'
    BY <1>1, <1>3, <1>4, <1>5, LenProperties DEF Inv, TypeOK, QueueInv, bootVars, IdlePc
<1>7. RunQueueSound'
    BY <1>1, <1>3 DEF Inv, RunQueueSound, QueueInv, bootVars
<1>8. CurrentIsHead' /\ IdleHaltsOnlyAlone'
    BY <1>1, <1>3 DEF CurrentIsHead, IdleHaltsOnlyAlone
<1>9. SleepersOffQueue'
    BY <1>1, <1>3, <1>4 DEF Inv, SleepersOffQueue, bootVars
<1>10. ControlSound'
    BY <1>1, <1>2, <1>4, <1>5, TimersAssumption
       DEF Inv, ControlSound, bootVars, timerVars, Task
<1>11. QED
    BY <1>4, <1>6, <1>7, <1>8, <1>9, <1>10 DEF Inv

\* The test reads the counter; that it equals the queue's length is what
\* makes the halt safe.
LEMMA IdleTestInv ==
    ASSUME Inv, IdleTest
    PROVE  Inv'
<1>1. /\ Runs(Idle) /\ idle_pc = "test"
      /\ idle_pc' = IF tasks_in_run_queue <= 1 THEN "halted" ELSE "giveup"
      /\ UNCHANGED timerVars /\ UNCHANGED queueVars /\ UNCHANGED bootVars
    BY DEF IdleTest
<1>2. /\ scheduler_started /\ current_task = Idle /\ Idle \in Queued
      /\ ~in_isr /\ firing = NULL /\ run_queue # <<>>
    BY <1>1, RunsFacts
<1>3. run_queue \in Seq(Task) /\ tasks_in_run_queue = Len(run_queue)
    BY InvFacts DEF QueueInv
<1>4. run_queue' = run_queue /\ Queued' = Queued /\ current_task' = current_task
    BY <1>1 DEF queueVars, Queued
<1>5. /\ TimersTypeOK' /\ TimersSorted' /\ DeadlineArmed'
      /\ \A t : Asleep(t)' <=> Asleep(t)
      /\ \A t : timer_is_registered(t)' <=> timer_is_registered(t)
    BY <1>1, TimersUntouched
<1>6. TypeOK'
    BY <1>1, <1>5 DEF Inv, TypeOK, queueVars, bootVars, IdlePc
<1>7. RunQueueSound'
    BY <1>1, <1>4 DEF Inv, RunQueueSound, queueVars, bootVars, NoDuplicates
<1>8. CurrentIsHead'
    BY <1>1, <1>4 DEF Inv, CurrentIsHead, bootVars
<1>9. IdleHaltsOnlyAlone'
    <2>1. SUFFICES ASSUME idle_pc' = "halted" PROVE run_queue = <<Idle>>
        BY <1>4 DEF IdleHaltsOnlyAlone
    <2>2. Len(run_queue) <= 1
        BY <1>1, <1>3, <2>1
    <2>3. Len(run_queue) = 1
        <3>1. Len(run_queue) \in Nat /\ Len(run_queue) # 0
            BY <1>2, <1>3, LenProperties
        <3>2. \A n \in Nat : n # 0 /\ n <= 1 => n = 1
            OBVIOUS
        <3>3. QED
            BY <2>2, <3>1, <3>2, Zenon
    <2>4. run_queue[1] = Idle
        <3>1. DOMAIN run_queue = 1 .. 1
            BY <1>3, <2>3, LenProperties
        <3>2. QED
            BY <1>2, <3>1 DEF Queued, ToSet
    <2>5. QED
        BY <1>3, <2>3, <2>4
<1>10. SleepersOffQueue'
    BY <1>1, <1>4, <1>5 DEF Inv, SleepersOffQueue, bootVars
<1>11. ControlSound'
    BY <1>1, <1>2, <1>4, <1>5 DEF Inv, ControlSound, bootVars, timerVars
<1>12. QED
    BY <1>5, <1>6, <1>7, <1>8, <1>9, <1>10, <1>11 DEF Inv

LEMMA IdleCliInv ==
    ASSUME Inv, IdleCli
    PROVE  Inv'
<1>1. /\ Runs(Idle) /\ idle_pc = "woken" /\ idle_pc' = "giveup"
      /\ UNCHANGED timerVars /\ UNCHANGED queueVars /\ UNCHANGED bootVars
    BY DEF IdleCli
<1>2. scheduler_started /\ current_task = Idle /\ ~in_isr /\ firing = NULL
    BY <1>1, RunsFacts
<1>3. run_queue' = run_queue /\ Queued' = Queued /\ current_task' = current_task
    BY <1>1 DEF queueVars, Queued
<1>4. /\ TimersTypeOK' /\ TimersSorted' /\ DeadlineArmed'
      /\ \A t : Asleep(t)' <=> Asleep(t)
      /\ \A t : timer_is_registered(t)' <=> timer_is_registered(t)
    BY <1>1, TimersUntouched
<1>5. TypeOK'
    BY <1>1, <1>4 DEF Inv, TypeOK, queueVars, bootVars, IdlePc
<1>6. RunQueueSound'
    BY <1>1, <1>3 DEF Inv, RunQueueSound, queueVars, bootVars, NoDuplicates
<1>7. CurrentIsHead' /\ IdleHaltsOnlyAlone'
    BY <1>1, <1>3 DEF Inv, CurrentIsHead, IdleHaltsOnlyAlone, bootVars
<1>8. SleepersOffQueue'
    BY <1>1, <1>3, <1>4 DEF Inv, SleepersOffQueue, bootVars
<1>9. ControlSound'
    BY <1>1, <1>2, <1>3, <1>4 DEF Inv, ControlSound, bootVars, timerVars
<1>10. QED
    BY <1>4, <1>5, <1>6, <1>7, <1>8, <1>9 DEF Inv
-----------------------------------------------------------------------------
\* The hardware and the interrupt handler: the timer queue is kept by the
\* lemmas of the timer queue, the rest by the window in which idle enables
\* interrupts.
LEMMA TimerInterruptInv ==
    ASSUME Inv, TimerInterrupt
    PROVE  Inv'
<1>1. /\ Runs(Idle) /\ idle_pc \in {"halted", "woken"} /\ IsrEnter /\ idle_pc' = "woken"
      /\ UNCHANGED queueVars /\ UNCHANGED bootVars
    BY DEF TimerInterrupt, InterruptsEnabled
<1>2. /\ in_isr' /\ UNCHANGED <<timers, when, deadline, tsc, firing>>
    BY <1>1 DEF IsrEnter
<1>3. scheduler_started /\ current_task = Idle /\ firing = NULL
    BY <1>1, RunsFacts
<1>4. run_queue' = run_queue /\ Queued' = Queued /\ current_task' = current_task
    BY <1>1 DEF queueVars, Queued
<1>5. TimersInvariant'
    BY <1>1, InvFacts, HandlerKeeps
<1>6. /\ \A t : Asleep(t)' <=> Asleep(t)
      /\ \A t : timer_is_registered(t)' <=> timer_is_registered(t)
    BY <1>2 DEF Asleep, timer_is_registered, list_linked
<1>7. TypeOK'
    BY <1>1, <1>5 DEF Inv, TypeOK, TimersInvariant, queueVars, bootVars, IdlePc
<1>8. RunQueueSound'
    BY <1>1, <1>4 DEF Inv, RunQueueSound, queueVars, bootVars, NoDuplicates
<1>9. CurrentIsHead' /\ IdleHaltsOnlyAlone'
    BY <1>1, <1>4 DEF Inv, CurrentIsHead, IdleHaltsOnlyAlone, bootVars
<1>10. SleepersOffQueue'
    BY <1>1, <1>4, <1>6 DEF Inv, SleepersOffQueue, bootVars
<1>11. ControlSound'
    BY <1>1, <1>2, <1>3, <1>4, <1>6 DEF Inv, ControlSound, bootVars
<1>12. QED
    BY <1>5, <1>7, <1>8, <1>9, <1>10, <1>11 DEF Inv, TimersInvariant

LEMMA HandlerLoopInv ==
    ASSUME Inv, HandlerLoop
    PROVE  Inv'
<1>1. IsrLoop /\ UNCHANGED queueVars /\ UNCHANGED bootVars /\ UNCHANGED idle_pc
    BY DEF HandlerLoop, schedVars
<1>2. in_isr /\ firing = NULL /\ idle_pc = "woken"
    BY <1>1 DEF IsrLoop, IsrDrained, IsrNotDue, IsrFire, InLoop, Inv, ControlSound
<1>3. run_queue' = run_queue /\ Queued' = Queued /\ current_task' = current_task
    BY <1>1 DEF queueVars, Queued
<1>4. TimersInvariant'
    BY <1>1, InvFacts, HandlerKeeps
<1>5. \/ /\ firing' = NULL /\ timers' = timers
      \/ /\ firing' = Head(timers) /\ timers # <<>> /\ in_isr'
         /\ ToSet(timers') = ToSet(timers) \ {Head(timers)}
    <2>1. CASE IsrDrained \/ IsrNotDue
        BY <1>2, <2>1 DEF IsrDrained, IsrNotDue
    <2>2. CASE IsrFire
        <3>1. timers \in Seq(Timer) /\ NoDuplicates(timers)
            BY DEF Inv, TypeOK, TimersTypeOK, TimersSorted
        <3>2. QED
            BY <1>2, <2>2, <3>1, RemoveKeeps DEF IsrFire
    <2>3. QED
        BY <1>1, <2>1, <2>2 DEF IsrLoop
<1>6. timers # <<>> => Head(timers) \in ToSet(timers)
    BY HeadIsMember DEF Inv, TypeOK, TimersTypeOK
<1>7. \A t \in Task : Asleep(t)' => Asleep(t)
    BY <1>2, <1>5, <1>6, TimersAssumption DEF Asleep, timer_is_registered, list_linked, Task
<1>8. firing' # NULL => in_isr' /\ ~timer_is_registered(firing)'
    BY <1>5 DEF timer_is_registered, list_linked
<1>9. TypeOK'
    BY <1>1, <1>4 DEF Inv, TypeOK, TimersInvariant, queueVars, bootVars
<1>10. RunQueueSound'
    BY <1>1, <1>3 DEF Inv, RunQueueSound, queueVars, bootVars, NoDuplicates
<1>11. CurrentIsHead' /\ IdleHaltsOnlyAlone'
    BY <1>1, <1>3 DEF Inv, CurrentIsHead, IdleHaltsOnlyAlone, bootVars
<1>12. SleepersOffQueue'
    BY <1>1, <1>3, <1>7 DEF Inv, SleepersOffQueue, bootVars
<1>13. ControlSound'
    <2>1. scheduler_started /\ scheduler_started' = scheduler_started
        BY <1>1, <1>2 DEF Inv, ControlSound, bootVars
    <2>2. QED
        BY <1>1, <1>2, <1>3, <1>8, <2>1 DEF Inv, ControlSound, bootVars
<1>14. QED
    BY <1>4, <1>9, <1>10, <1>11, <1>12, <1>13 DEF Inv, TimersInvariant

LEMMA TimerCallbackInv ==
    ASSUME Inv, TimerCallback
    PROVE  Inv'
<1>1. /\ IsrFuncReturn /\ schedule_task(firing)
      /\ UNCHANGED current_task /\ UNCHANGED bootVars /\ UNCHANGED idle_pc
    BY DEF TimerCallback
<1>2. /\ firing # NULL /\ firing' = NULL
      /\ UNCHANGED <<timers, when, deadline, pending, tsc, in_isr>>
    BY <1>1 DEF IsrFuncReturn
<1>3. firing \in Task
    BY <1>2 DEF Inv, TypeOK, TimersTypeOK, Task
<1>4. /\ in_isr /\ idle_pc = "woken" /\ ~timer_is_registered(firing)
      /\ scheduler_started /\ current_task = Idle
    BY <1>2 DEF Inv, ControlSound
<1>5. Asleep(firing) /\ firing \in created \ {Idle}
    BY <1>3 DEF Asleep, Inv, SleepersOffQueue
<1>6. current_task \in Queued /\ current_task = Head(run_queue) /\ run_queue # <<>>
    <2>1. ToSet(<<>>) = {}
        BY EmptySeq, LenProperties DEF ToSet
    <2>2. QED
        BY <1>4, <2>1 DEF Inv, CurrentIsHead, Queued
<1>7. /\ QueueInv' /\ Queued' = Queued \cup {firing}
      /\ Head(run_queue') = Head(run_queue)
    BY <1>1, <1>3, <1>6, InvFacts, ScheduleTaskKeeps
<1>8. TimersInvariant'
    BY <1>1, InvFacts, HandlerKeeps
<1>9. \A t \in Task : Asleep(t)' => Asleep(t) /\ t # firing
    BY <1>2, <1>4, TimersAssumption DEF Asleep, timer_is_registered, list_linked, Task
<1>10. TypeOK'
    BY <1>1, <1>7, <1>8, LenProperties DEF Inv, TypeOK, TimersInvariant, QueueInv, bootVars
<1>11. RunQueueSound'
    BY <1>1, <1>5, <1>7 DEF Inv, RunQueueSound, QueueInv, bootVars
<1>12. CurrentIsHead' /\ IdleHaltsOnlyAlone'
    BY <1>1, <1>4, <1>6, <1>7 DEF CurrentIsHead, IdleHaltsOnlyAlone
<1>13. SleepersOffQueue'
    BY <1>1, <1>7, <1>9 DEF Inv, SleepersOffQueue, bootVars
<1>14. ControlSound'
    BY <1>1, <1>2, <1>4 DEF Inv, ControlSound, bootVars
<1>15. QED
    BY <1>8, <1>10, <1>11, <1>12, <1>13, <1>14 DEF Inv, TimersInvariant

LEMMA HardwareInv ==
    ASSUME Inv, Hardware
    PROVE  Inv'
<1>1. /\ Tick \/ DeadlineExpires
      /\ UNCHANGED queueVars /\ UNCHANGED bootVars /\ UNCHANGED idle_pc
    BY DEF Hardware, schedVars
<1>2. UNCHANGED <<timers, in_isr, firing>>
    BY <1>1 DEF Tick, DeadlineExpires
<1>3. run_queue' = run_queue /\ Queued' = Queued /\ current_task' = current_task
    BY <1>1 DEF queueVars, Queued
<1>4. TimersInvariant'
    BY <1>1, InvFacts, HandlerKeeps
<1>5. /\ \A t : Asleep(t)' <=> Asleep(t)
      /\ \A t : timer_is_registered(t)' <=> timer_is_registered(t)
    BY <1>2 DEF Asleep, timer_is_registered, list_linked
<1>6. TypeOK'
    BY <1>1, <1>4 DEF Inv, TypeOK, TimersInvariant, queueVars, bootVars
<1>7. RunQueueSound'
    BY <1>1, <1>3 DEF Inv, RunQueueSound, queueVars, bootVars, NoDuplicates
<1>8. CurrentIsHead' /\ IdleHaltsOnlyAlone'
    BY <1>1, <1>3 DEF Inv, CurrentIsHead, IdleHaltsOnlyAlone, bootVars
<1>9. SleepersOffQueue'
    BY <1>1, <1>3, <1>5 DEF Inv, SleepersOffQueue, bootVars
<1>10. ControlSound'
    BY <1>1, <1>2, <1>3, <1>5 DEF Inv, ControlSound, bootVars
<1>11. QED
    BY <1>4, <1>6, <1>7, <1>8, <1>9, <1>10 DEF Inv, TimersInvariant
-----------------------------------------------------------------------------
\* The calls by which a task keeps the CPU: it is enough that the head of the
\* queue stays, that idle stays queued, and that no sleeper is queued.
LEMMA QuietCallInv ==
    ASSUME Inv, NEW t \in Task, t # Idle, Runs(t),
           TimersInvariant', QueueInv',
           Head(run_queue') = Head(run_queue),
           t \in Queued', Idle \in Queued', Queued' \subseteq created',
           created \subseteq created', created' \subseteq Task,
           \A u \in Task : Asleep(u)' => Asleep(u) /\ u \notin Queued',
           UNCHANGED <<current_task, scheduler_started, idle_pc, in_isr, firing>>
    PROVE  Inv'
<1>1. /\ scheduler_started /\ current_task = t /\ Idle \in created
      /\ ~in_isr /\ firing = NULL /\ idle_pc \in {"giveup", "test"} /\ t = Head(run_queue)
    BY RunsFacts
<1>2. TypeOK'
    BY LenProperties DEF Inv, TypeOK, TimersInvariant, QueueInv
<1>3. RunQueueSound'
    BY DEF RunQueueSound, QueueInv
<1>4. CurrentIsHead' /\ IdleHaltsOnlyAlone'
    BY <1>1 DEF CurrentIsHead, IdleHaltsOnlyAlone
<1>5. SleepersOffQueue'
    BY DEF Inv, SleepersOffQueue
<1>6. ControlSound'
    BY <1>1 DEF Inv, ControlSound
<1>7. QED
    BY <1>2, <1>3, <1>4, <1>5, <1>6 DEF Inv, TimersInvariant

LEMMA WakeInv ==
    ASSUME Inv, NEW t \in Task, t # Idle, Runs(t), NEW u \in created, Wake(u)
    PROVE  Inv'
<1>1. /\ ~timer_is_registered(u) /\ schedule_task(u) /\ UNCHANGED timerVars
      /\ UNCHANGED <<current_task, idle_pc>> /\ UNCHANGED bootVars
    BY DEF Wake
<1>2. /\ t \in Queued /\ Idle \in Queued /\ firing = NULL /\ run_queue # <<>>
      /\ u \in Task
    BY RunsFacts DEF Inv, TypeOK
<1>3. /\ QueueInv' /\ Queued' = Queued \cup {u}
      /\ Head(run_queue') = Head(run_queue)
    BY <1>1, <1>2, InvFacts, ScheduleTaskKeeps
<1>4. TimersInvariant' /\ \A v \in Task : Asleep(v)' <=> Asleep(v)
    BY <1>1, TimersUntouched DEF TimersInvariant
<1>5. ~Asleep(u)
    BY <1>1, <1>2, TimersAssumption DEF Asleep, Task
<1>6. \A v \in Task : Asleep(v)' => Asleep(v) /\ v \notin Queued'
    BY <1>3, <1>4, <1>5 DEF Inv, SleepersOffQueue
<1>7. Queued' \subseteq created' /\ created' = created /\ created \subseteq Task
    BY <1>1, <1>3 DEF Inv, RunQueueSound, TypeOK, bootVars
<1>8. UNCHANGED <<current_task, scheduler_started, idle_pc, in_isr, firing>>
    BY <1>1 DEF bootVars, timerVars
<1>9. QED
    BY <1>2, <1>3, <1>4, <1>6, <1>7, <1>8, QuietCallInv

LEMMA SuspendInv ==
    ASSUME Inv, NEW t \in Task, t # Idle, Runs(t), NEW u \in created, Suspend(u)
    PROVE  Inv'
<1>1. /\ u # Idle /\ u # current_task /\ unschedule_task(u) /\ UNCHANGED timerVars
      /\ UNCHANGED <<current_task, idle_pc>> /\ UNCHANGED bootVars
    BY DEF Suspend
<1>2. /\ t \in Queued /\ Idle \in Queued /\ current_task = t /\ run_queue # <<>>
      /\ t = Head(run_queue) /\ u \in Task
    BY RunsFacts DEF Inv, TypeOK
<1>3. /\ QueueInv' /\ Queued' = Queued \ {u}
      /\ Head(run_queue') = Head(run_queue)
    BY <1>1, <1>2, InvFacts, UnscheduleTaskKeeps
<1>4. TimersInvariant' /\ \A v \in Task : Asleep(v)' <=> Asleep(v)
    BY <1>1, TimersUntouched DEF TimersInvariant
<1>5. \A v \in Task : Asleep(v)' => Asleep(v) /\ v \notin Queued'
    BY <1>3, <1>4 DEF Inv, SleepersOffQueue
<1>6. Queued' \subseteq created' /\ created' = created /\ created \subseteq Task
    BY <1>1, <1>3 DEF Inv, RunQueueSound, TypeOK, bootVars
<1>7. UNCHANGED <<current_task, scheduler_started, idle_pc, in_isr, firing>>
    BY <1>1 DEF bootVars, timerVars
<1>8. t \in Queued' /\ Idle \in Queued'
    BY <1>1, <1>2, <1>3
<1>9. QED
    BY <1>3, <1>4, <1>5, <1>6, <1>7, <1>8, QuietCallInv

LEMMA CancelSleepInv ==
    ASSUME Inv, NEW t \in Task, t # Idle, Runs(t), NEW u \in created, CancelSleep(u)
    PROVE  Inv'
<1>1. /\ timer_unregister(u) /\ schedule_task(u)
      /\ UNCHANGED <<pending, tsc, in_isr, firing, current_task, idle_pc>>
      /\ UNCHANGED bootVars
    BY DEF CancelSleep, cancel_sleep
<1>2. /\ t \in Queued /\ Idle \in Queued /\ firing = NULL /\ run_queue # <<>>
      /\ u \in Task /\ u \in Timer
    BY RunsFacts DEF Inv, TypeOK, Task
<1>3. /\ QueueInv' /\ Queued' = Queued \cup {u}
      /\ Head(run_queue') = Head(run_queue)
    BY <1>1, <1>2, InvFacts, ScheduleTaskKeeps
<1>4. /\ timers' \in Seq(Timer) /\ when' = when /\ deadline' \in Time /\ TimersSorted'
      /\ ToSet(timers') = ToSet(timers) \ {u}
      /\ \/ timers' = timers /\ deadline' = deadline
         \/ deadline' = IF timers' = <<>> THEN 0 ELSE when'[Head(timers')]
    BY <1>1, <1>2, UnregisterKeeps DEF Inv, TypeOK
<1>5. TimersTypeOK'
    BY <1>1, <1>4 DEF Inv, TypeOK, TimersTypeOK
<1>6. DeadlineArmed'
    BY <1>1, <1>4 DEF Inv, DeadlineArmed
<1>7. TimersInvariant'
    BY <1>4, <1>5, <1>6 DEF TimersInvariant
<1>8. \A v \in Task : Asleep(v)' => Asleep(v) /\ v # u
    BY <1>1, <1>2, <1>4, TimersAssumption DEF Asleep, timer_is_registered, list_linked, Task
<1>9. \A v \in Task : Asleep(v)' => Asleep(v) /\ v \notin Queued'
    BY <1>3, <1>8 DEF Inv, SleepersOffQueue
<1>10. Queued' \subseteq created' /\ created' = created /\ created \subseteq Task
    BY <1>1, <1>3 DEF Inv, RunQueueSound, TypeOK, bootVars
<1>11. UNCHANGED <<current_task, scheduler_started, idle_pc, in_isr, firing>>
    BY <1>1 DEF bootVars
<1>12. QED
    BY <1>2, <1>3, <1>7, <1>9, <1>10, <1>11, QuietCallInv

\* Creating a task, and starting it.
LEMMA CreateStartInv ==
    ASSUME Inv, NEW t \in Task, t # Idle, Runs(t), NEW u \in Task, Create(u) \/ Start(u)
    PROVE  Inv'
<1>1. /\ u \notin created /\ created' = created \cup {u} /\ UNCHANGED timerVars
      /\ UNCHANGED <<current_task, scheduler_started, idle_pc>>
      /\ schedule_task(u) \/ UNCHANGED <<run_queue, tasks_in_run_queue>>
    BY DEF Create, Start, start_kernel_task, create_kernel_task, queueVars
<1>2. t \in Queued /\ Idle \in Queued /\ run_queue # <<>>
    BY RunsFacts
<1>3. /\ QueueInv' /\ Queued' \in {Queued, Queued \cup {u}}
      /\ Head(run_queue') = Head(run_queue)
    <2>1. CASE schedule_task(u)
        BY <1>2, <2>1, InvFacts, ScheduleTaskKeeps
    <2>2. CASE UNCHANGED <<run_queue, tasks_in_run_queue>>
        BY <2>2, InvFacts DEF QueueInv, Queued, NoDuplicates
    <2>3. QED
        BY <1>1, <2>1, <2>2
<1>4. TimersInvariant' /\ \A v \in Task : Asleep(v)' <=> Asleep(v)
    BY <1>1, TimersUntouched DEF TimersInvariant
<1>5. \A v \in Task : Asleep(v)' => Asleep(v) /\ v \notin Queued'
    BY <1>1, <1>3, <1>4 DEF Inv, SleepersOffQueue
<1>6. Queued' \subseteq created' /\ created \subseteq created' /\ created' \subseteq Task
    BY <1>1, <1>3 DEF Inv, RunQueueSound, TypeOK
<1>7. UNCHANGED <<current_task, scheduler_started, idle_pc, in_isr, firing>>
    BY <1>1 DEF timerVars
<1>8. QED
    BY <1>2, <1>3, <1>4, <1>5, <1>6, <1>7, QuietCallInv
-----------------------------------------------------------------------------
\* The calls by which a task gives the CPU away.  Idle, which never blocks,
\* is what keeps the queue from running empty.
LEMMA SwitchFacts ==
    ASSUME Inv, NEW t \in Task, t # Idle, Runs(t),
           TimersInvariant', QueueInv',
           current_task' = Head(run_queue'), current_task' \in Queued',
           Idle \in Queued', Queued' \subseteq Queued,
           \A u \in Task : Asleep(u)' => u \notin Queued' /\ u \in created \ {Idle},
           UNCHANGED <<scheduler_started, created, idle_pc, in_isr, firing>>
    PROVE  Inv'
<1>1. /\ scheduler_started /\ current_task = t /\ Idle \in created
      /\ ~in_isr /\ firing = NULL /\ idle_pc \in {"giveup", "test"}
    BY RunsFacts
<1>2. current_task' \in Task
    BY ElementOfSeq, LenProperties DEF QueueInv, Queued, ToSet
<1>3. TypeOK'
    BY <1>2, LenProperties DEF Inv, TypeOK, TimersInvariant, QueueInv
<1>4. RunQueueSound'
    BY DEF Inv, RunQueueSound, QueueInv
<1>5. CurrentIsHead' /\ IdleHaltsOnlyAlone'
    BY <1>1 DEF CurrentIsHead, IdleHaltsOnlyAlone
<1>6. SleepersOffQueue'
    BY DEF SleepersOffQueue
<1>7. ControlSound'
    BY <1>1, <1>2, TimersAssumption DEF Inv, ControlSound, Task
<1>8. QED
    BY <1>3, <1>4, <1>5, <1>6, <1>7 DEF Inv, TimersInvariant

LEMMA YieldInv ==
    ASSUME Inv, NEW t \in Task, t # Idle, Runs(t), Yield(t)
    PROVE  Inv'
<1>1. giveup_cpu /\ UNCHANGED timerVars /\ UNCHANGED bootVars /\ UNCHANGED idle_pc
    BY DEF Yield
<1>2. current_task \in Queued /\ Idle \in Queued
    BY RunsFacts
<1>3. /\ QueueInv' /\ Queued' = Queued
      /\ current_task' = Head(run_queue') /\ current_task' \in Queued'
    BY <1>1, <1>2, InvFacts, GiveupKeeps
<1>4. TimersInvariant' /\ \A v \in Task : Asleep(v)' <=> Asleep(v)
    BY <1>1, TimersUntouched DEF TimersInvariant
<1>5. \A u \in Task : Asleep(u)' => u \notin Queued' /\ u \in created \ {Idle}
    BY <1>3, <1>4 DEF Inv, SleepersOffQueue
<1>6. UNCHANGED <<scheduler_started, created, idle_pc, in_isr, firing>>
    BY <1>1 DEF bootVars, timerVars
<1>7. QED
    BY <1>2, <1>3, <1>4, <1>5, <1>6, SwitchFacts

LEMMA BlockInv ==
    ASSUME Inv, NEW t \in Task, t # Idle, Runs(t), Block(t)
    PROVE  Inv'
<1>1. unschedule /\ UNCHANGED timerVars /\ UNCHANGED bootVars /\ UNCHANGED idle_pc
    BY DEF Block
<1>2. current_task \in Queued /\ Idle \in Queued /\ Idle # current_task
    BY RunsFacts
<1>3. /\ QueueInv' /\ Queued' = Queued \ {current_task}
      /\ current_task' = Head(run_queue') /\ current_task' \in Queued'
    BY <1>1, <1>2, InvFacts, UnscheduleKeeps
<1>4. TimersInvariant' /\ \A v \in Task : Asleep(v)' <=> Asleep(v)
    BY <1>1, TimersUntouched DEF TimersInvariant
<1>5. \A u \in Task : Asleep(u)' => u \notin Queued' /\ u \in created \ {Idle}
    BY <1>3, <1>4 DEF Inv, SleepersOffQueue
<1>6. UNCHANGED <<scheduler_started, created, idle_pc, in_isr, firing>>
    BY <1>1 DEF bootVars, timerVars
<1>7. Idle \in Queued' /\ Queued' \subseteq Queued
    BY <1>2, <1>3
<1>8. QED
    BY <1>3, <1>4, <1>5, <1>6, <1>7, SwitchFacts

\* sleep_tsc finds the timer of the running task unregistered, because that
\* task is on the run queue.
LEMMA SleepRegisters ==
    ASSUME Inv, NEW t \in Task, t # Idle, Runs(t), NEW delay \in Delay, Sleep(t, delay)
    PROVE  /\ t \in Timer /\ ~timer_is_registered(t)
           /\ (tsc + delay) % Word \in Time
           /\ timer_register_absolute(t, (tsc + delay) % Word)
<1>1. current_task = t /\ t \in Queued
    BY RunsFacts
<1>2. ~timer_is_registered(t)
    BY <1>1 DEF Inv, SleepersOffQueue, Asleep
<1>3. (tsc + delay) % Word \in Time
    <2>1. tsc + delay \in Nat /\ Word \in Nat /\ Word > 0
        BY TimersAssumption, SchedulerAssumption DEF Inv, TypeOK, TimersTypeOK
    <2>2. QED
        BY <2>1 DEF Time
<1>4. QED
    BY <1>1, <1>2, <1>3 DEF Sleep, sleep_tsc, timer_register_relative, Task

LEMMA SleepInv ==
    ASSUME Inv, NEW t \in Task, t # Idle, Runs(t), NEW delay \in Delay, Sleep(t, delay)
    PROVE  Inv'
<1>1. /\ unschedule
      /\ UNCHANGED <<pending, tsc, in_isr, firing, idle_pc>> /\ UNCHANGED bootVars
    BY DEF Sleep, sleep_tsc
<1>2. /\ current_task = t /\ current_task \in Queued /\ Idle \in Queued
      /\ t \in created /\ firing = NULL
    BY RunsFacts
<1>3. /\ QueueInv' /\ Queued' = Queued \ {t}
      /\ current_task' = Head(run_queue') /\ current_task' \in Queued'
    BY <1>1, <1>2, InvFacts, UnscheduleKeeps
<1>4. /\ timers' \in Seq(Timer) /\ when' \in [Timer -> Time] /\ deadline' \in Time
      /\ TimersSorted' /\ timers' # <<>> /\ deadline' = when'[Head(timers')]
      /\ ToSet(timers') = ToSet(timers) \cup {t}
    BY SleepRegisters, RegisterKeeps DEF Inv, TypeOK
<1>5. TimersTypeOK'
    BY <1>1, <1>4 DEF Inv, TypeOK, TimersTypeOK
<1>6. DeadlineArmed'
    BY <1>4 DEF DeadlineArmed
<1>7. TimersInvariant'
    BY <1>4, <1>5, <1>6 DEF TimersInvariant
<1>8. \A u \in Task : Asleep(u)' => Asleep(u) \/ u = t
    BY <1>1, <1>4 DEF Asleep, timer_is_registered, list_linked
<1>9. \A u \in Task : Asleep(u)' => u \notin Queued' /\ u \in created \ {Idle}
    BY <1>2, <1>3, <1>8 DEF Inv, SleepersOffQueue
<1>10. UNCHANGED <<scheduler_started, created, idle_pc, in_isr, firing>>
    BY <1>1 DEF bootVars
<1>11. Idle \in Queued' /\ Queued' \subseteq Queued
    BY <1>2, <1>3
<1>12. QED
    BY <1>3, <1>7, <1>9, <1>10, <1>11, SwitchFacts

LEMMA StutterInv ==
    ASSUME Inv, UNCHANGED vars
    PROVE  Inv'
BY DEF Inv, vars, timerVars, schedVars, queueVars, bootVars, TypeOK, TimersTypeOK,
       TimersSorted, DeadlineArmed, RunQueueSound, CurrentIsHead, SleepersOffQueue,
       IdleHaltsOnlyAlone, ControlSound, NoDuplicates, Queued, Asleep,
       timer_is_registered, list_linked
-----------------------------------------------------------------------------
LEMMA StepInv ==
    ASSUME Inv, [Next]_vars
    PROVE  Inv'
<1>1. ASSUME NEW t \in Task, TaskStep(t)
      PROVE  Inv'
    <2>1. t # Idle /\ Runs(t)
        BY <1>1 DEF TaskStep
    <2>2. CASE Yield(t)
        BY <2>1, <2>2, YieldInv
    <2>3. CASE Block(t)
        BY <2>1, <2>3, BlockInv
    <2>4. ASSUME NEW delay \in Delay, Sleep(t, delay)
          PROVE  Inv'
        BY <2>1, <2>4, SleepInv
    <2>5. ASSUME NEW u \in Task, CallOn(u)
          PROVE  Inv'
        BY <2>1, <2>5, WakeInv, SuspendInv, CancelSleepInv, CreateStartInv DEF CallOn
    <2>6. QED
        BY <1>1, <2>2, <2>3, <2>4, <2>5 DEF TaskStep, Switch
<1>2. ASSUME NEW t \in Task, SpawnAtBoot(t)
      PROVE  Inv'
    BY <1>2, SpawnAtBootInv
<1>3. CASE SchedulerCtor \/ scheduler_start
    BY <1>3, SchedulerCtorInv, SchedulerStartInv
<1>4. CASE IdleGiveup \/ IdleTest \/ IdleCli
    BY <1>4, IdleGiveupInv, IdleTestInv, IdleCliInv
<1>5. CASE TimerInterrupt \/ HandlerLoop \/ TimerCallback \/ Hardware
    BY <1>5, TimerInterruptInv, HandlerLoopInv, TimerCallbackInv, HardwareInv
<1>6. CASE UNCHANGED vars
    BY <1>6, StutterInv
<1>7. QED
    BY <1>1, <1>2, <1>3, <1>4, <1>5, <1>6 DEF Next

LEMMA Induction == Spec => []Inv
<1>1. Init => Inv
    BY InitInv
<1>2. Inv /\ [Next]_vars => Inv'
    BY StepInv
<1>3. QED
    BY <1>1, <1>2, PTL DEF Spec

\* lib/scheduler.c keeps its queue, its counter, its dispatch and its
\* sleepers consistent, for any number of tasks, any sequence of calls and
\* any interrupt timing.
THEOREM SchedulerInvariant == Spec => []SchedulerSound
<1>1. Inv => SchedulerSound
    BY DEF Inv, SchedulerSound
<1>2. QED
    BY <1>1, Induction, PTL

\* Between the test for another task and hlt no interrupt comes: idle never
\* halts over a task that can run.
THEOREM IdleNeverHaltsOverATask == Spec => []IdleHaltsOnlyAlone
<1>1. Inv => IdleHaltsOnlyAlone
    BY DEF Inv
<1>2. QED
    BY <1>1, Induction, PTL
-----------------------------------------------------------------------------
LEMMA StepKeepsSleepers ==
    ASSUME Inv, [Next]_vars, NEW t \in Task, Asleep(t), ~Asleep(t)'
    PROVE  t \in Queued'
<1> USE DEF Asleep, timer_is_registered, list_linked
<1>0. QueueInv /\ timers \in Seq(Timer) /\ NoDuplicates(timers) /\ t # NULL
    BY InvFacts, TimersAssumption DEF Inv, TypeOK, TimersTypeOK, TimersSorted, Task
<1>1. ~(UNCHANGED <<timers, firing>>)
    OBVIOUS
<1>2. CASE TimerCallback
    <2>1. firing # NULL /\ UNCHANGED timers /\ schedule_task(firing)
        BY <1>2 DEF TimerCallback, IsrFuncReturn
    <2>2. firing = t
        BY <2>1
    <2>3. QED
        BY <1>0, <2>1, <2>2, ScheduleTaskKeeps
<1>3. CASE HandlerLoop
    <2>1. IsrFire
        BY <1>1, <1>3 DEF HandlerLoop, IsrLoop, IsrDrained, IsrNotDue
    <2>2. /\ timers # <<>> /\ firing = NULL /\ firing' = Head(timers)
          /\ timers' = list_remove(timers, Head(timers))
        BY <2>1 DEF IsrFire, InLoop
    <2>3. ToSet(timers') = ToSet(timers) \ {Head(timers)}
        BY <1>0, <2>2, RemoveKeeps
    <2>4. QED
        BY <1>0, <2>2, <2>3
<1>4. ASSUME NEW u \in Task, TaskStep(u)
      PROVE  t \in Queued'
    <2>1. u # Idle /\ Runs(u)
        BY <1>4 DEF TaskStep
    <2>2. ASSUME NEW delay \in Delay, Sleep(u, delay)
          PROVE  FALSE
        <3>1. ToSet(timers') = ToSet(timers) \cup {u}
            BY <2>1, <2>2, SleepRegisters, RegisterKeeps DEF Inv, TypeOK
        <3>2. firing' = firing
            BY <2>2 DEF Sleep
        <3>3. QED
            BY <3>1, <3>2
    <2>3. ASSUME NEW v \in Task, CancelSleep(v)
          PROVE  t \in Queued'
        <3>1. timer_unregister(v) /\ schedule_task(v) /\ firing' = firing
            BY <2>3 DEF CancelSleep, cancel_sleep
        <3>2. ToSet(timers') = ToSet(timers) \ {v}
            BY <3>1, UnregisterKeeps DEF Inv, TypeOK, Task
        <3>3. v = t
            BY <3>1, <3>2
        <3>4. QED
            BY <1>0, <3>1, <3>3, ScheduleTaskKeeps
    <2>4. ~(Yield(u) \/ Block(u))
        BY <1>1 DEF Yield, Block, timerVars
    <2>5. ASSUME NEW v \in Task, CallOn(v), ~CancelSleep(v)
          PROVE  FALSE
        BY <1>1, <2>5 DEF CallOn, Wake, Suspend, Create, Start, timerVars
    <2>6. QED
        BY <1>4, <2>2, <2>3, <2>4, <2>5 DEF TaskStep, Switch
<1>5. ~(SchedulerCtor \/ scheduler_start \/ IdleGiveup \/ IdleTest \/ IdleCli)
    BY <1>1 DEF SchedulerCtor, scheduler_start, IdleGiveup, IdleTest, IdleCli, timerVars
<1>6. ASSUME NEW u \in Task, SpawnAtBoot(u)
      PROVE  FALSE
    BY <1>1, <1>6 DEF SpawnAtBoot, timerVars
<1>7. ~(TimerInterrupt \/ Hardware \/ UNCHANGED vars)
    BY <1>1 DEF TimerInterrupt, Hardware, IsrEnter, Tick, DeadlineExpires, vars, timerVars
<1>8. QED
    BY <1>2, <1>3, <1>4, <1>5, <1>6, <1>7 DEF Next

\* No sleeper is forgotten between the timer queue, the handler's timer and
\* the run queue: the step that ends a sleep makes the task ready.
THEOREM SleepersAreKept == Spec => NoSleeperLost
<1>1. Inv /\ [Next]_vars => [\A t \in Task : Asleep(t) /\ ~Asleep(t)' => t \in Queued']_vars
    BY StepKeepsSleepers
<1>2. Init => Inv
    BY InitInv
<1>3. Inv /\ [Next]_vars => Inv'
    BY StepInv
<1>4. QED
    BY <1>1, <1>2, <1>3, PTL DEF Spec, NoSleeperLost
-----------------------------------------------------------------------------
(* The order of the run queue. *)

LEMMA AppendKeepsBefore ==
    ASSUME NEW S, NEW s \in Seq(S), NEW e \in S
    PROVE  /\ \A a, b : Before(s, a, b) => Before(list_insert_before(s, EndOf(s), e), a, b)
           /\ \A a \in ToSet(s) : Before(list_insert_before(s, EndOf(s), e), a, e)
<1> DEFINE i == EndOf(s)
<1>1. Len(s) \in Nat /\ i \in 1 .. Len(s) + 1 /\ DOMAIN s = 1 .. Len(s)
      /\ \A j \in 1 .. Len(s) : j < i
    BY LenProperties DEF EndOf
<1> HIDE DEF i
<1>2. /\ \A a, b : Before(s, a, b) => Before(list_insert_before(s, i, e), a, b)
      /\ \A j \in 1 .. Len(s) : j < i => Before(list_insert_before(s, i, e), s[j], e)
    BY <1>1, InsertKeepsBefore
<1>3. \A a \in ToSet(s) : Before(list_insert_before(s, i, e), a, e)
    BY <1>1, <1>2 DEF ToSet
<1>4. QED
    BY <1>2, <1>3 DEF i

LEMMA RotateKeepsBefore ==
    ASSUME NEW S, NEW s \in Seq(S), NoDuplicates(s), NEW e \in ToSet(s),
           NEW a, NEW b, a # e, Before(s, a, b)
    PROVE  Before(Rotated(s, e), a, b)
<1> DEFINE q == list_remove(s, e)
<1>1. q \in Seq(S) /\ ToSet(q) = ToSet(s) \ {e}
    BY RemoveKeeps
<1>2. e \in S /\ a \in ToSet(s)
    BY ElementOfSeq, LenProperties DEF ToSet, Before
<1>3. b # e => Before(q, a, b)
    BY RemoveKeepsBefore
<1>4. a \in ToSet(q)
    BY <1>1, <1>2
<1>5. Rotated(s, e) = list_insert_before(q, EndOf(q), e)
    BY DEF Rotated
<1> HIDE DEF q
<1>6. QED
    BY <1>1, <1>2, <1>3, <1>4, <1>5, AppendKeepsBefore

\* What a step does to the run queue.
LEMMA QueueSteps ==
    ASSUME Inv, [Next]_vars
    PROVE  \/ run_queue' = run_queue
           \/ \E u \in Task : schedule_task(u) \/ unschedule_task(u)
           \/ current_task \in Queued /\ (giveup_cpu \/ unschedule)
<1>1. ASSUME NEW t \in Task, TaskStep(t)
      PROVE  \/ run_queue' = run_queue
             \/ \E u \in Task : schedule_task(u) \/ unschedule_task(u)
             \/ current_task \in Queued /\ (giveup_cpu \/ unschedule)
    <2>1. current_task \in Queued
        BY <1>1, RunsFacts DEF TaskStep
    <2>2. CASE Switch(t)
        BY <2>1, <2>2 DEF Switch, Yield, Block, Sleep, sleep_tsc
    <2>3. ASSUME NEW u \in Task, CallOn(u)
          PROVE  run_queue' = run_queue \/ schedule_task(u) \/ unschedule_task(u)
        BY <2>3 DEF CallOn, Wake, Suspend, CancelSleep, cancel_sleep, Create, Start,
                    start_kernel_task, queueVars
    <2>4. QED
        BY <1>1, <2>2, <2>3 DEF TaskStep
<1>2. CASE SchedulerCtor
    BY <1>2, SchedulerAssumption DEF SchedulerCtor, start_kernel_task
<1>3. ASSUME NEW t \in Task, SpawnAtBoot(t)
      PROVE  schedule_task(t)
    BY <1>3 DEF SpawnAtBoot, start_kernel_task
<1>4. CASE IdleGiveup
    BY <1>4, RunsFacts DEF IdleGiveup
<1>5. CASE TimerCallback
    BY <1>5 DEF TimerCallback, IsrFuncReturn, Inv, TypeOK, TimersTypeOK, Task
<1>6. CASE scheduler_start \/ IdleTest \/ IdleCli \/ TimerInterrupt \/ HandlerLoop
        \/ Hardware \/ UNCHANGED vars
    BY <1>6 DEF scheduler_start, IdleTest, IdleCli, TimerInterrupt, HandlerLoop, Hardware,
                vars, schedVars, queueVars
<1>7. QED
    BY <1>1, <1>2, <1>3, <1>4, <1>5, <1>6 DEF Next

LEMMA StepIsRoundRobin ==
    ASSUME Inv, [Next]_vars
    PROVE  RoundRobinStep
<1>1. run_queue \in Seq(Task) /\ NoDuplicates(run_queue) /\ Queued = ToSet(run_queue)
      /\ Queued' = ToSet(run_queue')
    BY InvFacts DEF QueueInv, Queued
<1>2. ASSUME NEW e, run_queue' = list_remove(run_queue, e)
      PROVE  RoundRobinStep
    <2>1. ToSet(run_queue') = ToSet(run_queue) \ {e}
        BY <1>1, <1>2, RemoveKeeps
    <2>2. \A a, b \in Queued' : Before(run_queue, a, b) => Before(run_queue', a, b)
        BY <1>1, <1>2, <2>1, RemoveKeepsBefore
    <2>3. QED
        BY <1>1, <2>1, <2>2 DEF RoundRobinStep
<1>3. CASE run_queue' = run_queue
    BY <1>1, <1>3 DEF RoundRobinStep
<1>4. ASSUME NEW u \in Task, schedule_task(u)
      PROVE  RoundRobinStep
    <2>1. CASE run_queue' = list_insert_before(run_queue, EndOf(run_queue), u)
        <3>1. ToSet(run_queue') = ToSet(run_queue) \cup {u}
            <4> DEFINE q == list_insert_before(run_queue, EndOf(run_queue), u)
            <4>1. run_queue \in Seq(Task)
                BY <1>1
            <4>2. ToSet(q) = ToSet(run_queue) \cup {u}
                BY <4>1, HeadOfAppend
            <4>3. run_queue' = q
                BY <2>1
            <4> HIDE DEF q
            <4>4. QED
                BY <4>2, <4>3
        <3>2. /\ \A a, b : Before(run_queue, a, b) => Before(run_queue', a, b)
              /\ \A a \in ToSet(run_queue) : Before(run_queue', a, u)
            BY <1>1, <2>1, AppendKeepsBefore
        <3>3. QED
            BY <1>1, <3>1, <3>2 DEF RoundRobinStep
    <2>2. QED
        BY <1>3, <1>4, <2>1 DEF schedule_task
<1>5. ASSUME NEW u \in Task, unschedule_task(u)
      PROVE  RoundRobinStep
    BY <1>2, <1>3, <1>5 DEF unschedule_task
<1>6. CASE unschedule
    BY <1>2, <1>6 DEF unschedule
<1>7. CASE current_task \in Queued /\ giveup_cpu
    <2>1. run_queue' = Rotated(run_queue, current_task)
        BY <1>7 DEF giveup_cpu, Rotated
    <2>2. Queued' = Queued
        BY <1>7, InvFacts, GiveupKeeps
    <2>3. \A a, b : Before(run_queue, a, b) /\ a # current_task => Before(run_queue', a, b)
        BY <1>1, <1>7, <2>1, RotateKeepsBefore
    <2>4. QED
        BY <2>2, <2>3 DEF RoundRobinStep
<1>8. QED
    BY <1>3, <1>4, <1>5, <1>6, <1>7, QueueSteps

\* The run queue is first come, first served: only the running task ever
\* moves behind another, and a task that becomes ready goes behind all others,
\* whoever makes it ready.
THEOREM SchedulerIsRoundRobin == Spec => RoundRobin
<1>1. Inv /\ [Next]_vars => [RoundRobinStep]_vars
    BY StepIsRoundRobin
<1>2. Init => Inv
    BY InitInv
<1>3. Inv /\ [Next]_vars => Inv'
    BY StepInv
<1>4. QED
    BY <1>1, <1>2, <1>3, PTL DEF Spec, RoundRobin
-----------------------------------------------------------------------------
\* The operations of Timers as TimerService instantiates them are the
\* scheduler's own.
LEMMA SameOperations ==
    /\ Service!timerVars = timerVars
    /\ Service!TimersInit <=> TimersInit
    /\ Service!Tick <=> Tick
    /\ Service!DeadlineExpires <=> DeadlineExpires
    /\ Service!IsrEnter <=> IsrEnter
    /\ Service!IsrDrained <=> IsrDrained
    /\ Service!IsrNotDue <=> IsrNotDue
    /\ Service!IsrFire <=> IsrFire
    /\ Service!IsrFuncReturn <=> IsrFuncReturn
    /\ \A t : Service!timer_is_registered(t) <=> timer_is_registered(t)
    /\ \A t : Service!timer_unregister(t) <=> timer_unregister(t)
    /\ \A t, delay :
            Service!timer_register_relative(t, delay) <=> timer_register_relative(t, delay)
<1> USE DEF Service!timer_backend_set, timer_backend_set, Service!InLoop, InLoop
<1>a. \A s, e : Service!list_linked(s, e) <=> list_linked(s, e)
    BY DEF Service!list_linked, list_linked, Service!ToSet, ToSet
<1>b. \A s, e : Service!list_remove(s, e) = list_remove(s, e)
    BY DEF Service!list_remove, list_remove, Service!RemoveFirst, RemoveFirst,
           Service!RemoveAt, RemoveAt, Service!SelectInSeq, SelectInSeq, Service!Min, Min
<1>c. \A s, i, e : Service!list_insert_before(s, i, e) = list_insert_before(s, i, e)
    BY DEF Service!list_insert_before, list_insert_before, Service!InsertAt, InsertAt
<1>d. \A s, w, t : Service!TimerPlace(s, w, t) = TimerPlace(s, w, t)
    BY DEF Service!TimerPlace, TimerPlace, Service!list_stop, list_stop,
           Service!EndOf, EndOf, Service!SelectInSeq, SelectInSeq, Service!Min, Min
<1>1. Service!timerVars = timerVars
    BY DEF Service!timerVars, timerVars
<1>2. Service!TimersInit <=> TimersInit
    BY DEF Service!TimersInit, TimersInit
<1>3. (Service!Tick <=> Tick) /\ (Service!DeadlineExpires <=> DeadlineExpires)
    BY DEF Service!Tick, Tick, Service!DeadlineExpires, DeadlineExpires
<1>4. (Service!IsrEnter <=> IsrEnter) /\ (Service!IsrFuncReturn <=> IsrFuncReturn)
    BY DEF Service!IsrEnter, IsrEnter, Service!IsrFuncReturn, IsrFuncReturn
<1>5. (Service!IsrDrained <=> IsrDrained) /\ (Service!IsrNotDue <=> IsrNotDue)
    BY DEF Service!IsrDrained, IsrDrained, Service!IsrNotDue, IsrNotDue
<1>6. Service!IsrFire <=> IsrFire
    BY <1>b DEF Service!IsrFire, IsrFire
<1>7. \A t : Service!timer_is_registered(t) <=> timer_is_registered(t)
    BY <1>a DEF Service!timer_is_registered, timer_is_registered
<1>8. \A t : Service!timer_unregister(t) <=> timer_unregister(t)
    BY <1>b, <1>7 DEF Service!timer_unregister, timer_unregister
<1>9. \A t, delay :
            Service!timer_register_relative(t, delay) <=> timer_register_relative(t, delay)
    BY <1>c, <1>d, <1>7
       DEF Service!timer_register_relative, timer_register_relative,
           Service!timer_register_absolute, timer_register_absolute,
           Service!timer_register, timer_register
<1>10. QED
    BY <1>1, <1>2, <1>3, <1>4, <1>5, <1>6, <1>7, <1>8, <1>9

\* Every step of the scheduler is a step of the timer service or leaves the
\* timer queue alone.
LEMMA StepIsServiceStep ==
    ASSUME Inv, [Next]_vars
    PROVE  [Service!TimersNext]_timerVars
<1>1. ASSUME NEW t \in Task, TaskStep(t)
      PROVE  [Service!TimersNext]_timerVars
    <2>1. t # Idle /\ Runs(t) /\ t \in Timer /\ ~in_isr
        BY <1>1 DEF TaskStep, Runs, Task
    <2>2. ASSUME NEW delay \in Delay, Sleep(t, delay)
          PROVE  Service!TimersNext
        <3>1. ~timer_is_registered(t) /\ current_task = t
            BY <2>1, <2>2, SleepRegisters, RunsFacts
        <3>2. Service!RegisterRelative(t, delay)
            BY <2>1, <2>2, <3>1, SameOperations
               DEF Sleep, sleep_tsc, Service!RegisterRelative, Service!CanCall
        <3>3. QED
            BY <2>1, <3>2 DEF Service!TimersNext, Service!Call
    <2>3. ASSUME NEW u \in created, CancelSleep(u)
          PROVE  Service!TimersNext
        <3>1. u \in Timer
            BY DEF Inv, TypeOK, Task
        <3>2. Service!Unregister(u)
            BY <2>1, <2>3, SameOperations
               DEF CancelSleep, cancel_sleep, Service!Unregister, Service!CanCall
        <3>3. QED
            BY <3>1, <3>2 DEF Service!TimersNext, Service!Call
    <2>4. ASSUME NEW u \in Task, CallOn(u), ~(u \in created /\ CancelSleep(u))
          PROVE  UNCHANGED timerVars
        BY <2>4 DEF CallOn, Wake, Suspend, Create, Start
    <2>5. CASE Yield(t) \/ Block(t)
        BY <2>5 DEF Yield, Block
    <2>6. QED
        BY <1>1, <2>2, <2>3, <2>4, <2>5 DEF TaskStep, Switch
<1>2. CASE Hardware
    BY <1>2, SameOperations DEF Hardware, Service!TimersNext
<1>3. CASE TimerInterrupt
    BY <1>3, SameOperations DEF TimerInterrupt, Service!TimersNext
<1>4. CASE HandlerLoop
    BY <1>4, SameOperations DEF HandlerLoop, IsrLoop, Service!TimersNext
<1>5. CASE TimerCallback
    BY <1>5, SameOperations DEF TimerCallback, Service!TimersNext
<1>6. ASSUME NEW t \in Task, SpawnAtBoot(t)
      PROVE  UNCHANGED timerVars
    BY <1>6 DEF SpawnAtBoot
<1>7. CASE SchedulerCtor \/ scheduler_start \/ IdleGiveup \/ IdleTest \/ IdleCli
        \/ UNCHANGED vars
    BY <1>7 DEF SchedulerCtor, scheduler_start, IdleGiveup, IdleTest, IdleCli, vars
<1>8. QED
    BY <1>1, <1>2, <1>3, <1>4, <1>5, <1>6, <1>7 DEF Next

\* The scheduler keeps the rules of timers.h: it never registers a timer that
\* is registered, so no deadline of a queued timer is ever changed, and calls
\* come only between two runs of the handler.  What is proved of TimerService
\* (the order of the queue, the armed hardware, the alarm clock) therefore
\* holds of sleeping tasks.
THEOREM SchedulerUsesTimerService == Spec => IsTimerService
<1>1. Init => Service!TimersInit
    BY SameOperations DEF Init
<1>2. Inv /\ [Next]_vars => [Service!TimersNext]_Service!timerVars
    <2>1. ASSUME Inv, [Next]_vars
          PROVE  [Service!TimersNext]_timerVars
        BY <2>1, StepIsServiceStep
    <2>2. QED
        BY <2>1 DEF Service!timerVars, timerVars
<1>3. Init => Inv
    BY InitInv
<1>4. Inv /\ [Next]_vars => Inv'
    BY StepInv
<1>5. QED
    BY <1>1, <1>2, <1>3, <1>4, PTL DEF Spec, IsTimerService, Service!TimersSpec
-----------------------------------------------------------------------------
(* The mutex.                                                              *)

\* A waiter is on the list of waiters once.  It is a task that neither sleeps
\* nor is idle, so nothing but a mutex_unlock makes it ready.
WaitersInv ==
    /\ waiters \in Seq(Task)
    /\ NoDuplicates(waiters)
    /\ \A w \in Waiting : w # Idle /\ w \in created /\ ~Asleep(w)

\* What boot, idle, the interrupt and the hardware do to a task that is not
\* asleep: nothing.
LEMMA SystemLeavesAwake ==
    ASSUME Inv, NEW w, w # Idle, w \in created, ~Asleep(w), SystemStep
    PROVE  w \in created' /\ ~Asleep(w)' /\ (w \in Queued' <=> w \in Queued)
<1> USE DEF Asleep, timer_is_registered, list_linked
<1>0. QueueInv /\ Queued = ToSet(run_queue)
    BY InvFacts DEF Queued
<1>1. ASSUME NEW t \in Task, start_kernel_task(t), UNCHANGED timerVars
      PROVE  w \in created' /\ ~Asleep(w)' /\ (w \in Queued' <=> w \in Queued)
    <2>1. t # w /\ created' = created \cup {t} /\ schedule_task(t)
        BY <1>1 DEF start_kernel_task, create_kernel_task
    <2>2. Queued' = Queued \cup {t}
        BY <1>0, <2>1, ScheduleTaskKeeps
    <2>3. QED
        BY <1>1, <2>1, <2>2 DEF timerVars
<1>2. CASE SchedulerCtor
    BY <1>1, <1>2, SchedulerAssumption DEF SchedulerCtor
<1>3. ASSUME NEW t \in Task, SpawnAtBoot(t)
      PROVE  w \in created' /\ ~Asleep(w)' /\ (w \in Queued' <=> w \in Queued)
    BY <1>1, <1>3 DEF SpawnAtBoot
<1>4. CASE IdleGiveup
    <2>1. current_task \in Queued /\ giveup_cpu /\ UNCHANGED timerVars /\ UNCHANGED bootVars
        BY <1>4, RunsFacts DEF IdleGiveup
    <2>2. Queued' = Queued
        BY <1>0, <2>1, GiveupKeeps
    <2>3. QED
        BY <2>1, <2>2 DEF timerVars, bootVars
<1>5. CASE scheduler_start \/ IdleTest \/ IdleCli
    BY <1>5 DEF scheduler_start, IdleTest, IdleCli, timerVars, queueVars, bootVars, Queued
<1>6. CASE Hardware \/ TimerInterrupt
    BY <1>6 DEF Hardware, TimerInterrupt, Tick, DeadlineExpires, IsrEnter,
                schedVars, queueVars, bootVars, Queued
<1>7. CASE HandlerLoop
    <2>1. UNCHANGED <<run_queue, created>>
        BY <1>7 DEF HandlerLoop, schedVars, queueVars, bootVars
    <2>2. CASE IsrDrained \/ IsrNotDue
        BY <2>1, <2>2 DEF IsrDrained, IsrNotDue, Queued
    <2>3. CASE IsrFire
        <3>1. /\ timers \in Seq(Timer) /\ NoDuplicates(timers) /\ timers # <<>>
              /\ firing' = Head(timers) /\ timers' = list_remove(timers, Head(timers))
            BY <2>3 DEF IsrFire, Inv, TypeOK, TimersTypeOK, TimersSorted
        <3>2. ToSet(timers') = ToSet(timers) \ {Head(timers)} /\ Head(timers) \in ToSet(timers)
            BY <3>1, RemoveKeeps, HeadIsMember
        <3>3. QED
            BY <2>1, <3>1, <3>2 DEF Queued
    <2>4. QED
        BY <1>7, <2>2, <2>3 DEF HandlerLoop, IsrLoop
<1>8. CASE TimerCallback
    <2>1. /\ firing # NULL /\ schedule_task(firing)
          /\ UNCHANGED timers /\ firing' = NULL /\ UNCHANGED bootVars
        BY <1>8 DEF TimerCallback, IsrFuncReturn
    <2>2. firing \in Task /\ firing # w
        BY <2>1 DEF Inv, TypeOK, TimersTypeOK, Task
    <2>3. Queued' = Queued \cup {firing}
        BY <1>0, <2>1, <2>2, ScheduleTaskKeeps
    <2>4. w # NULL
        BY TimersAssumption DEF Inv, TypeOK, Task
    <2>5. QED
        BY <2>1, <2>2, <2>3, <2>4 DEF bootVars
<1>9. QED
    BY <1>2, <1>3, <1>4, <1>5, <1>6, <1>7, <1>8 DEF SystemStep

\* What a running task does to another that is not asleep and that it does
\* not call anything on: nothing.
LEMMA TaskLeavesAwake ==
    ASSUME Inv, NEW w, w # Idle, w \in created, ~Asleep(w),
           NEW t \in Task, t # Idle, Runs(t), t # w,
           Switch(t) \/ \E u \in Task \ {w} : CallOn(u)
    PROVE  w \in created' /\ ~Asleep(w)' /\ (w \in Queued' <=> w \in Queued)
<1> USE DEF Asleep, timer_is_registered, list_linked
<1>0. /\ QueueInv /\ Queued = ToSet(run_queue)
      /\ current_task = t /\ current_task \in Queued /\ Idle \in Queued
      /\ timers \in Seq(Timer) /\ NoDuplicates(timers) /\ firing = NULL
    BY InvFacts, RunsFacts DEF Queued, Inv, TypeOK, TimersTypeOK, TimersSorted
<1>1. CASE Yield(t)
    <2>1. giveup_cpu /\ UNCHANGED timerVars /\ UNCHANGED bootVars
        BY <1>1 DEF Yield
    <2>2. Queued' = Queued
        BY <1>0, <2>1, GiveupKeeps
    <2>3. QED
        BY <2>1, <2>2 DEF timerVars, bootVars
<1>2. ASSUME unschedule PROVE Queued' = Queued \ {t}
    BY <1>0, <1>2, UnscheduleKeeps
<1>3. CASE Block(t)
    BY <1>2, <1>3 DEF Block, timerVars, bootVars
<1>4. ASSUME NEW delay \in Delay, Sleep(t, delay)
      PROVE  w \in created' /\ ~Asleep(w)' /\ (w \in Queued' <=> w \in Queued)
    <2>1. /\ t \in Timer /\ ~timer_is_registered(t)
          /\ (tsc + delay) % Word \in Time
          /\ timer_register_absolute(t, (tsc + delay) % Word)
        BY <1>4, SleepRegisters
    <2>2. ToSet(timers') = ToSet(timers) \cup {t}
        BY <2>1, RegisterKeeps DEF Inv, TypeOK
    <2>3. unschedule /\ UNCHANGED firing /\ UNCHANGED bootVars
        BY <1>4 DEF Sleep, sleep_tsc
    <2>4. QED
        BY <1>2, <2>2, <2>3 DEF bootVars
<1>5. ASSUME NEW u \in Task \ {w}, CallOn(u)
      PROVE  w \in created' /\ ~Asleep(w)' /\ (w \in Queued' <=> w \in Queued)
    <2>1. ASSUME schedule_task(u) PROVE Queued' = Queued \cup {u}
        BY <1>0, <2>1, ScheduleTaskKeeps
    <2>2. CASE Wake(u)
        BY <2>1, <2>2 DEF Wake, timerVars, bootVars
    <2>3. CASE Suspend(u)
        <3>1. unschedule_task(u) /\ UNCHANGED timerVars /\ UNCHANGED bootVars
            BY <2>3 DEF Suspend
        <3>2. Queued' = Queued \ {u}
            BY <1>0, <3>1, UnscheduleTaskKeeps
        <3>3. QED
            BY <3>1, <3>2 DEF timerVars, bootVars
    <2>4. CASE CancelSleep(u)
        <3>1. /\ timer_unregister(u) /\ schedule_task(u)
              /\ UNCHANGED firing /\ UNCHANGED bootVars
            BY <2>4 DEF CancelSleep, cancel_sleep
        <3>2. ToSet(timers') \subseteq ToSet(timers)
            BY <1>0, <3>1, RemoveKeeps DEF timer_unregister
        <3>3. QED
            BY <2>1, <3>1, <3>2 DEF bootVars
    <2>5. CASE Create(u)
        BY <2>5 DEF Create, create_kernel_task, timerVars, queueVars, Queued
    <2>6. CASE Start(u)
        BY <2>1, <2>6 DEF Start, start_kernel_task, create_kernel_task, timerVars
    <2>7. QED
        BY <1>5, <2>2, <2>3, <2>4, <2>5, <2>6 DEF CallOn
<1>6. QED
    BY <1>1, <1>3, <1>4, <1>5 DEF Switch
-----------------------------------------------------------------------------
\* A task that calls lib/mutex.c runs, is ready, and does not sleep.
LEMMA CallerFacts ==
    ASSUME Inv, NEW t \in Task, t # Idle, Runs(t)
    PROVE  /\ QueueInv /\ Queued = ToSet(run_queue)
           /\ current_task = t /\ t \in Queued /\ Idle \in Queued
           /\ t \in created /\ ~Asleep(t) /\ t # NULL
<1>1. /\ current_task = t /\ t \in Queued /\ Idle \in Queued /\ t \in created
    BY RunsFacts
<1>2. QueueInv /\ Queued = ToSet(run_queue)
    BY InvFacts DEF Queued
<1>3. ~Asleep(t)
    BY <1>1 DEF Inv, SleepersOffQueue
<1>4. QED
    BY <1>1, <1>2, <1>3, TimersAssumption DEF Task

\* What the mutex does to the scheduler: it blocks the caller, or wakes a
\* task that is neither asleep nor new.
LEMMA MutexCalls ==
    ASSUME Inv, WaitersInv, NEW t \in Task, MutexTaskStep(t)
    PROVE  \/ Block(t)
           \/ \E u \in Waiting : Wake(u)
           \/ UNCHANGED vars
<1>1. CASE MutexWaitReturns(t) \/ MutexReenter(t) \/ MutexTake(t)
    BY <1>1 DEF MutexWaitReturns, MutexReenter, MutexTake
<1>2. CASE MutexWait(t)
    BY <1>2 DEF MutexWait, Block
<1>3. CASE MutexUnlock(t)
    <2>1. CASE UNCHANGED vars
        BY <2>1
    <2>2. CASE waiters # <<>> /\ Wakeup(Head(waiters))
        <3>1. Head(waiters) \in Waiting
            BY <2>2, HeadIsMember DEF WaitersInv, Waiting
        <3>2. ~timer_is_registered(Head(waiters))
            BY <3>1 DEF WaitersInv, Asleep
        <3>3. QED
            BY <2>2, <3>1, <3>2 DEF Wakeup, Wake
    <2>3. QED
        BY <1>3, <2>1, <2>2 DEF MutexUnlock, UnlockPanics
<1>4. QED
    BY <1>1, <1>2, <1>3 DEF MutexTaskStep

LEMMA MutexStepIsSchedulerStep ==
    ASSUME Inv, WaitersInv, [MutexNext]_mvars
    PROVE  [Next]_vars
<1>1. ASSUME NEW t \in Task, MutexTaskStep(t)
      PROVE  [Next]_vars
    <2>1. t # Idle /\ Runs(t)
        BY <1>1 DEF MutexTaskStep
    <2>2. \A u \in Waiting : u \in Task /\ u \in created
        BY DEF WaitersInv, Inv, TypeOK
    <2>3. TaskStep(t) \/ UNCHANGED vars
        BY <1>1, <2>1, <2>2, MutexCalls DEF TaskStep, Switch, CallOn
    <2>4. QED
        BY <2>3 DEF Next
<1>2. ASSUME NEW t \in Task, OtherTaskStep(t)
      PROVE  [Next]_vars
    <2>1. TaskStep(t)
        BY <1>2 DEF OtherTaskStep, TaskStep
    <2>2. QED
        BY <2>1 DEF Next
<1>3. CASE SystemStep
    BY <1>3 DEF SystemStep, Next
<1>4. CASE UNCHANGED mvars
    BY <1>4 DEF mvars
<1>5. QED
    BY <1>1, <1>2, <1>3, <1>4 DEF MutexNext
-----------------------------------------------------------------------------
LEMMA WaitersStep ==
    ASSUME Inv, WaitersInv, [MutexNext]_mvars
    PROVE  WaitersInv'
<1>0. /\ waiters \in Seq(Task) /\ NoDuplicates(waiters)
      /\ \A w \in Waiting : w # Idle /\ w \in created /\ ~Asleep(w)
    BY DEF WaitersInv
<1>1. ASSUME UNCHANGED waiters,
             \A w \in Waiting : w \in created' /\ ~Asleep(w)'
      PROVE  WaitersInv'
    BY <1>0, <1>1 DEF WaitersInv, Waiting, NoDuplicates
<1>2. CASE SystemStep
    <2>1. UNCHANGED waiters
        BY <1>2 DEF SystemStep, mutexVars
    <2>2. QED
        BY <1>0, <1>1, <1>2, <2>1, SystemLeavesAwake
<1>3. ASSUME NEW t \in Task, OtherTaskStep(t)
      PROVE  WaitersInv'
    <2>1. /\ UNCHANGED waiters /\ t \notin Waiting /\ t # Idle /\ Runs(t)
          /\ Switch(t) \/ \E u \in Task \ Waiting : CallOn(u)
        BY <1>3 DEF OtherTaskStep, mutexVars
    <2>2. ASSUME NEW w \in Waiting
          PROVE  w \in created' /\ ~Asleep(w)'
        <3>1. t # w /\ (Switch(t) \/ \E u \in Task \ {w} : CallOn(u))
            BY <2>1
        <3>2. QED
            BY <1>0, <2>1, <3>1, TaskLeavesAwake
    <2>3. QED
        BY <1>1, <2>1, <2>2
<1>4. ASSUME NEW t \in Task, MutexTaskStep(t)
      PROVE  WaitersInv'
    <2>1. t # Idle /\ Runs(t)
        BY <1>4 DEF MutexTaskStep
    <2>2. UNCHANGED <<timers, firing, created>>
        BY <1>4, MutexCalls DEF Block, Wake, vars, timerVars, schedVars, bootVars
    <2>3. \A w : w \in created => w \in created'
        BY <2>2
    <2>4. \A w : ~Asleep(w) => ~Asleep(w)'
        BY <2>2 DEF Asleep, timer_is_registered, list_linked
    <2>5. CASE UNCHANGED waiters
        BY <1>0, <1>1, <2>3, <2>4, <2>5
    <2>6. CASE waiters' = list_remove(waiters, t)
        <3>1. /\ waiters' \in Seq(Task) /\ NoDuplicates(waiters')
              /\ ToSet(waiters') = ToSet(waiters) \ {t}
            BY <1>0, <2>6, RemoveKeeps
        <3>2. QED
            BY <1>0, <2>3, <2>4, <3>1 DEF WaitersInv, Waiting, NoDuplicates
    <2>7. CASE t \notin Waiting /\ waiters' = list_insert_before(waiters, EndOf(waiters), t)
        <3>1. ~list_linked(waiters, t)
            BY <2>7 DEF list_linked, Waiting
        <3>2. /\ waiters' \in Seq(Task) /\ NoDuplicates(waiters')
              /\ ToSet(waiters') = ToSet(waiters) \cup {t}
            <4> DEFINE q == list_insert_before(waiters, EndOf(waiters), t)
            <4>1. waiters \in Seq(Task) /\ NoDuplicates(waiters)
                BY <1>0
            <4>2. /\ q \in Seq(Task) /\ NoDuplicates(q)
                  /\ ToSet(q) = ToSet(waiters) \cup {t}
                BY <3>1, <4>1, HeadOfAppend
            <4>3. waiters' = q
                BY <2>7
            <4> HIDE DEF q
            <4>4. QED
                BY <4>2, <4>3
        <3>3. t \in created /\ ~Asleep(t)
            BY <2>1, CallerFacts
        <3>4. QED
            BY <1>0, <2>1, <2>3, <2>4, <3>2, <3>3 DEF WaitersInv, Waiting, NoDuplicates
    <2>8. QED
        BY <1>4, <2>5, <2>6, <2>7
           DEF MutexTaskStep, MutexWaitReturns, MutexReenter, MutexTake, MutexWait,
               MutexUnlock, UnlockPanics, Unlock
<1>5. CASE UNCHANGED mvars
    <2>1. UNCHANGED <<timers, firing, created, waiters>>
        BY <1>5 DEF mvars, vars, timerVars, schedVars, bootVars, mutexVars
    <2>2. \A w : w \in created => w \in created'
        BY <2>1
    <2>3. \A w : ~Asleep(w) => ~Asleep(w)'
        BY <2>1 DEF Asleep, timer_is_registered, list_linked
    <2>4. QED
        BY <1>0, <1>1, <2>1, <2>2, <2>3
<1>6. QED
    BY <1>2, <1>3, <1>4, <1>5 DEF MutexNext

LEMMA WaitersInit == MutexInit => Init /\ WaitersInv
<1>1. <<>> \in Seq(Task) /\ DOMAIN <<>> = {} /\ ToSet(<<>>) = {}
    BY EmptySeq, LenProperties DEF ToSet
<1>2. QED
    BY <1>1 DEF MutexInit, WaitersInv, Waiting, NoDuplicates

\* lib/mutex.c uses the scheduler as its other callers do, whether tasks barge
\* or not: mutex_lock blocks the running task, and mutex_unlock wakes a task
\* that exists and is not on the timer queue.  What is proved of Scheduler
\* therefore holds with any number of tasks that share a mutex.
THEOREM MutexUsesScheduler == MutexSpec => IsScheduler
<1>1. MutexInit => Init /\ Inv /\ WaitersInv
    BY WaitersInit, InitInv
<1>2. Inv /\ WaitersInv /\ [MutexNext]_mvars => [Next]_vars
    BY MutexStepIsSchedulerStep
<1>3. Inv /\ WaitersInv /\ [MutexNext]_mvars => Inv' /\ WaitersInv'
    BY <1>2, StepInv, WaitersStep
<1>4. QED
    BY <1>1, <1>2, <1>3, PTL DEF MutexSpec, IsScheduler, Spec
-----------------------------------------------------------------------------
(* The lock, as long as nobody barges. *)

\* mutex.c's three variables agree with what the tasks know, and the queue of
\* the waiters with the run queue.  MutualExclusion is not inductive without
\* HandoverSound: what mutex_lock relies on when unschedule() returns is that
\* the mutex was handed to this waiter.
MutexInv ==
    /\ MutexTypeOK
    /\ HandoverSound
    /\ MutualExclusion
    /\ locker \notin Waiting
    /\ ~panicked => (locker = NULL <=> nesting = 0)
    /\ panicked => \E t \in Task : holds[t] >= NestWord

\* A new waiter goes to the end of the list; the first leaves its head.
LEMMA AppendIsAppend ==
    ASSUME NEW S, NEW s \in Seq(S), NEW t \in S
    PROVE  list_insert_before(s, EndOf(s), t) = Append(s, t)
<1> DEFINE end == EndOf(s)
           r == list_insert_before(s, end, t)
<1>1. Len(s) \in Nat /\ end = Len(s) + 1 /\ end \in 1 .. Len(s) + 1
    BY LenProperties DEF EndOf
<1> HIDE DEF end
<1>2. /\ list_insert_before(s, end, t) \in Seq(S)
      /\ Len(list_insert_before(s, end, t)) = Len(s) + 1
      /\ \A j \in 1 .. Len(s) + 1 :
            list_insert_before(s, end, t)[j] =
                IF j < end THEN s[j] ELSE IF j = end THEN t ELSE s[j - 1]
    <2>1. end \in 1 .. Len(s) + 1
        BY <1>1
    <2> HIDE DEF r
    <2>2. QED
        BY <2>1, InsertProperties
<1> HIDE DEF r
<1>3. /\ r \in Seq(S) /\ Len(r) = Len(s) + 1
      /\ \A j \in 1 .. Len(s) + 1 :
            r[j] = IF j < end THEN s[j] ELSE IF j = end THEN t ELSE s[j - 1]
    BY <1>2 DEF r
<1>4. /\ Append(s, t) \in Seq(S)
      /\ Len(Append(s, t)) = Len(s) + 1
      /\ \A j \in 1 .. Len(s) : Append(s, t)[j] = s[j]
      /\ Append(s, t)[Len(s) + 1] = t
    BY AppendProperties
<1>5. \A j \in 1 .. Len(r) : r[j] = Append(s, t)[j]
    BY <1>1, <1>3, <1>4
<1>6. r = Append(s, t)
    BY <1>3, <1>4, <1>5, SeqEqual
<1>7. QED
    BY <1>6 DEF r, end

LEMMA RemoveHeadIsTail ==
    ASSUME NEW s \in Seq(Task), NoDuplicates(s), s # <<>>
    PROVE  list_remove(s, Head(s)) = Tail(s)
<1> DEFINE r == list_remove(s, s[1])
<1>1. Len(s) \in Nat /\ Len(s) # 0 /\ Head(s) = s[1] /\ 1 \in 1 .. Len(s)
    BY LenProperties, HeadIsMember
<1>2. /\ r \in Seq(Task)
      /\ Len(r) = Len(s) - 1
      /\ \A j \in 1 .. Len(s) - 1 : r[j] = IF j < 1 THEN s[j] ELSE s[j + 1]
    BY <1>1, RemoveProperties
<1> HIDE DEF r
<1>3. /\ Tail(s) \in Seq(Task)
      /\ Len(Tail(s)) = Len(s) - 1
      /\ \A j \in 1 .. Len(Tail(s)) : Tail(s)[j] = s[j + 1]
    BY HeadTailProperties
<1>4. \A j \in 1 .. Len(r) : r[j] = Tail(s)[j]
    BY <1>1, <1>2, <1>3
<1>5. r = Tail(s)
    BY <1>2, <1>3, <1>4, SeqEqual
<1>6. QED
    BY <1>1, <1>5 DEF r

LEMMA MutexInitInv == MutexInit => MutexInv
<1> SUFFICES ASSUME MutexInit PROVE MutexInv
    OBVIOUS
<1>1. waiters = <<>> /\ waiters \in Seq(Task) /\ Waiting = {}
    BY EmptySeq, LenProperties DEF MutexInit, Waiting, ToSet
<1>2. MutexTypeOK
    <2>1. locker = NULL /\ nesting = 0 /\ panicked = FALSE /\ holds \in [Task -> Nat]
        BY DEF MutexInit
    <2>2. 0 \in 0 .. NestWord - 1
        BY MutexAssumption
    <2>3. QED
        BY <1>1, <2>1, <2>2 DEF MutexTypeOK
<1>3. MutualExclusion
    BY DEF MutexInit, MutualExclusion
<1>4. ~panicked /\ locker = NULL /\ nesting = 0
    BY DEF MutexInit
<1>5. HandoverSound /\ locker \notin Waiting
    BY <1>1 DEF HandoverSound
<1>6. QED
    BY <1>2, <1>3, <1>4, <1>5 DEF MutexInv

\* Steps that do not concern the mutex.
LEMMA MutexUntouched ==
    ASSUME MutexInv, UNCHANGED mutexVars,
           \A w \in Waiting : w \in Queued' <=> w \in Queued
    PROVE  MutexInv' /\ UNCHANGED FLock!lockVars
<1>1. UNCHANGED <<locker, nesting, waiters, holds, panicked>> /\ Waiting' = Waiting
    BY DEF mutexVars, Waiting
<1>2. QED
    BY <1>1 DEF MutexInv, MutexTypeOK, HandoverSound, MutualExclusion, FLock!lockVars

\* The end of mutex_lock.
LEMMA LockFacts ==
    ASSUME MutexTypeOK, NEW t \in Task, Lock(t), locker \in {NULL, t},
           MutualExclusion, ~panicked, locker = NULL => nesting = 0
    PROVE  /\ locker' = t /\ locker' # NULL
           /\ nesting' \in 0 .. NestWord - 1 /\ holds' \in [Task -> Nat]
           /\ panicked' \in BOOLEAN
           /\ MutualExclusion'
           /\ ~panicked' => nesting' = nesting + 1
           /\ ~panicked' => nesting' # 0
           /\ panicked' => \E u \in Task : holds'[u] >= NestWord
<1>1. /\ locker' = t /\ panicked' = (nesting' = 0)
      /\ nesting' = (nesting + 1) % NestWord
      /\ holds' = [holds EXCEPT ![t] = @ + 1]
    BY DEF Lock
<1>2. /\ nesting \in Nat /\ nesting + 1 <= NestWord /\ NestWord \in Nat /\ 1 < NestWord
      /\ holds \in [Task -> Nat] /\ t # NULL
    BY MutexAssumption, TimersAssumption DEF MutexTypeOK, Task
<1>3. nesting' = IF nesting + 1 = NestWord THEN 0 ELSE nesting + 1
    <2>1. CASE nesting + 1 = NestWord
        BY <1>1, <1>2, <2>1
    <2>2. CASE nesting + 1 < NestWord
        BY <1>1, <1>2, <2>2
    <2>3. QED
        BY <1>2, <2>1, <2>2
<1>4. nesting' \in 0 .. NestWord - 1 /\ holds' \in [Task -> Nat]
    BY <1>1, <1>2, <1>3
<1>5. panicked' \in BOOLEAN /\ (panicked' <=> nesting' = 0)
    BY <1>1
<1>6. \A u \in Task : holds[u] = IF locker = u THEN nesting ELSE 0
    BY DEF MutualExclusion
<1>7. holds[t] = nesting /\ \A u \in Task : u # t => holds[u] = 0
    BY <1>2, <1>6
<1>8. holds'[t] = nesting + 1 /\ \A u \in Task : u # t => holds'[u] = 0
    BY <1>1, <1>2, <1>7
<1>9. MutualExclusion'
    <2>1. SUFFICES ASSUME ~panicked'
                   PROVE  \A u \in Task : holds'[u] = IF locker' = u THEN nesting' ELSE 0
        BY DEF MutualExclusion
    <2>2. nesting' = nesting + 1
        BY <1>3, <1>5, <2>1
    <2>3. QED
        BY <1>1, <1>8, <2>2
<1>10. panicked' => holds'[t] >= NestWord
    BY <1>2, <1>3, <1>5, <1>8
<1>11. QED
    BY <1>1, <1>2, <1>3, <1>4, <1>5, <1>9, <1>10

LEMMA ReenterKeeps ==
    ASSUME MutexInv, ~panicked, NEW t \in Task, MutexReenter(t)
    PROVE  MutexInv' /\ (~panicked' => FLock!Reenter)
<1>1. locker = t /\ Lock(t) /\ UNCHANGED vars /\ UNCHANGED waiters
    BY DEF MutexReenter
<1>2. /\ MutexTypeOK /\ MutualExclusion /\ HandoverSound /\ locker \notin Waiting
      /\ (locker = NULL <=> nesting = 0) /\ t # NULL
    BY TimersAssumption DEF MutexInv, Task
<1>3. /\ locker' = t /\ locker' # NULL
      /\ nesting' \in 0 .. NestWord - 1 /\ holds' \in [Task -> Nat]
      /\ panicked' \in BOOLEAN
      /\ MutualExclusion'
      /\ ~panicked' => nesting' = nesting + 1
      /\ ~panicked' => nesting' # 0
      /\ panicked' => \E u \in Task : holds'[u] >= NestWord
    BY <1>1, <1>2, LockFacts
<1>4. Waiting' = Waiting /\ Queued' = Queued
    BY <1>1 DEF vars, schedVars, queueVars, Waiting, Queued
<1>5. MutexTypeOK'
    BY <1>1, <1>2, <1>3 DEF MutexTypeOK
<1>6. HandoverSound'
    BY <1>1, <1>2, <1>3, <1>4 DEF HandoverSound
<1>7. MutexInv'
    BY <1>1, <1>2, <1>3, <1>4, <1>5, <1>6 DEF MutexInv
<1>8. ~panicked' => FLock!Reenter
    BY <1>1, <1>2, <1>3 DEF FLock!Reenter
<1>9. QED
    BY <1>7, <1>8

LEMMA TakeKeeps ==
    ASSUME ~Barging, MutexInv, ~panicked, NEW t \in Task, MutexTake(t)
    PROVE  MutexInv' /\ (~panicked' => FLock!Acquire(t))
<1>1. locker = NULL /\ waiters = <<>> /\ Lock(t) /\ UNCHANGED vars /\ UNCHANGED waiters
    BY DEF MutexTake
<1>2. /\ MutexTypeOK /\ MutualExclusion /\ nesting = 0
    BY <1>1 DEF MutexInv
<1>3. /\ locker' = t /\ locker' # NULL
      /\ nesting' \in 0 .. NestWord - 1 /\ holds' \in [Task -> Nat]
      /\ panicked' \in BOOLEAN
      /\ MutualExclusion'
      /\ ~panicked' => nesting' = nesting + 1
      /\ ~panicked' => nesting' # 0
      /\ panicked' => \E u \in Task : holds'[u] >= NestWord
    BY <1>1, <1>2, LockFacts
<1>4. Waiting' = {}
    BY <1>1, EmptySeq, LenProperties DEF Waiting, ToSet
<1>5. MutexTypeOK' /\ HandoverSound'
    BY <1>1, <1>2, <1>3, <1>4 DEF MutexTypeOK, HandoverSound
<1>6. MutexInv'
    BY <1>3, <1>4, <1>5 DEF MutexInv
<1>7. ~panicked' => FLock!Acquire(t)
    BY <1>1, <1>2, <1>3 DEF FLock!Acquire
<1>8. QED
    BY <1>6, <1>7

\* unschedule() returns to a waiter on the run queue: it was handed the mutex.
LEMMA WaitReturnsKeeps ==
    ASSUME Inv, WaitersInv, MutexInv, ~panicked,
           NEW t \in Waiting, t # Idle, Runs(t), MutexWaitReturns(t)
    PROVE  MutexInv' /\ (~panicked' => FLock!Grant)
<1>1. waiters' = list_remove(waiters, t) /\ Lock(t) /\ UNCHANGED vars
    BY DEF MutexWaitReturns
<1>2. /\ waiters \in Seq(Task) /\ NoDuplicates(waiters) /\ t \in Task
      /\ \A w \in Waiting : w \in Task
    BY DEF WaitersInv, Inv, TypeOK
<1>3. locker = NULL /\ t = Head(waiters)
    BY <1>2, CallerFacts DEF MutexInv, HandoverSound
<1>4. MutexTypeOK /\ MutualExclusion /\ nesting = 0
    BY <1>3 DEF MutexInv
<1>5. /\ locker' = t /\ locker' # NULL
      /\ nesting' \in 0 .. NestWord - 1 /\ holds' \in [Task -> Nat]
      /\ panicked' \in BOOLEAN
      /\ MutualExclusion'
      /\ ~panicked' => nesting' = nesting + 1
      /\ ~panicked' => nesting' # 0
      /\ panicked' => \E u \in Task : holds'[u] >= NestWord
    BY <1>1, <1>2, <1>3, <1>4, LockFacts
<1>6. /\ waiters' \in Seq(Task) /\ Waiting' = Waiting \ {t}
    BY <1>1, <1>2, RemoveKeeps DEF Waiting
<1>7. Queued' = Queued
    BY <1>1 DEF vars, schedVars, queueVars, Queued
<1>8. MutexTypeOK'
    BY <1>2, <1>5, <1>6 DEF MutexTypeOK
<1>9. HandoverSound'
    <2>1. \A w \in Waiting : w \in Queued => w = t
        BY <1>3 DEF MutexInv, HandoverSound
    <2>2. QED
        BY <1>5, <1>6, <1>7, <2>1 DEF HandoverSound
<1>10. MutexInv'
    BY <1>5, <1>6, <1>8, <1>9 DEF MutexInv
<1>11. waiters # <<>>
    BY <1>2, EmptySeq, LenProperties DEF Waiting, ToSet
<1>12. waiters' = Tail(waiters)
    BY <1>1, <1>2, <1>3, <1>11, RemoveHeadIsTail
<1>13. ~panicked' => FLock!Grant
    BY <1>3, <1>4, <1>5, <1>11, <1>12 DEF FLock!Grant
<1>14. QED
    BY <1>10, <1>13

\* A new waiter gives the CPU away, and so is off the run queue.
LEMMA WaitKeeps ==
    ASSUME Inv, WaitersInv, MutexInv, ~panicked,
           NEW t \in Task, t \notin Waiting, t # Idle, Runs(t), MutexWait(t)
    PROVE  MutexInv' /\ FLock!Wait(t)
<1>1. /\ locker \notin {NULL, t} /\ unschedule
      /\ waiters' = list_insert_before(waiters, EndOf(waiters), t)
      /\ UNCHANGED <<locker, nesting, holds, panicked>>
    BY DEF MutexWait
<1>2. /\ waiters \in Seq(Task) /\ NoDuplicates(waiters)
    BY DEF WaitersInv
<1>3. waiters' \in Seq(Task) /\ Waiting' = Waiting \cup {t}
    BY <1>1, <1>2, HeadOfAppend DEF Waiting
<1>4. Queued' = Queued \ {t}
    BY <1>1, CallerFacts, UnscheduleKeeps
<1>5. \A w \in Waiting : w \notin Queued
    BY <1>1 DEF MutexInv, HandoverSound
<1>6. HandoverSound'
    BY <1>1, <1>3, <1>4, <1>5 DEF HandoverSound
<1>7. MutexTypeOK' /\ MutualExclusion'
    BY <1>1, <1>3 DEF MutexInv, MutexTypeOK, MutualExclusion
<1>8. MutexInv'
    BY <1>1, <1>3, <1>6, <1>7 DEF MutexInv
<1>9. waiters' = Append(waiters, t)
    BY <1>1, <1>2, AppendIsAppend
<1>10. \A i \in 1 .. Len(waiters) : waiters[i] # t
    BY <1>2, LenProperties DEF Waiting, ToSet
<1>11. FLock!Wait(t)
    BY <1>1, <1>9, <1>10 DEF FLock!Wait
<1>12. QED
    BY <1>8, <1>11

\* A task that unlocks what it holds finds itself the locker; freeing the
\* mutex makes the first waiter, and no other, ready.
LEMMA UnlockKeeps ==
    ASSUME Inv, WaitersInv, MutexInv, ~panicked,
           NEW t \in Task, holds[t] > 0, MutexUnlock(t)
    PROVE  MutexInv' /\ FLock!Release
<1>1. /\ MutexTypeOK /\ MutualExclusion /\ HandoverSound /\ locker \notin Waiting
      /\ (locker = NULL <=> nesting = 0)
    BY DEF MutexInv
<1>2. locker = t /\ nesting = holds[t] /\ nesting \in 1 .. NestWord - 1
      /\ \A u \in Task : u # t => holds[u] = 0
    BY <1>1 DEF MutualExclusion, MutexTypeOK
<1>3. Unlock(t)
    BY <1>2 DEF MutexUnlock, UnlockPanics
<1>4. /\ nesting' = nesting - 1 /\ locker' = (IF nesting' = 0 THEN NULL ELSE t)
      /\ holds' = [holds EXCEPT ![t] = @ - 1]
      /\ UNCHANGED waiters /\ UNCHANGED panicked
    BY <1>3 DEF Unlock
<1>5. t # NULL /\ locker # NULL /\ Waiting' = Waiting
      /\ NestWord \in Nat /\ holds \in [Task -> Nat] /\ nesting' \in 0 .. NestWord - 1
    BY <1>1, <1>2, <1>4, MutexAssumption, TimersAssumption DEF MutexTypeOK, Task, Waiting
<1>6. holds'[t] = nesting' /\ \A u \in Task : u # t => holds'[u] = 0
    BY <1>2, <1>4, <1>5
<1>7. MutualExclusion'
    BY <1>4, <1>6 DEF MutualExclusion
<1>8. holds' \in [Task -> Nat]
    BY <1>2, <1>4, <1>5
<1>9. MutexTypeOK'
    BY <1>1, <1>4, <1>5, <1>8 DEF MutexTypeOK
<1>10. HandoverSound'
    <2>1. \A w \in Waiting : w \notin Queued
        BY <1>1, <1>5 DEF HandoverSound
    <2>2. CASE nesting' = 0 /\ waiters # <<>>
        <3>1. schedule_task(Head(waiters))
            BY <1>2, <2>2 DEF MutexUnlock, UnlockPanics, Wakeup
        <3>2. Head(waiters) \in Task
            BY <2>2, HeadTailProperties DEF WaitersInv
        <3>3. Queued' = Queued \cup {Head(waiters)}
            BY <3>1, <3>2, InvFacts, ScheduleTaskKeeps
        <3>4. QED
            BY <1>4, <1>5, <2>1, <2>2, <3>3 DEF HandoverSound
    <2>3. CASE ~(nesting' = 0 /\ waiters # <<>>)
        <3>1. UNCHANGED vars
            BY <1>2, <2>3 DEF MutexUnlock, UnlockPanics
        <3>2. Queued' = Queued
            BY <3>1 DEF vars, schedVars, queueVars, Queued
        <3>3. waiters = <<>> => Waiting = {}
            BY EmptySeq, LenProperties DEF Waiting, ToSet
        <3>4. locker' # NULL \/ Waiting = {}
            BY <1>4, <1>5, <2>3, <3>3
        <3>5. QED
            BY <1>5, <2>1, <3>2, <3>4 DEF HandoverSound
    <2>4. QED
        BY <2>2, <2>3
<1>11. locker' \notin Waiting'
    <2>1. NULL \notin Waiting
        BY TimersAssumption DEF WaitersInv, Inv, TypeOK, Task
    <2>2. QED
        BY <1>1, <1>2, <1>4, <1>5, <2>1
<1>12. MutexInv'
    BY <1>4, <1>5, <1>7, <1>9, <1>10, <1>11 DEF MutexInv
<1>13. FLock!Release
    BY <1>2, <1>4, <1>5 DEF FLock!Release
<1>14. QED
    BY <1>12, <1>13

LEMMA MutexStep ==
    ASSUME ~Barging, Inv, WaitersInv, MutexInv, [MutexNext]_mvars
    PROVE  MutexInv' /\ (~panicked' => [FLock!Next]_(FLock!lockVars))
<1>1. CASE UNCHANGED mvars
    <2>1. UNCHANGED mutexVars /\ Queued' = Queued
        BY <1>1 DEF mvars, vars, schedVars, queueVars, Queued
    <2>2. QED
        BY <2>1, MutexUntouched
<1>2. CASE SystemStep
    <2>1. UNCHANGED mutexVars
        BY <1>2 DEF SystemStep
    <2>2. \A w \in Waiting : w \in Queued' <=> w \in Queued
        BY <1>2, SystemLeavesAwake DEF WaitersInv
    <2>3. QED
        BY <2>1, <2>2, MutexUntouched
<1>3. ASSUME NEW t \in Task, OtherTaskStep(t)
      PROVE  MutexInv' /\ UNCHANGED FLock!lockVars
    <2>1. /\ UNCHANGED mutexVars /\ t \notin Waiting /\ t # Idle /\ Runs(t)
          /\ Switch(t) \/ \E u \in Task \ Waiting : CallOn(u)
        BY <1>3 DEF OtherTaskStep
    <2>2. ASSUME NEW w \in Waiting
          PROVE  w \in Queued' <=> w \in Queued
        <3>1. t # w /\ (Switch(t) \/ \E u \in Task \ {w} : CallOn(u))
            BY <2>1
        <3>2. QED
            BY <2>1, <3>1, TaskLeavesAwake DEF WaitersInv
    <2>3. QED
        BY <2>1, <2>2, MutexUntouched
<1>4. ASSUME ~panicked, NEW t \in Task, MutexTaskStep(t)
      PROVE  MutexInv' /\ (~panicked' => FLock!Next)
    <2>1. t # Idle /\ Runs(t)
        BY <1>4 DEF MutexTaskStep
    <2>2. CASE t \in Waiting /\ MutexWaitReturns(t)
        BY <1>4, <2>1, <2>2, WaitReturnsKeeps DEF FLock!Next
    <2>3. CASE MutexReenter(t)
        BY <1>4, <2>3, ReenterKeeps DEF FLock!Next
    <2>4. CASE MutexTake(t)
        BY <1>4, <2>4, TakeKeeps DEF FLock!Next
    <2>5. CASE t \notin Waiting /\ MutexWait(t)
        BY <1>4, <2>1, <2>5, WaitKeeps DEF FLock!Next
    <2>6. CASE holds[t] > 0 /\ MutexUnlock(t)
        BY <1>4, <2>6, UnlockKeeps DEF FLock!Next
    <2>7. QED
        BY <1>4, <2>2, <2>3, <2>4, <2>5, <2>6 DEF MutexTaskStep
<1>5. QED
    BY <1>1, <1>2, <1>3, <1>4 DEF MutexNext

\* Everything the theorems below need is inductive together.
LEMMA MutexInduction ==
    ASSUME ~Barging
    PROVE  MutexSpec => [](Inv /\ WaitersInv /\ MutexInv)
<1>1. MutexInit => Inv /\ WaitersInv /\ MutexInv
    BY WaitersInit, InitInv, MutexInitInv
<1>2. Inv /\ WaitersInv /\ MutexInv /\ [MutexNext]_mvars => (Inv /\ WaitersInv /\ MutexInv)'
    BY MutexStepIsSchedulerStep, StepInv, WaitersStep, MutexStep
<1>3. QED
    BY <1>1, <1>2, PTL DEF MutexSpec

LEMMA MutexInductive ==
    ASSUME WaitersInv, MutexInv
    PROVE  MutexInvariant /\ MutualExclusion /\ NeverPanics
<1>1. MutexTypeOK /\ HandoverSound /\ MutualExclusion
    BY DEF MutexInv
<1>2. waiters # <<>> => Head(waiters) \in Waiting
    BY HeadIsMember DEF WaitersInv, Waiting
<1>3. WakeupNotLost
    BY <1>1, <1>2 DEF HandoverSound, WakeupNotLost
<1>4. NeverPanics
    BY MutexAssumption DEF MutexInv, MutexTypeOK, NeverPanics
<1>5. QED
    BY <1>1, <1>3, <1>4 DEF MutexInvariant

\* Owner, nesting and waiters of a mutex agree with the tasks that hold it or
\* wait, the lock is handed over soundly and no wakeup is lost, for any
\* number of tasks, any nesting and any other use of the scheduler, as long
\* as no task locks a mutex others were woken for.
THEOREM MutexStaysSound == ~Barging => (MutexSpec => []MutexInvariant)
<1>1. ASSUME ~Barging
      PROVE  MutexSpec => []MutexInvariant
    <2>1. MutexSpec => [](Inv /\ WaitersInv /\ MutexInv)
        BY <1>1, MutexInduction
    <2>2. QED
        BY <2>1, MutexInductive, PTL
<1>2. QED
    BY <1>1

\* Under the same condition two tasks never hold the mutex at once.
THEOREM MutexExcludes == ~Barging => (MutexSpec => []MutualExclusion)
<1>1. ASSUME ~Barging
      PROVE  MutexSpec => []MutualExclusion
    <2>1. MutexSpec => [](Inv /\ WaitersInv /\ MutexInv)
        BY <1>1, MutexInduction
    <2>2. QED
        BY <2>1, MutexInductive, PTL
<1>2. QED
    BY <1>1

\* And no PANIC_IF of mutex.c fires before a task has locked the mutex more
\* often than nesting can count.
THEOREM MutexNeverPanics == ~Barging => (MutexSpec => []NeverPanics)
<1>1. ASSUME ~Barging
      PROVE  MutexSpec => []NeverPanics
    <2>1. MutexSpec => [](Inv /\ WaitersInv /\ MutexInv)
        BY <1>1, MutexInduction
    <2>2. QED
        BY <2>1, MutexInductive, PTL
<1>2. QED
    BY <1>1

\* As long as nobody barges, the mutex is a fair lock: one owner, granted in
\* the order in which the tasks queued up.
THEOREM MutexIsFairLock == ~Barging => (MutexSpec => IsFairLock)
<1>1. ASSUME ~Barging
      PROVE  MutexSpec => IsFairLock
    <2>1. Inv /\ WaitersInv /\ MutexInv /\ [MutexNext]_mvars
            => [~panicked' => [FLock!Next]_(FLock!lockVars)]_mvars
        BY <1>1, MutexStep
    <2>2. MutexSpec => [](Inv /\ WaitersInv /\ MutexInv)
        BY <1>1, MutexInduction
    <2>3. QED
        BY <2>1, <2>2, PTL DEF MutexSpec, IsFairLock
<1>2. QED
    BY <1>1
=============================================================================
