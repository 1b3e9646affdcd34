------------------------------ MODULE KvmClock -------------------------------
(***************************************************************************)
(* The clock that KVM shares with its guest: drivers/cpu/kvm.c.  The       *)
(* hypervisor writes a wall clock once and the relation between the time   *)
(* stamp counter and its own time whenever it changes; the guest computes  *)
(* the time from them.  The hypervisor runs between any two instructions   *)
(* of the guest.  The 64 bits of the counters are WordBits here, and the   *)
(* 32 bits of the fraction of the multiplier FractionBits.                 *)
(***************************************************************************)
EXTENDS Integers, FiniteSets

CONSTANTS
    WordBits, FractionBits,
    Calibration,        \* the <<tsc_to_system_mul, tsc_shift>> of the machine
    WallClock,          \* the time at which the machine was switched on
    MaxTsc,             \* bound: when the clock stops
    MaxUpdates          \* bound: how often the hypervisor writes the relation

ASSUME KvmClockAssumption ==
    /\ FractionBits \in Nat \ {0} /\ WordBits \in Nat /\ WordBits > 2 * FractionBits
    /\ Calibration \subseteq (1 .. 2^FractionBits - 1) \X (-FractionBits .. FractionBits)
    /\ WallClock \in Nat /\ MaxTsc \in Nat /\ MaxUpdates \in Nat

\* 1 << k, which the proofs know only from here.
ASSUME WordDoubles == \A k \in 0 .. WordBits - 1 : 2^(k + 1) = 2 * 2^k

VARIABLES
    tsc,                \* the time stamp counter
    system_time,        \* pvclock_vcpu_time_info_t
    wall_clock_nsecs,
    pc,                 \* how far the constructor or the call has come
    read,               \* what now_in_nanoseconds has read
    result              \* what its last call returned, and when it began

clockVars == <<tsc, system_time, wall_clock_nsecs, pc, read, result>>

Word == 0 .. 2^WordBits - 1
InWord(n) == n % 2^WordBits
ShiftLeft(n, k) == InWord(n * 2^k)
ShiftRight(n, k) == n \div 2^k
-----------------------------------------------------------------------------
(* Conversions, with the fields of a pvclock_vcpu_time_info_t. *)

tsc_to_nanoseconds(t, info) ==
    LET r == IF info.shift >= 0 THEN ShiftLeft(t, info.shift) ELSE ShiftRight(t, -info.shift)
    IN  ShiftRight(InWord(r * info.mul), FractionBits)

\* A slip: the shift is not undone.
nanoseconds_to_tsc_NoShift(ns, info) == ShiftLeft(ns, FractionBits) \div info.mul

nanoseconds_to_tsc(ns, info) ==
    LET r == ShiftLeft(ns, FractionBits) \div info.mul
    IN  IF info.shift >= 0 THEN ShiftRight(r, info.shift) ELSE ShiftLeft(r, -info.shift)
-----------------------------------------------------------------------------
(* The hypervisor.  It computes its own time of the counter with as many     *)
(* bits as that takes.                                                       *)

Scaled(t, shift) == IF shift >= 0 THEN t * 2^shift ELSE t \div 2^(-shift)
Nanos(t, mul, shift) == (mul * Scaled(t, shift)) \div 2^FractionBits

\* The machine does not live until its counts outgrow their words.
ASSUME LifeFits ==
    /\ MaxTsc \in Word /\ WallClock \in Word
    /\ \A c \in Calibration : WallClock + Nanos(MaxTsc, c[1], c[2]) \in Word

\* What it writes: the version is even when all of the fields are written,
\* and they are, before the guest runs again.
Relation(c, version) ==
    [version |-> version, tsc_timestamp |-> tsc, mul |-> c[1], shift |-> c[2],
     system_time |-> Nanos(tsc, c[1], c[2])]

Tick ==
    /\ tsc < MaxTsc
    /\ tsc' = tsc + 1
    /\ UNCHANGED <<system_time, wall_clock_nsecs, pc, read, result>>

Update ==
    /\ pc \in {"ready", "reading"}
    /\ system_time.version < 2 * MaxUpdates
    /\ tsc > system_time.tsc_timestamp
    /\ system_time' = Relation(<<system_time.mul, system_time.shift>>, system_time.version + 2)
    /\ UNCHANGED <<tsc, wall_clock_nsecs, pc, read, result>>

NoInfo == [version |-> 0, tsc_timestamp |-> 0, mul |-> 0, shift |-> 0, system_time |-> 0]
NotRead == -1
Nothing == [version |-> {}, system_time |-> NotRead, tsc |-> NotRead, tsc_timestamp |-> NotRead]

ClockInit ==
    /\ tsc = 0
    /\ system_time = NoInfo
    /\ wall_clock_nsecs = 0
    /\ pc = "constructor"
    /\ read = Nothing
    /\ result = [value |-> 0, began |-> 0]
-----------------------------------------------------------------------------
(* CONSTRUCTOR(kvm): each of the two registers makes the hypervisor write   *)
(* its structure at once.                                                   *)

SetWallClock ==
    /\ pc = "constructor"
    /\ wall_clock_nsecs' = WallClock
    /\ pc' = "wall_clock"
    /\ UNCHANGED <<tsc, system_time, read, result>>

SetSystemTime ==
    /\ pc = "wall_clock"
    /\ \E c \in Calibration : system_time' = Relation(c, 2)
    /\ pc' = "ready"
    /\ UNCHANGED <<tsc, wall_clock_nsecs, read, result>>

\* It is not KVM, or a KVM without a clock: PANIC.
NoClock ==
    /\ pc = "constructor"
    /\ pc' = "panic"
    /\ UNCHANGED <<tsc, system_time, wall_clock_nsecs, read, result>>
-----------------------------------------------------------------------------
(* now_in_nanoseconds: it reads system_time, the counter and tsc_timestamp,  *)
(* in the order the compiler likes, and computes.                            *)

\* A slip: a field that was read in an earlier call is not read again.
Begin_Stale ==
    /\ pc = "ready"
    /\ pc' = "reading"
    /\ read' = [Nothing EXCEPT !.tsc_timestamp = read.tsc_timestamp]
    /\ result' = [result EXCEPT !.began = tsc]
    /\ UNCHANGED <<tsc, system_time, wall_clock_nsecs>>

Begin ==
    /\ pc = "ready"
    /\ pc' = "reading"
    /\ read' = Nothing
    /\ result' = [result EXCEPT !.began = tsc]
    /\ UNCHANGED <<tsc, system_time, wall_clock_nsecs>>

ReadField(field) ==
    /\ pc = "reading" /\ read[field] = NotRead
    /\ read' = [read EXCEPT ![field] = system_time[field],
                            !.version = @ \cup {system_time.version}]
    /\ UNCHANGED <<tsc, system_time, wall_clock_nsecs, pc, result>>

rdtsc ==
    /\ pc = "reading" /\ read.tsc = NotRead
    /\ read' = [read EXCEPT !.tsc = tsc, !.version = @ \cup {system_time.version}]
    /\ UNCHANGED <<tsc, system_time, wall_clock_nsecs, pc, result>>

AllRead == read.system_time # NotRead /\ read.tsc # NotRead /\ read.tsc_timestamp # NotRead

Computed ==
    InWord(wall_clock_nsecs + read.system_time
           + tsc_to_nanoseconds(InWord(read.tsc - read.tsc_timestamp), system_time))

Return ==
    /\ pc = "reading" /\ AllRead
    /\ result' = [result EXCEPT !.value = Computed]
    /\ pc' = "ready"
    /\ UNCHANGED <<tsc, system_time, wall_clock_nsecs, read>>

ClockNext ==
    \/ Tick \/ Update
    \/ SetWallClock \/ SetSystemTime \/ NoClock
    \/ Begin \/ rdtsc \/ Return
    \/ \E field \in {"system_time", "tsc_timestamp"} : ReadField(field)

ClockSpec == ClockInit /\ [][ClockNext]_clockVars
-----------------------------------------------------------------------------
(* Properties. *)

\* The types, and that no conversion divides by zero.
ClockTypeOK ==
    /\ tsc \in 0 .. MaxTsc
    /\ system_time.tsc_timestamp \in Word /\ system_time.system_time \in Word
    /\ wall_clock_nsecs \in Word
    /\ pc \in {"constructor", "wall_clock", "ready", "reading", "panic"}
    /\ {read.system_time, read.tsc, read.tsc_timestamp} \subseteq Word \cup {NotRead}
    /\ result.value \in Word
    /\ pc \in {"ready", "reading"} => system_time.mul # 0

Returned == pc = "ready" /\ AllRead

\* The protocol of pvclock-abi.h: the values a reader got belong together if
\* the version was the same all the time.  The code never looks at it.
IsConsistent == Cardinality(read.version) = 1

\* Whether tsc_to_nanoseconds keeps all of the bits: about four seconds of ticks.
Fits(t, info) == Scaled(t, info.shift) * info.mul \in Word

\* What the hypervisor's clock shows when the counter is t.
TimeAt(t) == WallClock + Nanos(t, system_time.mul, system_time.shift)

\* A time put together from one version is the hypervisor's at some moment of
\* the call, but for the rounding of the two parts of the sum.  It is one only
\* while the ticks since the last update fit; the code does not test that.
TimeAccurate ==
    Returned /\ IsConsistent /\ Fits(read.tsc - read.tsc_timestamp, system_time) =>
        /\ result.value <= TimeAt(tsc)
        /\ result.value >= TimeAt(result.began) - 2

\* The fields, the reads and what was computed of them agree.
ClockInvariant == ClockTypeOK /\ TimeAccurate

\* A hypervisor gives as many bits to the multiplier as it has.
Normalized == \A c \in Calibration : 2^(FractionBits - 1) <= c[1] /\ -FractionBits < c[2]

\* A delay turned into ticks and back is never longer, and shorter by less
\* than a tick and the rounding.  It holds for delays that fit in the bits
\* above the fraction, about four seconds; longer ones lose their high bits.
DelaysKept ==
    pc = "ready" =>
        \A ns \in 0 .. 2^(WordBits - FractionBits) - 1 :
            LET back == tsc_to_nanoseconds(nanoseconds_to_tsc(ns, system_time), system_time)
                tick == tsc_to_nanoseconds(1, system_time)
            IN  back <= ns /\ ns - back <= tick + 2
==============================================================================
