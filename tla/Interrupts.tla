----------------------------- MODULE Interrupts ------------------------------
(***************************************************************************)
(* Interrupt vectors and who answers them: drivers/cpu/idt.c, the 8259     *)
(* interrupt controllers of drivers/pic.c, the vectors that the local APIC *)
(* and its timer take and how they end an interrupt, with KVM's shortcut   *)
(* or without, and the order in which the constructors of the drivers run, *)
(* which include/ctorsprio.py and tools/dep2prio.py decide when the kernel *)
(* is built.                                                               *)
(*                                                                         *)
(* Tasks run with interrupts disabled; the CPU takes one only while the    *)
(* idle task waits, and takes no other before its handler has returned.    *)
(* The driver of a device sets the handler of its line before it unmasks   *)
(* it, and removes it only from a masked line.  No device is on the line   *)
(* that connects the two controllers.                                      *)
(***************************************************************************)
EXTENDS Integers, FiniteSetsExt, SequencesExt

CONSTANTS
    NVectors,           \* 0x100
    NExceptions,        \* 0x20: the vectors of the CPU itself
    PageFault,          \* 0xe
    Faults,             \* the exceptions that the running code may raise
    Lines,              \* 8: the lines of one controller
    PicOrder,           \* 4: both controllers have 2^PicOrder lines
    Cascade,            \* 2: the line the second controller is connected to
    OrderLimit,         \* 8: the orders allocate_interrupts accepts are less
    DeviceIrqs,         \* the lines that have a device
    DriverOrders,       \* what drivers ask of allocate_interrupts
    MaxBlocks,          \* bound: the blocks of vectors that are allocated
    MaxRaises           \* bound: the interrupts the devices raise

Vector == 0 .. NVectors - 1
Exceptions == 0 .. NExceptions - 1
Irq == 0 .. 2 * Lines - 1
Master == 0 .. Lines - 1
Slave == Irq \ Master

ASSUME InterruptsAssumption ==
    /\ NVectors \in Nat /\ NExceptions \in Nat /\ PageFault \in Exceptions
    /\ 17 < NExceptions /\ NExceptions + 2 * Lines <= NVectors
    /\ Faults \subseteq Exceptions \ {17}     \* 17 is raised in user mode only
    /\ OrderLimit \in Nat \ {0} /\ Lines \in Nat \ {0} /\ PicOrder \in 0 .. OrderLimit - 1 /\ 2^PicOrder = 2 * Lines
    /\ NExceptions % 2^PicOrder = 0 /\ NVectors % 2^(OrderLimit - 1) = 0
    /\ Cascade \in Master
    /\ DeviceIrqs \subseteq Irq \ {Cascade}
    /\ DriverOrders \subseteq Nat /\ MaxBlocks \in Nat /\ MaxRaises \in Nat

\* 1 << o, which the proofs know only from here: a shift doubles.
ASSUME ShiftDoubles == \A o \in 0 .. OrderLimit - 1 : 2^(o + 1) = 2 * 2^o

VARIABLES
    deps,               \* the constructors that have to run, and their deps
    ready,              \* those of them dep2prio has found ready
    gates,              \* the vectors whose entry in the idt is present
    handlers,           \* the handler of each vector
    used_interrupts,
    given,              \* the blocks allocate_interrupts has returned
    lapic_base, spurious_vector, timer_vector,  \* the local APIC
    lapic_eoi,          \* the function that ends an interrupt of it
    irq_mask,           \* the lines masked in the variables of pic.c
    pic_mask_register,  \* the lines masked in the controllers
    pic_handlers,       \* the lines that have a handler
    irr, in_service,    \* the controllers: lines requested, lines in service
    lapic_in_service,   \* the local APIC has an interrupt in service
    kvm_apic_eoi,       \* the bit in which KVM allows not to end it
    cpu,                \* the vector being handled
    frame,              \* the words on the stack for it, the last on top
    panic,              \* why the system is frozen
    raises

vars == <<deps, ready, gates, handlers, used_interrupts, given, lapic_base,
          spurious_vector, timer_vector, lapic_eoi, irq_mask, pic_mask_register,
          pic_handlers, irr, in_service, lapic_in_service, kvm_apic_eoi, cpu,
          frame, panic, raises>>

bootVars == <<deps, ready>>
idtVars == <<gates, handlers, used_interrupts, given>>
lapicVars == <<lapic_base, spurious_vector, timer_vector, lapic_eoi>>
picVars == <<irq_mask, pic_mask_register, pic_handlers>>
lapicService == <<lapic_in_service, kvm_apic_eoi>>
cpuVars == <<cpu, frame>>
hardwareVars == <<irr, in_service, lapicService, cpuVars, raises>>

None == "none"          \* no handler, no reason to panic
NoVector == NVectors

\* A slip: the controllers do not wait for the vectors of the exceptions.
DEPENDENCIES_PicAnytime ==
    [idt |-> {}, vga |-> {}, serial |-> {},
     mem |-> {"idt"}, cpuid |-> {"vga"}, pic |-> {},
     lapic |-> {"cpuid", "mem", "vga", "idt", "pic"},
     kvm |-> {"cpuid", "lapic", "vga"},
     apictimer |-> {"lapic"},
     scheduler |-> {"mem"}, pci |-> {"vga", "mem"}]

\* include/ctorsprio.py
DEPENDENCIES ==
    [idt |-> {}, vga |-> {}, serial |-> {},
     mem |-> {"idt"}, cpuid |-> {"vga"}, pic |-> {"idt"},
     lapic |-> {"cpuid", "mem", "vga", "idt", "pic"},
     kvm |-> {"cpuid", "lapic", "vga"},
     apictimer |-> {"lapic"},
     scheduler |-> {"mem"}, pci |-> {"vga", "mem"}]

Constructors == {"idt", "vga", "serial", "mem", "cpuid", "pic", "lapic", "kvm",
                 "apictimer", "scheduler", "pci"}

Init ==
    /\ deps = DEPENDENCIES
    /\ ready = {}
    /\ gates = {}
    /\ handlers = [v \in Vector |-> None]
    /\ used_interrupts = {}
    /\ given = <<>>
    /\ lapic_base = FALSE /\ spurious_vector = NoVector /\ timer_vector = NoVector
    /\ irq_mask = Irq
    /\ pic_mask_register \in {Irq, {}}
    /\ pic_handlers = {}
    /\ lapic_eoi = "default"
    /\ irr = {} /\ in_service = {} /\ lapic_in_service = FALSE /\ kvm_apic_eoi = FALSE
    /\ cpu = NoVector /\ frame = <<>>
    /\ panic = None
    /\ raises = 0
-----------------------------------------------------------------------------
(* The order of the constructors. *)

\* One iteration of dep2prio: those without dependencies are next.
FindReady ==
    /\ ready = {} /\ DOMAIN deps # {}
    /\ panic = None
    /\ ready' = {c \in DOMAIN deps : deps[c] = {}}
    /\ deps' = [c \in DOMAIN deps \ ready' |-> deps[c] \ ready']
    /\ UNCHANGED <<idtVars, lapicVars, picVars, hardwareVars, panic>>

\* The next constructor is called; those of one iteration are in any order.
Calls(c) ==
    /\ c \in ready /\ panic = None
    /\ ready' = ready \ {c}
    /\ UNCHANGED <<deps, hardwareVars>>

Booted == ready = {} /\ DOMAIN deps = {} /\ panic = None

Panic(why) ==
    /\ panic' = why
    /\ UNCHANGED <<idtVars, lapicVars, picVars>>
-----------------------------------------------------------------------------
(* drivers/cpu/idt.c *)

Block(base, order) == base .. base + 2^order - 1

\* Where allocate_interrupts would find a free block.
FreeBases(order) ==
    {base \in Vector : base % 2^order = 0 /\ Block(base, order) \cap used_interrupts = {}}

CanAllocate(order) == order < OrderLimit /\ FreeBases(order) # {}

Allocated(order) == Min(FreeBases(order))

\* allocate_interrupts(order), by whom; it returns Allocated(order).
allocate_interrupts(order, owner) ==
    /\ used_interrupts' = used_interrupts \cup Block(Allocated(order), order)
    /\ given' = Append(given, [base |-> Allocated(order), order |-> order, owner |-> owner])

set_interrupt_handler(vectors, handler) ==
    handlers' = [v \in Vector |-> IF v \in vectors THEN handler ELSE handlers[v]]

IdtInit ==
    /\ Calls("idt")
    /\ gates' = Vector
    /\ used_interrupts' = used_interrupts \cup Exceptions
    /\ UNCHANGED <<handlers, given, lapicVars, picVars, panic>>

\* CONSTRUCTOR(mem), the part of it that is about interrupts.
MemInit ==
    /\ Calls("mem")
    /\ set_interrupt_handler({PageFault}, "pf_handler")
    /\ UNCHANGED <<gates, used_interrupts, given, lapicVars, picVars, panic>>

\* The constructors that have nothing to do with interrupts.
OtherInit ==
    /\ \E c \in {"vga", "serial", "cpuid", "scheduler", "pci"} : Calls(c)
    /\ UNCHANGED <<idtVars, lapicVars, picVars, panic>>
-----------------------------------------------------------------------------
(* drivers/pic.c: the vectors of the controllers are programmed to follow  *)
(* those of the exceptions, whatever allocate_interrupts returns.          *)

PicVector(irq) == NExceptions + irq

\* set_mask()
set_mask == pic_mask_register' = irq_mask'

PicInit ==
    /\ Calls("pic")
    /\ UNCHANGED irq_mask
    /\ set_mask
    /\ UNCHANGED <<pic_handlers, gates, lapicVars>>
    /\ \/ /\ CanAllocate(PicOrder)
          /\ allocate_interrupts(PicOrder, "pic")
          /\ set_interrupt_handler({PicVector(irq) : irq \in Irq}, "pic_handler")
          /\ UNCHANGED panic
       \/ /\ ~CanAllocate(PicOrder)
          /\ panic' = "no interrupts"
          /\ UNCHANGED <<handlers, used_interrupts, given>>

\* A slip: the line between the controllers stays masked.
pic_unmask_NoCascade(irq) ==
    /\ irq_mask' = irq_mask \ {irq}
    /\ set_mask

pic_unmask(irq) ==
    /\ irq_mask' = (irq_mask \ {irq}) \ (IF irq \in Slave THEN {Cascade} ELSE {})
    /\ set_mask

pic_mask(irq) ==
    /\ LET masked == irq_mask \cup {irq}
       IN  irq_mask' = masked \cup (IF irq \in Slave /\ Slave \subseteq masked
                                    THEN {Cascade} ELSE {})
    /\ set_mask

\* CONSTRUCTOR(lapic).  Not every CPU has a local APIC.
LapicInit ==
    /\ Calls("lapic")
    /\ \/ /\ CanAllocate(0)
          /\ lapic_base' = TRUE
          /\ allocate_interrupts(0, "lapic")
          /\ spurious_vector' = Allocated(0)
          /\ set_interrupt_handler({Allocated(0)}, "spurious_handler")
          /\ UNCHANGED <<gates, timer_vector, lapic_eoi, picVars, panic>>
       \/ UNCHANGED <<idtVars, lapicVars, picVars, panic>>
       \/ ~CanAllocate(0) /\ Panic("no interrupts")

\* CONSTRUCTOR(kvm): not every CPU is that of a KVM with a clock, and not every
\* KVM has the shortcut.
KvmInit ==
    /\ Calls("kvm")
    /\ \/ /\ lapic_eoi' \in {"default", "kvm"}
          /\ UNCHANGED <<idtVars, lapic_base, spurious_vector, timer_vector, picVars, panic>>
       \/ Panic("no kvm")

\* CONSTRUCTOR(apictimer)
ApicTimerInit ==
    /\ Calls("apictimer")
    /\ \/ /\ lapic_base /\ CanAllocate(0)
          /\ allocate_interrupts(0, "apictimer")
          /\ set_interrupt_handler({Allocated(0)}, "apic_timer_handler")
          /\ timer_vector' = Allocated(0)
          /\ UNCHANGED <<gates, lapic_base, spurious_vector, lapic_eoi, picVars, panic>>
       \/ ~lapic_base /\ Panic("no apic")
       \/ lapic_base /\ Panic("no tsc deadline")
       \/ ~CanAllocate(0) /\ Panic("no interrupts")
-----------------------------------------------------------------------------
(* The drivers, when the system runs. *)

Task == Booted /\ cpu = NoVector

\* A driver allocates vectors and answers them.
DriverAllocates(order) ==
    /\ Task /\ CanAllocate(order) /\ Len(given) < MaxBlocks
    /\ allocate_interrupts(order, "driver")
    /\ set_interrupt_handler(Block(Allocated(order), order), "driver")
    /\ UNCHANGED <<bootVars, gates, lapicVars, picVars, hardwareVars, panic>>

pic_set_handler(irq) ==
    /\ Task /\ irq \notin pic_handlers
    /\ pic_handlers' = pic_handlers \cup {irq}
    /\ UNCHANGED <<bootVars, idtVars, lapicVars, irq_mask, pic_mask_register, hardwareVars, panic>>

RemoveHandler(irq) ==
    /\ Task /\ irq \in pic_handlers /\ irq \in irq_mask
    /\ pic_handlers' = pic_handlers \ {irq}
    /\ UNCHANGED <<bootVars, idtVars, lapicVars, irq_mask, pic_mask_register, hardwareVars, panic>>

Unmask(irq) ==
    /\ Task /\ irq \in pic_handlers
    /\ pic_unmask(irq)
    /\ UNCHANGED <<bootVars, idtVars, lapicVars, pic_handlers, hardwareVars, panic>>

Mask(irq) ==
    /\ Task
    /\ pic_mask(irq)
    /\ UNCHANGED <<bootVars, idtVars, lapicVars, pic_handlers, hardwareVars, panic>>
-----------------------------------------------------------------------------
(* The hardware: two 8259 in the fully nested mode, lower lines first.     *)

Raise(irq) ==
    /\ raises < MaxRaises
    /\ Booted /\ irq \notin irr
    /\ irr' = irr \cup {irq}
    /\ raises' = raises + 1
    /\ UNCHANGED <<bootVars, idtVars, lapicVars, picVars, in_service, lapicService, cpuVars, panic>>

\* The line a controller asks for, if any: not masked, not in service, and
\* with a higher priority than those in service.
Requested(lines, requests) ==
    {irq \in (requests \cap lines) \ pic_mask_register :
        \A j \in (in_service \cup (requests \ pic_mask_register)) \cap lines :
            j >= irq /\ irq \notin in_service}

Pending ==
    LET slave == Requested(Slave, irr)
        master == Requested(Master, irr \cup IF slave = {} THEN {} ELSE {Cascade})
    IN  IF Cascade \in master THEN slave ELSE master

\* What the CPU pushes when it enters a vector, some exceptions with an error.
CpuPushes(v) == <<"eflags", "cs", "eip">> \o IF v \in {8} \cup 10 .. 14 \cup {17}
                                             THEN <<"error">> ELSE <<>>

\* The vectors that isr.h lists as ISRE.
ErrorVectors == {8} \cup 10 .. 14

\* ISRE(n) pushes the number of the vector, ISR(n) a 0 before it.
IsrStub(v) == (IF v \in ErrorVectors THEN <<>> ELSE <<"zero">>) \o <<v>>

Enter(v) == cpu' = v /\ frame' = CpuPushes(v) \o IsrStub(v)

\* The code that runs raises an exception.  (One that a constructor or a
\* handler raises is left out.)
Fault ==
    /\ Task
    /\ \E v \in Faults : Enter(v)
    /\ UNCHANGED <<bootVars, idtVars, lapicVars, picVars, irr, in_service, lapicService, raises, panic>>

\* The CPU takes an interrupt while the idle task waits.
Deliver ==
    /\ Task
    /\ \E irq \in Pending :
        /\ irr' = irr \ {irq}
        /\ in_service' = in_service \cup {irq} \cup (IF irq \in Slave THEN {Cascade} ELSE {})
        /\ Enter(PicVector(irq))
    /\ UNCHANGED <<bootVars, idtVars, lapicVars, picVars, lapicService, raises, panic>>

\* The timer of the local APIC.  KVM may set its bit in the guest's memory.
DeliverTimer ==
    /\ Task /\ timer_vector # NoVector /\ ~lapic_in_service
    /\ Enter(timer_vector)
    /\ lapic_in_service' = TRUE
    /\ kvm_apic_eoi' \in (IF lapic_eoi = "kvm" THEN BOOLEAN ELSE {FALSE})
    /\ UNCHANGED <<bootVars, idtVars, lapicVars, picVars, irr, in_service, raises, panic>>

\* The local APIC has withdrawn an interrupt that the CPU was about to take.
DeliverSpurious ==
    /\ Task /\ spurious_vector # NoVector
    /\ Enter(spurious_vector)
    /\ UNCHANGED <<bootVars, idtVars, lapicVars, picVars, irr, in_service, lapicService, raises, panic>>

\* A command to end the interrupt of the highest priority that is in service.
Eoi(lines) == LET s == in_service \cap lines IN IF s = {} THEN {} ELSE {Min(s)}
-----------------------------------------------------------------------------
(* isr_handler of the vector, up to the return from the interrupt. *)

\* regs->int_no, and the function that is called with regs.
int_no == Last(frame)
Handles(handler) == cpu # NoVector /\ panic = None /\ handlers[int_no] = handler

\* The end of isr_common: two words are dropped, iret takes three.
IsrReturn == cpu' = NoVector /\ frame' = SubSeq(frame, 1, Len(frame) - 5)

\* A write to the EOI register.  KVM sees it and withdraws its bit.
EndLapic == lapic_in_service' = FALSE /\ kvm_apic_eoi' = FALSE

\* A slip: the bit is tested and not cleared.
kvm_lapic_eoi_NoClear == (kvm_apic_eoi /\ UNCHANGED lapicService) \/ (~kvm_apic_eoi /\ EndLapic)

\* test_and_clear_bit tests bit 0 of the pointer it is given, which is aligned,
\* instead of the bit it points to: the shortcut is never taken.
kvm_lapic_eoi == EndLapic

CallLapicEoi ==
    \/ lapic_eoi = "kvm" /\ kvm_lapic_eoi
    \/ lapic_eoi = "default" /\ EndLapic

\* A slip: only the first controller is told.
PicEoi_FirstOnly(irq) == in_service' = in_service \ Eoi(Master)

PicEoi(irq) == in_service' = in_service \ (Eoi(Master) \cup IF irq \in Slave THEN Eoi(Slave) ELSE {})

\* pic_handler with the handler of the line, which may mask its line.
IsrPic ==
    /\ Handles("pic_handler")
    /\ LET irq == int_no - NExceptions IN
        /\ PicEoi(irq)
        /\ \/ /\ irq \in pic_handlers
              /\ IsrReturn
              /\ \/ pic_mask(irq)
                 \/ UNCHANGED <<irq_mask, pic_mask_register>>
              /\ UNCHANGED panic
           \/ /\ irq \notin pic_handlers
              /\ panic' = "unhandled"
              /\ UNCHANGED <<cpuVars, irq_mask, pic_mask_register>>
    /\ UNCHANGED <<bootVars, idtVars, lapicVars, pic_handlers, irr, lapicService, raises>>

\* apic_timer_handler
IsrTimer ==
    /\ Handles("apic_timer_handler")
    /\ CallLapicEoi
    /\ IsrReturn
    /\ UNCHANGED <<bootVars, idtVars, lapicVars, picVars, irr, in_service, raises, panic>>

IsrSpurious ==
    /\ Handles("spurious_handler")
    /\ CallLapicEoi
    /\ panic' = "spurious"
    /\ UNCHANGED <<bootVars, idtVars, lapicVars, picVars, irr, in_service, cpuVars, raises>>

IsrPageFault ==
    /\ Handles("pf_handler")
    /\ panic' = "page fault"
    /\ UNCHANGED <<bootVars, idtVars, lapicVars, picVars, hardwareVars>>

\* isr_handler finds no handler, or one that is not for what came.
IsrUnhandled ==
    /\ Handles(None) \/ Handles("driver")
    /\ panic' = IF int_no \in Exceptions THEN "exception" ELSE "unhandled"
    /\ UNCHANGED <<bootVars, idtVars, lapicVars, picVars, hardwareVars>>

Boot ==
    \/ FindReady
    \/ IdtInit \/ MemInit \/ OtherInit \/ PicInit \/ LapicInit \/ KvmInit \/ ApicTimerInit

Drivers ==
    \/ \E order \in DriverOrders : DriverAllocates(order)
    \/ \E irq \in DeviceIrqs :
        pic_set_handler(irq) \/ RemoveHandler(irq) \/ Unmask(irq) \/ Mask(irq)

Isr == IsrPic \/ IsrTimer \/ IsrSpurious \/ IsrPageFault \/ IsrUnhandled

Hardware == (\E irq \in DeviceIrqs : Raise(irq)) \/ Deliver \/ DeliverTimer \/ DeliverSpurious \/ Fault

Next == Boot \/ Drivers \/ Hardware \/ Isr

Spec == Init /\ [][Next]_vars

\* Handlers return, and the idle task gets to wait again and again: tasks
\* sleep.  The timer fires only when it was armed, so the CPU takes the lines'
\* interrupts also when it could take the timer's.
FairSpec == Spec /\ SF_vars(Deliver) /\ WF_vars(Isr)
-----------------------------------------------------------------------------
(* Properties. *)

\* The types.
TypeOK ==
    /\ DOMAIN deps \subseteq Constructors /\ ready \subseteq Constructors
    /\ gates \subseteq Vector /\ used_interrupts \subseteq Vector
    /\ handlers \in [Vector -> {None, "pf_handler", "pic_handler", "spurious_handler",
                                "apic_timer_handler", "driver"}]
    /\ lapic_base \in BOOLEAN
    /\ {spurious_vector, timer_vector, cpu} \subseteq Vector \cup {NoVector}
    /\ lapic_eoi \in {"default", "kvm"}
    /\ lapic_in_service \in BOOLEAN /\ kvm_apic_eoi \in BOOLEAN
    /\ (irq_mask \cup pic_mask_register \cup pic_handlers \cup irr \cup in_service) \subseteq Irq
    /\ panic \in {None, "no interrupts", "no apic", "no kvm", "no tsc deadline",
                  "spurious", "unhandled", "page fault", "exception"}

\* A vector is given to one owner, never one of an exception, and what is
\* marked used is what was given.
VectorsGivenOnce ==
    /\ \A i, j \in DOMAIN given : i # j =>
            Block(given[i].base, given[i].order) \cap Block(given[j].base, given[j].order) = {}
    /\ Booted => used_interrupts =
            Exceptions \cup UNION {Block(given[i].base, given[i].order) : i \in DOMAIN given}
    /\ \A i \in DOMAIN given : Block(given[i].base, given[i].order) \cap Exceptions = {}

\* Each vector that hardware was told to use is answered by the driver of
\* that hardware.  pic.c never looks at the block it was given: it owns the
\* vectors it uses only because it is the first to ask.
VectorsAnswered ==
    Booted =>
        /\ gates = Vector
        /\ \A irq \in Irq : handlers[PicVector(irq)] = "pic_handler"
        /\ spurious_vector # NoVector => handlers[spurious_vector] = "spurious_handler"
        /\ timer_vector # NoVector => handlers[timer_vector] = "apic_timer_handler"

\* The blocks that were given out, the table of vectors and what the hardware
\* was told to use agree.
VectorsInvariant == TypeOK /\ VectorsGivenOnce /\ VectorsAnswered

\* The line between the controllers is open exactly when a line behind it is,
\* after any sequence of masking and unmasking, and the controllers agree
\* with the variables.
CascadeFollows ==
    Booted => /\ pic_mask_register = irq_mask
              /\ Cascade \in irq_mask <=> Slave \subseteq irq_mask

\* With drivers that keep to the order of the calls no interrupt is unhandled.
NoneUnhandled == panic # "unhandled"

\* A handler finds int_regs_t on the stack as idt.h declares it, the number of
\* its vector in its place, and iret finds what the CPU pushed: for vectors
\* for which the CPU pushes an error and for others.
FramesSound ==
    \/ cpu = NoVector /\ frame = <<>>
    \/ /\ cpu \in Vector /\ Len(frame) = 5
       /\ SubSeq(frame, 1, 3) = <<"eflags", "cs", "eip">>
       /\ frame[4] \in {"error", "zero"} /\ frame[5] = cpu

\* When no handler runs no controller has an interrupt in service, which it
\* would wait for before it delivered another.
NoneInService == cpu = NoVector => in_service = {} /\ ~lapic_in_service

\* An interrupt reaches its handler with a sound frame, and when the handler
\* has returned it is over for the CPU and for its controller.
InterruptsEnd == NoneUnhandled /\ FramesSound /\ NoneInService

\* An interrupt of a line that stays unmasked is handled, unless a spurious
\* one or an exception freezes the system: no line is left in service, where it would block
\* itself and every line of a lower priority.
IrqsHandled ==
    \A irq \in DeviceIrqs :
        (irq \in irr /\ irq \notin irq_mask)
            ~> (irq \notin irr \/ irq \in irq_mask
                \/ panic \in {"spurious", "page fault", "exception"})
==============================================================================
