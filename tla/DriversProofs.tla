---------------------------- MODULE DriversProofs ----------------------------
(***************************************************************************)
(* Proofs about the drivers, which have nothing in common but that: the    *)
(* interrupts (Interrupts), the walk of the PCI buses (Pci), for machines  *)
(* with any number of buses, slots, functions and bridges, and the clock   *)
(* that KVM keeps (KvmClock).                                              *)
(***************************************************************************)
EXTENDS Interrupts, Pci, KvmClock, ListsTheorems, FiniteSetTheorems

\* CascadeFollows is about the time after the constructors: until the one of
\* pic.c has run, the controllers have whatever mask they were left with.  A
\* handler masks its own line, which has to be one of a device: the line
\* between the controllers masked by itself would cut off the second one.
CascadeInv ==
    /\ Cascade \in irq_mask <=> Slave \subseteq irq_mask
    /\ pic_mask_register = irq_mask \/ "pic" \in ready \cup DOMAIN deps
    /\ pic_handlers \subseteq DeviceIrqs

LEMMA Layout == Cascade \notin Slave /\ Cascade \notin DeviceIrqs
BY InterruptsAssumption DEF Slave, Master

LEMMA CascadeInit == Init => CascadeInv
<1> SUFFICES ASSUME Init PROVE CascadeInv
    OBVIOUS
<1>1. irq_mask = Irq /\ pic_handlers = {} /\ deps = DEPENDENCIES
    BY DEF Init
<1>2. Cascade \in Irq /\ Slave \subseteq Irq
    BY InterruptsAssumption DEF Slave, Master, Irq
<1>3. "pic" \in DOMAIN DEPENDENCIES
    BY DEF DEPENDENCIES
<1>4. QED
    BY <1>1, <1>2, <1>3 DEF CascadeInv

\* Masking and unmasking the line of a device.
LEMMA MaskKeeps ==
    ASSUME CascadeInv, NEW irq \in DeviceIrqs, pic_mask(irq)
    PROVE  /\ Cascade \in irq_mask' <=> Slave \subseteq irq_mask'
           /\ pic_mask_register' = irq_mask'
<1>1. irq_mask' = (irq_mask \cup {irq})
                    \cup (IF irq \in Slave /\ Slave \subseteq irq_mask \cup {irq}
                          THEN {Cascade} ELSE {})
    BY DEF pic_mask
<1>2. irq # Cascade /\ Cascade \notin Slave
    BY Layout
<1>3. CASE irq \in Slave /\ Slave \subseteq irq_mask \cup {irq}
    BY <1>1, <1>3 DEF pic_mask, set_mask
<1>4. CASE ~(irq \in Slave /\ Slave \subseteq irq_mask \cup {irq})
    <2>1. irq_mask' = irq_mask \cup {irq}
        BY <1>1, <1>4
    <2>2. Slave \subseteq irq_mask \cup {irq} <=> Slave \subseteq irq_mask
        BY <1>4
    <2>3. QED
        BY <1>2, <2>1, <2>2 DEF pic_mask, set_mask, CascadeInv
<1>5. QED
    BY <1>3, <1>4

LEMMA UnmaskKeeps ==
    ASSUME CascadeInv, NEW irq \in DeviceIrqs, pic_unmask(irq)
    PROVE  /\ Cascade \in irq_mask' <=> Slave \subseteq irq_mask'
           /\ pic_mask_register' = irq_mask'
<1>1. irq # Cascade /\ Cascade \notin Slave
    BY Layout
<1>2. irq_mask' = (irq_mask \ {irq}) \ (IF irq \in Slave THEN {Cascade} ELSE {})
    BY DEF pic_unmask
<1>3. CASE irq \in Slave
    <2>1. Cascade \notin irq_mask' /\ irq \notin irq_mask'
        BY <1>2, <1>3
    <2>2. QED
        BY <1>3, <2>1 DEF pic_unmask, set_mask
<1>4. CASE irq \notin Slave
    <2>1. irq_mask' = irq_mask \ {irq}
        BY <1>2, <1>4
    <2>2. QED
        BY <1>1, <1>4, <2>1 DEF pic_unmask, set_mask, CascadeInv
<1>5. QED
    BY <1>3, <1>4

LEMMA CascadeStep ==
    ASSUME CascadeInv, [Next]_vars
    PROVE  CascadeInv'
<1>1. CASE UNCHANGED <<picVars, bootVars>>
    BY <1>1 DEF picVars, bootVars, CascadeInv
<1>2. CASE Boot
    <2>1. CASE FindReady
        <3>1. /\ ready = {} /\ ready' = {c \in DOMAIN deps : deps[c] = {}}
              /\ DOMAIN deps' = DOMAIN deps \ ready' /\ UNCHANGED picVars
            BY <2>1 DEF FindReady
        <3>2. ready \cup DOMAIN deps = ready' \cup DOMAIN deps'
            BY <3>1
        <3>3. QED
            BY <3>1, <3>2 DEF picVars, CascadeInv
    <2>2. ASSUME NEW c \in Constructors \ {"pic"}, Calls(c), UNCHANGED picVars
          PROVE  CascadeInv'
        BY <2>2 DEF Calls, picVars, CascadeInv
    <2>3. CASE PicInit
        BY <2>3 DEF PicInit, set_mask, CascadeInv
    <2>4. CASE IdtInit \/ MemInit \/ OtherInit
        BY <2>2, <2>4 DEF IdtInit, MemInit, OtherInit, Constructors
    <2>5. CASE LapicInit \/ KvmInit \/ ApicTimerInit
        BY <2>2, <2>5 DEF LapicInit, KvmInit, ApicTimerInit, Panic, Constructors
    <2>6. QED
        BY <1>2, <2>1, <2>3, <2>4, <2>5 DEF Boot
<1>3. CASE Drivers
    <2>1. ASSUME NEW irq \in DeviceIrqs, Mask(irq) \/ Unmask(irq)
          PROVE  CascadeInv'
        <3>1. UNCHANGED pic_handlers
            BY <2>1 DEF Mask, Unmask
        <3>2. QED
            BY <2>1, <3>1, MaskKeeps, UnmaskKeeps DEF Mask, Unmask, CascadeInv
    <2>2. ASSUME NEW irq \in DeviceIrqs, pic_set_handler(irq) \/ RemoveHandler(irq)
          PROVE  CascadeInv'
        BY <2>2 DEF pic_set_handler, RemoveHandler, bootVars, CascadeInv
    <2>3. ASSUME NEW order \in DriverOrders, DriverAllocates(order)
          PROVE  UNCHANGED <<picVars, bootVars>>
        BY <2>3 DEF DriverAllocates
    <2>4. QED
        BY <1>1, <1>3, <2>1, <2>2, <2>3 DEF Drivers
<1>4. CASE IsrPic
    <2> DEFINE irq == int_no - NExceptions
    <2>1. UNCHANGED bootVars /\ UNCHANGED pic_handlers
        BY <1>4 DEF IsrPic
    <2>2. \/ irq \in pic_handlers /\ pic_mask(irq)
          \/ UNCHANGED <<irq_mask, pic_mask_register>>
        BY <1>4 DEF IsrPic
    <2> HIDE DEF irq
    <2>3. CASE irq \in pic_handlers /\ pic_mask(irq)
        BY <2>1, <2>3, MaskKeeps DEF CascadeInv
    <2>4. CASE UNCHANGED <<irq_mask, pic_mask_register>>
        BY <2>1, <2>4 DEF bootVars, CascadeInv
    <2>5. QED
        BY <2>2, <2>3, <2>4
<1>5. CASE Hardware
    BY <1>1, <1>5 DEF Hardware, Raise, Deliver, DeliverTimer, DeliverSpurious, Fault
<1>6. CASE IsrTimer \/ IsrSpurious \/ IsrPageFault \/ IsrUnhandled
    BY <1>1, <1>6 DEF IsrTimer, IsrSpurious, IsrPageFault, IsrUnhandled
<1>7. CASE UNCHANGED vars
    BY <1>1, <1>7 DEF vars, picVars, bootVars
<1>8. QED
    BY <1>2, <1>3, <1>4, <1>5, <1>6, <1>7 DEF Next, Isr

\* The line between the controllers is open exactly when one behind it is,
\* and the controllers have the mask of pic.c's variables: after any calls of
\* pic_mask and pic_unmask by tasks and by handlers.
THEOREM CascadeIsSound == Spec => []CascadeFollows
<1>1. CascadeInv => CascadeFollows
    BY DEF CascadeInv, CascadeFollows, Booted
<1>2. QED
    BY <1>1, CascadeInit, CascadeStep, PTL DEF Spec
-----------------------------------------------------------------------------
(* The order of the constructors. *)

Done == Constructors \ (ready \cup DOMAIN deps)

\* What dep2prio is for: a constructor runs after those it depends on.
OrderInv ==
    /\ ready \subseteq Constructors /\ DOMAIN deps \subseteq Constructors
    /\ ready \cap DOMAIN deps = {}
    /\ \A c \in DOMAIN deps : DEPENDENCIES[c] \subseteq deps[c] \cup ready \cup Done
    /\ \A c \in ready \cup Done : DEPENDENCIES[c] \subseteq Done

LEMMA OrderInit == Init => OrderInv /\ Done = {}
<1>1. DOMAIN DEPENDENCIES = Constructors
    BY DEF DEPENDENCIES, Constructors
<1>2. QED
    BY <1>1 DEF Init, OrderInv, Done

LEMMA FindReadyKeepsOrder ==
    ASSUME OrderInv, FindReady
    PROVE  OrderInv' /\ Done' = Done
<1>1. /\ ready = {} /\ ready' = {c \in DOMAIN deps : deps[c] = {}}
      /\ DOMAIN deps' = DOMAIN deps \ ready'
      /\ \A c \in DOMAIN deps' : deps'[c] = deps[c] \ ready'
    BY DEF FindReady
<1>2. Done' = Done
    BY <1>1 DEF Done
<1>3. \A c \in DOMAIN deps' : DEPENDENCIES[c] \subseteq deps'[c] \cup ready' \cup Done
    BY <1>1 DEF OrderInv
<1>4. \A c \in ready' \cup Done : DEPENDENCIES[c] \subseteq Done
    BY <1>1 DEF OrderInv
<1>5. QED
    BY <1>1, <1>2, <1>3, <1>4 DEF OrderInv

LEMMA CallsKeepOrder ==
    ASSUME OrderInv, NEW c, Calls(c)
    PROVE  /\ OrderInv' /\ Done' = Done \cup {c} /\ c \notin Done
           /\ DEPENDENCIES[c] \subseteq Done /\ c \in Constructors
<1>1. c \in ready /\ ready' = ready \ {c} /\ UNCHANGED deps
    BY DEF Calls
<1>2. Done' = Done \cup {c} /\ c \notin Done /\ c \in Constructors
    BY <1>1 DEF Done, OrderInv
<1>3. QED
    BY <1>1, <1>2 DEF OrderInv

LEMMA OthersKeepOrder ==
    ASSUME OrderInv, UNCHANGED bootVars
    PROVE  OrderInv' /\ Done' = Done
BY DEF bootVars, OrderInv, Done

\* What the order gives for the constructors that allocate vectors: those of
\* the exceptions are taken, and pic.c is the first to ask.
LEMMA OrderOfVectors ==
    ASSUME OrderInv
    PROVE  /\ "pic" \in ready \cup Done => "idt" \in Done
           /\ "lapic" \in ready \cup Done => "pic" \in Done
           /\ "apictimer" \in ready \cup Done => "lapic" \in Done
           /\ "mem" \in ready \cup Done => "idt" \in Done
BY DEF OrderInv, DEPENDENCIES
-----------------------------------------------------------------------------
(* Vectors. *)

Owners == {"pic", "lapic", "apictimer", "driver"}

GivenVectors == UNION {Block(given[i].base, given[i].order) : i \in DOMAIN given}

VectorsInv ==
    /\ given \in Seq([base : Nat, order : Nat, owner : Owners])
    /\ used_interrupts = (IF "idt" \in Done THEN Exceptions ELSE {}) \cup GivenVectors
    /\ \A i, j \in DOMAIN given : i # j =>
            Block(given[i].base, given[i].order) \cap Block(given[j].base, given[j].order) = {}
    /\ \A i \in DOMAIN given : Block(given[i].base, given[i].order) \cap Exceptions = {}
    /\ "pic" \notin Done => given = <<>>

\* The handlers of the vectors that hardware uses, which no later allocation
\* may touch: they are marked as used.
HandlersInv ==
    /\ "idt" \in Done => gates = Vector
    /\ DOMAIN handlers = Vector
    /\ \A v \in Exceptions : handlers[v] \in {None, "pf_handler"}
    /\ "pic" \in Done /\ panic = None =>
            \A irq \in Irq : PicVector(irq) \in used_interrupts
                             /\ handlers[PicVector(irq)] = "pic_handler"
    /\ spurious_vector # NoVector =>
            /\ spurious_vector \in used_interrupts \cap Vector
            /\ spurious_vector \notin Exceptions
            /\ handlers[spurious_vector] = "spurious_handler"
    /\ timer_vector # NoVector =>
            /\ timer_vector \in used_interrupts \cap Vector
            /\ timer_vector \notin Exceptions
            /\ handlers[timer_vector] = "apic_timer_handler"
    /\ "lapic" \notin Done => spurious_vector = NoVector /\ timer_vector = NoVector

\* The block that allocate_interrupts finds.
LEMMA AllocatedIsFree ==
    ASSUME NEW order, CanAllocate(order)
    PROVE  /\ Allocated(order) \in Vector /\ Allocated(order) \in Nat
           /\ Allocated(order) % 2^order = 0
           /\ Block(Allocated(order), order) \cap used_interrupts = {}
           /\ \A base \in FreeBases(order) : Allocated(order) <= base
<1>1. FreeBases(order) \subseteq Vector /\ FreeBases(order) # {} /\ Vector \subseteq Nat
    BY InterruptsAssumption DEF CanAllocate, FreeBases, Vector
<1>2. /\ Allocated(order) \in FreeBases(order)
      /\ \A base \in FreeBases(order) : Allocated(order) <= base
    BY <1>1, MinIsLeast DEF Allocated
<1>3. QED
    BY <1>1, <1>2 DEF FreeBases

\* Allocating marks the new block, which is nobody else's.
LEMMA AllocateKeeps ==
    ASSUME VectorsInv, "idt" \in Done, "pic" \in Done', Done \subseteq Done',
           NEW order \in Nat, CanAllocate(order), NEW owner \in Owners,
           allocate_interrupts(order, owner)
    PROVE  /\ VectorsInv'
           /\ Block(Allocated(order), order) \cap (used_interrupts \cup Exceptions) = {}
           /\ used_interrupts' = used_interrupts \cup Block(Allocated(order), order)
<1> DEFINE B == Block(Allocated(order), order)
           b == [base |-> Allocated(order), order |-> order, owner |-> owner]
           S == [base : Nat, order : Nat, owner : Owners]
<1>1. /\ used_interrupts' = used_interrupts \cup B /\ given' = Append(given, b)
      /\ B \cap used_interrupts = {} /\ b \in S
    BY AllocatedIsFree DEF allocate_interrupts
<1>2. /\ used_interrupts = Exceptions \cup GivenVectors /\ given \in Seq(S)
    BY DEF VectorsInv
<1>3. /\ given' \in Seq(S) /\ Len(given) \in Nat /\ DOMAIN given = 1 .. Len(given)
      /\ DOMAIN given' = 1 .. Len(given) + 1
      /\ \A i \in 1 .. Len(given) : given'[i] = given[i]
      /\ given'[Len(given) + 1] = b
    BY <1>1, <1>2, AppendProperties, LenProperties
<1>4. Block(given'[Len(given) + 1].base, given'[Len(given) + 1].order) = B
    BY <1>3
<1> HIDE DEF B, b, S
<1>5. \A i \in 1 .. Len(given) :
            Block(given'[i].base, given'[i].order) = Block(given[i].base, given[i].order)
    BY <1>3
<1>6. \A i \in 1 .. Len(given) + 1 : i = Len(given) + 1 \/ i \in 1 .. Len(given)
    BY <1>3
<1>7. GivenVectors' = GivenVectors \cup B
    BY <1>3, <1>4, <1>5, <1>6 DEF GivenVectors
<1>8. \A i \in DOMAIN given : Block(given[i].base, given[i].order) \subseteq used_interrupts
    BY <1>2 DEF GivenVectors
<1>9. B \cap Exceptions = {}
    BY <1>1, <1>2
<1>10. \A i, j \in DOMAIN given' : i # j =>
            Block(given'[i].base, given'[i].order) \cap Block(given'[j].base, given'[j].order) = {}
    <2>1. SUFFICES ASSUME NEW i \in 1 .. Len(given) + 1, NEW j \in 1 .. Len(given) + 1, i # j
                   PROVE  Block(given'[i].base, given'[i].order)
                            \cap Block(given'[j].base, given'[j].order) = {}
        BY <1>3
    <2>2. CASE i \in 1 .. Len(given) /\ j \in 1 .. Len(given)
        BY <1>3, <1>5, <2>1, <2>2 DEF VectorsInv
    <2>3. CASE i = Len(given) + 1 /\ j \in 1 .. Len(given)
        BY <1>1, <1>3, <1>4, <1>5, <1>8, <2>3
    <2>4. CASE i \in 1 .. Len(given) /\ j = Len(given) + 1
        BY <1>1, <1>3, <1>4, <1>5, <1>8, <2>4
    <2>5. QED
        BY <1>6, <2>1, <2>2, <2>3, <2>4
<1>11. \A i \in DOMAIN given' : Block(given'[i].base, given'[i].order) \cap Exceptions = {}
    BY <1>3, <1>4, <1>5, <1>6, <1>9 DEF VectorsInv
<1>12. VectorsInv'
    BY <1>1, <1>2, <1>3, <1>7, <1>10, <1>11 DEF VectorsInv, S
<1>13. QED
    BY <1>1, <1>9, <1>12 DEF B

\* Steps that allocate nothing and set no handler but that of page faults.
LEMMA NothingAllocated ==
    ASSUME VectorsInv, HandlersInv, UNCHANGED <<used_interrupts, given, handlers, gates>>,
           UNCHANGED <<spurious_vector, timer_vector>>,
           ("idt" \in Done' <=> "idt" \in Done), ("pic" \in Done' <=> "pic" \in Done),
           Done \subseteq Done', panic' = None => panic = None
    PROVE  VectorsInv' /\ HandlersInv'
<1>1. VectorsInv'
    BY DEF VectorsInv, GivenVectors
<1>2. HandlersInv'
    BY DEF HandlersInv
<1>3. QED
    BY <1>1, <1>2

LEMMA IdtKeeps ==
    ASSUME OrderInv, VectorsInv, HandlersInv, IdtInit
    PROVE  VectorsInv' /\ HandlersInv'
<1>1. /\ Calls("idt") /\ gates' = Vector
      /\ used_interrupts' = used_interrupts \cup Exceptions
      /\ UNCHANGED <<handlers, given, spurious_vector, timer_vector, panic>>
    BY DEF IdtInit, lapicVars
<1>2. /\ Done' = Done \cup {"idt"} /\ "idt" \notin Done
    BY <1>1, CallsKeepOrder
<1>3. "pic" \notin Done /\ "lapic" \notin Done
    BY <1>2, OrderOfVectors
<1>4. "pic" \notin Done' /\ "lapic" \notin Done'
    BY <1>2, <1>3
<1>5. VectorsInv'
    BY <1>1, <1>2, <1>4 DEF VectorsInv, GivenVectors
<1>6. HandlersInv'
    BY <1>1, <1>2, <1>3, <1>4 DEF HandlersInv
<1>7. QED
    BY <1>5, <1>6

LEMMA MemKeeps ==
    ASSUME OrderInv, VectorsInv, HandlersInv, MemInit
    PROVE  VectorsInv' /\ HandlersInv'
<1>1. /\ Calls("mem")
      /\ handlers' = [v \in Vector |-> IF v \in {PageFault} THEN "pf_handler" ELSE handlers[v]]
      /\ UNCHANGED <<gates, used_interrupts, given, spurious_vector, timer_vector, panic>>
    BY DEF MemInit, set_interrupt_handler, lapicVars
<1>2. Done' = Done \cup {"mem"}
    BY <1>1, CallsKeepOrder
<1>3. /\ "idt" \in Done' <=> "idt" \in Done
      /\ "pic" \in Done' <=> "pic" \in Done
      /\ "lapic" \in Done' <=> "lapic" \in Done
    BY <1>2
<1>4. VectorsInv'
    BY <1>1, <1>3 DEF VectorsInv, GivenVectors
<1>5. PageFault \in Exceptions /\ Exceptions \subseteq Vector
    BY InterruptsAssumption DEF Exceptions, Vector
<1>6. \A v \in Vector \ Exceptions : handlers'[v] = handlers[v]
    BY <1>1, <1>5
<1>7. \A irq \in Irq : PicVector(irq) \in Vector \ Exceptions
    BY InterruptsAssumption DEF Irq, PicVector, Vector, Exceptions
<1>8. \A v \in Exceptions : handlers'[v] \in {None, "pf_handler"}
    BY <1>1, <1>5 DEF HandlersInv
<1>9. DOMAIN handlers' = Vector
    BY <1>1
<1>10. HandlersInv'
    BY <1>1, <1>3, <1>6, <1>7, <1>8, <1>9 DEF HandlersInv
<1>11. QED
    BY <1>4, <1>10

\* pic.c gets the block that follows the exceptions, which are taken, because
\* nobody has asked before.
LEMMA PicIsFirst ==
    ASSUME VectorsInv, "idt" \in Done, "pic" \notin Done, CanAllocate(PicOrder)
    PROVE  /\ Allocated(PicOrder) = NExceptions
           /\ Block(Allocated(PicOrder), PicOrder) = {PicVector(irq) : irq \in Irq}
<1> DEFINE a == Allocated(PicOrder)
<1>1. /\ 2^PicOrder = 2 * Lines /\ Lines \in Nat /\ Lines > 0 /\ NExceptions \in Nat
      /\ NVectors \in Nat /\ NExceptions % 2^PicOrder = 0 /\ NExceptions + 2 * Lines <= NVectors
    BY InterruptsAssumption
<1>2. used_interrupts = Exceptions
    <2>1. given = <<>> /\ DOMAIN given = {}
        BY EmptySeq, LenProperties DEF VectorsInv
    <2>2. QED
        BY <2>1 DEF VectorsInv, GivenVectors
<1>3. Block(NExceptions, PicOrder) = NExceptions .. NExceptions + 2 * Lines - 1
    BY <1>1 DEF Block
<1>4. NExceptions \in FreeBases(PicOrder)
    BY <1>1, <1>2, <1>3 DEF FreeBases, Vector, Exceptions
<1>5. /\ a \in Nat /\ a <= NExceptions
      /\ Block(a, PicOrder) \cap used_interrupts = {}
    BY <1>4, AllocatedIsFree
<1> HIDE DEF a
<1>6. Block(a, PicOrder) = a .. a + 2 * Lines - 1
    BY <1>1 DEF Block
<1>7. a \in Block(a, PicOrder)
    BY <1>1, <1>5, <1>6
<1>8. a = NExceptions
    BY <1>1, <1>2, <1>5, <1>7 DEF Exceptions
<1>9. NExceptions .. NExceptions + 2 * Lines - 1 = {PicVector(irq) : irq \in Irq}
    <2>1. ASSUME NEW v \in NExceptions .. NExceptions + 2 * Lines - 1
          PROVE  v \in {PicVector(irq) : irq \in Irq}
        <3>1. v - NExceptions \in Irq /\ v = PicVector(v - NExceptions)
            BY <1>1 DEF Irq, PicVector
        <3>2. QED
            BY <3>1
    <2>2. ASSUME NEW irq \in Irq
          PROVE  PicVector(irq) \in NExceptions .. NExceptions + 2 * Lines - 1
        BY <1>1 DEF Irq, PicVector
    <2>3. QED
        BY <2>1, <2>2
<1>10. QED
    BY <1>3, <1>8, <1>9 DEF a

LEMMA PicKeeps ==
    ASSUME OrderInv, VectorsInv, HandlersInv, PicInit
    PROVE  VectorsInv' /\ HandlersInv'
<1>1. Calls("pic") /\ UNCHANGED <<gates, spurious_vector, timer_vector>>
    BY DEF PicInit, lapicVars
<1>2. Done' = Done \cup {"pic"} /\ "pic" \notin Done /\ "idt" \in Done /\ "lapic" \notin Done
    BY <1>1, CallsKeepOrder, OrderOfVectors DEF DEPENDENCIES
<1>3. "pic" \in Done' /\ "idt" \in Done' /\ "lapic" \notin Done' /\ Done \subseteq Done'
    BY <1>2
<1>4. spurious_vector = NoVector /\ timer_vector = NoVector
    BY <1>2 DEF HandlersInv
<1>5. CASE CanAllocate(PicOrder) /\ panic' = panic /\ allocate_interrupts(PicOrder, "pic")
            /\ set_interrupt_handler({PicVector(irq) : irq \in Irq}, "pic_handler")
    <2>1. /\ VectorsInv'
          /\ Block(Allocated(PicOrder), PicOrder) \cap (used_interrupts \cup Exceptions) = {}
          /\ used_interrupts' = used_interrupts \cup Block(Allocated(PicOrder), PicOrder)
        BY <1>2, <1>3, <1>5, AllocateKeeps, InterruptsAssumption DEF Owners
    <2>2. Block(Allocated(PicOrder), PicOrder) = {PicVector(irq) : irq \in Irq}
        BY <1>2, <1>5, PicIsFirst
    <2>3. \A irq \in Irq : PicVector(irq) \in Vector
        BY InterruptsAssumption DEF Irq, PicVector, Vector
    <2>4. handlers' = [v \in Vector |-> IF v \in {PicVector(irq) : irq \in Irq}
                                        THEN "pic_handler" ELSE handlers[v]]
        BY <1>5 DEF set_interrupt_handler
    <2>5. \A irq \in Irq : PicVector(irq) \in used_interrupts'
                             /\ handlers'[PicVector(irq)] = "pic_handler"
        BY <2>1, <2>2, <2>3, <2>4
    <2>6. \A v \in Exceptions : handlers'[v] \in {None, "pf_handler"}
        <3>1. Exceptions \subseteq Vector
            BY InterruptsAssumption DEF Exceptions, Vector
        <3>2. QED
            BY <2>1, <2>2, <2>4, <3>1 DEF HandlersInv
    <2>7. DOMAIN handlers' = Vector
        BY <2>4
    <2>8. gates = Vector
        BY <1>2 DEF HandlersInv
    <2>9. HandlersInv'
        BY <1>1, <1>3, <1>4, <2>5, <2>6, <2>7, <2>8 DEF HandlersInv
    <2>10. QED
        BY <2>1, <2>9
<1>6. CASE panic' = "no interrupts" /\ UNCHANGED <<handlers, used_interrupts, given>>
    <2>1. VectorsInv'
        BY <1>2, <1>3, <1>6 DEF VectorsInv, GivenVectors
    <2>2. HandlersInv'
        BY <1>1, <1>2, <1>3, <1>4, <1>6 DEF HandlersInv, None
    <2>3. QED
        BY <2>1, <2>2
<1>7. QED
    BY <1>5, <1>6 DEF PicInit

\* A driver or a constructor that allocates vectors after pic.c sets handlers
\* for them and changes those of no other vector.
LEMMA HandlersKept ==
    ASSUME VectorsInv, HandlersInv, "idt" \in Done, "pic" \in Done, Done \subseteq Done',
           NEW order \in Nat, CanAllocate(order), NEW owner \in Owners, NEW handler,
           allocate_interrupts(order, owner),
           set_interrupt_handler(Block(Allocated(order), order), handler)
    PROVE  /\ VectorsInv' /\ DOMAIN handlers' = Vector
           /\ \A v \in Vector \cap (used_interrupts \cup Exceptions) : handlers'[v] = handlers[v]
           /\ \A v \in Exceptions : handlers'[v] \in {None, "pf_handler"}
           /\ panic = None => \A irq \in Irq : PicVector(irq) \in used_interrupts'
                                                /\ handlers'[PicVector(irq)] = "pic_handler"
           /\ spurious_vector # NoVector =>
                    /\ spurious_vector \in used_interrupts' \cap Vector
                    /\ spurious_vector \notin Exceptions
                    /\ handlers'[spurious_vector] = "spurious_handler"
           /\ timer_vector # NoVector =>
                    /\ timer_vector \in used_interrupts' \cap Vector
                    /\ timer_vector \notin Exceptions
                    /\ handlers'[timer_vector] = "apic_timer_handler"
<1>1. "pic" \in Done'
    OBVIOUS
<1>2. /\ VectorsInv'
      /\ Block(Allocated(order), order) \cap (used_interrupts \cup Exceptions) = {}
      /\ used_interrupts' = used_interrupts \cup Block(Allocated(order), order)
    BY <1>1, AllocateKeeps
<1>3. handlers' = [v \in Vector |-> IF v \in Block(Allocated(order), order)
                                    THEN handler ELSE handlers[v]]
    BY DEF set_interrupt_handler
<1>4. \A v \in Vector \cap (used_interrupts \cup Exceptions) : handlers'[v] = handlers[v]
    BY <1>2, <1>3
<1>5. Exceptions \subseteq Vector /\ \A irq \in Irq : PicVector(irq) \in Vector
    BY InterruptsAssumption DEF Exceptions, Vector, Irq, PicVector
<1>6. \A v \in Exceptions : handlers'[v] \in {None, "pf_handler"}
    BY <1>4, <1>5 DEF HandlersInv
<1>7. panic = None => \A irq \in Irq : PicVector(irq) \in used_interrupts'
                                        /\ handlers'[PicVector(irq)] = "pic_handler"
    BY <1>2, <1>4, <1>5 DEF HandlersInv
<1>8. /\ spurious_vector # NoVector =>
            /\ spurious_vector \in used_interrupts' \cap Vector
            /\ spurious_vector \notin Exceptions
            /\ handlers'[spurious_vector] = "spurious_handler"
      /\ timer_vector # NoVector =>
            /\ timer_vector \in used_interrupts' \cap Vector
            /\ timer_vector \notin Exceptions
            /\ handlers'[timer_vector] = "apic_timer_handler"
    BY <1>2, <1>4 DEF HandlersInv
<1>9. DOMAIN handlers' = Vector
    BY <1>3
<1>10. QED
    BY <1>2, <1>4, <1>6, <1>7, <1>8, <1>9

\* One vector is a block of order 0.
LEMMA OneVector ==
    ASSUME CanAllocate(0)
    PROVE  /\ Block(Allocated(0), 0) = {Allocated(0)}
           /\ Allocated(0) \in Vector /\ Allocated(0) # NoVector
           /\ Block(Allocated(0), 0) \cap used_interrupts = {}
<1>1. Allocated(0) \in Vector /\ Allocated(0) \in Nat
      /\ Block(Allocated(0), 0) \cap used_interrupts = {}
    BY AllocatedIsFree
<1>2. 2^0 = 1
    OBVIOUS
<1>3. QED
    BY <1>1, <1>2, InterruptsAssumption DEF Block, Vector, NoVector

LEMMA LapicKeeps ==
    ASSUME OrderInv, VectorsInv, HandlersInv, LapicInit
    PROVE  VectorsInv' /\ HandlersInv'
<1>1. Calls("lapic")
    BY DEF LapicInit
<1>2. /\ Done' = Done \cup {"lapic"} /\ "lapic" \notin Done /\ "pic" \in Done /\ "idt" \in Done
    BY <1>1, CallsKeepOrder, OrderOfVectors DEF DEPENDENCIES
<1>3. /\ "idt" \in Done' /\ "pic" \in Done' /\ "lapic" \in Done' /\ Done \subseteq Done'
    BY <1>2
<1>4. CASE /\ CanAllocate(0) /\ allocate_interrupts(0, "lapic")
           /\ spurious_vector' = Allocated(0)
           /\ set_interrupt_handler({Allocated(0)}, "spurious_handler")
           /\ UNCHANGED <<gates, timer_vector, panic>>
    <2>1. Block(Allocated(0), 0) = {Allocated(0)} /\ Allocated(0) \in Vector
        BY <1>4, OneVector
    <2>2. set_interrupt_handler(Block(Allocated(0), 0), "spurious_handler")
        BY <1>4, <2>1
    <2>3. /\ VectorsInv' /\ DOMAIN handlers' = Vector
          /\ \A v \in Exceptions : handlers'[v] \in {None, "pf_handler"}
          /\ panic = None => \A irq \in Irq : PicVector(irq) \in used_interrupts'
                                               /\ handlers'[PicVector(irq)] = "pic_handler"
          /\ timer_vector # NoVector =>
                    /\ timer_vector \in used_interrupts' \cap Vector
                    /\ timer_vector \notin Exceptions
                    /\ handlers'[timer_vector] = "apic_timer_handler"
        BY <1>2, <1>3, <1>4, <2>2, HandlersKept DEF Owners
    <2>4. Allocated(0) \notin Exceptions /\ used_interrupts' = used_interrupts \cup {Allocated(0)}
        BY <1>2, <1>3, <1>4, <2>1, AllocateKeeps DEF Owners
    <2>5. handlers'[Allocated(0)] = "spurious_handler"
        BY <1>4, <2>1 DEF set_interrupt_handler
    <2>6. gates' = Vector
        BY <1>2, <1>4 DEF HandlersInv
    <2>7. /\ spurious_vector' \in used_interrupts' \cap Vector
          /\ spurious_vector' \notin Exceptions
          /\ handlers'[spurious_vector'] = "spurious_handler"
        BY <1>4, <2>1, <2>4, <2>5
    <2>8. HandlersInv'
        BY <1>3, <1>4, <2>3, <2>6, <2>7 DEF HandlersInv
    <2>9. QED
        BY <2>3, <2>8
<1>5. CASE UNCHANGED <<idtVars, lapicVars>> /\ (panic' = panic \/ panic' = "no interrupts")
    <2>1. /\ UNCHANGED <<used_interrupts, given, handlers, gates>>
          /\ UNCHANGED <<spurious_vector, timer_vector>>
        BY <1>5 DEF idtVars, lapicVars
    <2>2. panic' = None => panic = None
        BY <1>5 DEF None
    <2>3. QED
        BY <1>2, <1>3, <2>1, <2>2, NothingAllocated
<1>6. QED
    BY <1>4, <1>5 DEF LapicInit, Panic

LEMMA ApicTimerKeeps ==
    ASSUME OrderInv, VectorsInv, HandlersInv, ApicTimerInit
    PROVE  VectorsInv' /\ HandlersInv'
<1>1. Calls("apictimer")
    BY DEF ApicTimerInit
<1>2. /\ Done' = Done \cup {"apictimer"} /\ "lapic" \in Done /\ "pic" \in Done /\ "idt" \in Done
    BY <1>1, CallsKeepOrder, OrderOfVectors DEF DEPENDENCIES
<1>3. /\ "idt" \in Done' /\ "pic" \in Done' /\ "lapic" \in Done' /\ Done \subseteq Done'
    BY <1>2
<1>4. CASE /\ CanAllocate(0) /\ allocate_interrupts(0, "apictimer")
           /\ timer_vector' = Allocated(0)
           /\ set_interrupt_handler({Allocated(0)}, "apic_timer_handler")
           /\ UNCHANGED <<gates, spurious_vector, panic>>
    <2>1. Block(Allocated(0), 0) = {Allocated(0)} /\ Allocated(0) \in Vector
        BY <1>4, OneVector
    <2>2. set_interrupt_handler(Block(Allocated(0), 0), "apic_timer_handler")
        BY <1>4, <2>1
    <2>3. /\ VectorsInv' /\ DOMAIN handlers' = Vector
          /\ \A v \in Exceptions : handlers'[v] \in {None, "pf_handler"}
          /\ panic = None => \A irq \in Irq : PicVector(irq) \in used_interrupts'
                                               /\ handlers'[PicVector(irq)] = "pic_handler"
          /\ spurious_vector # NoVector =>
                    /\ spurious_vector \in used_interrupts' \cap Vector
                    /\ spurious_vector \notin Exceptions
                    /\ handlers'[spurious_vector] = "spurious_handler"
        BY <1>2, <1>3, <1>4, <2>2, HandlersKept DEF Owners
    <2>4. Allocated(0) \notin Exceptions /\ used_interrupts' = used_interrupts \cup {Allocated(0)}
        BY <1>2, <1>3, <1>4, <2>1, AllocateKeeps DEF Owners
    <2>5. handlers'[Allocated(0)] = "apic_timer_handler"
        BY <1>4, <2>1 DEF set_interrupt_handler
    <2>6. gates' = Vector
        BY <1>2, <1>4 DEF HandlersInv
    <2>7. /\ timer_vector' \in used_interrupts' \cap Vector
          /\ timer_vector' \notin Exceptions
          /\ handlers'[timer_vector'] = "apic_timer_handler"
        BY <1>4, <2>1, <2>4, <2>5
    <2>8. HandlersInv'
        BY <1>3, <1>4, <2>3, <2>6, <2>7 DEF HandlersInv
    <2>9. QED
        BY <2>3, <2>8
<1>5. CASE UNCHANGED <<idtVars, lapicVars>>
           /\ panic' \in {"no apic", "no tsc deadline", "no interrupts"}
    <2>1. /\ UNCHANGED <<used_interrupts, given, handlers, gates>>
          /\ UNCHANGED <<spurious_vector, timer_vector>>
        BY <1>5 DEF idtVars, lapicVars
    <2>2. panic' = None => panic = None
        BY <1>5 DEF None
    <2>3. QED
        BY <1>2, <1>3, <2>1, <2>2, NothingAllocated
<1>6. QED
    BY <1>4, <1>5 DEF ApicTimerInit, Panic

LEMMA BootedIsDone == ASSUME OrderInv, Booted PROVE Done = Constructors
BY DEF Booted, Done

LEMMA DriverKeeps ==
    ASSUME OrderInv, VectorsInv, HandlersInv, NEW order \in DriverOrders, DriverAllocates(order)
    PROVE  VectorsInv' /\ HandlersInv'
<1>1. /\ Booted /\ CanAllocate(order) /\ allocate_interrupts(order, "driver")
      /\ set_interrupt_handler(Block(Allocated(order), order), "driver")
      /\ UNCHANGED bootVars /\ UNCHANGED <<gates, spurious_vector, timer_vector, panic>>
      /\ panic = None
    BY DEF DriverAllocates, Task, Booted, lapicVars
<1>2. Done = Constructors /\ Done' = Done
    BY <1>1, BootedIsDone, OthersKeepOrder
<1>3. "idt" \in Done /\ "pic" \in Done /\ "lapic" \in Done /\ Done \subseteq Done'
    BY <1>2 DEF Constructors
<1>4. order \in Nat
    BY InterruptsAssumption
<1>5. /\ VectorsInv' /\ DOMAIN handlers' = Vector
      /\ \A v \in Exceptions : handlers'[v] \in {None, "pf_handler"}
      /\ panic = None => \A irq \in Irq : PicVector(irq) \in used_interrupts'
                                           /\ handlers'[PicVector(irq)] = "pic_handler"
      /\ spurious_vector # NoVector =>
                /\ spurious_vector \in used_interrupts' \cap Vector
                /\ spurious_vector \notin Exceptions
                /\ handlers'[spurious_vector] = "spurious_handler"
      /\ timer_vector # NoVector =>
                /\ timer_vector \in used_interrupts' \cap Vector
                /\ timer_vector \notin Exceptions
                /\ handlers'[timer_vector] = "apic_timer_handler"
    BY <1>1, <1>3, <1>4, HandlersKept DEF Owners
<1>6. HandlersInv'
    BY <1>1, <1>2, <1>3, <1>5 DEF HandlersInv
<1>7. QED
    BY <1>5, <1>6

\* The constructors and drivers together.
SetUpInv == OrderInv /\ VectorsInv /\ HandlersInv

LEMMA SetUpInit == Init => SetUpInv
<1> SUFFICES ASSUME Init PROVE SetUpInv
    OBVIOUS
<1>1. OrderInv /\ Done = {}
    BY OrderInit
<1>2. given = <<>> /\ used_interrupts = {} /\ DOMAIN given = {}
    BY EmptySeq, LenProperties DEF Init
<1>3. VectorsInv
    <2>1. given \in Seq([base : Nat, order : Nat, owner : Owners])
        BY <1>2, EmptySeq
    <2>2. QED
        BY <1>1, <1>2, <2>1 DEF VectorsInv, GivenVectors
<1>4. HandlersInv
    <2>1. handlers = [v \in Vector |-> None]
            /\ spurious_vector = NoVector /\ timer_vector = NoVector
        BY DEF Init
    <2>2. Exceptions \subseteq Vector
        BY InterruptsAssumption DEF Exceptions, Vector
    <2>3. QED
        BY <1>1, <2>1, <2>2 DEF HandlersInv
<1>5. QED
    BY <1>1, <1>3, <1>4 DEF SetUpInv

LEMMA SetUpStep ==
    ASSUME SetUpInv, [Next]_vars
    PROVE  SetUpInv'
<1>0. OrderInv /\ VectorsInv /\ HandlersInv
    BY DEF SetUpInv
<1>1. ASSUME UNCHANGED <<used_interrupts, given, handlers, gates>>,
             UNCHANGED <<spurious_vector, timer_vector>>, UNCHANGED bootVars,
             panic' = None => panic = None
      PROVE  SetUpInv'
    <2>1. OrderInv' /\ Done' = Done
        BY <1>0, <1>1, OthersKeepOrder
    <2>2. VectorsInv' /\ HandlersInv'
        BY <1>0, <1>1, <2>1, NothingAllocated
    <2>3. QED
        BY <2>1, <2>2 DEF SetUpInv
<1>2. CASE FindReady
    <2>1. OrderInv' /\ Done' = Done
        BY <1>0, <1>2, FindReadyKeepsOrder
    <2>2. /\ UNCHANGED <<used_interrupts, given, handlers, gates>>
          /\ UNCHANGED <<spurious_vector, timer_vector>> /\ UNCHANGED panic
        BY <1>2 DEF FindReady, idtVars, lapicVars
    <2>3. VectorsInv' /\ HandlersInv'
        BY <1>0, <2>1, <2>2, NothingAllocated
    <2>4. QED
        BY <2>1, <2>3 DEF SetUpInv
<1>3. CASE OtherInit \/ KvmInit
    <2>1. PICK c \in Constructors \ {"idt", "pic", "lapic"} : Calls(c)
        BY <1>3 DEF OtherInit, KvmInit, Constructors
    <2>2. OrderInv' /\ Done' = Done \cup {c}
        BY <1>0, <2>1, CallsKeepOrder
    <2>3. /\ UNCHANGED <<used_interrupts, given, handlers, gates>>
          /\ UNCHANGED <<spurious_vector, timer_vector>> /\ (panic' = panic \/ panic' = "no kvm")
        BY <1>3 DEF OtherInit, KvmInit, Panic, idtVars, lapicVars
    <2>4. panic' = None => panic = None
        BY <2>3 DEF None
    <2>5. VectorsInv' /\ HandlersInv'
        BY <1>0, <2>1, <2>2, <2>3, <2>4, NothingAllocated
    <2>6. QED
        BY <2>2, <2>5 DEF SetUpInv
<1>4. CASE IdtInit \/ MemInit \/ PicInit \/ LapicInit \/ ApicTimerInit
    <2>1. OrderInv'
        BY <1>0, <1>4, CallsKeepOrder DEF IdtInit, MemInit, PicInit, LapicInit, ApicTimerInit
    <2>2. VectorsInv' /\ HandlersInv'
        BY <1>0, <1>4, IdtKeeps, MemKeeps, PicKeeps, LapicKeeps, ApicTimerKeeps
    <2>3. QED
        BY <2>1, <2>2 DEF SetUpInv
<1>5. ASSUME NEW order \in DriverOrders, DriverAllocates(order)
      PROVE  SetUpInv'
    <2>1. OrderInv'
        BY <1>0, <1>5, OthersKeepOrder DEF DriverAllocates
    <2>2. VectorsInv' /\ HandlersInv'
        BY <1>0, <1>5, DriverKeeps
    <2>3. QED
        BY <2>1, <2>2 DEF SetUpInv
<1>6. ASSUME NEW irq \in DeviceIrqs,
             pic_set_handler(irq) \/ RemoveHandler(irq) \/ Unmask(irq) \/ Mask(irq)
      PROVE  SetUpInv'
    BY <1>1, <1>6 DEF pic_set_handler, RemoveHandler, Unmask, Mask, idtVars, lapicVars
<1>7. CASE Hardware
    BY <1>1, <1>7 DEF Hardware, Raise, Deliver, DeliverTimer, DeliverSpurious, Fault,
                      idtVars, lapicVars
<1>8. CASE Isr
    <2>1. panic = None
        BY <1>8 DEF Isr, IsrPic, IsrTimer, IsrSpurious, IsrPageFault, IsrUnhandled, Handles
    <2>2. UNCHANGED idtVars /\ UNCHANGED lapicVars /\ UNCHANGED bootVars
        BY <1>8 DEF Isr, IsrPic, IsrTimer, IsrSpurious, IsrPageFault, IsrUnhandled
    <2>3. QED
        BY <1>1, <2>1, <2>2 DEF idtVars, lapicVars
<1>9. CASE UNCHANGED vars
    BY <1>1, <1>9 DEF vars, bootVars
<1>10. QED
    BY <1>2, <1>3, <1>4, <1>5, <1>6, <1>7, <1>8, <1>9 DEF Next, Boot, Drivers

\* allocate_interrupts gives no vector twice and none of an exception, and the
\* handler that each vector of pic.c, of the local APIC and of its timer was
\* given stays its handler, whatever drivers allocate later.
LEMMA VectorsInductive ==
    ASSUME SetUpInv
    PROVE  VectorsGivenOnce /\ VectorsAnswered
<1>1. OrderInv /\ VectorsInv /\ HandlersInv
    BY DEF SetUpInv
<1>2. Booted => Done = Constructors /\ panic = None
    BY <1>1, BootedIsDone DEF Booted
<1>3. Booted => "idt" \in Done /\ "pic" \in Done
    BY <1>2 DEF Constructors
<1>4. VectorsGivenOnce
    BY <1>1, <1>3 DEF VectorsInv, VectorsGivenOnce, GivenVectors
<1>5. VectorsAnswered
    BY <1>1, <1>2, <1>3 DEF HandlersInv, VectorsAnswered
<1>6. QED
    BY <1>4, <1>5
-----------------------------------------------------------------------------
(* The types, and with them all of VectorsInvariant. *)

\* A block that allocate_interrupts finds ends inside the table, because the
\* table ends where a block of every order can end.
LEMMA BlockFits ==
    ASSUME NEW order \in Nat, CanAllocate(order)
    PROVE  Block(Allocated(order), order) \subseteq Vector
<1>1. /\ OrderLimit \in Nat /\ order \in 0 .. OrderLimit - 1 /\ OrderLimit - 1 \in 0 .. OrderLimit
      /\ NVectors \in Nat /\ NVectors % 2^(OrderLimit - 1) = 0 /\ Doubles(OrderLimit)
    BY InterruptsAssumption, ShiftDoubles DEF CanAllocate, Doubles
<1>2. 2^order \in Nat \ {0}
    BY <1>1, PowersArePositive
<1>3. NVectors % 2^order = 0
    BY <1>1, AlignedForSmaller
<1>4. Allocated(order) \in Nat /\ Allocated(order) < NVectors /\ Allocated(order) % 2^order = 0
    BY <1>1, AllocatedIsFree DEF Vector
<1>5. Allocated(order) + 2^order <= NVectors
    BY <1>1, <1>2, <1>3, <1>4, MultiplesApart
<1>6. QED
    BY <1>1, <1>2, <1>4, <1>5 DEF Block, Vector

HandlerNames == {None, "pf_handler", "pic_handler", "spurious_handler",
                 "apic_timer_handler", "driver"}

\* TypeOK, one part for each group of variables.
TablesTyped ==
    gates \subseteq Vector /\ used_interrupts \subseteq Vector /\ handlers \in [Vector -> HandlerNames]

LapicTyped ==
    /\ lapic_base \in BOOLEAN /\ lapic_eoi \in {"default", "kvm"}
    /\ spurious_vector \in Vector \cup {NoVector} /\ timer_vector \in Vector \cup {NoVector}

PicTyped ==
    /\ irq_mask \subseteq Irq /\ pic_mask_register \subseteq Irq /\ pic_handlers \subseteq Irq
    /\ irr \subseteq Irq /\ in_service \subseteq Irq

CpuTyped ==
    cpu \in Vector \cup {NoVector} /\ lapic_in_service \in BOOLEAN /\ kvm_apic_eoi \in BOOLEAN

PanicTyped ==
    panic \in {None, "no interrupts", "no apic", "no kvm", "no tsc deadline",
               "spurious", "unhandled", "page fault", "exception"}

LEMMA TypeParts ==
    ASSUME OrderInv, TablesTyped, LapicTyped, PicTyped, CpuTyped, PanicTyped
    PROVE  TypeOK
<1>1. DOMAIN deps \subseteq Constructors /\ ready \subseteq Constructors
    BY DEF OrderInv
<1>2. {spurious_vector, timer_vector, cpu} \subseteq Vector \cup {NoVector}
    BY DEF LapicTyped, CpuTyped
<1>3. (irq_mask \cup pic_mask_register \cup pic_handlers \cup irr \cup in_service) \subseteq Irq
    BY DEF PicTyped
<1>4. QED
    BY <1>1, <1>2, <1>3, Zenon
       DEF TypeOK, TablesTyped, LapicTyped, CpuTyped, PanicTyped, HandlerNames

Typed == TablesTyped /\ LapicTyped /\ PicTyped /\ CpuTyped /\ PanicTyped

LEMMA TypedInit == Init => Typed
<1> SUFFICES ASSUME Init PROVE Typed
    OBVIOUS
<1>1. TablesTyped /\ LapicTyped /\ PicTyped /\ CpuTyped
    BY DEF Init, TablesTyped, LapicTyped, PicTyped, CpuTyped, HandlerNames
<1>2. PanicTyped
    BY Zenon DEF Init, PanicTyped
<1>3. QED
    BY <1>1, <1>2 DEF Typed

\* idt.c: what is allocated is in the table.
LEMMA AllocationTyped ==
    ASSUME TablesTyped, NEW order \in Nat, CanAllocate(order), NEW owner,
           allocate_interrupts(order, owner), gates' = gates,
           NEW vectors, NEW name \in HandlerNames, set_interrupt_handler(vectors, name)
    PROVE  TablesTyped' /\ Allocated(order) \in Vector
<1>1. Block(Allocated(order), order) \subseteq Vector
    BY BlockFits
<1>2. used_interrupts' \subseteq Vector
    BY <1>1 DEF allocate_interrupts, TablesTyped
<1>3. handlers' \in [Vector -> HandlerNames]
    BY DEF set_interrupt_handler, TablesTyped
<1>4. QED
    BY <1>2, <1>3, AllocatedIsFree DEF TablesTyped

LEMMA TablesStep ==
    ASSUME Typed, [Next]_vars
    PROVE  TablesTyped' /\ LapicTyped'
<1>0. TablesTyped /\ LapicTyped /\ PicOrder \in Nat /\ DriverOrders \subseteq Nat
    BY InterruptsAssumption DEF Typed
<1>1. CASE UNCHANGED <<idtVars, lapicVars>>
    BY <1>0, <1>1 DEF idtVars, lapicVars, TablesTyped, LapicTyped
<1>2. CASE IdtInit
    <2>1. Exceptions \subseteq Vector
        BY InterruptsAssumption DEF Exceptions, Vector
    <2>2. QED
        BY <1>0, <1>2, <2>1 DEF IdtInit, lapicVars, TablesTyped, LapicTyped
<1>3. CASE MemInit
    BY <1>0, <1>3 DEF MemInit, set_interrupt_handler, lapicVars, TablesTyped, LapicTyped, HandlerNames
<1>4. CASE PicInit
    <2>1. UNCHANGED lapicVars /\ gates' = gates
        BY <1>4 DEF PicInit
    <2>2. LapicTyped'
        BY <1>0, <2>1 DEF lapicVars, LapicTyped
    <2>3. CASE UNCHANGED <<handlers, used_interrupts, given>>
        BY <1>0, <2>1, <2>2, <2>3 DEF TablesTyped
    <2>4. CASE /\ CanAllocate(PicOrder) /\ allocate_interrupts(PicOrder, "pic")
               /\ set_interrupt_handler({PicVector(irq) : irq \in Irq}, "pic_handler")
        <3>1. "pic_handler" \in HandlerNames
            BY DEF HandlerNames
        <3>2. QED
            BY <1>0, <2>1, <2>2, <2>4, <3>1, AllocationTyped
    <2>5. QED
        BY <1>4, <2>3, <2>4 DEF PicInit
<1>5. CASE LapicInit
    <2>1. CASE UNCHANGED <<idtVars, lapicVars>>
        BY <1>1, <2>1
    <2>2. CASE /\ CanAllocate(0) /\ lapic_base' = TRUE /\ allocate_interrupts(0, "lapic")
               /\ spurious_vector' = Allocated(0)
               /\ set_interrupt_handler({Allocated(0)}, "spurious_handler")
               /\ UNCHANGED <<gates, timer_vector, lapic_eoi>>
        <3>1. "spurious_handler" \in HandlerNames
            BY DEF HandlerNames
        <3>2. TablesTyped' /\ Allocated(0) \in Vector
            BY <1>0, <2>2, <3>1, AllocationTyped
        <3>3. QED
            BY <1>0, <2>2, <3>2 DEF LapicTyped
    <2>3. QED
        BY <1>5, <2>1, <2>2 DEF LapicInit, Panic
<1>6. CASE ApicTimerInit
    <2>1. CASE UNCHANGED <<idtVars, lapicVars>>
        BY <1>1, <2>1
    <2>2. CASE /\ CanAllocate(0) /\ allocate_interrupts(0, "apictimer")
               /\ set_interrupt_handler({Allocated(0)}, "apic_timer_handler")
               /\ timer_vector' = Allocated(0)
               /\ UNCHANGED <<gates, lapic_base, spurious_vector, lapic_eoi>>
        <3>1. "apic_timer_handler" \in HandlerNames
            BY DEF HandlerNames
        <3>2. TablesTyped' /\ Allocated(0) \in Vector
            BY <1>0, <2>2, <3>1, AllocationTyped
        <3>3. QED
            BY <1>0, <2>2, <3>2 DEF LapicTyped
    <2>3. QED
        BY <1>6, <2>1, <2>2 DEF ApicTimerInit, Panic
<1>7. CASE KvmInit
    <2>1. CASE UNCHANGED <<idtVars, lapicVars>>
        BY <1>1, <2>1
    <2>2. CASE /\ lapic_eoi' \in {"default", "kvm"}
               /\ UNCHANGED <<idtVars, lapic_base, spurious_vector, timer_vector>>
        BY <1>0, <2>2 DEF idtVars, TablesTyped, LapicTyped
    <2>3. QED
        BY <1>7, <2>1, <2>2 DEF KvmInit, Panic
<1>8. ASSUME NEW order \in DriverOrders, DriverAllocates(order)
      PROVE  TablesTyped' /\ LapicTyped'
    <2>1. "driver" \in HandlerNames
        BY DEF HandlerNames
    <2>2. /\ CanAllocate(order) /\ allocate_interrupts(order, "driver")
          /\ set_interrupt_handler(Block(Allocated(order), order), "driver")
          /\ gates' = gates /\ UNCHANGED lapicVars
        BY <1>8 DEF DriverAllocates
    <2>3. TablesTyped'
        BY <1>0, <1>8, <2>1, <2>2, AllocationTyped
    <2>4. QED
        BY <1>0, <2>2, <2>3 DEF lapicVars, LapicTyped
<1>9. CASE FindReady \/ OtherInit \/ Hardware \/ Isr
    BY <1>1, <1>9 DEF FindReady, OtherInit, Hardware, Raise, Deliver, DeliverTimer,
                      DeliverSpurious, Fault, Isr, IsrPic, IsrTimer, IsrSpurious,
                      IsrPageFault, IsrUnhandled
<1>10. ASSUME NEW irq \in DeviceIrqs,
              pic_set_handler(irq) \/ RemoveHandler(irq) \/ Unmask(irq) \/ Mask(irq)
       PROVE  UNCHANGED <<idtVars, lapicVars>>
    BY <1>10 DEF pic_set_handler, RemoveHandler, Unmask, Mask
<1>11. CASE UNCHANGED vars
    BY <1>1, <1>11 DEF vars, idtVars, lapicVars
<1>12. QED
    BY <1>1, <1>2, <1>3, <1>4, <1>5, <1>6, <1>7, <1>8, <1>9, <1>10, <1>11
       DEF Next, Boot, Drivers

\* pic.c and the controllers.
LEMMA LinesOfController ==
    /\ Cascade \in Irq /\ DeviceIrqs \subseteq Irq /\ Pending \subseteq Irq
    /\ \A irq \in Irq : PicVector(irq) \in Vector
<1>1. Cascade \in Irq /\ DeviceIrqs \subseteq Irq /\ Master \subseteq Irq /\ Slave \subseteq Irq
    BY InterruptsAssumption DEF Master, Slave, Irq
<1>2. \A lines, requests : Requested(lines, requests) \subseteq lines
    BY DEF Requested
<1>3. Pending \subseteq Irq
    BY <1>1, <1>2 DEF Pending
<1>4. \A irq \in Irq : PicVector(irq) \in Vector
    BY InterruptsAssumption DEF PicVector, Irq, Vector
<1>5. QED
    BY <1>1, <1>3, <1>4

LEMMA PicStep ==
    ASSUME Typed, [Next]_vars
    PROVE  PicTyped'
<1>0. PicTyped /\ Cascade \in Irq /\ DeviceIrqs \subseteq Irq /\ Pending \subseteq Irq
    BY LinesOfController DEF Typed
<1>1. CASE UNCHANGED <<picVars, irr, in_service>>
    BY <1>0, <1>1 DEF picVars, PicTyped
<1>2. ASSUME NEW irq \in Irq, pic_mask(irq) \/ pic_unmask(irq)
      PROVE  irq_mask' \subseteq Irq /\ pic_mask_register' \subseteq Irq
    BY <1>0, <1>2 DEF pic_mask, pic_unmask, set_mask, PicTyped
<1>3. CASE PicInit
    BY <1>0, <1>3 DEF PicInit, set_mask, hardwareVars, Calls, PicTyped
<1>4. ASSUME NEW irq \in DeviceIrqs, Unmask(irq) \/ Mask(irq)
      PROVE  PicTyped'
    <2>1. pic_mask(irq) \/ pic_unmask(irq)
        BY <1>4 DEF Unmask, Mask
    <2>2. UNCHANGED <<pic_handlers, irr, in_service>>
        BY <1>4 DEF Unmask, Mask, hardwareVars
    <2>3. QED
        BY <1>0, <1>2, <2>1, <2>2 DEF PicTyped
<1>5. ASSUME NEW irq \in DeviceIrqs, pic_set_handler(irq) \/ RemoveHandler(irq)
      PROVE  PicTyped'
    BY <1>0, <1>5 DEF pic_set_handler, RemoveHandler, hardwareVars, PicTyped
<1>6. ASSUME NEW irq \in DeviceIrqs, Raise(irq)
      PROVE  PicTyped'
    BY <1>0, <1>6 DEF Raise, picVars, PicTyped
<1>7. CASE Deliver
    BY <1>0, <1>7 DEF Deliver, picVars, PicTyped
<1>8. CASE IsrPic
    <2> DEFINE line == int_no - NExceptions
    <2>1. /\ in_service' \subseteq in_service /\ UNCHANGED <<pic_handlers, irr>>
          /\ \/ line \in pic_handlers /\ pic_mask(line)
             \/ UNCHANGED <<irq_mask, pic_mask_register>>
        BY <1>8 DEF IsrPic, PicEoi
    <2> HIDE DEF line
    <2>2. irq_mask' \subseteq Irq /\ pic_mask_register' \subseteq Irq
        BY <1>0, <1>2, <2>1 DEF PicTyped
    <2>3. QED
        BY <1>0, <2>1, <2>2 DEF PicTyped
<1>9. CASE IsrTimer \/ IsrSpurious \/ IsrPageFault \/ IsrUnhandled
    BY <1>1, <1>9 DEF IsrTimer, IsrSpurious, IsrPageFault, IsrUnhandled, hardwareVars
<1>10. CASE DeliverTimer \/ DeliverSpurious \/ Fault
    BY <1>1, <1>10 DEF DeliverTimer, DeliverSpurious, Fault
<1>11. CASE FindReady \/ IdtInit \/ MemInit \/ OtherInit \/ LapicInit \/ KvmInit \/ ApicTimerInit
    BY <1>1, <1>11 DEF FindReady, IdtInit, MemInit, OtherInit, LapicInit, KvmInit,
                       ApicTimerInit, Calls, Panic, hardwareVars
<1>12. ASSUME NEW order \in DriverOrders, DriverAllocates(order)
       PROVE  UNCHANGED <<picVars, irr, in_service>>
    BY <1>12 DEF DriverAllocates, hardwareVars
<1>13. CASE UNCHANGED vars
    BY <1>1, <1>13 DEF vars, picVars
<1>14. QED
    BY <1>1, <1>3, <1>4, <1>5, <1>6, <1>7, <1>8, <1>9, <1>10, <1>11, <1>12, <1>13
       DEF Next, Boot, Drivers, Hardware, Isr

\* The CPU enters only vectors that there are.
LEMMA CpuStep ==
    ASSUME Typed, [Next]_vars
    PROVE  CpuTyped'
<1>0. CpuTyped /\ LapicTyped /\ Pending \subseteq Irq /\ \A irq \in Irq : PicVector(irq) \in Vector
    BY LinesOfController DEF Typed
<1>1. CASE UNCHANGED <<cpu, lapicService>>
    BY <1>0, <1>1 DEF lapicService, CpuTyped
<1>2. CASE Fault
    <2>1. Faults \subseteq Vector
        BY InterruptsAssumption DEF Exceptions, Vector
    <2>2. QED
        BY <1>0, <1>2, <2>1 DEF Fault, Enter, lapicService, CpuTyped
<1>3. CASE Deliver
    BY <1>0, <1>3 DEF Deliver, Enter, lapicService, CpuTyped
<1>4. CASE DeliverTimer
    BY <1>0, <1>4 DEF DeliverTimer, Enter, LapicTyped, CpuTyped
<1>5. CASE DeliverSpurious
    BY <1>0, <1>5 DEF DeliverSpurious, Enter, lapicService, LapicTyped, CpuTyped
<1>6. CallLapicEoi => lapic_in_service' = FALSE /\ kvm_apic_eoi' = FALSE
    BY DEF CallLapicEoi, kvm_lapic_eoi, EndLapic
<1>7. CASE IsrTimer
    BY <1>0, <1>6, <1>7 DEF IsrTimer, IsrReturn, CpuTyped
<1>8. CASE IsrSpurious
    BY <1>0, <1>6, <1>8 DEF IsrSpurious, cpuVars, CpuTyped
<1>9. CASE IsrPic
    BY <1>0, <1>9 DEF IsrPic, IsrReturn, cpuVars, lapicService, CpuTyped
<1>10. CASE IsrPageFault \/ IsrUnhandled
    BY <1>1, <1>10 DEF IsrPageFault, IsrUnhandled, hardwareVars, cpuVars
<1>11. CASE Boot
    BY <1>1, <1>11 DEF Boot, FindReady, IdtInit, MemInit, OtherInit, PicInit, LapicInit,
                       KvmInit, ApicTimerInit, Calls, hardwareVars, cpuVars
<1>12. CASE Drivers
    BY <1>1, <1>12 DEF Drivers, DriverAllocates, pic_set_handler, RemoveHandler, Unmask, Mask,
                       hardwareVars, cpuVars
<1>13. ASSUME NEW irq \in DeviceIrqs, Raise(irq)
       PROVE  UNCHANGED <<cpu, lapicService>>
    BY <1>13 DEF Raise, cpuVars
<1>14. CASE UNCHANGED vars
    BY <1>1, <1>14 DEF vars, lapicService
<1>15. QED
    BY <1>1, <1>2, <1>3, <1>4, <1>5, <1>7, <1>8, <1>9, <1>10, <1>11, <1>12, <1>13, <1>14
       DEF Next, Hardware, Isr

LEMMA PanicStep ==
    ASSUME Typed, [Next]_vars
    PROVE  PanicTyped'
<1>0. PanicTyped
    BY DEF Typed
<1>1. CASE UNCHANGED panic
    BY <1>0, <1>1, Zenon DEF PanicTyped
<1>2. CASE PicInit
    BY <1>0, <1>2, Zenon DEF PicInit, PanicTyped
<1>3. CASE LapicInit
    BY <1>0, <1>3, Zenon DEF LapicInit, Panic, PanicTyped
<1>4. CASE KvmInit
    BY <1>0, <1>4, Zenon DEF KvmInit, Panic, PanicTyped
<1>5. CASE ApicTimerInit
    BY <1>0, <1>5, Zenon DEF ApicTimerInit, Panic, PanicTyped
<1>6. CASE FindReady \/ IdtInit \/ MemInit \/ OtherInit
    BY <1>1, <1>6 DEF FindReady, IdtInit, MemInit, OtherInit
<1>7. CASE Drivers
    BY <1>1, <1>7 DEF Drivers, DriverAllocates, pic_set_handler, RemoveHandler, Unmask, Mask
<1>8. CASE Hardware
    BY <1>1, <1>8 DEF Hardware, Raise, Deliver, DeliverTimer, DeliverSpurious, Fault
<1>9. CASE IsrPic
    BY <1>0, <1>9, Zenon DEF IsrPic, PanicTyped
<1>10. CASE IsrTimer
    BY <1>1, <1>10 DEF IsrTimer
<1>11. CASE IsrSpurious \/ IsrPageFault
    BY <1>11, Zenon DEF IsrSpurious, IsrPageFault, PanicTyped
<1>12. CASE IsrUnhandled
    BY <1>12, Zenon DEF IsrUnhandled, PanicTyped
<1>13. CASE UNCHANGED vars
    BY <1>1, <1>13 DEF vars
<1>14. QED
    BY <1>2, <1>3, <1>4, <1>5, <1>6, <1>7, <1>8, <1>9, <1>10, <1>11, <1>12, <1>13
       DEF Next, Boot, Isr

\* Blocks of vectors, the table of handlers and the vectors that hardware was
\* told to use agree after any order of the constructors and any calls of
\* drivers; among others no block reaches beyond the table.
THEOREM VectorsStaySound == Spec => []VectorsInvariant
<1>1. Init => SetUpInv /\ Typed
    BY SetUpInit, TypedInit
<1>2. SetUpInv /\ Typed /\ [Next]_vars => (SetUpInv /\ Typed)'
    BY SetUpStep, TablesStep, PicStep, CpuStep, PanicStep DEF Typed
<1>3. SetUpInv /\ Typed => VectorsInvariant
    BY VectorsInductive, TypeParts DEF VectorsInvariant, SetUpInv, Typed
<1>4. QED
    BY <1>1, <1>2, <1>3, PTL DEF Spec
-----------------------------------------------------------------------------
(* Interrupts and their ends. *)

\* What the CPU and the entry stub of vector v leave on the stack.
Framed(v) ==
    /\ Len(frame) = 5 /\ SubSeq(frame, 1, 3) = <<"eflags", "cs", "eip">>
    /\ frame[4] \in {"error", "zero"} /\ frame[5] = v

LEMMA TwoWords ==
    ASSUME NEW T, NEW e \in Seq(T), NEW w \in Seq(T), Len(e) = 1, Len(w) = 1
    PROVE  /\ e \o w \in Seq(T) /\ Len(e \o w) = 2
           /\ (e \o w)[1] = e[1] /\ (e \o w)[2] = w[1]
<1>1. /\ e \o w \in Seq(T) /\ Len(e \o w) = Len(e) + Len(w)
      /\ \A i \in 1 .. Len(e) + Len(w) :
            (e \o w)[i] = IF i <= Len(e) THEN e[i] ELSE w[i - Len(e)]
    BY ConcatProperties
<1>2. QED
    BY <1>1

\* Three words of the CPU and two more, in whichever order they are joined.
LEMMA FiveWords ==
    ASSUME NEW T, NEW h \in Seq(T), NEW e \in Seq(T), NEW w \in Seq(T),
           Len(h) = 3, Len(e) = 1, Len(w) = 1
    PROVE  /\ (h \o e) \o w = h \o (e \o w)
           /\ h \o (e \o w) \in Seq(T) /\ Len(h \o (e \o w)) = 5
           /\ \A i \in 1 .. 3 : (h \o (e \o w))[i] = h[i]
           /\ (h \o (e \o w))[4] = e[1] /\ (h \o (e \o w))[5] = w[1]
<1> DEFINE t == e \o w
<1>1. t \in Seq(T) /\ Len(t) = 2 /\ t[1] = e[1] /\ t[2] = w[1]
    BY TwoWords, SMTT(30)
<1>2. (h \o e) \o w = h \o t
    BY ConcatAssociative
<1> HIDE DEF t
<1>3. /\ h \o t \in Seq(T) /\ Len(h \o t) = Len(h) + Len(t)
      /\ \A i \in 1 .. Len(h) + Len(t) :
            (h \o t)[i] = IF i <= Len(h) THEN h[i] ELSE t[i - Len(h)]
    BY <1>1, ConcatProperties
<1>4. /\ \A i \in 1 .. 3 : (h \o t)[i] = h[i]
      /\ (h \o t)[4] = t[1] /\ (h \o t)[5] = t[2]
    BY <1>1, <1>3
<1>5. QED
    BY <1>1, <1>2, <1>3, <1>4 DEF t

\* The stubs that push no 0 are those of the vectors for which the CPU pushes
\* an error, but for the one that user mode alone raises.
LEMMA EntryFrames ==
    ASSUME NEW v \in Vector, v # 17, frame' = CpuPushes(v) \o IsrStub(v)
    PROVE  Framed(v)'
<1> DEFINE T == {"eflags", "cs", "eip", "error", "zero"} \cup Vector
           head == <<"eflags", "cs", "eip">>
<1>1. head \in Seq(T) /\ Len(head) = 3
    OBVIOUS
<1>2. \A e \in T : <<e>> \in Seq(T) /\ Len(<<e>>) = 1 /\ <<e>>[1] = e
    OBVIOUS
<1>3. v \in T /\ "error" \in T /\ "zero" \in T
    OBVIOUS
<1>4. PICK x \in {"error", "zero"} :
            \/ frame' = (head \o <<x>>) \o <<v>>
            \/ frame' = head \o (<<x>> \o <<v>>)
    <2>1. CASE v \in ErrorVectors
        <3>1. CpuPushes(v) = head \o <<"error">>
            BY <2>1 DEF CpuPushes, ErrorVectors
        <3>2. IsrStub(v) = <<v>>
            <4>1. <<v>> \in Seq(T)
                BY <1>2, <1>3
            <4> HIDE DEF T
            <4>2. <<>> \o <<v>> = <<v>>
                BY <4>1, ConcatEmptySeq
            <4>3. QED
                BY <2>1, <4>2 DEF IsrStub
        <3>3. QED
            BY <3>1, <3>2
    <2>2. CASE v \notin ErrorVectors
        <3>1. CpuPushes(v) = head
            <4> HIDE DEF T
            <4>1. head \o <<>> = head
                BY <1>1, ConcatEmptySeq
            <4>2. QED
                BY <2>2, <4>1 DEF CpuPushes, ErrorVectors
        <3>2. IsrStub(v) = <<"zero">> \o <<v>>
            BY <2>2 DEF IsrStub
        <3>3. QED
            BY <3>1, <3>2
    <2>3. QED
        BY <2>1, <2>2
<1>5. /\ Len(frame') = 5 /\ frame' \in Seq(T)
      /\ \A i \in 1 .. 3 : frame'[i] = head[i]
      /\ frame'[4] = x /\ frame'[5] = v
    <2> DEFINE e == <<x>>
               w == <<v>>
    <2>1. e \in Seq(T) /\ Len(e) = 1 /\ e[1] = x /\ w \in Seq(T) /\ Len(w) = 1 /\ w[1] = v
        BY <1>2, <1>3
    <2>2. frame' = (head \o e) \o w \/ frame' = head \o (e \o w)
        BY <1>4
    <2> HIDE DEF T, head, e, w
    <2> DEFINE f == head \o (e \o w)
    <2>3. /\ f \in Seq(T) /\ Len(f) = 5
          /\ \A i \in 1 .. 3 : f[i] = head[i]
          /\ f[4] = e[1] /\ f[5] = w[1]
          /\ (head \o e) \o w = f
        BY <1>1, <2>1, FiveWords
    <2> HIDE DEF f
    <2>4. frame' = f
        BY <2>2, <2>3 DEF f
    <2>5. QED
        BY <2>1, <2>3, <2>4
<1>6. SubSeq(frame', 1, 3) = head
    <2> DEFINE f == frame'
               r == SubSeq(f, 1, 3)
    <2>1. \A i \in 1 .. 3 : f[i] \in T
        BY <1>1, <1>5
    <2> HIDE DEF T, head, f
    <2>2. /\ r \in Seq(T) /\ Len(r) = 3
          /\ \A i \in 1 .. 3 : r[i] = f[1 + i - 1]
        BY <2>1, SubSeqProperties
    <2> HIDE DEF r
    <2>3. \A i \in 1 .. 3 : r[i] = head[i]
        <3>1. \A i \in 1 .. 3 : 1 + i - 1 = i
            OBVIOUS
        <3>2. QED
            BY <1>5, <2>2, <3>1, SMTT(30) DEF f
    <2>4. r = head
        BY <1>1, <2>2, <2>3, SeqEqual
    <2>5. QED
        BY <2>4 DEF r, f
<1>7. QED
    BY <1>5, <1>6 DEF Framed

\* The controllers while the interrupt of a line is handled.
Serving(irq) == {irq} \cup IF irq \in Slave THEN {Cascade} ELSE {}

\* What the CPU is doing: an exception, the spurious interrupt, that of the
\* timer or that of a line, each with what it leaves in service.
Handling ==
    /\ cpu \in Vector /\ ready = {} /\ DOMAIN deps = {}
    /\ Framed(cpu)
    /\ cpu \in Exceptions
            \/ handlers[cpu] \in {"pic_handler", "spurious_handler", "apic_timer_handler"}
    /\ handlers[cpu] = "pic_handler" =>
            /\ ~lapic_in_service
            /\ \E irq \in pic_handlers : cpu = PicVector(irq) /\ in_service = Serving(irq)
    /\ handlers[cpu] # "pic_handler" => in_service = {}
    /\ handlers[cpu] \notin {"pic_handler", "apic_timer_handler"} => ~lapic_in_service

\* Every line that can interrupt has a handler, and nothing is in service but
\* for what the CPU handles.
ServiceInv ==
    /\ irr \subseteq DeviceIrqs
    /\ DeviceIrqs \ irq_mask \subseteq pic_handlers
    /\ panic # "unhandled"
    /\ cpu = NoVector => in_service = {} /\ ~lapic_in_service /\ frame = <<>>
    /\ cpu # NoVector => Handling

EndInv == SetUpInv /\ CascadeInv /\ ServiceInv

LEMMA ServiceInit == Init => ServiceInv
BY InterruptsAssumption DEF Init, ServiceInv, Irq, None, Vector, NoVector

\* A line that a controller asks for is one of a device that is not masked.
LEMMA PendingIsUnmasked ==
    ASSUME irr \subseteq DeviceIrqs
    PROVE  Pending \subseteq irr \ pic_mask_register
<1> DEFINE slave == Requested(Slave, irr)
           master == Requested(Master, irr \cup IF slave = {} THEN {} ELSE {Cascade})
<1>1. slave \subseteq irr \ pic_mask_register
    BY DEF Requested
<1>2. master \subseteq (irr \cup {Cascade}) \ pic_mask_register
    BY DEF Requested
<1>3. slave = {} => master \subseteq irr
    BY DEF Requested
<1> HIDE DEF slave, master
<1>4. (IF Cascade \in master THEN slave ELSE master) \subseteq irr \ pic_mask_register
    BY <1>1, <1>2, <1>3
<1>5. QED
    BY <1>4 DEF Pending, slave, master

\* The command to each controller ends what it has in service.
LEMMA PicEoiEnds ==
    ASSUME NEW irq \in DeviceIrqs, in_service = Serving(irq), PicEoi(irq)
    PROVE  in_service' = {}
<1>1. \A x \in Irq : Min({x}) = x
    <2>1. ASSUME NEW x \in Irq
          PROVE  Min({x}) = x
        <3>1. x \in Nat
            BY <2>1, InterruptsAssumption DEF Irq
        <3>2. QED
            BY <3>1, MinIsLeast
    <2>2. QED
        BY <2>1
<1>2. /\ irq \in Irq /\ Cascade \in Irq /\ Cascade \in Master /\ Cascade \notin Slave
      /\ irq \notin Slave => irq \in Master
      /\ Master \cap Slave = {}
    BY InterruptsAssumption DEF Irq, Master, Slave
<1>3. CASE irq \in Slave
    <2>1. in_service \cap Master = {Cascade} /\ in_service \cap Slave = {irq}
        BY <1>2, <1>3 DEF Serving
    <2>2. Eoi(Master) = {Cascade} /\ Eoi(Slave) = {irq}
        BY <1>1, <1>2, <2>1 DEF Eoi
    <2>3. QED
        BY <1>3, <2>2 DEF PicEoi, Serving
<1>4. CASE irq \notin Slave
    <2>1. in_service \cap Master = {irq}
        BY <1>2, <1>4 DEF Serving
    <2>2. Eoi(Master) = {irq}
        BY <1>1, <1>2, <2>1 DEF Eoi
    <2>3. QED
        BY <1>4, <2>2 DEF PicEoi, Serving
<1>5. QED
    BY <1>3, <1>4

\* Steps of tasks and constructors change nothing of an interrupt.
LEMMA TasksKeepService ==
    ASSUME ServiceInv, cpu = NoVector, UNCHANGED <<in_service, lapic_in_service, cpu, frame>>,
           irr' \subseteq DeviceIrqs, panic' # "unhandled",
           DeviceIrqs \ irq_mask' \subseteq pic_handlers'
    PROVE  ServiceInv'
BY DEF ServiceInv

\* What is known of the hardware while a task runs.
LEMMA WhileTask ==
    ASSUME EndInv, Task
    PROVE  /\ in_service = {} /\ ~lapic_in_service
           /\ ready = {} /\ DOMAIN deps = {} /\ panic = None
           /\ pic_mask_register = irq_mask
           /\ HandlersInv /\ "pic" \in Done
<1>1. Booted /\ cpu = NoVector /\ OrderInv
    BY DEF Task, EndInv, SetUpInv
<1>2. Done = Constructors
    BY <1>1, BootedIsDone
<1>3. "pic" \in Done
    BY <1>2 DEF Constructors
<1>4. ready = {} /\ DOMAIN deps = {} /\ panic = None
    BY <1>1 DEF Booted
<1>5. pic_mask_register = irq_mask
    BY <1>4 DEF EndInv, CascadeInv
<1>6. QED
    BY <1>1, <1>3, <1>4, <1>5 DEF EndInv, ServiceInv, SetUpInv

LEMMA DeliverKeeps ==
    ASSUME EndInv, Deliver
    PROVE  ServiceInv'
<1>1. PICK irq \in Pending :
            /\ irr' = irr \ {irq}
            /\ in_service' = in_service \cup {irq} \cup (IF irq \in Slave THEN {Cascade} ELSE {})
            /\ Enter(PicVector(irq))
    BY DEF Deliver
<1>2. /\ Task /\ UNCHANGED <<deps, ready, handlers, irq_mask, pic_handlers>>
      /\ UNCHANGED <<lapic_in_service, panic>>
    BY DEF Deliver, bootVars, idtVars, picVars, lapicService
<1>3. /\ in_service = {} /\ ~lapic_in_service
      /\ ready = {} /\ DOMAIN deps = {} /\ panic = None
      /\ pic_mask_register = irq_mask /\ HandlersInv /\ "pic" \in Done
    BY <1>2, WhileTask
<1>4. irr \subseteq DeviceIrqs /\ DeviceIrqs \ irq_mask \subseteq pic_handlers
    BY DEF EndInv, ServiceInv
<1>5. irq \in irr \ pic_mask_register
    BY <1>1, <1>4, PendingIsUnmasked
<1>6. irq \in DeviceIrqs /\ irq \in pic_handlers /\ irq \in Irq
    BY <1>3, <1>4, <1>5, InterruptsAssumption
<1>7. PicVector(irq) \in Vector /\ PicVector(irq) # 17 /\ PicVector(irq) # NoVector
    BY <1>6, InterruptsAssumption DEF PicVector, Irq, Vector, NoVector
<1>8. cpu' = PicVector(irq) /\ Framed(cpu)'
    BY <1>1, <1>7, EntryFrames DEF Enter, Framed
<1>9. handlers'[cpu'] = "pic_handler"
    BY <1>2, <1>3, <1>6, <1>8 DEF HandlersInv
<1>10. in_service' = Serving(irq)
    BY <1>1, <1>3 DEF Serving
<1>11. Handling'
    <2>1. \E i \in pic_handlers' : cpu' = PicVector(i) /\ in_service' = Serving(i)
        BY <1>2, <1>6, <1>8, <1>10
    <2>2. /\ cpu' \in Vector /\ ready' = {} /\ DOMAIN deps' = {} /\ ~lapic_in_service'
        BY <1>2, <1>3, <1>7, <1>8
    <2>3. QED
        BY <1>8, <1>9, <2>1, <2>2 DEF Handling, Serving, PicVector
<1>12. QED
    BY <1>1, <1>2, <1>3, <1>4, <1>7, <1>8, <1>11 DEF ServiceInv, None

LEMMA OthersEnter ==
    ASSUME EndInv, DeliverTimer \/ DeliverSpurious \/ Fault
    PROVE  ServiceInv'
<1>1. /\ Task /\ UNCHANGED <<deps, ready, handlers, irq_mask, pic_handlers, irr, in_service, panic>>
    BY DEF DeliverTimer, DeliverSpurious, Fault, bootVars, idtVars, picVars
<1>2. /\ in_service = {} /\ ~lapic_in_service
      /\ ready = {} /\ DOMAIN deps = {} /\ panic = None /\ HandlersInv
    BY <1>1, WhileTask
<1>3. Exceptions \subseteq Vector /\ 17 \in Exceptions /\ NoVector \notin Vector
    BY InterruptsAssumption DEF Exceptions, Vector, NoVector
<1>4. PICK v \in Vector : /\ Enter(v) /\ v # 17
                          /\ v \in Exceptions
                                \/ handlers[v] \in {"spurious_handler", "apic_timer_handler"}
                          /\ handlers[v] # "pic_handler"
                          /\ lapic_in_service' => handlers[v] = "apic_timer_handler"
    <2>1. CASE DeliverTimer
        BY <1>2, <1>3, <2>1 DEF DeliverTimer, HandlersInv
    <2>2. CASE DeliverSpurious
        BY <1>2, <1>3, <2>2 DEF DeliverSpurious, HandlersInv, lapicService
    <2>3. CASE Fault
        <3>1. PICK v \in Faults : Enter(v)
            BY <2>3 DEF Fault
        <3>2. v \in Exceptions /\ v # 17 /\ v \in Vector
            BY <1>3, <3>1, InterruptsAssumption
        <3>3. ~lapic_in_service' /\ handlers[v] # "pic_handler"
            BY <1>2, <2>3, <3>2 DEF Fault, lapicService, HandlersInv, None
        <3>4. QED
            BY <3>1, <3>2, <3>3
    <2>4. QED
        BY <2>1, <2>2, <2>3
<1>5. cpu' = v /\ Framed(cpu)' /\ cpu' # NoVector
    BY <1>3, <1>4, EntryFrames DEF Enter, Framed
<1>6. Handling'
    BY <1>1, <1>2, <1>4, <1>5 DEF Handling
<1>7. QED
    BY <1>1, <1>5, <1>6 DEF EndInv, ServiceInv

\* The handler that isr_handler calls is that of the vector the CPU entered.
LEMMA WhileHandling ==
    ASSUME EndInv, NEW handler, Handles(handler)
    PROVE  /\ Handling /\ int_no = cpu /\ handlers[cpu] = handler /\ panic = None
           /\ IsrReturn => cpu' = NoVector /\ frame' = <<>>
<1>1. Handling /\ panic = None
    BY DEF EndInv, ServiceInv, Handles
<1>2. Len(frame) = 5 /\ frame[5] = cpu
    BY <1>1 DEF Handling, Framed
<1>3. int_no = cpu
    BY <1>2 DEF int_no, Last
<1>4. SubSeq(frame, 1, 0) = <<>>
    BY SubSeqEmpty
<1>5. IsrReturn => cpu' = NoVector /\ frame' = <<>>
    BY <1>2, <1>4 DEF IsrReturn
<1>6. QED
    BY <1>1, <1>3, <1>5 DEF Handles

LEMMA IsrPicKeeps ==
    ASSUME EndInv, IsrPic
    PROVE  ServiceInv'
<1>1. Handles("pic_handler") /\ irr' = irr /\ pic_handlers' = pic_handlers
      /\ lapic_in_service' = lapic_in_service
    BY DEF IsrPic, lapicService
<1>2. Handling /\ int_no = cpu /\ handlers[cpu] = "pic_handler" /\ panic = None
    BY <1>1, WhileHandling
<1>3. PICK irq \in pic_handlers : cpu = PicVector(irq) /\ in_service = Serving(irq)
    BY <1>2 DEF Handling
<1>4. irq \in DeviceIrqs
    BY DEF EndInv, CascadeInv
<1>5. int_no - NExceptions = irq
    BY <1>2, <1>3, <1>4, InterruptsAssumption DEF PicVector, Irq
<1>6. /\ PicEoi(irq) /\ IsrReturn /\ panic' = panic
      /\ pic_mask(irq) \/ irq_mask' = irq_mask
    BY <1>3, <1>5 DEF IsrPic
<1>7. in_service' = {}
    BY <1>3, <1>4, <1>6, PicEoiEnds
<1>8. cpu' = NoVector /\ frame' = <<>>
    BY <1>1, <1>6, WhileHandling
<1>9. irq_mask \subseteq irq_mask'
    BY <1>6 DEF pic_mask
<1>10. ~lapic_in_service'
    BY <1>1, <1>2 DEF Handling
<1>11. QED
    BY <1>1, <1>2, <1>6, <1>7, <1>8, <1>9, <1>10 DEF EndInv, ServiceInv, None

LEMMA IsrTimerKeeps ==
    ASSUME EndInv, IsrTimer
    PROVE  ServiceInv'
<1>1. /\ Handles("apic_timer_handler") /\ CallLapicEoi /\ IsrReturn
      /\ UNCHANGED <<irr, in_service, irq_mask, pic_handlers, panic>>
    BY DEF IsrTimer, picVars
<1>2. /\ Handling /\ handlers[cpu] = "apic_timer_handler" /\ panic = None
      /\ cpu' = NoVector /\ frame' = <<>>
    BY <1>1, WhileHandling
<1>3. in_service = {}
    BY <1>2 DEF Handling
<1>4. ~lapic_in_service'
    BY <1>1 DEF CallLapicEoi, kvm_lapic_eoi, EndLapic
<1>5. QED
    BY <1>1, <1>2, <1>3, <1>4 DEF EndInv, ServiceInv

\* The handlers that freeze the system.
LEMMA FreezeKeeps ==
    ASSUME EndInv, IsrSpurious \/ IsrPageFault \/ IsrUnhandled
    PROVE  ServiceInv'
<1>1. /\ UNCHANGED <<deps, ready, handlers, irq_mask, pic_handlers>>
      /\ UNCHANGED <<irr, in_service, cpu, frame>>
    BY DEF IsrSpurious, IsrPageFault, IsrUnhandled, bootVars, idtVars, picVars,
           hardwareVars, cpuVars
<1>2. cpu # NoVector
    BY DEF IsrSpurious, IsrPageFault, IsrUnhandled, Handles
<1>3. Handling
    BY <1>2 DEF EndInv, ServiceInv
<1>4. lapic_in_service' => lapic_in_service
    BY DEF IsrSpurious, IsrPageFault, IsrUnhandled, CallLapicEoi, kvm_lapic_eoi, EndLapic,
           hardwareVars, lapicService
<1>5. panic' # "unhandled"
    <2>1. CASE IsrSpurious \/ IsrPageFault
        BY <2>1 DEF IsrSpurious, IsrPageFault
    <2>2. CASE IsrUnhandled
        <3>1. int_no = cpu /\ handlers[cpu] \in {None, "driver"}
            BY <2>2, WhileHandling DEF IsrUnhandled
        <3>2. cpu \in Exceptions
            BY <1>3, <3>1 DEF Handling, None
        <3>3. QED
            BY <2>2, <3>1, <3>2 DEF IsrUnhandled
    <2>3. QED
        BY <2>1, <2>2
<1>6. Handling'
    BY <1>1, <1>3, <1>4 DEF Handling, Framed
<1>7. QED
    BY <1>1, <1>2, <1>5, <1>6 DEF EndInv, ServiceInv

LEMMA BootKeepsService ==
    ASSUME EndInv, Boot
    PROVE  ServiceInv'
<1>1. ready # {} \/ DOMAIN deps # {}
    BY DEF Boot, FindReady, Calls, IdtInit, MemInit, OtherInit, PicInit, LapicInit, KvmInit,
           ApicTimerInit
<1>2. cpu = NoVector
    BY <1>1 DEF EndInv, ServiceInv, Handling
<1>3. UNCHANGED hardwareVars
    BY DEF Boot, FindReady, Calls, IdtInit, MemInit, OtherInit, PicInit, LapicInit, KvmInit,
           ApicTimerInit
<1>4. UNCHANGED <<irq_mask, pic_handlers>>
    BY DEF Boot, FindReady, IdtInit, MemInit, OtherInit, PicInit, LapicInit, KvmInit,
           ApicTimerInit, Panic, picVars
<1>5. panic' \in {panic, "no interrupts", "no kvm", "no apic", "no tsc deadline"}
    BY DEF Boot, FindReady, IdtInit, MemInit, OtherInit, PicInit, LapicInit, KvmInit,
           ApicTimerInit, Panic
<1>6. panic' # "unhandled"
    BY <1>5 DEF EndInv, ServiceInv
<1>7. UNCHANGED <<irr, in_service, lapic_in_service, cpu, frame>>
    BY <1>3 DEF hardwareVars, lapicService, cpuVars
<1>8. QED
    BY <1>2, <1>4, <1>6, <1>7 DEF EndInv, ServiceInv

LEMMA DriversKeepService ==
    ASSUME EndInv, Drivers
    PROVE  ServiceInv'
<1>1. /\ cpu = NoVector /\ UNCHANGED <<irr, in_service, lapic_in_service, cpu, frame, panic>>
    BY DEF Drivers, DriverAllocates, pic_set_handler, RemoveHandler, Unmask, Mask, Task,
           hardwareVars, lapicService, cpuVars
<1>2. DeviceIrqs \ irq_mask \subseteq pic_handlers
    BY DEF EndInv, ServiceInv
<1>3. DeviceIrqs \ irq_mask' \subseteq pic_handlers'
    <2>1. ASSUME NEW irq \in DeviceIrqs, Mask(irq)
          PROVE  irq_mask \subseteq irq_mask' /\ pic_handlers' = pic_handlers
        BY <2>1 DEF Mask, pic_mask
    <2>2. ASSUME NEW irq \in DeviceIrqs, Unmask(irq)
          PROVE  DeviceIrqs \ irq_mask' \subseteq pic_handlers'
        <3>1. irq \in pic_handlers /\ pic_handlers' = pic_handlers
            BY <2>2 DEF Unmask
        <3>2. DeviceIrqs \ irq_mask' \subseteq (DeviceIrqs \ irq_mask) \cup {irq}
            BY <2>2, Layout DEF Unmask, pic_unmask
        <3>3. QED
            BY <1>2, <3>1, <3>2
    <2>3. ASSUME NEW irq \in DeviceIrqs, pic_set_handler(irq) \/ RemoveHandler(irq)
          PROVE  DeviceIrqs \ irq_mask' \subseteq pic_handlers'
        BY <1>2, <2>3 DEF pic_set_handler, RemoveHandler
    <2>4. ASSUME NEW order \in DriverOrders, DriverAllocates(order)
          PROVE  irq_mask' = irq_mask /\ pic_handlers' = pic_handlers
        BY <2>4 DEF DriverAllocates, picVars
    <2>5. QED
        BY <1>2, <2>1, <2>2, <2>3, <2>4 DEF Drivers
<1>4. QED
    BY <1>1, <1>3 DEF EndInv, ServiceInv

LEMMA RaiseKeeps ==
    ASSUME EndInv, NEW irq \in DeviceIrqs, Raise(irq)
    PROVE  ServiceInv'
<1>1. /\ UNCHANGED <<deps, ready, handlers, irq_mask, pic_handlers>>
      /\ UNCHANGED <<in_service, lapic_in_service, cpu, frame, panic>>
      /\ irr' = irr \cup {irq}
    BY DEF Raise, bootVars, idtVars, picVars, lapicService, cpuVars
<1>2. Handling => Handling'
    BY <1>1 DEF Handling, Framed
<1>3. QED
    BY <1>1, <1>2 DEF EndInv, ServiceInv

LEMMA EndInit == Init => EndInv
BY SetUpInit, CascadeInit, ServiceInit DEF EndInv

LEMMA EndStep ==
    ASSUME EndInv, [Next]_vars
    PROVE  EndInv'
<1>1. SetUpInv' /\ CascadeInv'
    BY SetUpStep, CascadeStep DEF EndInv
<1>2. ServiceInv'
    <2>1. CASE Hardware
        BY <2>1, RaiseKeeps, DeliverKeeps, OthersEnter DEF Hardware
    <2>2. CASE Isr
        BY <2>2, IsrPicKeeps, IsrTimerKeeps, FreezeKeeps DEF Isr
    <2>3. CASE UNCHANGED vars
        <3>1. Handling => Handling'
            BY <2>3 DEF vars, Handling, Framed
        <3>2. QED
            BY <2>3, <3>1 DEF vars, EndInv, ServiceInv
    <2>4. QED
        BY <2>1, <2>2, <2>3, BootKeepsService, DriversKeepService DEF Next
<1>3. QED
    BY <1>1, <1>2 DEF EndInv

\* Whatever devices, exceptions and drivers do, and with KVM's shortcut or
\* without: no line interrupts without a handler, every handler finds the
\* frame it is written for, and when it has returned the controllers have
\* nothing left in service.
THEOREM InterruptsAreEnded == Spec => []InterruptsEnd
<1>1. EndInv => InterruptsEnd
    <2>1. SUFFICES ASSUME EndInv PROVE InterruptsEnd
        OBVIOUS
    <2>2. NoneUnhandled /\ NoneInService
        BY <2>1 DEF EndInv, ServiceInv, NoneUnhandled, NoneInService
    <2>3. FramesSound
        BY <2>1 DEF EndInv, ServiceInv, Handling, Framed, FramesSound
    <2>4. QED
        BY <2>2, <2>3 DEF InterruptsEnd
<1>2. QED
    BY <1>1, EndInit, EndStep, PTL DEF Spec
-----------------------------------------------------------------------------
(* Pci *)

\* What the assumption says of the constants and of one machine.
LEMMA Sizes ==
    /\ MAX_SLOTS \in Nat /\ MAX_FUNCTIONS \in Nat /\ MAX_BUSES \in Nat
    /\ MAX_SLOTS > 0 /\ MAX_FUNCTIONS > 0 /\ MAX_BUSES > 0 /\ MAX_FUNCTIONS <= MAX_BUSES
    /\ 0 \in Bus /\ 0 \in Slot /\ 0 \in Func /\ Func \subseteq Bus
    /\ NoDevice \notin Category
BY PciAssumption DEF Bus, Slot, Func, NoDevice

LEMMA Locations ==
    /\ \A l \in Location : l[1] \in Bus /\ l[2] \in Slot /\ l[3] \in Func /\ l = <<l[1], l[2], l[3]>>
    /\ \A b \in Bus, s \in Slot, f \in Func :
            /\ <<b, s, f>> \in Location
            /\ <<b, s, f>>[1] = b /\ <<b, s, f>>[2] = s /\ <<b, s, f>>[3] = f
BY DEF Location

\* The registers of a location are those of nothing, a device or a bridge.
LEMMA RegistersAre ==
    ASSUME NEW r \in Registers
    PROVE  /\ r = Absent \/ r.kind = "device" \/ r.kind = "bridge"
           /\ r = Absent => r.kind = "absent"
           /\ r.kind = "device" => r.category \in Category /\ r # Absent
           /\ r.kind = "bridge" => r.secondary \in Bus /\ r = Bridge(r.secondary) /\ r # Absent
           /\ \A b \in Bus : r = Bridge(b) => r.kind = "bridge" /\ r.secondary = b
<1>1. CASE r = Absent
    BY <1>1 DEF Absent, Bridge
<1>2. CASE r \in {Device(c) : c \in Category}
    BY <1>2 DEF Device, Absent, Bridge
<1>3. CASE r \in {Bridge(b) : b \in Bus}
    BY <1>3 DEF Bridge, Absent
<1>4. QED
    BY <1>1, <1>2, <1>3 DEF Registers

\* What Configured says of the machine, piece by piece.
MachineOK(m) ==
    /\ m.regs \in [Location -> Registers]
    /\ Configured(m)

LEMMA MachineFacts ==
    ASSUME MachineOK(machine)
    PROVE  /\ \A l \in Location : machine.regs[l] \in Registers
           /\ Present(0, 0, 0)
           /\ \A l \in Location : l[3] > 0 /\ machine.regs[l] # Absent =>
                Present(l[1], l[2], 0) /\ <<l[1], l[2]>> \in machine.multi
           /\ \A k \in Location, b \in Bus : machine.regs[k] = Bridge(b) =>
                /\ b > k[1] /\ b \notin HostBuses(machine)
                /\ \A l \in Location : machine.regs[l] = Bridge(b) => l = k
           /\ \A l \in Location : machine.regs[l] # Absent =>
                \/ l[1] \in HostBuses(machine)
                \/ \E k \in Location : machine.regs[k] = Bridge(l[1])
<1>1. Configured(machine) /\ machine.regs \in [Location -> Registers]
    BY DEF MachineOK
<1>2. \A l \in Location : machine.regs[l] \in Registers
    BY <1>1
<1>3. BridgesOf(machine) = {l \in Location : machine.regs[l].kind = "bridge"}
    BY <1>1 DEF BridgesOf
<1>4. Present(0, 0, 0)
    BY <1>1 DEF Configured, Present, regs
<1>5. \A l \in Location : l[3] > 0 /\ machine.regs[l] # Absent =>
            Present(l[1], l[2], 0) /\ <<l[1], l[2]>> \in machine.multi
    BY <1>1 DEF Configured, Present, regs
<1>6. ASSUME NEW k \in Location, NEW b \in Bus, machine.regs[k] = Bridge(b)
      PROVE  /\ k \in BridgesOf(machine) /\ machine.regs[k].secondary = b
             /\ b > k[1] /\ b \notin HostBuses(machine)
    <2>1. k \in BridgesOf(machine) /\ machine.regs[k].secondary = b
        BY <1>2, <1>3, <1>6, RegistersAre
    <2>2. QED
        BY <1>1, <2>1, Zenon DEF Configured
<1>7. ASSUME NEW k \in Location, NEW b \in Bus, machine.regs[k] = Bridge(b),
             NEW l \in Location, machine.regs[l] = Bridge(b)
      PROVE  l = k
    <2>1. /\ k \in BridgesOf(machine) /\ l \in BridgesOf(machine)
          /\ machine.regs[k].secondary = machine.regs[l].secondary
        BY <1>6, <1>7
    <2>2. QED
        BY <1>1, <2>1, Zenon DEF Configured
<1>8. ASSUME NEW l \in Location, machine.regs[l] # Absent, l[1] \notin HostBuses(machine)
      PROVE  \E k \in Location : machine.regs[k] = Bridge(l[1])
    <2>1. PICK k \in BridgesOf(machine) : machine.regs[k].secondary = l[1]
        BY <1>1, <1>8, Zenon DEF Configured
    <2>2. k \in Location /\ machine.regs[k] = Bridge(l[1])
        BY <1>2, <1>3, <2>1, RegistersAre
    <2>3. QED
        BY <2>2
<1>9. QED
    BY <1>2, <1>4, <1>5, <1>6, <1>7, <1>8, Zenon
-----------------------------------------------------------------------------
(* The stack.                                                              *)

LEMMA TopIs ==
    ASSUME NEW S, NEW s \in Seq(S), s # <<>>
    PROVE  /\ Len(s) \in Nat /\ Len(s) > 0 /\ DOMAIN s = 1 .. Len(s) /\ Len(s) \in DOMAIN s
           /\ Last(s) = s[Len(s)] /\ Last(s) \in S
           /\ Front(s) \in Seq(S) /\ Len(Front(s)) = Len(s) - 1
           /\ \A k \in 1 .. Len(s) - 1 : Front(s)[k] = s[k]
<1>1. Len(s) \in Nat /\ DOMAIN s = 1 .. Len(s) /\ Len(s) > 0 /\ Len(s) \in DOMAIN s
    BY LenProperties, EmptySeq
<1>2. \A k \in 1 .. Len(s) : s[k] \in S
    BY ElementOfSeq
<1> DEFINE f == SubSeq(s, 1, Len(s) - 1)
<1>3. f \in Seq(S) /\ Len(f) = Len(s) - 1 /\ \A k \in 1 .. Len(s) - 1 : f[k] = s[k]
    BY <1>1, <1>2, SubSeqProperties
<1> HIDE DEF f
<1>4. Front(s) = f
    BY DEF f, Front
<1>5. QED
    BY <1>1, <1>2, <1>3, <1>4 DEF Last

LEMMA GotoIs ==
    ASSUME stack \in Seq(Frame), stack # <<>>, NEW g \in Frame
    PROVE  /\ Goto(g) \in Seq(Frame) /\ Len(Goto(g)) = Len(stack)
           /\ DOMAIN Goto(g) = 1 .. Len(stack)
           /\ Goto(g)[Len(stack)] = g
           /\ \A k \in 1 .. Len(stack) - 1 : Goto(g)[k] = stack[k]
<1> DEFINE f == Front(stack)
           t == Append(f, g)
           n == Len(stack)
<1>1. n \in Nat /\ n > 0 /\ f \in Seq(Frame) /\ Len(f) = n - 1 /\ \A k \in 1 .. n - 1 : f[k] = stack[k]
    BY TopIs
<1> HIDE DEF f, n
<1>2. t \in Seq(Frame) /\ Len(t) = n /\ t[n] = g /\ \A k \in 1 .. n - 1 : t[k] = f[k]
    BY <1>1, AppendProperties
<1>3. DOMAIN t = 1 .. n
    BY <1>2, LenProperties
<1>4. Goto(g) = t
    BY DEF Goto, t, f
<1>5. QED
    BY <1>1, <1>2, <1>3, <1>4 DEF n

-----------------------------------------------------------------------------
(* The inductive invariant.                                                *)

\* The call whose frame is f has looked at the location l of its bus.
Past(f, l) == l[2] < f.slot \/ (l[2] = f.slot /\ l[3] < f.func)

FrameOK(f) ==
    /\ f.functions = 0 => f.func = 0
    /\ f.functions > 0 =>
        /\ f.slot < MAX_SLOTS /\ f.func < f.functions /\ Present(f.bus, f.slot, 0)
        /\ f.functions = IF IsMulti(f.bus, f.slot) THEN MAX_FUNCTIONS ELSE 1

\* The calls are those of the buses on a path down the tree.
StackOK(s) ==
    /\ s \in Seq(Frame)
    /\ \A k \in 1 .. Len(s) : FrameOK(s[k])
    /\ \A j, k \in 1 .. Len(s) : j < k => s[j].bus < s[k].bus

\* The constructor has called pci_check_bus for the bus b.
HostWalked(b, f) ==
    b \in HostBuses(machine) /\ IF IsMulti(0, 0) THEN b < f ELSE f = MAX_FUNCTIONS

\* R are the buses for which pci_check_bus was called, V are the locations it
\* has looked at: all of those of R, but for the calls that have not returned.
Looked(R, V, s) ==
    /\ \A k \in 1 .. Len(s) : s[k].bus \in R
    /\ \A l \in Location :
            l \in V <=> l[1] \in R /\ \A k \in 1 .. Len(s) : s[k].bus = l[1] => Past(s[k], l)

\* And a bus is in R because of the constructor or of a bridge in V; and the
\* table has the devices in V.
Walked(R, V, s, f, table) ==
    /\ Looked(R, V, s)
    /\ \A b \in Bus : b \in R <=> HostWalked(b, f) \/ \E l \in V : machine.regs[l] = Bridge(b)
    /\ \A l \in Location :
            table[l] = IF l \in V /\ machine.regs[l].kind = "device"
                       THEN machine.regs[l].category ELSE NoDevice

WalkOK(s, f, table) ==
    \E R \in SUBSET Bus, V \in SUBSET Location : Walked(R, V, s, f, table)

\* The frame of the step may go on to g: it passes on its bus the locations of N.
Passes(g, N) ==
    /\ g \in Frame /\ FrameOK(g) /\ g.bus = top.bus
    /\ \A l \in Location : Past(top, l) => Past(g, l)
    /\ N = {l \in Location : l[1] = top.bus /\ ~Past(top, l) /\ Past(g, l)}

\* The frame of a step goes on to g, past the locations in N.
LEMMA Advance ==
    ASSUME StackOK(stack), stack # <<>>, NEW g, NEW N, Passes(g, N),
           NEW R \in SUBSET Bus, NEW V \in SUBSET Location, NEW f, Walked(R, V, stack, f, buses)
    PROVE  StackOK(Goto(g)) /\ Looked(R, V \cup N, Goto(g)) /\ N \cap V = {}
<1> SUFFICES ASSUME g \in Frame, FrameOK(g), g.bus = top.bus, N \in SUBSET Location,
                    \A l \in Location : Past(top, l) => Past(g, l),
                    \A l \in Location : l \in N <=> l[1] = top.bus /\ ~Past(top, l) /\ Past(g, l)
             PROVE  StackOK(Goto(g)) /\ Looked(R, V \cup N, Goto(g)) /\ N \cap V = {}
    BY Zenon DEF Passes
<1> DEFINE n == Len(stack)
           t == Goto(g)
<1>1. /\ stack \in Seq(Frame) /\ \A k \in 1 .. n : FrameOK(stack[k])
      /\ \A j, k \in 1 .. n : j < k => stack[j].bus < stack[k].bus
    BY DEF StackOK
<1>2. n \in Nat /\ n > 0 /\ top = stack[n]
    BY <1>1, TopIs DEF top
<1>3. /\ t \in Seq(Frame) /\ Len(t) = n /\ t[n] = g
      /\ \A k \in 1 .. n - 1 : t[k] = stack[k]
    BY <1>1, GotoIs
<1> HIDE DEF n, t
<1>4. n \in 1 .. n /\ \A k \in 1 .. n : k = n \/ k \in 1 .. n - 1
    BY <1>2
<1>5. \A k \in 1 .. n : t[k].bus = stack[k].bus /\ FrameOK(t[k])
    BY <1>1, <1>2, <1>3, <1>4
<1>6. StackOK(t)
    BY <1>1, <1>3, <1>5 DEF StackOK
<1>7. /\ \A k \in 1 .. n : stack[k].bus \in R
      /\ \A l \in Location :
            l \in V <=> l[1] \in R /\ \A k \in 1 .. n : stack[k].bus = l[1] => Past(stack[k], l)
    BY DEF Walked, Looked, n
<1>8. \A k \in 1 .. n : stack[k].bus = top.bus => k = n
    <2>1. ASSUME NEW k \in 1 .. n, stack[k].bus = top.bus, k # n
          PROVE  FALSE
        <3>1. k < n
            BY <1>2, <2>1
        <3>2. stack[k].bus < stack[n].bus
            BY <1>1, <1>4, <3>1
        <3>3. stack[n] \in Frame
            BY <1>1, <1>2, <1>4, ElementOfSeq DEF n
        <3>4. stack[n].bus \in Bus
            BY <3>3 DEF Frame
        <3>5. QED
            BY <1>2, <2>1, <3>2, <3>4 DEF Bus
    <2>2. QED
        BY <2>1
<1>9. ASSUME NEW l \in Location
      PROVE  l \in V \cup N <=>
                l[1] \in R /\ \A k \in 1 .. n : t[k].bus = l[1] => Past(t[k], l)
    <2>1. CASE l[1] = top.bus
        <3>1. l[1] \in R
            BY <1>2, <1>4, <1>7, <2>1
        <3>2. l \in V <=> Past(top, l)
            BY <1>2, <1>4, <1>7, <1>8, <2>1, <3>1
        <3>3. (\A k \in 1 .. n : t[k].bus = l[1] => Past(t[k], l)) <=> Past(g, l)
            BY <1>2, <1>3, <1>4, <1>5, <1>8, <2>1
        <3>4. QED
            BY <2>1, <3>1, <3>2, <3>3
    <2>2. CASE l[1] # top.bus
        <3>1. l \notin N
            BY <2>2
        <3>2. \A k \in 1 .. n : t[k].bus = l[1] => t[k] = stack[k]
            BY <1>2, <1>3, <1>4, <1>5, <2>2
        <3>3. QED
            BY <1>5, <1>7, <3>1, <3>2
    <2>3. QED
        BY <2>1, <2>2
<1>10. ASSUME NEW l \in N, l \in V
       PROVE  FALSE
    <2>1. l[1] = top.bus /\ ~Past(top, l)
        BY <1>10
    <2>2. QED
        BY <1>2, <1>4, <1>7, <1>10, <2>1
<1>11. Len(t) = n /\ \A k \in 1 .. n : t[k].bus \in R
    BY <1>3, <1>5, <1>7
<1>12. QED
    BY <1>3, <1>6, <1>9, <1>10, <1>11 DEF t, Looked

-----------------------------------------------------------------------------
(* Where a frame goes on to.                                               *)

\* A slot is left: what was passed is passed still, and what is passed now
\* is in that slot.
LEMMA NextSlotPasses ==
    ASSUME NEW f \in Frame, f.slot < MAX_SLOTS
    PROVE  /\ NextSlot(f) \in Frame /\ FrameOK(NextSlot(f)) /\ NextSlot(f).bus = f.bus
           /\ \A l \in Location : Past(f, l) => Past(NextSlot(f), l)
           /\ \A l \in Location : Past(NextSlot(f), l) /\ ~Past(f, l) =>
                l[2] = f.slot /\ l[3] >= f.func
           /\ \A l \in Location : l[2] = f.slot => Past(NextSlot(f), l)
<1> DEFINE g == NextSlot(f)
<1>1. /\ f.bus \in Bus /\ f.slot \in 0 .. MAX_SLOTS /\ f.func \in Func
      /\ f.functions \in 0 .. MAX_FUNCTIONS
    BY DEF Frame
<1>2. /\ g \in Frame
      /\ g.bus = f.bus /\ g.slot = f.slot + 1 /\ g.func = 0 /\ g.functions = 0
    <2>1. f.slot + 1 \in 0 .. MAX_SLOTS /\ 0 \in Func /\ 0 \in 0 .. MAX_FUNCTIONS
        BY <1>1, Sizes
    <2>2. g = [f EXCEPT !.slot = f.slot + 1, !.func = 0, !.functions = 0]
        BY DEF NextSlot
    <2> HIDE DEF g
    <2>3. QED
        BY <1>1, <2>1, <2>2 DEF Frame
<1> HIDE DEF g
<1>3. FrameOK(g)
    BY <1>2 DEF FrameOK
<1>4. ASSUME NEW l \in Location
      PROVE  /\ Past(f, l) => Past(g, l)
             /\ Past(g, l) /\ ~Past(f, l) => l[2] = f.slot /\ l[3] >= f.func
             /\ l[2] = f.slot => Past(g, l)
    <2>1. l[2] \in Int /\ l[3] \in Int /\ l[3] >= 0 /\ f.slot \in Int /\ f.func \in Int
        BY <1>1, Locations, Sizes DEF Slot, Func
    <2>2. QED
        BY <1>2, <2>1 DEF Past
<1>5. QED
    BY <1>2, <1>3, <1>4 DEF g

\* A function is left: of what is passed now only that function may be there.
LEMMA NextFunctionPasses ==
    ASSUME MachineOK(machine), NEW f \in Frame, FrameOK(f), f.functions > 0
    PROVE  /\ NextFunction(f) \in Frame /\ FrameOK(NextFunction(f))
           /\ NextFunction(f).bus = f.bus
           /\ \A l \in Location : Past(f, l) => Past(NextFunction(f), l)
           /\ <<f.bus, f.slot, f.func>> \in Location
           /\ ~Past(f, <<f.bus, f.slot, f.func>>)
           /\ Past(NextFunction(f), <<f.bus, f.slot, f.func>>)
           /\ \A l \in Location :
                l[1] = f.bus /\ Past(NextFunction(f), l) /\ ~Past(f, l) =>
                    l = <<f.bus, f.slot, f.func>> \/ machine.regs[l] = Absent
<1> DEFINE here0 == <<f.bus, f.slot, f.func>>
           g == NextFunction(f)
<1>1. /\ f.bus \in Bus /\ f.slot \in 0 .. MAX_SLOTS /\ f.func \in Func
      /\ f.functions \in 0 .. MAX_FUNCTIONS
    BY DEF Frame
<1>2. /\ f.slot < MAX_SLOTS /\ f.func < f.functions /\ Present(f.bus, f.slot, 0)
      /\ f.functions = IF IsMulti(f.bus, f.slot) THEN MAX_FUNCTIONS ELSE 1
    BY DEF FrameOK
<1>3. f.slot \in Slot /\ f.slot \in Int /\ f.func \in Int /\ f.func >= 0 /\ MAX_FUNCTIONS \in Nat
    BY <1>1, <1>2, Sizes DEF Slot, Func
<1>4. /\ here0 \in Location /\ here0[1] = f.bus /\ here0[2] = f.slot /\ here0[3] = f.func
    BY <1>1, <1>3, Locations
<1> HIDE DEF here0
<1>5. ~Past(f, here0)
    BY <1>3, <1>4 DEF Past
<1>6. ASSUME NEW l \in Location
      PROVE  l[2] \in Int /\ l[3] \in 0 .. MAX_FUNCTIONS - 1
             /\ (l[1] = f.bus /\ l[2] = f.slot /\ l[3] = f.func => l = here0)
    BY Locations DEF Slot, Func, here0
<1>7. CASE f.func + 1 < f.functions
    <2>1. g = [f EXCEPT !.func = @ + 1]
        BY <1>7, Zenon DEF NextFunction
    <2>2. f.func + 1 \in Func
        BY <1>1, <1>3, <1>7 DEF Func
    <2>3. /\ g \in Frame /\ g.bus = f.bus /\ g.slot = f.slot /\ g.func = f.func + 1
          /\ g.functions = f.functions
        BY <2>1, <2>2 DEF Frame
    <2> HIDE DEF g
    <2>4. FrameOK(g)
        BY <1>2, <1>7, <2>3 DEF FrameOK
    <2>5. ASSUME NEW l \in Location
          PROVE  /\ Past(f, l) => Past(g, l)
                 /\ l[1] = f.bus /\ Past(g, l) /\ ~Past(f, l) => l = here0
        BY <1>3, <1>6, <2>3 DEF Past
    <2>6. Past(g, here0)
        BY <1>3, <1>4, <2>3 DEF Past
    <2>7. QED
        BY <1>4, <1>5, <2>3, <2>4, <2>5, <2>6, Zenon DEF g, here0
<1>8. CASE ~(f.func + 1 < f.functions)
    <2>1. g = NextSlot(f)
        BY <1>8, Zenon DEF NextFunction
    <2>2. /\ g \in Frame /\ FrameOK(g) /\ g.bus = f.bus
          /\ \A l \in Location : Past(f, l) => Past(g, l)
          /\ \A l \in Location : Past(g, l) /\ ~Past(f, l) => l[2] = f.slot /\ l[3] >= f.func
          /\ Past(g, here0)
        BY <1>2, <1>4, <2>1, NextSlotPasses
    <2> HIDE DEF g
    <2>3. ASSUME NEW l \in Location, l[1] = f.bus, Past(g, l), ~Past(f, l), l # here0
          PROVE  machine.regs[l] = Absent
        <3>1. l[2] = f.slot /\ l[3] >= f.func
            BY <2>2, <2>3
        <3>2. l[3] > f.func
            BY <1>3, <1>6, <2>3, <3>1
        <3>3. f.functions = 1
            BY <1>1, <1>2, <1>3, <1>6, <1>8, <3>2
        <3>4. <<f.bus, f.slot>> \in machine.multi => MAX_FUNCTIONS = 1
            BY <1>2, <3>3 DEF IsMulti
        <3>5. l[3] > 0 /\ MAX_FUNCTIONS # 1
            BY <1>3, <1>6, <3>2
        <3>6. QED
            BY <2>3, <3>1, <3>4, <3>5, MachineFacts
    <2>4. QED
        BY <1>4, <1>5, <2>2, <2>3, Zenon DEF g, here0
<1>9. QED
    BY <1>7, <1>8

\* A slot is looked at: with no function 0 it has none at all.
LEMMA SlotPasses ==
    ASSUME MachineOK(machine), NEW f \in Frame, FrameOK(f), f.functions = 0, f.slot < MAX_SLOTS,
           NEW g, g = IF ~Present(f.bus, f.slot, 0) THEN NextSlot(f)
                      ELSE [f EXCEPT !.functions = IF IsMulti(f.bus, f.slot)
                                                   THEN MAX_FUNCTIONS ELSE 1]
    PROVE  /\ g \in Frame /\ FrameOK(g) /\ g.bus = f.bus
           /\ \A l \in Location : Past(f, l) => Past(g, l)
           /\ \A l \in Location :
                l[1] = f.bus /\ Past(g, l) /\ ~Past(f, l) => machine.regs[l] = Absent
<1>1. /\ f.bus \in Bus /\ f.slot \in 0 .. MAX_SLOTS /\ f.func = 0
    BY DEF Frame, FrameOK
<1>2. CASE ~Present(f.bus, f.slot, 0)
    <2>1. g = NextSlot(f)
        BY <1>2
    <2>2. /\ g \in Frame /\ FrameOK(g) /\ g.bus = f.bus
          /\ \A l \in Location : Past(f, l) => Past(g, l)
          /\ \A l \in Location : Past(g, l) /\ ~Past(f, l) => l[2] = f.slot
        BY <2>1, NextSlotPasses
    <2>3. ASSUME NEW l \in Location, l[1] = f.bus, l[2] = f.slot
          PROVE  machine.regs[l] = Absent
        <3>1. CASE l[3] > 0
            BY <1>2, <2>3, <3>1, MachineFacts
        <3>2. CASE ~(l[3] > 0)
            <4>1. l = <<f.bus, f.slot, 0>>
                BY <2>3, <3>2, Locations DEF Func
            <4>2. QED
                BY <1>2, <4>1 DEF Present, regs
        <3>3. QED
            BY <3>1, <3>2
    <2>4. QED
        BY <2>2, <2>3
<1>3. CASE Present(f.bus, f.slot, 0)
    <2> DEFINE many == IF IsMulti(f.bus, f.slot) THEN MAX_FUNCTIONS ELSE 1
    <2>1. many \in 0 .. MAX_FUNCTIONS /\ many > 0
        BY Sizes
    <2>2. many = IF IsMulti(f.bus, f.slot) THEN MAX_FUNCTIONS ELSE 1
        OBVIOUS
    <2>3. g = [f EXCEPT !.functions = many]
        BY <1>3
    <2> HIDE DEF many
    <2>4. /\ g \in Frame /\ g.bus = f.bus /\ g.slot = f.slot /\ g.func = f.func
          /\ g.functions = many
        BY <2>1, <2>3 DEF Frame
    <2>5. FrameOK(g)
        BY <1>1, <1>3, <2>1, <2>2, <2>4 DEF FrameOK
    <2>6. \A l \in Location : Past(g, l) <=> Past(f, l)
        BY <2>4 DEF Past
    <2>7. QED
        BY <2>4, <2>5, <2>6
<1>4. QED
    BY <1>2, <1>3

-----------------------------------------------------------------------------
(* What the steps do to the walk.                                          *)

\* What Advance says, for a walk in which the bridges passed lead nowhere.
LEMMA WalkGoesOn ==
    ASSUME MachineOK(machine), StackOK(stack), stack # <<>>, NEW g, NEW N, Passes(g, N),
           NEW f, WalkOK(stack, f, buses), NEW table,
           \A l \in N : machine.regs[l].kind # "bridge",
           \A l \in Location : table[l] =
                IF l \in N /\ machine.regs[l].kind = "device"
                THEN machine.regs[l].category ELSE buses[l]
    PROVE  StackOK(Goto(g)) /\ WalkOK(Goto(g), f, table)
<1>1. PICK R \in SUBSET Bus, V \in SUBSET Location : Walked(R, V, stack, f, buses)
    BY Zenon DEF WalkOK
<1>2. /\ g \in Frame /\ FrameOK(g) /\ g.bus = top.bus
      /\ \A l \in Location : Past(top, l) => Past(g, l)
      /\ N \in SUBSET Location
      /\ \A l \in Location : l \in N <=> l[1] = top.bus /\ ~Past(top, l) /\ Past(g, l)
    BY DEF Passes
<1> DEFINE t == Goto(g)
           W == V \cup N
<1>3. StackOK(t) /\ Looked(R, W, t) /\ N \cap V = {}
    BY <1>1, Advance, Zenon
<1>4. W \in SUBSET Location /\ \A l : l \in W <=> l \in V \/ l \in N
    BY <1>2
<1>5. \A l \in N, b \in Bus : machine.regs[l] # Bridge(b)
    BY <1>2, MachineFacts, RegistersAre
<1> HIDE DEF W, t
<1>6. ASSUME NEW b \in Bus
      PROVE  b \in R <=> HostWalked(b, f) \/ \E l \in W : machine.regs[l] = Bridge(b)
    <2>1. b \in R <=> HostWalked(b, f) \/ \E l \in V : machine.regs[l] = Bridge(b)
        BY <1>1 DEF Walked
    <2>2. (\E l \in V : machine.regs[l] = Bridge(b)) <=> (\E l \in W : machine.regs[l] = Bridge(b))
        BY <1>4, <1>5, Zenon
    <2>3. QED
        BY <2>1, <2>2
<1>7. ASSUME NEW l \in Location
      PROVE  table[l] = IF l \in W /\ machine.regs[l].kind = "device"
                        THEN machine.regs[l].category ELSE NoDevice
    <2>1. buses[l] = IF l \in V /\ machine.regs[l].kind = "device"
                     THEN machine.regs[l].category ELSE NoDevice
        BY <1>1 DEF Walked
    <2>2. table[l] = IF l \in N /\ machine.regs[l].kind = "device"
                     THEN machine.regs[l].category ELSE buses[l]
        OBVIOUS
    <2>3. QED
        BY <1>4, <2>1, <2>2
<1>8. Walked(R, W, t, f, table)
    BY <1>3, <1>6, <1>7, Zenon DEF Walked
<1>9. QED
    BY <1>3, <1>4, <1>8, Zenon DEF WalkOK, t

\* The call that passed a bridge calls pci_check_bus for the bus behind it.
LEMMA WalkGoesDown ==
    ASSUME MachineOK(machine), StackOK(stack), stack # <<>>, NEW g, NEW N, Passes(g, N),
           NEW f, WalkOK(stack, f, buses),
           NEW at \in Location, at \in N, NEW b \in Bus, machine.regs[at] = Bridge(b),
           \A l \in N : l # at => machine.regs[l] = Absent
    PROVE  /\ StackOK(Append(Goto(g), pci_check_bus(b)))
           /\ WalkOK(Append(Goto(g), pci_check_bus(b)), f, buses)
<1>1. PICK R \in SUBSET Bus, V \in SUBSET Location : Walked(R, V, stack, f, buses)
    BY Zenon DEF WalkOK
<1>2. /\ g \in Frame /\ FrameOK(g) /\ g.bus = top.bus
      /\ \A l \in Location : Past(top, l) => Past(g, l)
      /\ N \in SUBSET Location
      /\ \A l \in Location : l \in N <=> l[1] = top.bus /\ ~Past(top, l) /\ Past(g, l)
    BY DEF Passes
<1> DEFINE t == Goto(g)
           W == V \cup N
           n == Len(stack)
           call == pci_check_bus(b)
           u == Append(t, call)
           Q == R \cup {b}
<1>3. StackOK(t) /\ Looked(R, W, t) /\ N \cap V = {}
    BY <1>1, Advance, Zenon
<1>4. /\ W \in SUBSET Location /\ \A l : l \in W <=> l \in V \/ l \in N
      /\ Q \in SUBSET Bus /\ \A c : c \in Q <=> c \in R \/ c = b
    BY <1>2
<1>5. /\ b > at[1] /\ b \notin HostBuses(machine)
      /\ \A l \in Location : machine.regs[l] = Bridge(b) => l = at
    BY MachineFacts
<1>6. at[1] = top.bus /\ at \notin V /\ at \in W
    BY <1>2, <1>3, <1>4
<1>7. b \notin R
    <2>1. b \in R <=> HostWalked(b, f) \/ \E l \in V : machine.regs[l] = Bridge(b)
        BY <1>1 DEF Walked
    <2>2. ~HostWalked(b, f)
        BY <1>5 DEF HostWalked
    <2>3. QED
        BY <1>5, <1>6, <2>1, <2>2
<1>8. /\ stack \in Seq(Frame) /\ n \in Nat /\ n > 0 /\ t \in Seq(Frame) /\ Len(t) = n /\ t[n] = g
    BY <1>2, TopIs, GotoIs DEF StackOK
<1>9. /\ call \in Frame /\ call.bus = b /\ call.slot = 0 /\ call.func = 0 /\ call.functions = 0
      /\ FrameOK(call) /\ \A l \in Location : ~Past(call, l)
    <2>1. call \in Frame /\ call.bus = b /\ call.slot = 0 /\ call.func = 0 /\ call.functions = 0
        BY Sizes DEF pci_check_bus, Frame
    <2> HIDE DEF call
    <2>2. FrameOK(call)
        BY <2>1 DEF FrameOK
    <2>3. \A l \in Location : ~Past(call, l)
        BY <2>1, Locations DEF Past, Slot, Func
    <2>4. QED
        BY <2>1, <2>2, <2>3
<1>10. /\ u \in Seq(Frame) /\ Len(u) = n + 1 /\ u[n + 1] = call
       /\ \A k \in 1 .. n : u[k] = t[k]
    <2> HIDE DEF t, call, n
    <2>1. QED
        BY <1>8, <1>9, AppendProperties
<1> HIDE DEF t, W, n, call, u, Q
<1>11. /\ \A k \in 1 .. n : FrameOK(t[k]) /\ t[k].bus \in R
       /\ \A j, k \in 1 .. n : j < k => t[j].bus < t[k].bus
    BY <1>3, <1>8 DEF StackOK, Looked
<1>12. \A k \in 1 .. n : t[k].bus < b
    <2>1. n \in 1 .. n /\ t[n].bus < b
        BY <1>2, <1>5, <1>6, <1>8
    <2>2. ASSUME NEW k \in 1 .. n
          PROVE  t[k].bus < b
        <3>1. t[k].bus \in Int /\ t[n].bus \in Int /\ b \in Int
            <4>1. t[k] \in Frame /\ t[n] \in Frame
                BY <1>8, <2>1, <2>2, ElementOfSeq
            <4>2. QED
                BY <4>1 DEF Frame, Bus
        <3>2. k = n \/ t[k].bus < t[n].bus
            BY <1>8, <1>11, <2>1, <2>2
        <3>3. QED
            BY <2>1, <3>1, <3>2
    <2>3. QED
        BY <2>2
<1>13. \A k \in 1 .. n + 1 : k \in 1 .. n \/ k = n + 1
    BY <1>8
<1>14. /\ \A k \in 1 .. n + 1 : FrameOK(u[k]) /\ u[k].bus \in Q
       /\ \A j, k \in 1 .. n + 1 : j < k => u[j].bus < u[k].bus
    <2>1. \A k \in 1 .. n + 1 : FrameOK(u[k]) /\ u[k].bus \in Q
        BY <1>4, <1>9, <1>10, <1>11, <1>13
    <2>2. ASSUME NEW j \in 1 .. n + 1, NEW k \in 1 .. n + 1, j < k
          PROVE  u[j].bus < u[k].bus
        <3>1. j \in 1 .. n
            BY <1>8, <2>2
        <3>2. CASE k = n + 1
            BY <1>9, <1>10, <1>12, <3>1, <3>2
        <3>3. CASE k \in 1 .. n
            BY <1>10, <1>11, <2>2, <3>1, <3>3
        <3>4. QED
            BY <1>13, <3>2, <3>3
    <2>3. QED
        BY <2>1, <2>2
<1>15. StackOK(u)
    BY <1>10, <1>14 DEF StackOK
<1>16. ASSUME NEW l \in Location
       PROVE  l \in W <=> l[1] \in Q /\ \A k \in 1 .. n + 1 : u[k].bus = l[1] => Past(u[k], l)
    <2>1. l \in W <=> l[1] \in R /\ \A k \in 1 .. n : t[k].bus = l[1] => Past(t[k], l)
        BY <1>3, <1>8 DEF Looked
    <2>2. CASE l[1] = b
        <3>1. l \notin W
            BY <1>7, <2>1, <2>2
        <3>2. n + 1 \in 1 .. n + 1 /\ u[n + 1].bus = l[1] /\ ~Past(u[n + 1], l)
            BY <1>8, <1>9, <1>10, <2>2
        <3>3. QED
            BY <3>1, <3>2
    <2>3. CASE l[1] # b
        <3>1. l[1] \in Q <=> l[1] \in R
            BY <1>4, <2>3
        <3>2. (\A k \in 1 .. n + 1 : u[k].bus = l[1] => Past(u[k], l))
                <=> \A k \in 1 .. n : t[k].bus = l[1] => Past(t[k], l)
            <4>1. \A k \in 1 .. n : k \in 1 .. n + 1 /\ u[k] = t[k]
                BY <1>8, <1>10
            <4>2. u[n + 1].bus # l[1]
                BY <1>9, <1>10, <2>3
            <4>3. QED
                BY <1>13, <4>1, <4>2, Zenon
        <3>3. QED
            BY <2>1, <3>1, <3>2
    <2>4. QED
        BY <2>2, <2>3
<1>17. ASSUME NEW c \in Bus
       PROVE  c \in Q <=> HostWalked(c, f) \/ \E l \in W : machine.regs[l] = Bridge(c)
    <2>1. c \in R <=> HostWalked(c, f) \/ \E l \in V : machine.regs[l] = Bridge(c)
        BY <1>1 DEF Walked
    <2>2. CASE c = b
        BY <1>4, <1>6, <2>2
    <2>3. CASE c # b
        <3>1. \A l \in N : machine.regs[l] # Bridge(c)
            BY <2>3 DEF Absent, Bridge
        <3>2. (\E l \in V : machine.regs[l] = Bridge(c)) <=> (\E l \in W : machine.regs[l] = Bridge(c))
            BY <1>4, <3>1, Zenon
        <3>3. QED
            BY <1>4, <2>1, <2>3, <3>2
    <2>4. QED
        BY <2>2, <2>3
<1>18. ASSUME NEW l \in Location
       PROVE  buses[l] = IF l \in W /\ machine.regs[l].kind = "device"
                         THEN machine.regs[l].category ELSE NoDevice
    <2>1. buses[l] = IF l \in V /\ machine.regs[l].kind = "device"
                     THEN machine.regs[l].category ELSE NoDevice
        BY <1>1 DEF Walked
    <2>2. l \in N => machine.regs[l].kind # "device"
        BY DEF Absent, Bridge
    <2>3. QED
        BY <1>4, <2>1, <2>2
<1>19. Walked(Q, W, u, f, buses)
    BY <1>10, <1>14, <1>16, <1>17, <1>18 DEF Walked, Looked
<1>20. QED
    BY <1>4, <1>15, <1>19, Zenon DEF WalkOK, u, t, call

\* A call returns: it has passed every location of its bus.
LEMMA WalkGoesUp ==
    ASSUME StackOK(stack), stack # <<>>, top.slot = MAX_SLOTS,
           NEW f, WalkOK(stack, f, buses)
    PROVE  StackOK(Front(stack)) /\ WalkOK(Front(stack), f, buses)
<1>1. PICK R \in SUBSET Bus, V \in SUBSET Location : Walked(R, V, stack, f, buses)
    BY Zenon DEF WalkOK
<1> DEFINE n == Len(stack)
           t == Front(stack)
<1>2. /\ stack \in Seq(Frame) /\ n \in Nat /\ n > 0 /\ top = stack[n]
      /\ t \in Seq(Frame) /\ Len(t) = n - 1 /\ \A k \in 1 .. n - 1 : t[k] = stack[k]
    BY TopIs DEF top, StackOK
<1>3. /\ \A k \in 1 .. n : FrameOK(stack[k]) /\ stack[k].bus \in R
      /\ \A j, k \in 1 .. n : j < k => stack[j].bus < stack[k].bus
    BY <1>1 DEF StackOK, Walked, Looked
<1> HIDE DEF n, t
<1>4. \A k \in 1 .. n - 1 : k \in 1 .. n
    BY <1>2
<1>5. StackOK(t)
    BY <1>2, <1>3, <1>4 DEF StackOK
<1>6. \A l \in Location : Past(top, l)
    BY Locations, Sizes DEF Past, Slot
<1>7. ASSUME NEW l \in Location
      PROVE  l \in V <=> l[1] \in R /\ \A k \in 1 .. n - 1 : t[k].bus = l[1] => Past(t[k], l)
    <2>1. l \in V <=> l[1] \in R /\ \A k \in 1 .. n : stack[k].bus = l[1] => Past(stack[k], l)
        BY <1>1 DEF Walked, n, Looked
    <2>2. \A k \in 1 .. n : k = n \/ k \in 1 .. n - 1
        BY <1>2
    <2>3. (\A k \in 1 .. n : stack[k].bus = l[1] => Past(stack[k], l))
            <=> \A k \in 1 .. n - 1 : t[k].bus = l[1] => Past(t[k], l)
        BY <1>2, <1>4, <1>6, <2>2, Zenon
    <2>4. QED
        BY <2>1, <2>3
<1>8. \A k \in 1 .. n - 1 : t[k].bus \in R
    BY <1>2, <1>3, <1>4
<1>9. Walked(R, V, t, f, buses)
    BY <1>1, <1>2, <1>7, <1>8 DEF Walked, Looked
<1>10. QED
    BY <1>5, <1>9, Zenon DEF WalkOK, t


\* The constructor calls pci_check_bus for the bus b.
LEMMA WalkStarts ==
    ASSUME MachineOK(machine), stack = <<>>, NEW b \in Bus, NEW e, NEW f, WalkOK(stack, e, buses),
           b \in HostBuses(machine), ~HostWalked(b, e),
           \A c \in Bus : HostWalked(c, f) <=> HostWalked(c, e) \/ c = b
    PROVE  StackOK(<<pci_check_bus(b)>>) /\ WalkOK(<<pci_check_bus(b)>>, f, buses)
<1>1. PICK R \in SUBSET Bus, V \in SUBSET Location : Walked(R, V, stack, e, buses)
    BY Zenon DEF WalkOK
<1> DEFINE call == pci_check_bus(b)
           u == <<call>>
           Q == R \cup {b}
<1>2. Q \in SUBSET Bus /\ \A c : c \in Q <=> c \in R \/ c = b
    OBVIOUS
<1>3. /\ call \in Frame /\ call.bus = b /\ call.slot = 0 /\ call.func = 0 /\ call.functions = 0
    BY Sizes DEF pci_check_bus, Frame
<1> HIDE DEF call
<1>4. u \in Seq(Frame) /\ Len(u) = 1 /\ u[1] = call
    BY <1>3
<1> HIDE DEF u, Q
<1>5. FrameOK(call) /\ \A l \in Location : ~Past(call, l)
    <2>1. FrameOK(call)
        BY <1>3 DEF FrameOK
    <2>2. \A l \in Location : ~Past(call, l)
        BY <1>3, Locations DEF Past, Slot, Func
    <2>3. QED
        BY <2>1, <2>2
<1>6. \A k \in 1 .. 1 : k = 1
    OBVIOUS
<1>7. StackOK(u)
    <2>1. \A k \in 1 .. Len(u) : FrameOK(u[k])
        BY <1>4, <1>5, <1>6
    <2>2. \A j, k \in 1 .. Len(u) : j < k => u[j].bus < u[k].bus
        BY <1>4
    <2>3. QED
        BY <1>4, <2>1, <2>2 DEF StackOK
<1>8. Len(stack) = 0
    BY EmptySeq
<1>9. \A l \in Location : l \in V <=> l[1] \in R
    BY <1>1, <1>8 DEF Walked, Looked
<1>10. b \notin R
    <2>1. b \in R <=> HostWalked(b, e) \/ \E l \in V : machine.regs[l] = Bridge(b)
        BY <1>1 DEF Walked
    <2>2. \A l \in Location : machine.regs[l] # Bridge(b)
        BY MachineFacts
    <2>3. QED
        BY <2>1, <2>2
<1>11. Looked(Q, V, u)
    <2>1. \A k \in 1 .. Len(u) : u[k].bus \in Q
        BY <1>2, <1>3, <1>4, <1>6
    <2>2. ASSUME NEW l \in Location
          PROVE  l \in V <=> l[1] \in Q /\ \A k \in 1 .. Len(u) : u[k].bus = l[1] => Past(u[k], l)
        <3>1. 1 \in 1 .. Len(u)
            BY <1>4
        <3>2. QED
            BY <1>2, <1>3, <1>4, <1>5, <1>6, <1>9, <1>10, <3>1
    <2>3. QED
        BY <2>1, <2>2, Zenon DEF Looked
<1>12. \A c \in Bus : c \in Q <=> HostWalked(c, f) \/ \E l \in V : machine.regs[l] = Bridge(c)
    BY <1>1, <1>2 DEF Walked
<1>13. Walked(Q, V, u, f, buses)
    BY <1>1, <1>11, <1>12, Zenon DEF Walked
<1>14. QED
    BY <1>2, <1>7, <1>13, Zenon DEF WalkOK, u, call

\* What the constructor has called after function f of slot 0:0.
LEMMA HostsAre ==
    ASSUME MachineOK(machine)
    PROVE  /\ HostBuses(machine) \in SUBSET Bus
           /\ ~IsMulti(0, 0) => HostBuses(machine) = {0}
           /\ IsMulti(0, 0) => HostBuses(machine) = {f \in Func : Present(0, 0, f)}
           /\ \A b \in Bus : HostWalked(b, MAX_FUNCTIONS) <=> b \in HostBuses(machine)
           /\ \A b \in Bus : ~HostWalked(b, 0)
<1>1. IsMulti(0, 0) <=> <<0, 0>> \in machine.multi
    BY MachineFacts DEF IsMulti
<1>2. ~IsMulti(0, 0) => HostBuses(machine) = {0}
    BY <1>1 DEF HostBuses
<1>3. IsMulti(0, 0) => HostBuses(machine) = {f \in Func : Present(0, 0, f)}
    BY <1>1 DEF HostBuses, Present, regs
<1>4. HostBuses(machine) \in SUBSET Bus
    BY <1>2, <1>3, Sizes
<1>5. \A b \in Bus : HostWalked(b, MAX_FUNCTIONS) <=> b \in HostBuses(machine)
    <2>1. IsMulti(0, 0) => \A b \in HostBuses(machine) : b < MAX_FUNCTIONS
        BY <1>3, Sizes DEF Func
    <2>2. QED
        BY <2>1, Zenon DEF HostWalked
<1>6. \A b \in Bus : ~HostWalked(b, 0)
    BY Sizes DEF HostWalked, Bus
<1>7. QED
    BY <1>2, <1>3, <1>4, <1>5, <1>6
-----------------------------------------------------------------------------
(* The lists.                                                              *)

ListsOK(table, cs, ds) ==
    /\ cs \subseteq {c[1] : c \in Category}
    /\ ds \in [Category -> Seq(Location)]
    /\ \A c \in Category : c[1] \notin cs => ds[c] = <<>>
    /\ \A c \in Category :
        /\ \A i, j \in 1 .. Len(ds[c]) : ds[c][i] = ds[c][j] => i = j
        /\ \A l \in Location : (\E i \in 1 .. Len(ds[c]) : ds[c][i] = l) <=> table[l] = c

\* A device that is not in the table is entered in it and in one list.
LEMMA ListsGrow ==
    ASSUME buses \in [Location -> Category \cup {NoDevice}],
           ListsOK(buses, classes, devices),
           NEW at \in Location, NEW category \in Category, buses[at] = NoDevice
    PROVE  ListsOK([buses EXCEPT ![at] = category], classes \cup {category[1]},
                   [allocate_subclass(category[1]) EXCEPT ![category] = Append(@, at)])
<1> DEFINE table == [buses EXCEPT ![at] = category]
           cs == classes \cup {category[1]}
           ds == [allocate_subclass(category[1]) EXCEPT ![category] = Append(@, at)]
           list == devices[category]
           n == Len(list)
<1>1. /\ classes \subseteq {c[1] : c \in Category}
      /\ devices \in [Category -> Seq(Location)]
      /\ \A c \in Category : c[1] \notin classes => devices[c] = <<>>
      /\ \A c \in Category :
          /\ \A i, j \in 1 .. Len(devices[c]) : devices[c][i] = devices[c][j] => i = j
          /\ \A l \in Location : (\E i \in 1 .. Len(devices[c]) : devices[c][i] = l) <=> buses[l] = c
    BY DEF ListsOK
<1>2. allocate_subclass(category[1]) = devices
    BY <1>1 DEF allocate_subclass
<1>3. ds = [devices EXCEPT ![category] = Append(@, at)]
    BY <1>2
<1>4. /\ \A c \in Category : c # category => ds[c] = devices[c]
      /\ ds[category] = Append(list, at) /\ list \in Seq(Location)
    BY <1>1, <1>3
<1>5. /\ Append(list, at) \in Seq(Location) /\ n \in Nat /\ Len(Append(list, at)) = n + 1
      /\ Append(list, at)[n + 1] = at
      /\ \A k \in 1 .. n : Append(list, at)[k] = list[k]
    <2> HIDE DEF list
    <2>1. QED
        BY <1>4, AppendProperties, LenProperties
<1>6. ds \in [Category -> Seq(Location)]
    BY <1>1, <1>3, <1>5
<1>7. /\ table[at] = category
      /\ \A l \in Location : l # at => table[l] = buses[l]
      /\ \A c \in Category : c # NoDevice
    BY Sizes
<1>8. cs \subseteq {c[1] : c \in Category} /\ \A c \in Category : c[1] \notin cs => c[1] \notin classes /\ c # category
    BY <1>1
<1> HIDE DEF ds, table, list, n, cs
<1>9. \A c \in Category : c[1] \notin cs => ds[c] = <<>>
    BY <1>1, <1>4, <1>8
<1>10. ASSUME NEW c \in Category
       PROVE  /\ \A i, j \in 1 .. Len(ds[c]) : ds[c][i] = ds[c][j] => i = j
              /\ \A l \in Location : (\E i \in 1 .. Len(ds[c]) : ds[c][i] = l) <=> table[l] = c
    <2>1. CASE c # category
        <3>1. ds[c] = devices[c]
            BY <1>4, <2>1
        <3>2. \A l \in Location : table[l] = c <=> buses[l] = c
            BY <1>7, <2>1
        <3>3. QED
            <4>1. /\ \A i, j \in 1 .. Len(devices[c]) : devices[c][i] = devices[c][j] => i = j
                  /\ \A l \in Location : (\E i \in 1 .. Len(devices[c]) : devices[c][i] = l) <=> buses[l] = c
                BY <1>1, Zenon
            <4>2. QED
                BY <3>1, <3>2, <4>1
    <2>2. CASE c = category
        <3>1. /\ \A i, j \in 1 .. n : list[i] = list[j] => i = j
              /\ \A l \in Location : (\E i \in 1 .. n : list[i] = l) <=> buses[l] = c
            BY <1>1, <2>2 DEF list, n
        <3>2. /\ Len(ds[c]) = n + 1 /\ ds[c][n + 1] = at
              /\ \A k \in 1 .. n : ds[c][k] = list[k]
            BY <1>4, <1>5, <2>2
        <3>3. /\ \A k \in 1 .. n + 1 : k \in 1 .. n \/ k = n + 1
              /\ \A k \in 1 .. n : k \in 1 .. n + 1
              /\ n + 1 \in 1 .. n + 1
            BY <1>5
        <3>4. \A i \in 1 .. n : list[i] # at
            BY <1>7, <3>1
        <3>5. \A i, j \in 1 .. n + 1 : ds[c][i] = ds[c][j] => i = j
            BY <3>1, <3>2, <3>3, <3>4, ZenonT(30)
        <3>6. ASSUME NEW l \in Location
              PROVE  (\E i \in 1 .. n + 1 : ds[c][i] = l) <=> table[l] = c
            <4>1. (\E i \in 1 .. n + 1 : ds[c][i] = l) <=> l = at \/ \E i \in 1 .. n : list[i] = l
                BY <3>2, <3>3, Zenon
            <4>2. QED
                BY <1>7, <2>2, <3>1, <4>1
        <3>7. QED
            BY <3>2, <3>5, <3>6
    <2>3. QED
        BY <2>1, <2>2
<1>11. QED
    BY <1>6, <1>8, <1>9, <1>10, Zenon DEF ListsOK, ds, table, cs


\* What the innermost call has not passed is not in the table.
LEMMA NotYetLooked ==
    ASSUME StackOK(stack), stack # <<>>, NEW g, NEW N, Passes(g, N),
           NEW f, WalkOK(stack, f, buses)
    PROVE  \A l \in N : buses[l] = NoDevice
<1>1. PICK R \in SUBSET Bus, V \in SUBSET Location : Walked(R, V, stack, f, buses)
    BY Zenon DEF WalkOK
<1>2. N \cap V = {} /\ N \in SUBSET Location
    <2>1. N \cap V = {}
        BY <1>1, Advance, Zenon
    <2>2. QED
        BY <2>1 DEF Passes
<1>3. \A l \in Location : buses[l] = IF l \in V /\ machine.regs[l].kind = "device"
                                     THEN machine.regs[l].category ELSE NoDevice
    BY <1>1 DEF Walked
<1>4. QED
    BY <1>2, <1>3

-----------------------------------------------------------------------------
(* The inductive invariant: the stack and the locations it has passed are  *)
(* those of a walk of the tree of buses, the table has what was passed,    *)
(* the lists have what is in the table, and at the end nothing is left.    *)

Scanned ==
    /\ machine \in Machine /\ MachineOK(machine)
    /\ function \in 0 .. MAX_FUNCTIONS
    /\ StackOK(stack) /\ WalkOK(stack, function, buses)
    /\ buses \in [Location -> Category \cup {NoDevice}]
    /\ ListsOK(buses, classes, devices)
    /\ state \in {"scanning", "done", "panic"}
    /\ state = "done" => stack = <<>> /\ function = MAX_FUNCTIONS

LEMMA InitScanned ==
    ASSUME PciInit
    PROVE  Scanned
<1>1. MachineOK(machine)
    BY PciAssumption DEF PciInit, MachineOK
<1>2. stack \in Seq(Frame) /\ Len(stack) = 0
    BY DEF PciInit
<1>3. StackOK(stack)
    BY <1>2 DEF StackOK
<1>4. WalkOK(stack, function, buses)
    <2>1. \A b \in Bus : ~HostWalked(b, function)
        BY <1>1, HostsAre DEF PciInit
    <2>2. \A l \in Location : buses[l] = NoDevice
        BY DEF PciInit
    <2>3. Looked({}, {}, stack)
        BY <1>2 DEF Looked
    <2>4. Walked({}, {}, stack, function, buses)
        BY <2>1, <2>2, <2>3 DEF Walked
    <2>5. {} \in SUBSET Bus /\ {} \in SUBSET Location
        OBVIOUS
    <2>6. QED
        BY <2>4, <2>5, Zenon DEF WalkOK
<1>5. buses \in [Location -> Category \cup {NoDevice}] /\ \A l \in Location : buses[l] = NoDevice
    BY DEF PciInit
<1>6. ListsOK(buses, classes, devices)
    <2>1. /\ classes = {} /\ devices \in [Category -> Seq(Location)]
          /\ \A c \in Category : devices[c] = <<>> /\ Len(devices[c]) = 0
        BY DEF PciInit
    <2>2. \A c \in Category, l \in Location : buses[l] # c
        BY <1>5, Sizes
    <2>3. \A i : i \notin 1 .. 0
        OBVIOUS
    <2>4. \A c \in Category :
            /\ \A i, j \in 1 .. Len(devices[c]) : devices[c][i] = devices[c][j] => i = j
            /\ \A l \in Location : (\E i \in 1 .. Len(devices[c]) : devices[c][i] = l) <=> buses[l] = c
        BY <2>1, <2>2, <2>3
    <2>5. QED
        BY <2>1, <2>4 DEF ListsOK
<1>7. QED
    BY <1>1, <1>3, <1>4, <1>5, <1>6, Sizes DEF PciInit, Scanned

\* The walk of the next state is spoken of with the same registers.
LEMMA SameMachine ==
    ASSUME machine' = machine, MachineOK(machine),
           StackOK(stack'), WalkOK(stack', function', buses')
    PROVE  MachineOK(machine)' /\ StackOK(stack)' /\ WalkOK(stack, function, buses)'
<1>1. MachineOK(machine)'
    BY DEF MachineOK
<1>2. /\ \A b, s : IsMulti(b, s)' <=> IsMulti(b, s)
      /\ \A b, s, f : Present(b, s, f)' <=> Present(b, s, f)
    BY DEF IsMulti, Present, regs
<1>3. HostBuses(machine)' = HostBuses(machine)
    BY DEF HostBuses
<1>4. \A f : FrameOK(f)' <=> FrameOK(f)
    BY <1>2, Zenon DEF FrameOK
<1>5. StackOK(stack)'
    BY <1>4, Zenon DEF StackOK
<1>6. \A b : HostWalked(b, function)' <=> HostWalked(b, function')
    BY <1>2, <1>3, Zenon DEF HostWalked
<1>7. PICK R \in SUBSET Bus, V \in SUBSET Location : Walked(R, V, stack', function', buses')
    BY Zenon DEF WalkOK
<1>8. Looked(R, V, stack)'
    BY <1>7, Zenon DEF Walked, Looked
<1>9. \A b \in Bus : b \in R <=> HostWalked(b, function)' \/ \E l \in V : machine'.regs[l] = Bridge(b)
    BY <1>6, <1>7 DEF Walked
<1>10. \A l \in Location :
            buses'[l] = IF l \in V /\ machine'.regs[l].kind = "device"
                        THEN machine'.regs[l].category ELSE NoDevice
    BY <1>7 DEF Walked
<1>11. Walked(R, V, stack, function, buses)'
    BY <1>8, <1>9, <1>10, Zenon DEF Walked
<1>12. QED
    BY <1>1, <1>5, <1>7, <1>11, Zenon DEF WalkOK

\* One step of the constructor.
LEMMA StepScanned ==
    ASSUME Scanned, [PciNext]_pciVars
    PROVE  Scanned'
<1>1. /\ machine \in Machine /\ MachineOK(machine)
      /\ function \in 0 .. MAX_FUNCTIONS
      /\ StackOK(stack) /\ WalkOK(stack, function, buses)
      /\ buses \in [Location -> Category \cup {NoDevice}]
      /\ ListsOK(buses, classes, devices)
      /\ state \in {"scanning", "done", "panic"}
      /\ state = "done" => stack = <<>> /\ function = MAX_FUNCTIONS
    BY DEF Scanned
\* A step of the walk that leaves the table and the lists alone.
<1>2. ASSUME state = "scanning", UNCHANGED <<machine, buses, classes, devices, state>>,
             function' \in 0 .. MAX_FUNCTIONS,
             StackOK(stack'), WalkOK(stack', function', buses)
      PROVE  Scanned'
    <2>1. WalkOK(stack', function', buses')
        BY <1>2, Zenon
    <2>2. MachineOK(machine)' /\ StackOK(stack)' /\ WalkOK(stack, function, buses)'
        BY <1>1, <1>2, <2>1, SameMachine, Zenon
    <2>3. ListsOK(buses, classes, devices)'
        BY <1>1, <1>2 DEF ListsOK
    <2>4. /\ machine' = machine /\ buses' = buses /\ state' = "scanning" /\ state' # "done"
          /\ state' \in {"scanning", "done", "panic"}
        BY <1>2
    <2>5. machine' \in Machine /\ buses' \in [Location -> Category \cup {NoDevice}]
        BY <1>1, <2>4
    <2>6. QED
        BY <1>2, <2>2, <2>3, <2>4, <2>5, Zenon DEF Scanned
\* A frame that can be left, and what its call is at.
<1>3. ASSUME stack # <<>>
      PROVE  top \in Frame /\ FrameOK(top)
    <2>1. stack \in Seq(Frame) /\ \A k \in 1 .. Len(stack) : FrameOK(stack[k])
        BY <1>1 DEF StackOK
    <2>2. top \in Frame /\ top = stack[Len(stack)] /\ Len(stack) \in 1 .. Len(stack)
        BY <1>3, <2>1, TopIs DEF top
    <2>3. QED
        BY <2>1, <2>2
<1>4. ASSUME AtFunction, NEW g, g = NextFunction(top), NEW at, at = <<top.bus, top.slot, top.func>>,
             NEW N, N = {l \in Location : l[1] = top.bus /\ ~Past(top, l) /\ Past(g, l)}
      PROVE  /\ Passes(g, N) /\ at \in Location /\ at \in N
             /\ \A l \in N : l # at => machine.regs[l] = Absent
             /\ machine.regs[at] = here /\ here \in Registers
    <2>1. state = "scanning" /\ stack # <<>> /\ top.functions > 0
        BY <1>4 DEF AtFunction
    <2>2. /\ g \in Frame /\ FrameOK(g) /\ g.bus = top.bus
          /\ \A l \in Location : Past(top, l) => Past(g, l)
          /\ at \in Location /\ ~Past(top, at) /\ Past(g, at)
          /\ \A l \in Location : l[1] = top.bus /\ Past(g, l) /\ ~Past(top, l) =>
                l = at \/ machine.regs[l] = Absent
        BY <1>1, <1>3, <1>4, <2>1, NextFunctionPasses
    <2>3. at[1] = top.bus
        BY <1>4
    <2>4. Passes(g, N)
        BY <1>4, <2>2, Zenon DEF Passes
    <2>5. at \in N /\ \A l \in N : l # at => machine.regs[l] = Absent
        BY <1>4, <2>2, <2>3
    <2>6. machine.regs[at] = here /\ here \in Registers
        BY <1>1, <1>4, <2>2, MachineFacts DEF here, regs
    <2>7. QED
        BY <2>2, <2>4, <2>5, <2>6
<1>5. CASE HostBus
    <2>1. /\ state = "scanning" /\ stack = <<>> /\ function < MAX_FUNCTIONS
          /\ UNCHANGED <<machine, buses, classes, devices, state>>
        BY <1>5 DEF HostBus
    <2>2. /\ HostBuses(machine) \in SUBSET Bus
          /\ ~IsMulti(0, 0) => HostBuses(machine) = {0}
          /\ IsMulti(0, 0) => HostBuses(machine) = {f \in Func : Present(0, 0, f)}
        BY <1>1, HostsAre
    <2>3. function \in Func /\ function + 1 \in 0 .. MAX_FUNCTIONS /\ function \in Bus
        BY <1>1, <2>1, Sizes DEF Func
    <2>4. CASE IsMulti(0, 0)
        <3>1. function' = function + 1
            BY <1>5, <2>4 DEF HostBus
        <3>2. \A b \in Bus : HostWalked(b, function) <=> b \in HostBuses(machine) /\ b < function
            BY <2>4, Zenon DEF HostWalked
        <3>3. \A b \in Bus : HostWalked(b, function + 1) <=> b \in HostBuses(machine) /\ b < function + 1
            BY <2>4, Zenon DEF HostWalked
        <3>4. CASE Present(0, 0, function)
            <4>1. stack' = <<pci_check_bus(function)>>
                BY <1>5, <2>4, <3>4 DEF HostBus
            <4>2. function \in HostBuses(machine)
                BY <2>2, <2>3, <2>4, <3>4
            <4>3. /\ ~HostWalked(function, function)
                  /\ \A c \in Bus : HostWalked(c, function + 1) <=> HostWalked(c, function) \/ c = function
                BY <1>1, <2>3, <3>2, <3>3, <4>2 DEF Bus
            <4>4. StackOK(stack') /\ WalkOK(stack', function + 1, buses)
                BY <1>1, <2>1, <2>3, <4>1, <4>2, <4>3, WalkStarts, Zenon
            <4>5. QED
                BY <1>2, <2>1, <2>3, <3>1, <4>4, Zenon
        <3>5. CASE ~Present(0, 0, function)
            <4>1. stack' = stack
                BY <1>5, <2>1, <2>4, <3>5 DEF HostBus
            <4>2. function \notin HostBuses(machine)
                BY <2>2, <2>3, <2>4, <3>5
            <4>3. \A c \in Bus : HostWalked(c, function + 1) <=> HostWalked(c, function)
                BY <1>1, <2>3, <3>2, <3>3, <4>2 DEF Bus
            <4>4. WalkOK(stack, function + 1, buses)
                BY <1>1, <4>3, ZenonT(30) DEF WalkOK, Walked
            <4>5. QED
                BY <1>1, <1>2, <2>1, <2>3, <3>1, <4>1, <4>4, Zenon
        <3>6. QED
            BY <3>4, <3>5
    <2>5. CASE ~IsMulti(0, 0)
        <3>1. function' = MAX_FUNCTIONS /\ stack' = <<pci_check_bus(0)>>
            BY <1>5, <2>5 DEF HostBus
        <3>2. 0 \in HostBuses(machine) /\ \A b \in HostBuses(machine) : b = 0
            BY <2>2, <2>5
        <3>3. /\ ~HostWalked(0, function)
              /\ \A c \in Bus : HostWalked(c, MAX_FUNCTIONS) <=> HostWalked(c, function) \/ c = 0
            BY <2>1, <2>5, <3>2, Sizes DEF HostWalked
        <3>4. StackOK(stack') /\ WalkOK(stack', MAX_FUNCTIONS, buses)
            BY <1>1, <2>1, <3>1, <3>2, <3>3, Sizes, WalkStarts, Zenon
        <3>5. MAX_FUNCTIONS \in 0 .. MAX_FUNCTIONS
            BY Sizes
        <3>6. QED
            BY <1>2, <2>1, <3>1, <3>4, <3>5, Zenon
    <2>6. QED
        BY <2>4, <2>5
<1>6. CASE Finished
    <2>1. /\ stack = <<>> /\ function = MAX_FUNCTIONS /\ state' = "done"
          /\ UNCHANGED <<machine, function, stack, buses, classes, devices>>
        BY <1>6 DEF Finished
    <2>2. StackOK(stack') /\ WalkOK(stack', function', buses')
        BY <1>1, <2>1
    <2>3. MachineOK(machine)' /\ StackOK(stack)' /\ WalkOK(stack, function, buses)'
        BY <1>1, <2>1, <2>2, SameMachine, Zenon
    <2>4. ListsOK(buses, classes, devices)'
        BY <1>1, <2>1 DEF ListsOK
    <2>5. QED
        BY <1>1, <2>1, <2>3, <2>4 DEF Scanned
<1>7. CASE BusChecked
    <2>1. /\ state = "scanning" /\ stack # <<>> /\ top.slot = MAX_SLOTS /\ stack' = Front(stack)
          /\ UNCHANGED <<machine, function, buses, classes, devices, state>>
        BY <1>7 DEF BusChecked
    <2>2. StackOK(stack') /\ WalkOK(stack', function', buses)
        BY <1>1, <2>1, WalkGoesUp
    <2>3. QED
        BY <1>1, <1>2, <2>1, <2>2
<1>8. CASE pci_check_device
    <2> DEFINE g == IF ~Present(top.bus, top.slot, 0) THEN NextSlot(top)
                    ELSE [top EXCEPT !.functions = IF IsMulti(top.bus, top.slot)
                                                   THEN MAX_FUNCTIONS ELSE 1]
               N == {l \in Location : l[1] = top.bus /\ ~Past(top, l) /\ Past(g, l)}
    <2>1. /\ state = "scanning" /\ stack # <<>> /\ top.slot < MAX_SLOTS /\ top.functions = 0
          /\ stack' = Goto(g)
          /\ UNCHANGED <<machine, function, buses, classes, devices, state>>
        BY <1>8 DEF pci_check_device
    <2>2. /\ g \in Frame /\ FrameOK(g) /\ g.bus = top.bus
          /\ \A l \in Location : Past(top, l) => Past(g, l)
          /\ \A l \in Location :
                l[1] = top.bus /\ Past(g, l) /\ ~Past(top, l) => machine.regs[l] = Absent
        <3>1. top \in Frame /\ FrameOK(top)
            BY <1>3, <2>1
        <3>2. g = IF ~Present(top.bus, top.slot, 0) THEN NextSlot(top)
                  ELSE [top EXCEPT !.functions = IF IsMulti(top.bus, top.slot)
                                                 THEN MAX_FUNCTIONS ELSE 1]
            OBVIOUS
        <3> HIDE DEF g
        <3>3. QED
            BY <1>1, <2>1, <3>1, <3>2, SlotPasses
    <2> HIDE DEF g
    <2>3. Passes(g, N)
        BY <2>2, Zenon DEF Passes
    <2>4. \A l \in N : machine.regs[l].kind # "bridge" /\ machine.regs[l].kind # "device"
        BY <2>2 DEF Absent
    <2> HIDE DEF N
    <2>5. \A l \in Location : buses[l] = IF l \in N /\ machine.regs[l].kind = "device"
                                         THEN machine.regs[l].category ELSE buses[l]
        BY <2>4
    <2>6. StackOK(stack') /\ WalkOK(stack', function', buses)
        BY <1>1, <2>1, <2>3, <2>4, <2>5, WalkGoesOn
    <2>7. QED
        BY <1>1, <1>2, <2>1, <2>6
<1>9. CASE FunctionAbsent
    <2> DEFINE g == NextFunction(top)
               at == <<top.bus, top.slot, top.func>>
               N == {l \in Location : l[1] = top.bus /\ ~Past(top, l) /\ Past(g, l)}
    <2>1. /\ AtFunction /\ here = Absent /\ state = "scanning" /\ stack # <<>> /\ stack' = Goto(g)
          /\ UNCHANGED <<machine, function, buses, classes, devices, state>>
        BY <1>9 DEF FunctionAbsent, AtFunction
    <2>2. /\ Passes(g, N) /\ at \in Location /\ at \in N
          /\ \A l \in N : l # at => machine.regs[l] = Absent
          /\ machine.regs[at] = here /\ here \in Registers
        BY <1>4, <2>1, Zenon
    <2> HIDE DEF N, g, at
    <2>3. \A l \in N : machine.regs[l].kind # "bridge" /\ machine.regs[l].kind # "device"
        BY <2>1, <2>2 DEF Absent
    <2>4. \A l \in Location : buses[l] = IF l \in N /\ machine.regs[l].kind = "device"
                                         THEN machine.regs[l].category ELSE buses[l]
        BY <2>3
    <2>5. StackOK(stack') /\ WalkOK(stack', function', buses)
        BY <1>1, <2>1, <2>2, <2>3, <2>4, WalkGoesOn
    <2>6. QED
        BY <1>1, <1>2, <2>1, <2>5
<1>10. CASE FunctionIsBridge
    <2> DEFINE g == NextFunction(top)
               at == <<top.bus, top.slot, top.func>>
               N == {l \in Location : l[1] = top.bus /\ ~Past(top, l) /\ Past(g, l)}
               b == here.secondary
    <2>1. /\ AtFunction /\ here.kind = "bridge" /\ state = "scanning" /\ stack # <<>>
          /\ stack' = Append(Goto(g), pci_check_bus(b))
          /\ UNCHANGED <<machine, function, buses, classes, devices, state>>
        BY <1>10 DEF FunctionIsBridge, AtFunction
    <2>2. /\ Passes(g, N) /\ at \in Location /\ at \in N
          /\ \A l \in N : l # at => machine.regs[l] = Absent
          /\ machine.regs[at] = here /\ here \in Registers
        BY <1>4, <2>1, Zenon
    <2>3. b \in Bus /\ machine.regs[at] = Bridge(b)
        BY <2>1, <2>2, RegistersAre
    <2> HIDE DEF N, g, at, b
    <2>4. StackOK(stack') /\ WalkOK(stack', function', buses)
        BY <1>1, <2>1, <2>2, <2>3, WalkGoesDown
    <2>5. QED
        BY <1>1, <1>2, <2>1, <2>4
<1>11. CASE FunctionIsDevice
    <2> DEFINE g == NextFunction(top)
               at == <<top.bus, top.slot, top.func>>
               N == {l \in Location : l[1] = top.bus /\ ~Past(top, l) /\ Past(g, l)}
               c == here.category
               table == [buses EXCEPT ![at] = c]
    <2>1. /\ AtFunction /\ here.kind = "device" /\ state = "scanning" /\ stack # <<>>
          /\ stack' = Goto(g) /\ buses' = table /\ classes' = classes \cup {c[1]}
          /\ devices' = [allocate_subclass(c[1]) EXCEPT ![c] = Append(@, at)]
          /\ UNCHANGED <<machine, function, state>>
        BY <1>11 DEF FunctionIsDevice, AtFunction
    <2>2. /\ Passes(g, N) /\ at \in Location /\ at \in N
          /\ \A l \in N : l # at => machine.regs[l] = Absent
          /\ machine.regs[at] = here /\ here \in Registers
        BY <1>4, <2>1, Zenon
    <2>3. c \in Category
        BY <2>1, <2>2, RegistersAre
    <2> HIDE DEF N, g, at, c
    <2>4. /\ \A l \in N : l # at => machine.regs[l].kind # "bridge" /\ machine.regs[l].kind # "device"
          /\ machine.regs[at].kind = "device" /\ machine.regs[at].category = c
        BY <2>1, <2>2 DEF Absent, c
    <2>5. /\ table \in [Location -> Category \cup {NoDevice}]
          /\ \A l \in Location : table[l] = IF l = at THEN c ELSE buses[l]
        BY <1>1, <2>2, <2>3
    <2> HIDE DEF table
    <2>6. \A l \in Location : table[l] = IF l \in N /\ machine.regs[l].kind = "device"
                                         THEN machine.regs[l].category ELSE buses[l]
        BY <2>2, <2>4, <2>5
    <2>7. \A l \in N : machine.regs[l].kind # "bridge"
        BY <2>4
    <2>8. StackOK(stack') /\ WalkOK(stack', function', buses')
        BY <1>1, <2>1, <2>2, <2>6, <2>7, WalkGoesOn
    <2>9. buses[at] = NoDevice
        BY <1>1, <2>1, <2>2, NotYetLooked
    <2>10. ListsOK(buses', classes', devices')
        BY <1>1, <2>1, <2>2, <2>3, <2>9, ListsGrow DEF table
    <2>11. ListsOK(buses, classes, devices)'
        BY <2>10 DEF ListsOK
    <2>12. MachineOK(machine)' /\ StackOK(stack)' /\ WalkOK(stack, function, buses)'
        BY <1>1, <2>1, <2>8, SameMachine, Zenon
    <2>13. state' = "scanning" /\ state' # "done" /\ state' \in {"scanning", "done", "panic"}
        BY <2>1
    <2>14. machine' = machine /\ function' = function /\ buses' = table
        BY <2>1
    <2>15. machine' \in Machine /\ function' \in 0 .. MAX_FUNCTIONS
           /\ buses' \in [Location -> Category \cup {NoDevice}]
        BY <1>1, <2>5, <2>14
    <2>16. QED
        BY <2>11, <2>12, <2>13, <2>15, Zenon DEF Scanned
<1>12. CASE OutOfMemory
    <2>1. state' = "panic" /\ UNCHANGED <<machine, function, stack, buses, classes, devices>>
        BY <1>12 DEF OutOfMemory
    <2>2. StackOK(stack') /\ WalkOK(stack', function', buses')
        BY <1>1, <2>1
    <2>3. MachineOK(machine)' /\ StackOK(stack)' /\ WalkOK(stack, function, buses)'
        BY <1>1, <2>1, <2>2, SameMachine, Zenon
    <2>4. ListsOK(buses, classes, devices)'
        BY <1>1, <2>1 DEF ListsOK
    <2>5. QED
        BY <1>1, <2>1, <2>3, <2>4 DEF Scanned
<1>13. CASE UNCHANGED pciVars
    <2>1. UNCHANGED <<machine, function, stack, buses, classes, devices, state>>
        BY <1>13 DEF pciVars
    <2>2. StackOK(stack') /\ WalkOK(stack', function', buses')
        BY <1>1, <2>1
    <2>3. MachineOK(machine)' /\ StackOK(stack)' /\ WalkOK(stack, function, buses)'
        BY <1>1, <2>1, <2>2, SameMachine, Zenon
    <2>4. ListsOK(buses, classes, devices)'
        BY <1>1, <2>1 DEF ListsOK
    <2>5. QED
        BY <1>1, <2>1, <2>3, <2>4 DEF Scanned
<1>14. QED
    BY <1>5, <1>6, <1>7, <1>8, <1>9, <1>10, <1>11, <1>12, <1>13, Zenon DEF PciNext, Stopped


LEMMA ScannedAlways == PciSpec => []Scanned
<1>1. PciInit => Scanned
    BY InitScanned
<1>2. Scanned /\ [PciNext]_pciVars => Scanned'
    BY StepScanned
<1>3. QED
    BY <1>1, <1>2, PTL DEF PciSpec
-----------------------------------------------------------------------------
(* What the invariant says.                                                *)

\* The buses of the calls grow, so there are no more calls than buses.
LEMMA StackIsShallow ==
    ASSUME StackOK(stack)
    PROVE  Len(stack) <= MAX_BUSES
<1> DEFINE n == Len(stack)
           S == {m \in Nat : m + 1 <= n => stack[m + 1].bus >= m}
<1>1. /\ stack \in Seq(Frame) /\ n \in Nat
      /\ \A j, k \in 1 .. n : j < k => stack[j].bus < stack[k].bus
    BY LenProperties DEF StackOK
<1>2. \A k \in 1 .. n : stack[k].bus \in Bus
    <2>1. \A k \in 1 .. n : stack[k] \in Frame
        BY <1>1, ElementOfSeq
    <2>2. QED
        BY <2>1 DEF Frame
<1> HIDE DEF n
<1>3. \A k \in 1 .. n : stack[k].bus \in Int /\ stack[k].bus >= 0 /\ stack[k].bus < MAX_BUSES
    BY <1>2, Sizes DEF Bus
<1>4. 0 \in S
    BY <1>1, <1>3
<1>5. ASSUME NEW m \in Nat, m \in S
      PROVE  m + 1 \in S
    <2>1. SUFFICES ASSUME (m + 1) + 1 <= n
                   PROVE  stack[(m + 1) + 1].bus >= m + 1
        OBVIOUS
    <2>2. m + 1 \in 1 .. n /\ (m + 1) + 1 \in 1 .. n
        BY <1>1, <2>1
    <2>3. stack[m + 1].bus >= m
        BY <1>5, <2>2
    <2>4. stack[m + 1].bus < stack[(m + 1) + 1].bus
        BY <1>1, <2>2
    <2>5. QED
        BY <1>3, <2>2, <2>3, <2>4
<1> HIDE DEF S
<1>6. Nat \subseteq S
    BY <1>4, <1>5, StepInduction
<1>7. CASE n = 0
    BY <1>7, Sizes DEF n
<1>8. CASE n > 0
    <2>1. n - 1 \in S /\ (n - 1) + 1 = n /\ n \in 1 .. n
        BY <1>1, <1>6, <1>8
    <2>2. stack[n].bus >= n - 1
        BY <2>1 DEF S
    <2>3. QED
        BY <1>1, <1>3, <2>1, <2>2, Sizes DEF n
<1>9. QED
    BY <1>1, <1>7, <1>8

LEMMA ScannedIsSound ==
    ASSUME Scanned
    PROVE  ScanInvariant
<1>1. /\ function \in 0 .. MAX_FUNCTIONS /\ StackOK(stack)
      /\ buses \in [Location -> Category \cup {NoDevice}]
      /\ ListsOK(buses, classes, devices)
      /\ state \in {"scanning", "done", "panic"}
    BY DEF Scanned
<1>2. /\ stack \in Seq(Frame)
      /\ \A j, k \in 1 .. Len(stack) : j < k => stack[j].bus < stack[k].bus
    BY <1>1 DEF StackOK
<1>3. /\ classes \subseteq {c[1] : c \in Category}
      /\ \A c \in Category : devices[c] \in Seq(Location)
    BY <1>1 DEF ListsOK
<1>4. PciTypeOK
    BY <1>1, <1>2, <1>3, StackIsShallow, Zenon DEF PciTypeOK
<1>5. TableMatchesLists
    <2>1. ASSUME NEW c \in Category
          PROVE  /\ \A i, j \in DOMAIN devices[c] : devices[c][i] = devices[c][j] => i = j
                 /\ ToSet(devices[c]) = {l \in Location : buses[l] = c}
        <3>1. /\ \A i, j \in 1 .. Len(devices[c]) : devices[c][i] = devices[c][j] => i = j
              /\ \A l \in Location : (\E i \in 1 .. Len(devices[c]) : devices[c][i] = l) <=> buses[l] = c
            BY <1>1, Zenon DEF ListsOK
        <3>2. DOMAIN devices[c] = 1 .. Len(devices[c])
            BY <1>3, LenProperties
        <3>3. \A i \in 1 .. Len(devices[c]) : devices[c][i] \in Location
            BY <1>3, ElementOfSeq
        <3>4. ToSet(devices[c]) = {l \in Location : buses[l] = c}
            <4>1. ToSet(devices[c]) = {devices[c][i] : i \in 1 .. Len(devices[c])}
                BY <3>2 DEF ToSet
            <4>2. QED
                BY <3>1, <3>3, <4>1
        <3>5. QED
            BY <3>1, <3>2, <3>4, Zenon
    <2>2. QED
        BY <2>1, Zenon DEF TableMatchesLists
<1>6. NoBusInsideItself
    <2>1. \A k \in 1 .. Len(stack) : stack[k].bus \in Int
        <3>1. \A k \in 1 .. Len(stack) : stack[k] \in Frame
            BY <1>2, ElementOfSeq
        <3>2. QED
            BY <3>1 DEF Frame, Bus
    <2>2. DOMAIN stack = 1 .. Len(stack)
        BY <1>2, LenProperties
    <2>3. QED
        BY <1>2, <2>1, <2>2 DEF NoBusInsideItself
<1>7. QED
    BY <1>4, <1>5, <1>6, Zenon DEF ScanInvariant

\* At the end every bus that has anything on it was scanned: that of a host
\* bridge by the constructor; another one because the bridge to it is on a
\* bus with a smaller number, of which the same is true.
LEMMA ScannedIsComplete ==
    ASSUME Scanned
    PROVE  ScanComplete
<1>1. SUFFICES ASSUME state = "done"
               PROVE  \A l \in Location :
                        buses[l] = IF machine.regs[l].kind = "device" THEN machine.regs[l].category
                                                                      ELSE NoDevice
    BY Zenon DEF ScanComplete
<1>2. MachineOK(machine) /\ stack = <<>> /\ function = MAX_FUNCTIONS /\ WalkOK(stack, function, buses)
    BY <1>1 DEF Scanned
<1>3. PICK R \in SUBSET Bus, V \in SUBSET Location : Walked(R, V, stack, function, buses)
    BY <1>2, Zenon DEF WalkOK
<1>4. \A l \in Location : l \in V <=> l[1] \in R
    <2>1. Len(stack) = 0
        BY <1>2, EmptySeq
    <2>2. QED
        BY <1>3, <2>1 DEF Walked, Looked
<1>5. \A b \in Bus : b \in R <=> b \in HostBuses(machine) \/ \E l \in V : machine.regs[l] = Bridge(b)
    <2>1. \A b \in Bus : b \in R <=> HostWalked(b, function) \/ \E l \in V : machine.regs[l] = Bridge(b)
        BY <1>3 DEF Walked
    <2>2. \A b \in Bus : HostWalked(b, function) <=> b \in HostBuses(machine)
        BY <1>2, HostsAre
    <2>3. QED
        BY <2>1, <2>2
<1> DEFINE S == {n \in Nat : \A l \in Location : l[1] = n /\ machine.regs[l] # Absent => n \in R}
<1>6. ASSUME NEW n \in Nat, \A k \in 0 .. n - 1 : k \in S
      PROVE  n \in S
    <2>1. SUFFICES ASSUME NEW l \in Location, l[1] = n, machine.regs[l] # Absent
                   PROVE  n \in R
        OBVIOUS
    <2>2. n \in Bus
        BY <2>1, Locations
    <2>3. CASE n \in HostBuses(machine)
        BY <1>5, <2>2, <2>3
    <2>4. CASE n \notin HostBuses(machine)
        <3>1. PICK k \in Location : machine.regs[k] = Bridge(n)
            BY <1>2, <2>1, <2>4, MachineFacts
        <3>2. n > k[1] /\ k[1] \in Bus
            BY <1>2, <2>2, <3>1, MachineFacts, Locations
        <3>3. k[1] \in 0 .. n - 1
            BY <3>2 DEF Bus
        <3>4. machine.regs[k] # Absent
            BY <3>1 DEF Bridge, Absent
        <3>5. k[1] \in R
            BY <1>6, <3>3, <3>4
        <3>6. k \in V
            BY <1>4, <3>5
        <3>7. QED
            BY <1>5, <2>2, <3>1, <3>6
    <2>5. QED
        BY <2>3, <2>4
<1> HIDE DEF S
<1>7. Nat \subseteq S
    BY <1>6, StrongInduction
<1>8. ASSUME NEW l \in Location, machine.regs[l].kind = "device"
      PROVE  l \in V
    <2>1. machine.regs[l] # Absent
        BY <1>8 DEF Absent
    <2>2. l[1] \in S
        BY <1>7, Locations DEF Bus
    <2>3. QED
        BY <1>4, <2>1, <2>2 DEF S
<1>9. \A l \in Location : buses[l] = IF l \in V /\ machine.regs[l].kind = "device"
                                     THEN machine.regs[l].category ELSE NoDevice
    BY <1>3 DEF Walked
<1>10. QED
    BY <1>8, <1>9

\* The walk of drivers/pci.c keeps its promises at every moment: its recursion
\* goes down the tree of buses and never into a bus it is in, it is no deeper
\* than there are buses, and a device it has found is in the table and once on
\* the list of its class, where no other device is.
THEOREM ScanStaysSound == PciSpec => []ScanInvariant
<1>1. Scanned => ScanInvariant
    BY ScannedIsSound
<1>2. QED
    BY <1>1, ScannedAlways, PTL

\* When the constructor of drivers/pci.c returns, it has found every function
\* of the machine that is not a bridge, behind any number of bridges, and
\* nothing else.
THEOREM ScanFindsAll == PciSpec => []ScanComplete
<1>1. Scanned => ScanComplete
    BY ScannedIsComplete
<1>2. QED
    BY <1>1, ScannedAlways, PTL
-----------------------------------------------------------------------------
(* KvmClock *)

-----------------------------------------------------------------------------
(* Words.                                                                  *)

LEMMA PowersAdd ==
    ASSUME NEW n \in Nat, Doubles(n), NEW a \in 0 .. n, NEW b \in Nat, a + b <= n
    PROVE  2^(a + b) = 2^a * 2^b
<1> DEFINE S == {d \in Nat : a + d <= n => 2^(a + d) = 2^a * 2^d}
<1>1. \A o \in 0 .. n : 2^o \in Nat \ {0}
    BY PowersArePositive
<1>2. 0 \in S
    <2>1. 2^0 = 1 /\ 2^a \in Nat /\ a + 0 = a
        BY <1>1
    <2>2. QED
        BY <2>1
<1>3. ASSUME NEW d \in Nat, d \in S
      PROVE  d + 1 \in S
    <2>1. SUFFICES ASSUME a + (d + 1) <= n
                   PROVE  2^(a + (d + 1)) = 2^a * 2^(d + 1)
        OBVIOUS
    <2>2. /\ a + d \in 0 .. n - 1 /\ d \in 0 .. n - 1 /\ a + d <= n
          /\ a + (d + 1) = (a + d) + 1
        BY <2>1
    <2>3. 2^((a + d) + 1) = 2 * 2^(a + d) /\ 2^(d + 1) = 2 * 2^d
        BY <2>2 DEF Doubles
    <2>4. 2^(a + d) = 2^a * 2^d
        BY <1>3, <2>2
    <2> DEFINE x == 2^a
               y == 2^d
    <2>5. x \in Nat /\ y \in Nat
        BY <1>1, <2>2
    <2>6. 2^(a + (d + 1)) = 2 * (x * y) /\ 2^(d + 1) = 2 * y
        BY <2>2, <2>3, <2>4
    <2> HIDE DEF x, y
    <2>7. 2 * (x * y) = x * (2 * y)
        BY <2>5
    <2>8. QED
        BY <2>6, <2>7 DEF x
<1> HIDE DEF S
<1>4. Nat \subseteq S
    BY <1>2, <1>3, StepInduction
<1>5. QED
    BY <1>4 DEF S

\* The size of a word, of a fraction, and of what is above the fraction.
W == 2^WordBits
F == 2^FractionBits
H == 2^(WordBits - FractionBits)

LEMMA Widths ==
    /\ FractionBits \in Nat \ {0} /\ WordBits \in Nat /\ WordBits > 2 * FractionBits
    /\ \A k \in 0 .. WordBits : 2^k \in Nat \ {0}
    /\ W \in Nat \ {0} /\ F \in Nat \ {0} /\ H \in Nat \ {0} /\ W = F * H /\ F <= H
    /\ \A k \in 0 .. FractionBits : 2^k <= F
<1>1. /\ FractionBits \in Nat \ {0} /\ WordBits \in Nat /\ WordBits > 2 * FractionBits
    BY KvmClockAssumption
<1>2. Doubles(WordBits)
    BY WordDoubles DEF Doubles
<1>3. \A k \in 0 .. WordBits : 2^k \in Nat \ {0}
    BY <1>1, <1>2, PowersArePositive
<1> DEFINE d == WordBits - FractionBits
<1>4. /\ WordBits \in 0 .. WordBits /\ FractionBits \in 0 .. WordBits /\ d \in 0 .. WordBits
      /\ FractionBits + d = WordBits /\ d \in Nat /\ FractionBits < d
    BY <1>1
<1>5. W \in Nat \ {0} /\ F \in Nat \ {0} /\ H \in Nat \ {0}
    BY <1>3, <1>4 DEF W, F, H
<1> HIDE DEF d
<1>6. 2^(FractionBits + d) = F * 2^d
    BY <1>1, <1>2, <1>4, PowersAdd DEF F
<1>7. W = F * H
    BY <1>4, <1>6 DEF W, H, d
<1>8. ASSUME NEW j \in 0 .. WordBits, NEW k \in 0 .. WordBits, j <= k
      PROVE  2^j <= 2^k
    <2>1. j < k => 2 * 2^j <= 2^k
        BY <1>1, <1>2, PowersGrow
    <2>2. 2^j \in Nat \ {0} /\ 2^k \in Nat \ {0}
        BY <1>3
    <2>3. QED
        BY <1>8, <2>1, <2>2
<1>9. F <= H
    BY <1>4, <1>8 DEF F, H, d
<1>10. ASSUME NEW k \in 0 .. FractionBits
       PROVE  2^k <= F
    <2>1. k \in 0 .. WordBits /\ k <= FractionBits
        BY <1>1
    <2>2. QED
        BY <1>4, <1>8, <2>1 DEF F
<1>11. QED
    BY <1>1, <1>3, <1>5, <1>7, <1>9, <1>10

LEMMA InWordIs ==
    /\ \A n \in Int : InWord(n) \in Word
    /\ \A n \in Nat : n < W => InWord(n) = n
    /\ Word = 0 .. W - 1
<1>1. W \in Nat \ {0}
    BY Widths
<1> DEFINE m == W
<1> HIDE DEF m
<1>2. ASSUME NEW n \in Int, NEW k \in Nat \ {0}
      PROVE  n % k \in 0 .. k - 1
    OBVIOUS
<1>3. ASSUME NEW n \in Nat, NEW k \in Nat \ {0}, n < k
      PROVE  n % k = n
    BY <1>3
<1>4. QED
    BY <1>1, <1>2, <1>3 DEF InWord, Word, W

\* Division, as the shift to the right it is, rounds down.
LEMMA Quotient ==
    ASSUME NEW a \in Nat, NEW m \in Nat \ {0}
    PROVE  /\ a \div m \in Nat /\ m * (a \div m) <= a /\ a < m * (a \div m) + m
           /\ \A q \in Nat : m * q <= a => q <= a \div m
           /\ \A q \in Nat : a < m * q => a \div m < q
<1> DEFINE d == a \div m
<1>1. a = m * d + (a % m) /\ a % m \in 0 .. m - 1 /\ d \in Nat
    BY DivMod
<1> HIDE DEF d
<1>2. m * d \in Nat
    BY <1>1
<1>3. m * d <= a /\ a < m * d + m
    BY <1>1, <1>2
<1>4. ASSUME NEW q \in Nat
      PROVE  (m * q <= a => q <= d) /\ (a < m * q => d < q)
    <2>1. d < q => m * d + m <= m * q
        BY <1>1
    <2>2. q <= d => m * q <= m * d
        BY <1>1
    <2>3. m * q \in Nat
        OBVIOUS
    <2>4. QED
        BY <1>1, <1>2, <1>3, <2>1, <2>2, <2>3
<1>5. QED
    BY <1>1, <1>3, <1>4 DEF d

-----------------------------------------------------------------------------
(* The hypervisor's conversion.                                            *)

Calibrated(mul, shift) ==
    mul \in 1 .. F - 1 /\ shift \in -FractionBits .. FractionBits

LEMMA CalibrationIs ==
    ASSUME NEW c \in Calibration
    PROVE  Calibrated(c[1], c[2]) /\ c = <<c[1], c[2]>>
<1>1. c \in (1 .. F - 1) \X (-FractionBits .. FractionBits)
    BY KvmClockAssumption DEF F
<1>2. QED
    BY <1>1 DEF Calibrated

\* Two times after each other make no more than their sum, and one less at
\* most.
LEMMA ScaledAdd ==
    ASSUME NEW shift \in -FractionBits .. FractionBits, NEW a \in Nat, NEW b \in Nat
    PROVE  /\ Scaled(a, shift) \in Nat /\ Scaled(b, shift) \in Nat /\ Scaled(a + b, shift) \in Nat
           /\ \E e \in {0, 1} : Scaled(a + b, shift) = Scaled(a, shift) + Scaled(b, shift) + e
<1>1. FractionBits \in Nat /\ \A k \in 0 .. FractionBits : 2^k \in Nat \ {0}
    <2>1. FractionBits \in Nat /\ \A k \in 0 .. FractionBits : k \in 0 .. WordBits
        BY Widths
    <2>2. QED
        BY <2>1, Widths
<1>2. CASE shift >= 0
    <2> DEFINE u == 2^shift
    <2>1. u \in Nat
        BY <1>1, <1>2
    <2>2. Scaled(a, shift) = a * u /\ Scaled(b, shift) = b * u /\ Scaled(a + b, shift) = (a + b) * u
        BY <1>2 DEF Scaled
    <2> HIDE DEF u
    <2>3. a * u \in Nat /\ b * u \in Nat /\ (a + b) * u = (a * u + b * u) + 0
        BY <2>1
    <2>4. QED
        BY <2>2, <2>3
<1>3. CASE ~(shift >= 0)
    <2> DEFINE u == 2^(-shift)
               x == a \div u
               y == b \div u
               z == (a + b) \div u
    <2>1. u \in Nat \ {0}
        <3>1. -shift \in 0 .. FractionBits
            BY <1>1, <1>3
        <3>2. QED
            BY <1>1, <3>1
    <2>2. Scaled(a, shift) = x /\ Scaled(b, shift) = y /\ Scaled(a + b, shift) = z
        BY <1>3 DEF Scaled
    <2> HIDE DEF u
    <2>3. /\ x \in Nat /\ u * x <= a /\ a < u * x + u
          /\ y \in Nat /\ u * y <= b /\ b < u * y + u
        BY <2>1, Quotient
    <2>4. /\ z \in Nat
          /\ \A q \in Nat : u * q <= a + b => q <= z
          /\ \A q \in Nat : a + b < u * q => z < q
        BY <2>1, Quotient
    <2> HIDE DEF x, y, z
    <2>5. u * x \in Nat /\ u * y \in Nat /\ u * (x + y) = u * x + u * y
          /\ u * (x + y + 2) = u * x + u * y + 2 * u
        BY <2>1, <2>3
    <2>6. x + y <= z
        BY <2>1, <2>3, <2>4, <2>5
    <2>7. z < x + y + 2
        BY <2>1, <2>3, <2>4, <2>5
    <2>8. z = (x + y) + 0 \/ z = (x + y) + 1
        BY <2>3, <2>4, <2>6, <2>7
    <2>9. QED
        BY <2>2, <2>3, <2>4, <2>8
<1>4. QED
    BY <1>2, <1>3

LEMMA NanosAdd ==
    ASSUME NEW mul, NEW shift, Calibrated(mul, shift), NEW a \in Nat, NEW b \in Nat
    PROVE  /\ Nanos(a, mul, shift) \in Nat /\ Nanos(b, mul, shift) \in Nat
           /\ Nanos(a + b, mul, shift) \in Nat
           /\ Nanos(a, mul, shift) + Nanos(b, mul, shift) <= Nanos(a + b, mul, shift)
           /\ Nanos(a + b, mul, shift) <= Nanos(a, mul, shift) + Nanos(b, mul, shift) + 2
<1> DEFINE f == F
           x == Scaled(a, shift)
           y == Scaled(b, shift)
           z == Scaled(a + b, shift)
           m == (mul * x) \div f
           n == (mul * y) \div f
           s == (mul * z) \div f
<1>1. f \in Nat \ {0} /\ mul \in 1 .. f - 1 /\ shift \in -FractionBits .. FractionBits
    BY Widths DEF Calibrated
<1>2. x \in Nat /\ y \in Nat /\ z \in Nat
    BY <1>1, ScaledAdd
<1>3. PICK e \in {0, 1} : z = x + y + e
    BY <1>1, ScaledAdd
<1>4. Nanos(a, mul, shift) = m /\ Nanos(b, mul, shift) = n /\ Nanos(a + b, mul, shift) = s
    BY DEF Nanos, F
<1> HIDE DEF f, x, y, z
<1>5. mul * x \in Nat /\ mul * y \in Nat /\ mul * z \in Nat /\ mul * z = mul * x + mul * y + mul * e
    BY <1>1, <1>2, <1>3
<1>6. mul * e \in 0 .. f - 1
    BY <1>1
<1> DEFINE p == mul * x
           q == mul * y
           r == mul * z
<1> HIDE DEF p, q, r
<1>7. p \in Nat /\ q \in Nat /\ r \in Nat /\ p + q <= r /\ r <= p + q + (f - 1)
    BY <1>1, <1>5, <1>6 DEF p, q, r
<1>8. /\ m \in Nat /\ f * m <= p /\ p < f * m + f
      /\ n \in Nat /\ f * n <= q /\ q < f * n + f
      /\ s \in Nat /\ \A k \in Nat : f * k <= r => k <= s
      /\ \A k \in Nat : r < f * k => s < k
    BY <1>1, <1>5, Quotient DEF p, q, r
<1> HIDE DEF m, n, s
<1>9. f * m \in Nat /\ f * n \in Nat /\ f * (m + n) = f * m + f * n
      /\ f * (m + n + 3) = f * m + f * n + 3 * f
    BY <1>1, <1>8
<1>10. m + n <= s
    BY <1>1, <1>7, <1>8, <1>9
<1>11. s < m + n + 3
    BY <1>1, <1>7, <1>8, <1>9
<1>12. s <= m + n + 2
    BY <1>8, <1>11
<1>13. QED
    BY <1>4, <1>8, <1>10, <1>12

LEMMA NanosGrow ==
    ASSUME NEW mul, NEW shift, Calibrated(mul, shift), NEW a \in Nat, NEW b \in Nat, a <= b
    PROVE  Nanos(a, mul, shift) <= Nanos(b, mul, shift) /\ Nanos(a, mul, shift) \in Nat
<1>1. b - a \in Nat /\ a + (b - a) = b
    OBVIOUS
<1> DEFINE d == b - a
<1> HIDE DEF d
<1>2. /\ Nanos(a, mul, shift) \in Nat /\ Nanos(d, mul, shift) \in Nat /\ Nanos(a + d, mul, shift) \in Nat
      /\ Nanos(a, mul, shift) + Nanos(d, mul, shift) <= Nanos(a + d, mul, shift)
    BY <1>1, NanosAdd DEF d
<1>3. a + d = b
    BY <1>1 DEF d
<1>4. QED
    BY <1>2, <1>3

\* As long as the product fits, the code computes this too.
LEMMA ConversionIs ==
    ASSUME NEW info, Calibrated(info.mul, info.shift), NEW t \in Nat, Fits(t, info)
    PROVE  tsc_to_nanoseconds(t, info) = Nanos(t, info.mul, info.shift)
<1> DEFINE r == Scaled(t, info.shift)
           product == r * info.mul
<1>1. /\ info.mul \in 1 .. F - 1 /\ info.shift \in -FractionBits .. FractionBits
      /\ F \in Nat \ {0} /\ W \in Nat \ {0} /\ Word = 0 .. W - 1
    BY Widths, InWordIs DEF Calibrated
<1>2. r \in Nat
    BY <1>1, ScaledAdd
<1>3. product \in Word
    BY DEF Fits
<1>4. r <= product
    <2> HIDE DEF r
    <2>1. QED
        BY <1>1, <1>2
<1>5. r < W /\ product < W /\ product \in Nat
    BY <1>1, <1>2, <1>3, <1>4
<1>6. (IF info.shift >= 0 THEN ShiftLeft(t, info.shift) ELSE ShiftRight(t, -info.shift)) = r
    BY <1>2, <1>5, InWordIs DEF ShiftLeft, ShiftRight, Scaled
<1>7. tsc_to_nanoseconds(t, info) = ShiftRight(InWord(product), FractionBits)
    BY <1>6 DEF tsc_to_nanoseconds
<1>8. info.mul * r = product
    <2> HIDE DEF r
    <2>1. QED
        BY <1>1, <1>2
<1>9. Nanos(t, info.mul, info.shift) = product \div 2^FractionBits
    BY <1>8 DEF Nanos
<1> HIDE DEF product
<1>10. QED
    BY <1>5, <1>7, <1>9, InWordIs DEF ShiftRight

\* The hypervisor's time stays in its word.
LEMMA NanosInWord ==
    ASSUME NEW c \in Calibration, NEW t \in 0 .. MaxTsc
    PROVE  Nanos(t, c[1], c[2]) \in Word /\ WallClock + Nanos(t, c[1], c[2]) \in Word
<1> DEFINE x == Nanos(t, c[1], c[2])
           y == Nanos(MaxTsc, c[1], c[2])
<1>1. Calibrated(c[1], c[2]) /\ t \in Nat /\ MaxTsc \in Nat /\ t <= MaxTsc /\ WallClock \in Nat
    BY CalibrationIs, KvmClockAssumption
<1>2. x <= y /\ x \in Nat
    BY <1>1, NanosGrow
<1>3. y \in Nat
    <2>1. MaxTsc <= MaxTsc
        BY <1>1
    <2>2. QED
        BY <1>1, <2>1, NanosGrow
<1>4. WallClock + y \in Word
    BY LifeFits
<1>5. W \in Nat \ {0} /\ Word = 0 .. W - 1
    BY Widths, InWordIs
<1> HIDE DEF x, y
<1>6. x \in Word /\ WallClock + x \in Word
    BY <1>1, <1>2, <1>3, <1>4, <1>5
<1>7. QED
    BY <1>6 DEF x

-----------------------------------------------------------------------------
(* The inductive invariant.                                                *)

\* What the hypervisor has written, with a calibration c.
Written(c) ==
    /\ system_time = [version |-> system_time.version, tsc_timestamp |-> system_time.tsc_timestamp,
                      mul |-> c[1], shift |-> c[2],
                      system_time |-> Nanos(system_time.tsc_timestamp, c[1], c[2])]
    /\ system_time.version \in Nat
    /\ system_time.tsc_timestamp \in 0 .. tsc

\* What was read of the version v is of the moment T at which it was written.
FromOne(T, v, c) ==
    /\ read.tsc_timestamp \in {NotRead, T}
    /\ read.system_time \in {NotRead, Nanos(T, c[1], c[2])}
    /\ read.tsc # NotRead => T <= read.tsc
    /\ v = system_time.version => T = system_time.tsc_timestamp

\* The ticks since the update that was read fit.
InReach(c) == Fits(read.tsc - read.tsc_timestamp, [mul |-> c[1], shift |-> c[2]])

\* The reads of a call, and its answer.
Reads(c) ==
    /\ \A v \in read.version : v <= system_time.version
    /\ read.version = {} => read = Nothing
    /\ \A v \in Nat : read.version = {v} => \E T \in 0 .. tsc : FromOne(T, v, c)
    /\ pc = "ready" /\ AllRead =>
        \A v \in Nat : read.version = {v} /\ InReach(c) =>
            /\ result.value <= WallClock + Nanos(tsc, c[1], c[2])
            /\ result.value >= WallClock + Nanos(result.began, c[1], c[2]) - 2

Running(c) ==
    /\ pc \in {"ready", "reading"} /\ wall_clock_nsecs = WallClock
    /\ Written(c) /\ Reads(c)

ReadOK ==
    /\ read \in [version : SUBSET Nat, system_time : Word \cup {NotRead},
                 tsc : Word \cup {NotRead}, tsc_timestamp : Word \cup {NotRead}]
    /\ IsFiniteSet(read.version)
    /\ read.tsc # NotRead => result.began <= read.tsc /\ read.tsc <= tsc

ClockSound ==
    /\ tsc \in 0 .. MaxTsc
    /\ result \in [value : Word, began : 0 .. tsc]
    /\ ReadOK
    /\ \/ /\ pc \in {"constructor", "panic"} /\ wall_clock_nsecs = 0
          /\ system_time = NoInfo /\ read = Nothing
       \/ /\ pc = "wall_clock" /\ wall_clock_nsecs = WallClock
          /\ system_time = NoInfo /\ read = Nothing
       \/ \E c \in Calibration : Running(c)

LEMMA Bounds ==
    /\ MaxTsc \in Nat /\ MaxTsc \in Word /\ 0 \in Word /\ Word \subseteq Nat
    /\ Word = 0 .. W - 1 /\ W \in Nat \ {0}
    /\ \A t \in 0 .. MaxTsc : t \in Word
    /\ WallClock \in Nat /\ WallClock \in Word
    /\ NotRead = -1 /\ NotRead \notin Word
<1>1. MaxTsc \in Nat /\ WallClock \in Nat /\ MaxTsc \in Word /\ WallClock \in Word
    BY KvmClockAssumption, LifeFits
<1>2. W \in Nat \ {0} /\ Word = 0 .. W - 1
    BY Widths, InWordIs
<1>3. QED
    BY <1>1, <1>2 DEF NotRead

LEMMA InitSound ==
    ASSUME ClockInit
    PROVE  ClockSound
<1>1. /\ tsc = 0 /\ system_time = NoInfo /\ wall_clock_nsecs = 0 /\ pc = "constructor"
      /\ read = Nothing /\ result = [value |-> 0, began |-> 0]
    BY DEF ClockInit
<1>2. ReadOK
    BY <1>1, FS_EmptySet DEF ReadOK, Nothing
<1>3. QED
    BY <1>1, <1>2, Bounds DEF ClockSound

LEMMA TickSound ==
    ASSUME ClockSound, Tick
    PROVE  ClockSound'
<1>1. /\ tsc < MaxTsc /\ tsc' = tsc + 1
      /\ system_time' = system_time /\ wall_clock_nsecs' = wall_clock_nsecs /\ pc' = pc
      /\ read' = read /\ result' = result
    BY DEF Tick
<1>2. tsc \in 0 .. MaxTsc /\ result \in [value : Word, began : 0 .. tsc] /\ ReadOK /\ tsc \in Nat
    BY Bounds DEF ClockSound
<1>3. tsc' \in 0 .. MaxTsc /\ \A t : t \in 0 .. tsc => t \in 0 .. tsc'
    BY <1>1, <1>2, Bounds
<1>4. result' \in [value : Word, began : 0 .. tsc']
    BY <1>1, <1>2, <1>3
<1>5. ReadOK'
    <2>1. read.tsc # NotRead => read.tsc <= tsc'
        BY <1>1, <1>2, Bounds DEF ReadOK
    <2>2. QED
        BY <1>1, <1>2, <2>1 DEF ReadOK
<1>6. ASSUME NEW c \in Calibration, Running(c)
      PROVE  Running(c)'
    <2>1. Written(c)'
        BY <1>1, <1>3, <1>6 DEF Running, Written
    <2>2. Nanos(tsc, c[1], c[2]) <= Nanos(tsc', c[1], c[2]) /\ Nanos(tsc, c[1], c[2]) \in Nat
        <3>1. Calibrated(c[1], c[2])
            BY CalibrationIs
        <3>2. QED
            BY <1>1, <1>2, <3>1, NanosGrow
    <2>3. Nanos(tsc', c[1], c[2]) \in Nat
        <3>1. Calibrated(c[1], c[2]) /\ tsc' \in Nat /\ tsc' <= tsc'
            BY <1>1, <1>2, CalibrationIs
        <3>2. QED
            BY <3>1, NanosGrow
    <2>4. result.value \in Nat
        BY <1>2, Bounds
    <2> DEFINE n == Nanos(tsc, c[1], c[2])
               m == Nanos(tsc', c[1], c[2])
    <2>5. result.value <= WallClock + n => result.value <= WallClock + m
        <3> HIDE DEF n, m
        <3>1. n <= m /\ n \in Nat /\ m \in Nat
            BY <2>2, <2>3 DEF n, m
        <3>2. QED
            BY <2>4, <3>1, Bounds
    <2>6. Reads(c)
        BY <1>6 DEF Running
    <2>7. \A v \in Nat : read'.version = {v} => \E T \in 0 .. tsc' : FromOne(T, v, c)'
        BY <1>1, <1>3, <2>6 DEF Reads, FromOne
    <2>8. AllRead' <=> AllRead
        BY <1>1 DEF AllRead
    <2>9. pc' = "ready" /\ AllRead' =>
            \A v \in Nat : read'.version = {v} /\ InReach(c)' =>
                /\ result'.value <= WallClock + m
                /\ result'.value >= WallClock + Nanos(result'.began, c[1], c[2]) - 2
        <3>1. InReach(c)' <=> InReach(c)
            BY <1>1 DEF InReach
        <3>2. QED
            BY <1>1, <2>5, <2>6, <2>8, <3>1 DEF Reads
    <2>10. Reads(c)'
        BY <1>1, <2>6, <2>7, <2>9 DEF Reads
    <2>11. QED
        BY <1>1, <1>6, <2>1, <2>10 DEF Running
<1>7. QED
    BY <1>1, <1>3, <1>4, <1>5, <1>6 DEF ClockSound

\* What the hypervisor writes at a moment of the machine's life.
LEMMA RelationIs ==
    ASSUME NEW c \in Calibration, NEW version, tsc \in 0 .. MaxTsc
    PROVE  LET r == Relation(c, version)
           IN  /\ r = [version |-> version, tsc_timestamp |-> tsc, mul |-> c[1], shift |-> c[2],
                       system_time |-> Nanos(tsc, c[1], c[2])]
               /\ r.version = version /\ r.tsc_timestamp = tsc
    BY DEF Relation

LEMMA UpdateSound ==
    ASSUME ClockSound, Update
    PROVE  ClockSound'
<1>1. /\ pc \in {"ready", "reading"}
      /\ system_time' = Relation(<<system_time.mul, system_time.shift>>, system_time.version + 2)
      /\ tsc' = tsc /\ wall_clock_nsecs' = wall_clock_nsecs /\ pc' = pc
      /\ read' = read /\ result' = result
    BY DEF Update
<1>2. tsc \in 0 .. MaxTsc /\ result \in [value : Word, began : 0 .. tsc] /\ ReadOK
    BY DEF ClockSound
<1>3. PICK c \in Calibration : Running(c)
    BY <1>1 DEF ClockSound
<1>4. Written(c) /\ Reads(c) /\ system_time.version \in Nat
    BY <1>3 DEF Running, Written
<1>5. <<system_time.mul, system_time.shift>> = c
    <2>1. system_time.mul = c[1] /\ system_time.shift = c[2]
        BY <1>4 DEF Written
    <2>2. QED
        BY <2>1, CalibrationIs
<1> DEFINE n == system_time.version + 2
<1>6. /\ system_time' = [version |-> n, tsc_timestamp |-> tsc, mul |-> c[1], shift |-> c[2],
                         system_time |-> Nanos(tsc, c[1], c[2])]
      /\ system_time'.version = n /\ system_time'.tsc_timestamp = tsc
    BY <1>1, <1>2, <1>5, RelationIs
<1>7. tsc \in Nat /\ n \in Nat
    BY <1>2, <1>4, Bounds
<1>8. Written(c)'
    BY <1>1, <1>6, <1>7 DEF Written
<1>9. Reads(c)'
    <2>1. \A v \in read.version : v \in Nat /\ v < n
        <3>1. \A v \in read.version : v <= system_time.version /\ v \in Nat
            BY <1>2, <1>4 DEF Reads, ReadOK
        <3>2. QED
            BY <1>4, <3>1
    <2> HIDE DEF n
    <2>2. \A v \in Nat : read.version = {v} => v # n
        BY <1>7, <2>1
    <2>3. \A v \in Nat : read'.version = {v} => \E T \in 0 .. tsc' : FromOne(T, v, c)'
        <3>1. SUFFICES ASSUME NEW v \in Nat, read.version = {v}
                       PROVE  \E T \in 0 .. tsc : FromOne(T, v, c)'
            BY <1>1
        <3>2. PICK T \in 0 .. tsc : FromOne(T, v, c)
            BY <1>4, <3>1 DEF Reads
        <3>3. FromOne(T, v, c)'
            BY <1>1, <1>6, <2>2, <3>1, <3>2 DEF FromOne
        <3>4. QED
            BY <3>3
    <2>4. \A v \in read'.version : v <= system_time'.version
        BY <1>1, <1>6, <1>7, <2>1
    <2>5. AllRead' <=> AllRead
        BY <1>1 DEF AllRead
    <2>6. InReach(c)' <=> InReach(c)
        BY <1>1 DEF InReach
    <2>7. QED
        BY <1>1, <1>4, <2>3, <2>4, <2>5, <2>6 DEF Reads
<1>10. Running(c)'
    BY <1>1, <1>3, <1>8, <1>9 DEF Running
<1>11. ReadOK'
    BY <1>1, <1>2 DEF ReadOK
<1>12. QED
    BY <1>1, <1>2, <1>10, <1>11 DEF ClockSound


LEMMA SetUpSound ==
    ASSUME ClockSound, SetWallClock \/ NoClock
    PROVE  ClockSound'
<1>1. /\ pc = "constructor"
      /\ \/ wall_clock_nsecs' = WallClock /\ pc' = "wall_clock"
         \/ wall_clock_nsecs' = wall_clock_nsecs /\ pc' = "panic"
      /\ tsc' = tsc /\ system_time' = system_time /\ read' = read /\ result' = result
    BY DEF SetWallClock, NoClock
<1>2. /\ tsc \in 0 .. MaxTsc /\ result \in [value : Word, began : 0 .. tsc] /\ ReadOK
      /\ system_time = NoInfo /\ read = Nothing /\ wall_clock_nsecs = 0
    BY <1>1 DEF ClockSound, Running
<1>3. ReadOK'
    BY <1>1, <1>2 DEF ReadOK
<1>4. QED
    BY <1>1, <1>2, <1>3 DEF ClockSound

LEMMA SetSystemTimeSound ==
    ASSUME ClockSound, SetSystemTime
    PROVE  ClockSound'
<1>1. /\ pc = "wall_clock" /\ pc' = "ready"
      /\ \E c \in Calibration : system_time' = Relation(c, 2)
      /\ tsc' = tsc /\ wall_clock_nsecs' = wall_clock_nsecs /\ read' = read /\ result' = result
    BY DEF SetSystemTime
<1>2. /\ tsc \in 0 .. MaxTsc /\ result \in [value : Word, began : 0 .. tsc] /\ ReadOK
      /\ read = Nothing /\ wall_clock_nsecs = WallClock
    BY <1>1 DEF ClockSound, Running
<1>3. PICK c \in Calibration : system_time' = Relation(c, 2)
    BY <1>1
<1>4. /\ system_time' = [version |-> 2, tsc_timestamp |-> tsc, mul |-> c[1], shift |-> c[2],
                         system_time |-> Nanos(tsc, c[1], c[2])]
      /\ system_time'.version = 2 /\ system_time'.tsc_timestamp = tsc
    BY <1>2, <1>3, RelationIs
<1>5. tsc \in Nat
    BY <1>2, Bounds
<1>6. Written(c)'
    BY <1>1, <1>4, <1>5 DEF Written
<1>7. read' = Nothing /\ read'.version = {} /\ ~AllRead'
    BY <1>1, <1>2 DEF Nothing, AllRead
<1>8. Reads(c)'
    BY <1>7 DEF Reads
<1>9. Running(c)'
    BY <1>1, <1>2, <1>6, <1>8 DEF Running
<1>10. ReadOK'
    BY <1>1, <1>2 DEF ReadOK
<1>11. QED
    BY <1>1, <1>2, <1>9, <1>10 DEF ClockSound

LEMMA BeginSound ==
    ASSUME ClockSound, Begin
    PROVE  ClockSound'
<1>1. /\ pc = "ready" /\ pc' = "reading" /\ read' = Nothing
      /\ result' = [result EXCEPT !.began = tsc]
      /\ tsc' = tsc /\ system_time' = system_time /\ wall_clock_nsecs' = wall_clock_nsecs
    BY DEF Begin
<1>2. tsc \in 0 .. MaxTsc /\ result \in [value : Word, began : 0 .. tsc] /\ tsc \in Nat
    BY Bounds DEF ClockSound
<1>3. result' \in [value : Word, began : 0 .. tsc']
    BY <1>1, <1>2
<1>4. ReadOK'
    BY <1>1, FS_EmptySet DEF ReadOK, Nothing
<1>5. ASSUME NEW c \in Calibration, Running(c)
      PROVE  Running(c)'
    <2>1. Written(c)'
        BY <1>1, <1>5 DEF Running, Written
    <2>2. read'.version = {}
        BY <1>1 DEF Nothing
    <2>3. Reads(c)'
        BY <1>1, <2>2 DEF Reads
    <2>4. QED
        BY <1>1, <1>5, <2>1, <2>3 DEF Running
<1>6. QED
    BY <1>1, <1>2, <1>3, <1>4, <1>5 DEF ClockSound

\* One more field has been read: its value and the version of that moment.
LEMMA OneMoreRead ==
    ASSUME ClockSound, pc = "reading", NEW c \in Calibration, Running(c),
           tsc' = tsc, system_time' = system_time, wall_clock_nsecs' = wall_clock_nsecs, pc' = pc,
           result' = result,
           \/ /\ read.system_time = NotRead
              /\ read' = [read EXCEPT !.system_time = system_time.system_time,
                                      !.version = @ \cup {system_time.version}]
           \/ /\ read.tsc_timestamp = NotRead
              /\ read' = [read EXCEPT !.tsc_timestamp = system_time.tsc_timestamp,
                                      !.version = @ \cup {system_time.version}]
           \/ /\ read.tsc = NotRead
              /\ read' = [read EXCEPT !.tsc = tsc, !.version = @ \cup {system_time.version}]
    PROVE  ClockSound'
<1> DEFINE n == system_time.version
           T == system_time.tsc_timestamp
           N == Nanos(T, c[1], c[2])
<1>1. /\ tsc \in 0 .. MaxTsc /\ tsc \in Nat /\ result \in [value : Word, began : 0 .. tsc] /\ ReadOK
      /\ Written(c) /\ Reads(c) /\ wall_clock_nsecs = WallClock
    BY Bounds DEF ClockSound, Running
<1>2. n \in Nat /\ T \in 0 .. tsc /\ system_time.system_time = N
    BY <1>1 DEF Written
<1>3. N \in Word /\ T \in Word /\ tsc \in Word
    <2>1. T \in 0 .. MaxTsc
        BY <1>1, <1>2, Bounds
    <2>2. N \in Word
        BY <2>1, NanosInWord DEF N
    <2>3. QED
        BY <1>1, <2>1, <2>2, Bounds
<1>4. /\ read \in [version : SUBSET Nat, system_time : Word \cup {NotRead},
                   tsc : Word \cup {NotRead}, tsc_timestamp : Word \cup {NotRead}]
      /\ IsFiniteSet(read.version)
      /\ read.tsc # NotRead => result.began <= read.tsc /\ read.tsc <= tsc
    BY <1>1 DEF ReadOK
<1> HIDE DEF n, T, N
<1>5. /\ read'.version = read.version \cup {n}
      /\ \/ /\ read'.system_time = N /\ read'.tsc_timestamp = read.tsc_timestamp
            /\ read'.tsc = read.tsc
         \/ /\ read'.tsc_timestamp = T /\ read'.system_time = read.system_time
            /\ read'.tsc = read.tsc
         \/ /\ read'.tsc = tsc /\ read'.system_time = read.system_time
            /\ read'.tsc_timestamp = read.tsc_timestamp
      /\ read' = [version |-> read'.version, system_time |-> read'.system_time,
                  tsc |-> read'.tsc, tsc_timestamp |-> read'.tsc_timestamp]
    BY <1>2, <1>4 DEF n, T, N
<1>6. ReadOK'
    <2>1. IsFiniteSet(read'.version)
        BY <1>4, <1>5, FS_AddElement
    <2>2. read' \in [version : SUBSET Nat, system_time : Word \cup {NotRead},
                   tsc : Word \cup {NotRead}, tsc_timestamp : Word \cup {NotRead}]
        <3>1. read'.version \in SUBSET Nat
            BY <1>2, <1>4, <1>5 DEF n
        <3>2. /\ read'.system_time \in Word \cup {NotRead} /\ read'.tsc \in Word \cup {NotRead}
              /\ read'.tsc_timestamp \in Word \cup {NotRead}
            BY <1>3, <1>4, <1>5
        <3>3. QED
            BY <1>5, <3>1, <3>2
    <2>3. read'.tsc # NotRead => result'.began <= read'.tsc /\ read'.tsc <= tsc'
        <3>1. result.began <= tsc /\ tsc <= tsc
            BY <1>1
        <3>2. QED
            BY <1>4, <1>5, <3>1
    <2>4. QED
        BY <2>1, <2>2, <2>3 DEF ReadOK
<1>7. \A v \in Nat : read'.version = {v} => \E t \in 0 .. tsc' : FromOne(t, v, c)'
    <2>1. SUFFICES ASSUME NEW v \in Nat, read'.version = {v}
                   PROVE  \E t \in 0 .. tsc : FromOne(t, v, c)'
        OBVIOUS
    <2>2. v = n /\ (read.version = {} \/ read.version = {n})
        BY <1>5, <2>1
    \* What was read before is of the version that is there now.
    <2>3. /\ read.tsc_timestamp \in {NotRead, T} /\ read.system_time \in {NotRead, N}
          /\ read.tsc # NotRead => T <= read.tsc
        <3>1. CASE read.version = {}
            BY <1>1, <3>1 DEF Reads, Nothing
        <3>2. CASE read.version = {n}
            <4>1. PICK t \in 0 .. tsc : FromOne(t, n, c)
                BY <1>1, <1>2, <3>2 DEF Reads, n
            <4>2. t = T
                BY <4>1 DEF FromOne, n, T
            <4>3. QED
                BY <4>1, <4>2 DEF FromOne, N
        <3>3. QED
            BY <2>2, <3>1, <3>2
    <2>4. T \in 0 .. tsc /\ T <= tsc
        BY <1>1, <1>2 DEF T
    <2>5. /\ read'.tsc_timestamp \in {NotRead, T} /\ read'.system_time \in {NotRead, N}
          /\ read'.tsc # NotRead => T <= read'.tsc
        BY <1>5, <2>3, <2>4
    <2>6. FromOne(T, v, c)'
        BY <2>2, <2>5 DEF FromOne, T, N
    <2> DEFINE P(t) == FromOne(t, v, c)'
    <2>7. P(T)
        BY <2>6
    <2> HIDE DEF P
    <2>8. \E t \in 0 .. tsc : P(t)
        BY <2>4, <2>7
    <2>9. QED
        BY <2>8 DEF P
<1>8. Reads(c)'
    <2>1. \A v \in read'.version : v <= system_time'.version
        BY <1>1, <1>2, <1>5 DEF Reads, n
    <2>2. read'.version # {} /\ pc' # "ready"
        BY <1>5
    <2>3. QED
        BY <1>7, <2>1, <2>2 DEF Reads
<1>9. Written(c)'
    BY <1>1 DEF Written
<1>10. Running(c)'
    BY <1>1, <1>8, <1>9 DEF Running
<1>11. QED
    BY <1>1, <1>6, <1>10 DEF ClockSound

LEMMA ReadSound ==
    ASSUME ClockSound,
           rdtsc \/ \E field \in {"system_time", "tsc_timestamp"} : ReadField(field)
    PROVE  ClockSound'
<1>1. pc = "reading" /\ \E c \in Calibration : Running(c)
    BY DEF rdtsc, ReadField, ClockSound
<1>2. PICK c \in Calibration : Running(c)
    BY <1>1
<1>3. /\ tsc' = tsc /\ system_time' = system_time /\ wall_clock_nsecs' = wall_clock_nsecs
      /\ pc' = pc /\ result' = result
    BY DEF rdtsc, ReadField
<1>4. CASE rdtsc
    BY <1>1, <1>2, <1>3, <1>4, OneMoreRead DEF rdtsc
<1>5. CASE ReadField("system_time")
    BY <1>1, <1>2, <1>3, <1>5, OneMoreRead DEF ReadField
<1>6. CASE ReadField("tsc_timestamp")
    BY <1>1, <1>2, <1>3, <1>6, OneMoreRead DEF ReadField
<1>7. QED
    BY <1>4, <1>5, <1>6

LEMMA ReturnSound ==
    ASSUME ClockSound, Return
    PROVE  ClockSound'
<1>1. /\ pc = "reading" /\ AllRead /\ result' = [result EXCEPT !.value = Computed] /\ pc' = "ready"
      /\ tsc' = tsc /\ system_time' = system_time /\ wall_clock_nsecs' = wall_clock_nsecs
      /\ read' = read
    BY DEF Return
<1>2. PICK c \in Calibration : Running(c)
    BY <1>1 DEF ClockSound
<1>3. /\ tsc \in 0 .. MaxTsc /\ tsc \in Nat /\ result \in [value : Word, began : 0 .. tsc] /\ ReadOK
      /\ Written(c) /\ Reads(c) /\ wall_clock_nsecs = WallClock
    BY <1>2, Bounds DEF ClockSound, Running
<1> DEFINE d == read.tsc - read.tsc_timestamp
           info == system_time
           ns == tsc_to_nanoseconds(InWord(d), info)
           sum == wall_clock_nsecs + read.system_time + ns
           m == c[1]
           s == c[2]
<1>4. Calibrated(m, s) /\ info.mul = m /\ info.shift = s
    BY <1>3, CalibrationIs DEF Written
<1>5. /\ read.system_time \in Word /\ read.tsc \in Word /\ read.tsc_timestamp \in Word
      /\ result.began <= read.tsc /\ read.tsc <= tsc
    BY <1>1, <1>3 DEF ReadOK, AllRead
<1>6. sum \in Int
    <2>1. InWord(d) \in Word /\ InWord(d) \in Nat
        <3>1. d \in Int
            BY <1>5, Bounds
        <3>2. QED
            BY <3>1, InWordIs, Bounds
    <2>2. m \in Nat /\ F \in Nat \ {0} /\ s \in -FractionBits .. FractionBits
        BY <1>4, Widths DEF Calibrated
    <2>3. (IF info.shift >= 0 THEN ShiftLeft(InWord(d), info.shift)
           ELSE ShiftRight(InWord(d), -info.shift)) \in Nat
        <3>1. Scaled(InWord(d), s) \in Nat
            BY <2>1, <2>2, ScaledAdd
        <3>2. CASE s >= 0
            <4>1. InWord(d) * 2^s \in Nat
                BY <3>1, <3>2 DEF Scaled
            <4>2. QED
                BY <1>4, <3>2, <4>1, InWordIs, Bounds DEF ShiftLeft
        <3>3. CASE ~(s >= 0)
            BY <1>4, <3>1, <3>3 DEF Scaled, ShiftRight
        <3>4. QED
            BY <3>2, <3>3
    <2> DEFINE r == IF info.shift >= 0 THEN ShiftLeft(InWord(d), info.shift)
                    ELSE ShiftRight(InWord(d), -info.shift)
    <2>4. ns = ShiftRight(InWord(r * info.mul), FractionBits)
        BY DEF tsc_to_nanoseconds
    <2>5. r \in Nat
        BY <2>3
    <2> HIDE DEF r, ns
    <2>6. r * info.mul \in Int
        BY <1>4, <2>2, <2>5
    <2>7. InWord(r * info.mul) \in Nat
        BY <2>6, InWordIs, Bounds
    <2>8. ns \in Nat
        BY <2>2, <2>4, <2>7, Quotient DEF ShiftRight, F
    <2>9. QED
        BY <1>3, <1>5, <2>8, Bounds
<1>7. Computed = InWord(sum)
    BY DEF Computed
<1>8. Computed \in Word
    BY <1>6, <1>7, InWordIs
<1>9. /\ result'.value = Computed /\ result'.began = result.began
      /\ result' \in [value : Word, began : 0 .. tsc']
    BY <1>1, <1>3, <1>8
\* Read of one version: the sum is at most what the hypervisor's time was
\* when the counter was read, and less by the rounding.
<1>10. ASSUME NEW v \in Nat, read.version = {v}, InReach(c)
       PROVE  /\ Computed <= WallClock + Nanos(tsc, m, s)
              /\ Computed >= WallClock + Nanos(result.began, m, s) - 2
    <2>1. PICK T \in 0 .. tsc : FromOne(T, v, c)
        BY <1>3, <1>10 DEF Reads
    <2>2. read.tsc_timestamp = T /\ read.system_time = Nanos(T, m, s) /\ T <= read.tsc
        BY <1>1, <2>1 DEF FromOne, AllRead
    <2>3. T \in Nat /\ read.tsc \in Nat /\ d \in 0 .. MaxTsc /\ d \in Nat /\ T + d = read.tsc
        BY <1>3, <1>5, <2>2, Bounds
    <2>4. InWord(d) = d
        BY <2>3, InWordIs, Bounds
    <2>5. ns = Nanos(d, m, s)
        <3>1. Fits(d, info)
            BY <1>4, <1>10 DEF InReach, Fits
        <3>2. tsc_to_nanoseconds(d, info) = Nanos(d, info.mul, info.shift)
            BY <1>4, <2>3, <3>1, ConversionIs
        <3>3. QED
            BY <1>4, <2>4, <3>2
    <2> DEFINE a == Nanos(T, m, s)
               b == Nanos(d, m, s)
               e == Nanos(read.tsc, m, s)
               f == Nanos(tsc, m, s)
               g == Nanos(result.began, m, s)
    <2>6. a \in Nat /\ b \in Nat /\ e \in Nat /\ a + b <= e /\ e <= a + b + 2
        BY <1>4, <2>3, NanosAdd
    <2>7. e <= f /\ f \in Nat
        <3>1. tsc <= tsc
            BY <1>3
        <3>2. QED
            BY <1>3, <1>4, <1>5, <2>3, <3>1, NanosGrow
    <2>8. g <= e /\ g \in Nat
        <3>1. result.began \in Nat
            BY <1>3
        <3>2. QED
            BY <1>4, <1>5, <2>3, <3>1, NanosGrow
    <2>9. WallClock + e < W
        <3>1. read.tsc \in 0 .. MaxTsc
            BY <1>3, <1>5, <2>3, Bounds
        <3>2. WallClock + e \in Word
            BY <3>1, NanosInWord
        <3> HIDE DEF e
        <3>3. QED
            BY <3>2, Bounds
    <2>10. sum = WallClock + a + b
        BY <1>3, <2>2, <2>5
    <2> HIDE DEF a, b, e, f, g, sum
    <2>11. sum \in Nat /\ sum < W
        BY <2>6, <2>9, <2>10, Bounds
    <2>12. Computed = sum
        BY <1>7, <2>11, InWordIs
    <2>13. Computed <= WallClock + f /\ Computed >= WallClock + g - 2
        BY <2>6, <2>7, <2>8, <2>10, <2>12, Bounds
    <2>14. QED
        BY <2>13 DEF f, g
<1> HIDE DEF d, info, ns, sum
<1>11. ReadOK'
    BY <1>1, <1>3, <1>9 DEF ReadOK
<1>12. Reads(c)'
    <2>1. \A v \in Nat : read'.version = {v} => \E T \in 0 .. tsc' : FromOne(T, v, c)'
        BY <1>1, <1>3 DEF Reads, FromOne
    <2>2. pc' = "ready" /\ AllRead' =>
            \A v \in Nat : read'.version = {v} /\ InReach(c)' =>
                /\ result'.value <= WallClock + Nanos(tsc', c[1], c[2])
                /\ result'.value >= WallClock + Nanos(result'.began, c[1], c[2]) - 2
        <3>1. InReach(c)' <=> InReach(c)
            BY <1>1 DEF InReach
        <3>2. QED
            BY <1>1, <1>9, <1>10, <3>1
    <2>3. QED
        BY <1>1, <1>3, <2>1, <2>2 DEF Reads
<1>13. Written(c)'
    BY <1>1, <1>3 DEF Written
<1>14. Running(c)'
    BY <1>1, <1>3, <1>12, <1>13 DEF Running
<1>15. QED
    BY <1>1, <1>3, <1>9, <1>11, <1>14 DEF ClockSound


LEMMA StutterSound ==
    ASSUME ClockSound, UNCHANGED clockVars
    PROVE  ClockSound'
<1>1. /\ tsc' = tsc /\ system_time' = system_time /\ wall_clock_nsecs' = wall_clock_nsecs
      /\ pc' = pc /\ read' = read /\ result' = result
    BY DEF clockVars
<1>2. ReadOK' <=> ReadOK
    BY <1>1 DEF ReadOK
<1>3. ASSUME NEW c \in Calibration
      PROVE  Running(c)' <=> Running(c)
    BY <1>1 DEF Running, Written, Reads, FromOne, InReach, AllRead
<1>4. QED
    BY <1>1, <1>2, <1>3 DEF ClockSound

\* In every reachable state the relation is one the hypervisor wrote, and the
\* reads of a call that saw one version are of the moment it was written.
LEMMA AlwaysSound == ClockSpec => []ClockSound
<1>1. ClockInit => ClockSound
    BY InitSound
<1>2. ClockSound /\ [ClockNext]_clockVars => ClockSound'
    <2>1. SUFFICES ASSUME ClockSound, [ClockNext]_clockVars
                   PROVE  ClockSound'
        OBVIOUS
    <2>2. CASE Tick
        BY <2>1, <2>2, TickSound
    <2>3. CASE Update
        BY <2>1, <2>3, UpdateSound
    <2>4. CASE SetWallClock \/ NoClock
        BY <2>1, <2>4, SetUpSound
    <2>5. CASE SetSystemTime
        BY <2>1, <2>5, SetSystemTimeSound
    <2>6. CASE Begin
        BY <2>1, <2>6, BeginSound
    <2>7. CASE rdtsc \/ \E field \in {"system_time", "tsc_timestamp"} : ReadField(field)
        BY <2>1, <2>7, ReadSound
    <2>8. CASE Return
        BY <2>1, <2>8, ReturnSound
    <2>9. CASE UNCHANGED clockVars
        BY <2>1, <2>9, StutterSound
    <2>10. QED
        BY <2>1, <2>2, <2>3, <2>4, <2>5, <2>6, <2>7, <2>8, <2>9 DEF ClockNext
<1>3. QED
    BY <1>1, <1>2, PTL DEF ClockSpec

-----------------------------------------------------------------------------
(* What follows from it.                                                   *)

LEMMA SoundIsTyped ==
    ASSUME ClockSound
    PROVE  ClockTypeOK
<1>1. /\ tsc \in 0 .. MaxTsc /\ result \in [value : Word, began : 0 .. tsc] /\ ReadOK
    BY DEF ClockSound
<1>2. CASE /\ system_time = NoInfo /\ wall_clock_nsecs \in {0, WallClock}
           /\ pc \in {"constructor", "panic", "wall_clock"}
    BY <1>1, <1>2, Bounds DEF ClockTypeOK, ReadOK, NoInfo
<1>3. ASSUME NEW c \in Calibration, Running(c)
      PROVE  ClockTypeOK
    <2>1. /\ system_time.tsc_timestamp \in 0 .. tsc /\ wall_clock_nsecs = WallClock
          /\ system_time.mul = c[1] /\ pc \in {"ready", "reading"}
          /\ system_time.system_time = Nanos(system_time.tsc_timestamp, c[1], c[2])
        BY <1>3 DEF Running, Written
    <2>2. system_time.tsc_timestamp \in 0 .. MaxTsc
        BY <1>1, <2>1, Bounds
    <2>3. system_time.system_time \in Word
        BY <2>1, <2>2, NanosInWord
    <2>4. c[1] # 0
        BY CalibrationIs DEF Calibrated
    <2>5. system_time.tsc_timestamp \in Word /\ wall_clock_nsecs \in Word
        BY <2>1, <2>2, Bounds
    <2>6. QED
        BY <1>1, <2>1, <2>3, <2>4, <2>5 DEF ClockTypeOK, ReadOK
<1>4. QED
    BY <1>2, <1>3 DEF ClockSound

LEMMA SoundIsAccurate ==
    ASSUME ClockSound
    PROVE  TimeAccurate
<1> SUFFICES ASSUME Returned, IsConsistent, Fits(read.tsc - read.tsc_timestamp, system_time)
             PROVE  /\ result.value <= TimeAt(tsc)
                    /\ result.value >= TimeAt(result.began) - 2
    BY DEF TimeAccurate
<1>1. pc = "ready" /\ AllRead
    BY DEF Returned
<1>2. PICK c \in Calibration : Running(c)
    BY <1>1 DEF ClockSound
<1>3. /\ tsc \in 0 .. MaxTsc /\ result.began \in 0 .. tsc /\ result.began \in 0 .. MaxTsc
      /\ read.version \in SUBSET Nat /\ IsFiniteSet(read.version)
    BY Bounds DEF ClockSound, ReadOK
<1>4. PICK v \in Nat : read.version = {v}
    <2>1. \E v : read.version = {v}
        BY <1>3, FS_Singleton DEF IsConsistent
    <2>2. QED
        BY <1>3, <2>1
<1>5. system_time.mul = c[1] /\ system_time.shift = c[2]
    BY <1>2 DEF Running, Written
<1>6. InReach(c)
    BY <1>5 DEF InReach, Fits
<1>7. /\ result.value <= WallClock + Nanos(tsc, c[1], c[2])
      /\ result.value >= WallClock + Nanos(result.began, c[1], c[2]) - 2
    BY <1>1, <1>2, <1>4, <1>6 DEF Running, Reads
<1> DEFINE x == Nanos(tsc, c[1], c[2])
           y == Nanos(result.began, c[1], c[2])
<1>8. TimeAt(tsc) = WallClock + x
    BY <1>5 DEF TimeAt
<1>9. TimeAt(result.began) = WallClock + y
    BY <1>5 DEF TimeAt
<1>10. result.value <= WallClock + x /\ result.value >= WallClock + y - 2
    BY <1>7
<1>11. y \in Word
    BY <1>3, NanosInWord
<1> HIDE DEF x, y
<1>12. y \in Int /\ WallClock \in Int
    BY <1>11, Bounds
<1>13. QED
    BY <1>8, <1>9, <1>10, <1>12

\* What the types and TimeAccurate say holds for words of any width, any
\* calibrations and any number of updates: a time that now_in_nanoseconds
\* puts together from one version is the hypervisor's at some moment of the
\* call, but for the rounding.
THEOREM ClockStaysSound == ClockSpec => []ClockInvariant
<1>1. ClockSound => ClockInvariant
    BY SoundIsTyped, SoundIsAccurate DEF ClockInvariant
<1>2. QED
    BY <1>1, AlwaysSound, PTL
-----------------------------------------------------------------------------
(* Delays turned into ticks and back.                                      *)

LEMMA FactorsCompare ==
    ASSUME NEW f \in Nat \ {0}, NEW a \in Nat, NEW b \in Nat, f * a < f * b
    PROVE  a < b
<1>1. b <= a => f * b <= f * a
    OBVIOUS
<1>2. f * a \in Nat /\ f * b \in Nat
    OBVIOUS
<1>3. QED
    BY <1>1, <1>2

LEMMA FactorsCompareWeakly ==
    ASSUME NEW f \in Nat \ {0}, NEW a \in Nat, NEW b \in Nat, f * a <= f * b
    PROVE  a <= b
<1>1. b < a => f * b + f <= f * a
    OBVIOUS
<1>2. f * a \in Nat /\ f * b \in Nat
    OBVIOUS
<1>3. QED
    BY <1>1, <1>2

\* What nanoseconds_to_tsc divides: the quotient falls short by less than one
\* multiplier.
LEMMA ScaledIs ==
    ASSUME NEW mul \in 1 .. F - 1, NEW ns \in 0 .. H - 1
    PROVE  /\ ShiftLeft(ns, FractionBits) = ns * F /\ ns * F \in Nat /\ ns * F < W
           /\ \E r \in Nat : /\ ShiftLeft(ns, FractionBits) \div mul = r
                             /\ mul * r <= ns * F /\ ns * F < mul * r + mul
<1>1. F \in Nat \ {0} /\ H \in Nat \ {0} /\ W = F * H /\ ns \in Nat /\ mul \in Nat \ {0}
    BY Widths
<1> DEFINE x == ns * F
<1>2. x \in Nat /\ x < W
    <2>1. ns + 1 <= H
        BY <1>1
    <2>2. (ns + 1) * F <= H * F
        BY <1>1, <2>1
    <2>3. (ns + 1) * F = x + F /\ x \in Nat
        BY <1>1
    <2>4. H * F = W /\ W \in Nat
        BY <1>1, Widths
    <2> HIDE DEF x
    <2>5. QED
        BY <1>1, <2>2, <2>3, <2>4
<1>3. ShiftLeft(ns, FractionBits) = x
    BY <1>2, InWordIs DEF ShiftLeft, F
<1> HIDE DEF x
<1> DEFINE r == x \div mul
<1>4. r \in Nat /\ mul * r <= x /\ x < mul * r + mul
    BY <1>1, <1>2, Quotient
<1> HIDE DEF r
<1>5. ShiftLeft(ns, FractionBits) \div mul = r
    BY <1>3 DEF r
<1>6. QED
    BY <1>2, <1>3, <1>4, <1>5 DEF x

\* The product of the multiplier and the ticks, as long as it does not wrap.
LEMMA UnwrappedIs ==
    ASSUME NEW t \in Nat, NEW mul \in Nat, t * mul < W
    PROVE  /\ t * mul \in Nat
           /\ \E n \in Nat : /\ ShiftRight(InWord(t * mul), FractionBits) = n
                             /\ F * n <= t * mul /\ t * mul < F * n + F
<1> DEFINE p == t * mul
           n == p \div F
<1>1. p \in Nat /\ p < W /\ F \in Nat \ {0}
    BY Widths
<1> HIDE DEF p
<1>2. InWord(p) = p
    BY <1>1, InWordIs
<1>3. n \in Nat /\ F * n <= p /\ p < F * n + F
    BY <1>1, Quotient
<1> HIDE DEF n
<1>4. ShiftRight(InWord(p), FractionBits) = n
    BY <1>2 DEF ShiftRight, n, F
<1>5. QED
    BY <1>1, <1>3, <1>4 DEF p

BackAgain(ns, info) == tsc_to_nanoseconds(nanoseconds_to_tsc(ns, info), info)

\* A counter slower than the nanoseconds: one tick is several.
LEMMA SlowCounter ==
    ASSUME NEW info, NEW ns \in 0 .. H - 1,
           info.mul \in 1 .. F - 1, info.shift \in 0 .. FractionBits
    PROVE  /\ BackAgain(ns, info) <= ns
           /\ ns - BackAgain(ns, info) <= tsc_to_nanoseconds(1, info) + 2
<1> DEFINE mul == info.mul
           u == 2^info.shift
<1>1. /\ F \in Nat \ {0} /\ W \in Nat \ {0} /\ mul \in Nat \ {0} /\ mul < F /\ ns \in Nat
      /\ u \in Nat \ {0} /\ u <= F /\ F * F <= W
    <2>1. info.shift \in 0 .. WordBits /\ info.shift \in 0 .. FractionBits
        BY Widths
    <2>2. F \in Nat \ {0} /\ H \in Nat \ {0} /\ W = F * H /\ F <= H
        BY Widths
    <2>3. F * F <= F * H
        BY <2>2
    <2>4. u \in Nat \ {0} /\ u <= F
        BY <2>1, Widths
    <2>5. QED
        BY <2>2, <2>3, <2>4, Widths
<1>2. PICK r \in Nat : /\ ShiftLeft(ns, FractionBits) \div mul = r
                       /\ mul * r <= ns * F /\ ns * F < mul * r + mul
    BY ScaledIs
<1>3. ns * F \in Nat /\ ns * F < W
    BY ScaledIs
<1> DEFINE t == r \div u
<1>4. t \in Nat /\ u * t <= r /\ r < u * t + u
    BY <1>1, Quotient
<1>5. nanoseconds_to_tsc(ns, info) = t
    BY <1>2 DEF nanoseconds_to_tsc, ShiftRight
<1> HIDE DEF t, u, mul
<1> DEFINE p == (t * u) * mul
           x == ns * F
<1>6. /\ x \in Nat /\ x < W /\ mul * r \in Nat /\ mul * r <= x /\ x < mul * r + mul
    BY <1>1, <1>2, <1>3
<1>7. t * u \in Nat /\ t * u <= r /\ r < t * u + u
    BY <1>1, <1>4
<1>8. p \in Nat /\ p <= mul * r
    BY <1>1, <1>7
<1>9. mul * r + mul <= p + u * mul
    <2> DEFINE y == t * u
    <2>1. y \in Nat /\ r + 1 <= y + u
        BY <1>1, <1>7
    <2> HIDE DEF y
    <2>2. mul * (r + 1) <= mul * (y + u)
        BY <1>1, <2>1
    <2>3. mul * (r + 1) = mul * r + mul /\ mul * (y + u) = y * mul + u * mul
        BY <1>1, <2>1
    <2>4. QED
        BY <2>2, <2>3 DEF y
<1>10. r < W /\ t * u < W /\ p < W
    <2>1. r <= mul * r
        BY <1>1
    <2> HIDE DEF p, x
    <2>2. QED
        BY <1>1, <1>6, <1>7, <1>8, <2>1
<1>11. ShiftLeft(t, info.shift) = t * u
    BY <1>7, <1>10, InWordIs DEF ShiftLeft, u
<1>12. PICK n \in Nat : /\ ShiftRight(InWord(p), FractionBits) = n
                        /\ F * n <= p /\ p < F * n + F
    BY <1>1, <1>7, <1>10, UnwrappedIs
<1>13. BackAgain(ns, info) = n
    BY <1>5, <1>11, <1>12 DEF BackAgain, tsc_to_nanoseconds, mul
<1>14. u * mul \in Nat /\ u * mul < W
    <2>1. u * mul \in Nat /\ u * mul <= F * mul
        BY <1>1
    <2>2. F * mul + F <= F * F
        BY <1>1
    <2>3. F * mul \in Nat /\ F * F \in Nat
        BY <1>1
    <2>4. QED
        BY <1>1, <2>1, <2>2, <2>3
<1>15. PICK k \in Nat : /\ ShiftRight(InWord(u * mul), FractionBits) = k
                        /\ F * k <= u * mul /\ u * mul < F * k + F
    BY <1>1, <1>14, UnwrappedIs
<1>16. ShiftLeft(1, info.shift) = u
    <2>1. u <= u * mul
        BY <1>1
    <2>2. u < W /\ 1 * u = u
        BY <1>1, <1>14, <2>1
    <2>3. QED
        BY <1>1, <2>2, InWordIs DEF ShiftLeft, u
<1>17. tsc_to_nanoseconds(1, info) = k
    BY <1>15, <1>16 DEF tsc_to_nanoseconds, mul
<1> DEFINE q == u * mul
<1> DEFINE y == mul * r
<1>18. /\ x \in Nat /\ p \in Nat /\ q \in Nat /\ y \in Nat /\ p <= y /\ y <= x /\ x < y + mul
       /\ y + mul <= p + q
    BY <1>6, <1>8, <1>9, <1>14
<1>19. F * n <= p /\ p < F * n + F /\ q < F * k + F
    BY <1>12, <1>15
<1> HIDE DEF p, q, x, y
<1>20. p <= x /\ x < p + q
    BY <1>1, <1>18
<1>21. F * n \in Nat /\ F * k \in Nat /\ F * (n + k + 2) = F * n + F * k + 2 * F
    BY <1>1
<1>22. F * n <= F * ns /\ F * ns < F * (n + k + 2)
    <2>1. F * ns = x
        BY <1>1 DEF x
    <2>2. QED
        BY <1>1, <1>18, <1>19, <1>20, <1>21, <2>1
<1>23. n <= ns
    BY <1>1, <1>22, FactorsCompareWeakly
<1>24. ns < n + k + 2
    BY <1>1, <1>22, FactorsCompare
<1>25. QED
    BY <1>1, <1>13, <1>17, <1>23, <1>24

\* A counter faster than the nanoseconds, whose multiplier has as many bits as
\* there are: all of the shifted delay fits in a word.
LEMMA FastCounter ==
    ASSUME NEW info, NEW ns \in 0 .. H - 1, NEW mul \in 1 .. F - 1, NEW g \in Nat \ {0},
           NEW u \in Nat \ {0}, info.mul = mul, ~(info.shift >= 0), 2^(-info.shift) = u,
           F = 2 * g, g <= mul, u <= g
    PROVE  /\ BackAgain(ns, info) <= ns
           /\ ns - BackAgain(ns, info) <= tsc_to_nanoseconds(1, info) + 2
<1>1. /\ F \in Nat \ {0} /\ W \in Nat \ {0} /\ mul \in Nat \ {0} /\ mul < F /\ ns \in Nat
    BY Widths
<1>2. PICK r \in Nat : /\ ShiftLeft(ns, FractionBits) \div mul = r
                       /\ mul * r <= ns * F /\ ns * F < mul * r + mul
    BY ScaledIs
<1> DEFINE x == ns * F
           y == mul * r
<1>3. x \in Nat /\ x < W /\ y \in Nat /\ y <= x /\ x < y + mul
    BY <1>1, <1>2, ScaledIs
<1>4. r <= 2 * ns
    <2>1. g * r <= y
        BY <1>1
    <2>2. x = g * (2 * ns)
        BY <1>1
    <2>3. g * r <= g * (2 * ns) /\ 2 * ns \in Nat
        <3>1. g * r \in Nat /\ 2 * ns \in Nat
            BY <1>1
        <3> HIDE DEF x, y
        <3>2. QED
            BY <1>3, <2>1, <2>2, <3>1
    <2>4. QED
        BY <2>3, FactorsCompareWeakly
<1>5. r * u \in Nat /\ r * u <= x
    <2>1. r * u <= (2 * ns) * u
        BY <1>1, <1>4
    <2>2. (2 * ns) * u <= (2 * ns) * g
        BY <1>1
    <2>3. (2 * ns) * g = x
        BY <1>1
    <2>4. r * u \in Nat /\ (2 * ns) * u \in Nat
        BY <1>1
    <2> HIDE DEF x
    <2>5. QED
        BY <1>3, <2>1, <2>2, <2>3, <2>4
<1> HIDE DEF x
<1>6. r * u < W /\ InWord(r * u) = r * u
    BY <1>1, <1>3, <1>5, InWordIs
<1>7. nanoseconds_to_tsc(ns, info) = r * u
    BY <1>2, <1>6 DEF nanoseconds_to_tsc, ShiftLeft
<1>8. (r * u) \div u = r
    <2> DEFINE p == r * u
               d == p \div u
    <2>1. p \in Nat /\ p = u * r
        OBVIOUS
    <2> HIDE DEF p
    <2>2. d \in Nat /\ u * d <= p /\ \A q \in Nat : u * q <= p => q <= d
        BY <2>1, Quotient
    <2> HIDE DEF d
    <2>3. r <= d
        BY <2>1, <2>2
    <2>4. d <= r
        BY <2>1, <2>2, FactorsCompareWeakly
    <2>5. QED
        BY <2>2, <2>3, <2>4 DEF d, p
<1>9. r * mul = y
    BY <1>1
<1> HIDE DEF y
<1>10. r * mul < W
    BY <1>1, <1>3, <1>9
<1>11. PICK n \in Nat : /\ ShiftRight(InWord(r * mul), FractionBits) = n
                        /\ F * n <= r * mul /\ r * mul < F * n + F
    BY <1>1, <1>10, UnwrappedIs
<1>12. ShiftRight(r * u, -info.shift) = r
    BY <1>8 DEF ShiftRight
<1>13. BackAgain(ns, info) = n
    BY <1>7, <1>11, <1>12 DEF BackAgain, tsc_to_nanoseconds
<1>14. tsc_to_nanoseconds(1, info) \in Nat
    <2> DEFINE v == 1 \div u
    <2>1. v \in Nat
        BY Quotient
    <2>2. ShiftRight(1, -info.shift) = v
        BY DEF ShiftRight
    <2> HIDE DEF v
    <2>3. v * mul \in Int
        BY <1>1, <2>1
    <2> DEFINE w == InWord(v * mul)
    <2>4. w \in Nat
        BY <1>1, <2>3, InWordIs
    <2>5. tsc_to_nanoseconds(1, info) = ShiftRight(w, FractionBits)
        BY <2>2 DEF tsc_to_nanoseconds
    <2> HIDE DEF w
    <2>6. w \div F \in Nat
        BY <1>1, <2>4, Quotient
    <2>7. QED
        BY <2>5, <2>6 DEF ShiftRight, F
<1>15. F * n \in Nat /\ F * (n + 2) = F * n + 2 * F /\ F * ns = x
    BY <1>1 DEF x
<1>16. F * n <= F * ns /\ F * ns < F * (n + 2)
    BY <1>1, <1>3, <1>9, <1>11, <1>15
<1>17. n <= ns
    BY <1>1, <1>16, FactorsCompareWeakly
<1>18. ns < n + 2
    BY <1>1, <1>16, FactorsCompare
<1> DEFINE k == tsc_to_nanoseconds(1, info)
<1> HIDE DEF k
<1>19. k \in Nat
    BY <1>14 DEF k
<1>20. n <= ns /\ ns - n <= k + 2
    BY <1>1, <1>17, <1>18, <1>19
<1>21. QED
    BY <1>13, <1>20 DEF k

\* The calibration the guest computes with is one of the machine's.
CalibrationKnown ==
    pc \in {"ready", "reading"} =>
        \E c \in Calibration : system_time.mul = c[1] /\ system_time.shift = c[2]

LEMMA CalibrationStaysKnown == ClockSpec => []CalibrationKnown
<1>1. ClockInit => CalibrationKnown
    BY DEF ClockInit, CalibrationKnown
<1>2. CalibrationKnown /\ [ClockNext]_clockVars => CalibrationKnown'
    <2>1. SUFFICES ASSUME CalibrationKnown, [ClockNext]_clockVars
                   PROVE  CalibrationKnown'
        OBVIOUS
    <2>2. CASE Tick \/ Begin \/ rdtsc \/ Return \/ UNCHANGED clockVars
               \/ \E field \in {"system_time", "tsc_timestamp"} : ReadField(field)
        <3>1. /\ system_time' = system_time
              /\ pc' \in {"ready", "reading"} => pc \in {"ready", "reading"}
            BY <2>2 DEF Tick, Begin, rdtsc, Return, ReadField, clockVars
        <3>2. QED
            BY <2>1, <3>1 DEF CalibrationKnown
    <2>3. CASE Update
        <3>1. /\ pc \in {"ready", "reading"}
              /\ system_time'.mul = system_time.mul /\ system_time'.shift = system_time.shift
            BY <2>3 DEF Update, Relation
        <3>2. QED
            BY <2>1, <3>1 DEF CalibrationKnown
    <2>4. CASE SetWallClock \/ NoClock
        <3>1. pc' \notin {"ready", "reading"}
            BY <2>4 DEF SetWallClock, NoClock
        <3>2. QED
            BY <3>1 DEF CalibrationKnown
    <2>5. CASE SetSystemTime
        <3>1. \E c \in Calibration : system_time'.mul = c[1] /\ system_time'.shift = c[2]
            BY <2>5 DEF SetSystemTime, Relation
        <3>2. QED
            BY <3>1 DEF CalibrationKnown
    <2>6. QED
        BY <2>1, <2>2, <2>3, <2>4, <2>5 DEF ClockNext
<1>3. QED
    BY <1>1, <1>2, PTL DEF ClockSpec

LEMMA CalibrationKeepsDelays ==
    ASSUME Normalized, NEW info, NEW c \in Calibration, info.mul = c[1], info.shift = c[2],
           NEW ns \in 0 .. H - 1
    PROVE  /\ BackAgain(ns, info) <= ns
           /\ ns - BackAgain(ns, info) <= tsc_to_nanoseconds(1, info) + 2
<1>1. /\ info.mul \in 1 .. F - 1 /\ info.shift \in -FractionBits .. FractionBits
      /\ 2^(FractionBits - 1) <= info.mul /\ -FractionBits < info.shift
    BY CalibrationIs DEF Calibrated, Normalized
<1>2. CASE info.shift >= 0
    <2>1. info.shift \in 0 .. FractionBits
        BY <1>1, <1>2, Widths
    <2>2. QED
        BY <1>1, <2>1, SlowCounter
<1>3. CASE ~(info.shift >= 0)
    <2> DEFINE k == -info.shift
               h == FractionBits - 1
    <2>1. /\ k \in 0 .. WordBits /\ h \in 0 .. WordBits - 1 /\ h \in 0 .. WordBits /\ k <= h
          /\ h + 1 = FractionBits
        BY <1>1, <1>3, Widths
    <2>2. Doubles(WordBits)
        BY WordDoubles DEF Doubles
    <2> HIDE DEF h
    <2>3. 2^k \in Nat \ {0} /\ 2^h \in Nat \ {0}
        BY <2>1, Widths
    <2>4. 2^(h + 1) = 2 * 2^h
        BY <2>1, WordDoubles
    <2>5. F = 2 * 2^h
        BY <2>1, <2>4 DEF F
    <2>6. 2^k <= 2^h
        <3>1. k < h => 2 * 2^k <= 2^h
            BY <2>1, <2>2, PowersGrow, Widths
        <3>2. QED
            BY <2>1, <2>3, <3>1
    <2>7. 2^h <= info.mul
        BY <1>1 DEF h
    <2>8. QED
        BY <1>1, <1>3, <2>3, <2>5, <2>6, <2>7, FastCounter
<1>4. QED
    BY <1>2, <1>3

\* Every delay that fits above the fraction survives its turn into ticks and
\* back, on every machine whose multiplier uses all of its bits.
THEOREM DelaysAreKept == Normalized => (ClockSpec => []DelaysKept)
<1> SUFFICES ASSUME Normalized
             PROVE  ClockSpec => []DelaysKept
    OBVIOUS
<1>1. ASSUME CalibrationKnown
      PROVE  DelaysKept
    <2>1. SUFFICES ASSUME pc = "ready", NEW ns \in 0 .. H - 1
                   PROVE  /\ BackAgain(ns, system_time) <= ns
                          /\ ns - BackAgain(ns, system_time) <= tsc_to_nanoseconds(1, system_time) + 2
        BY DEF DelaysKept, BackAgain, H
    <2>2. PICK c \in Calibration : system_time.mul = c[1] /\ system_time.shift = c[2]
        BY <1>1, <2>1 DEF CalibrationKnown
    <2>3. QED
        BY <2>2, CalibrationKeepsDelays
<1>2. ClockSpec => []CalibrationKnown
    BY CalibrationStaysKnown
<1>3. QED
    BY <1>1, <1>2, PTL
=============================================================================
