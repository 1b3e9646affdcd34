--------------------------------- MODULE Pci ---------------------------------
(***************************************************************************)
(* The discovery of the PCI functions of the machine, drivers/pci.c: a     *)
(* depth-first walk that recurses into the bus behind each bridge and      *)
(* enters each function it finds in a table by location and in a list by   *)
(* class.  The recursion is a stack of frames, one for each pci_check_bus  *)
(* that has not returned.  The configuration registers are the state of    *)
(* the hardware; during the walk they are only read.                       *)
(***************************************************************************)
EXTENDS Integers, SequencesExt

CONSTANTS
    MAX_SLOTS, MAX_FUNCTIONS, MAX_BUSES,
    Category,       \* the <<class, subclass>> of the functions there can be
    Machine         \* the machines to scan: records of configured functions

Bus == 0 .. MAX_BUSES - 1
Slot == 0 .. MAX_SLOTS - 1
Func == 0 .. MAX_FUNCTIONS - 1
Location == Bus \X Slot \X Func

\* What the registers of a location say.
Absent == [kind |-> "absent"]
Device(category) == [kind |-> "device", category |-> category]
Bridge(secondary) == [kind |-> "bridge", secondary |-> secondary]
Registers == {Absent} \cup {Device(c) : c \in Category} \cup {Bridge(b) : b \in Bus}

VARIABLES
    machine,        \* [regs |-> the registers, multi |-> the header type bits]
    function,       \* the loop variable of the constructor
    stack,          \* the frames of pci_check_bus, the innermost one last
    buses,          \* buses[bus]->slots[slot]->functions[func]: its category
    classes,        \* the classes whose lists are allocated
    devices,        \* classes[class]->subclasses[subclass].devices
    state           \* "scanning", "done", or "panic"

pciVars == <<machine, function, stack, buses, classes, devices, state>>

NoDevice == <<>>

regs(bus, slot, func) == machine.regs[<<bus, slot, func>>]

\* The vendor identifier is not 0xFFFF.
Present(bus, slot, func) == regs(bus, slot, func) # Absent

\* Bit 23 of register 0xC.  A function that is absent reads as all ones.
IsMulti(bus, slot) == ~Present(bus, slot, 0) \/ <<bus, slot>> \in machine.multi
-----------------------------------------------------------------------------
(***************************************************************************)
(* The machines the walk is written for, as their firmware leaves them.    *)
(* The host bridge is at 0:0.0.  A slot with any function has function 0,  *)
(* whose header type tells whether there are others.  Either function n of *)
(* slot 0:0 is the host bridge of bus n, or that slot has one function.    *)
(* Every bus is behind one bridge at most, with a greater number.  There   *)
(* is nothing on a bus that no bridge leads to.                            *)
(***************************************************************************)
BridgesOf(m) == {l \in DOMAIN m.regs : m.regs[l].kind = "bridge"}

HostBuses(m) ==
    IF <<0, 0>> \in m.multi THEN {f \in Func : m.regs[<<0, 0, f>>] # Absent} ELSE {0}

Configured(m) ==
    /\ m.regs[<<0, 0, 0>>] # Absent
    /\ \A l \in Location : l[3] > 0 /\ m.regs[l] # Absent =>
            m.regs[<<l[1], l[2], 0>>] # Absent /\ <<l[1], l[2]>> \in m.multi
    /\ <<0, 0>> \in m.multi => \A f \in Func : m.regs[<<0, 0, f>>].kind # "bridge"
    /\ \A l \in BridgesOf(m) :
            /\ m.regs[l].secondary > l[1]
            /\ m.regs[l].secondary \notin HostBuses(m)
    /\ \A k, l \in BridgesOf(m) : m.regs[k].secondary = m.regs[l].secondary => k = l
    /\ \A l \in Location : m.regs[l] # Absent =>
            l[1] \in HostBuses(m) \/ \E k \in BridgesOf(m) : m.regs[k].secondary = l[1]

ASSUME PciAssumption ==
    /\ MAX_SLOTS \in Nat \ {0} /\ MAX_FUNCTIONS \in Nat \ {0} /\ MAX_BUSES \in Nat \ {0}
    /\ MAX_FUNCTIONS <= MAX_BUSES
    /\ <<>> \notin Category
    /\ \A m \in Machine :
        /\ m.regs \in [Location -> Registers]
        /\ m.multi \subseteq Bus \X Slot
        /\ Configured(m)

PciInit ==
    /\ machine \in Machine
    /\ function = 0
    /\ stack = <<>>
    /\ buses = [l \in Location |-> NoDevice]
    /\ classes = {}
    /\ devices = [c \in Category |-> <<>>]
    /\ state = "scanning"
-----------------------------------------------------------------------------
(***************************************************************************)
(* A call of pci_check_bus: its slot, and in pci_check_device the function *)
(* it is at and how many there are; none before the slot was looked at.    *)
(***************************************************************************)
pci_check_bus(bus) == [bus |-> bus, slot |-> 0, func |-> 0, functions |-> 0]

NextSlot(frame) == [frame EXCEPT !.slot = @ + 1, !.func = 0, !.functions = 0]

\* A slip: a slot ends at the first absent function.
NextFunction_StopAtGap(frame) ==
    IF frame.func + 1 < frame.functions /\ Present(frame.bus, frame.slot, frame.func + 1)
    THEN [frame EXCEPT !.func = @ + 1] ELSE NextSlot(frame)

NextFunction(frame) ==
    IF frame.func + 1 < frame.functions THEN [frame EXCEPT !.func = @ + 1]
                                        ELSE NextSlot(frame)

top == Last(stack)
Goto(frame) == Append(Front(stack), frame)

\* CONSTRUCTOR(pci): the walk starts at bus 0, or at each of the host buses.
HostBus ==
    /\ state = "scanning" /\ stack = <<>>
    /\ function < MAX_FUNCTIONS
    /\ IF IsMulti(0, 0)
       THEN /\ function' = function + 1
            /\ stack' = IF Present(0, 0, function) THEN <<pci_check_bus(function)>> ELSE <<>>
       ELSE /\ function' = MAX_FUNCTIONS
            /\ stack' = <<pci_check_bus(0)>>
    /\ UNCHANGED <<machine, buses, classes, devices, state>>

Finished ==
    /\ state = "scanning" /\ stack = <<>>
    /\ function = MAX_FUNCTIONS
    /\ state' = "done"
    /\ UNCHANGED <<machine, function, stack, buses, classes, devices>>

\* pci_check_bus returns.
BusChecked ==
    /\ state = "scanning" /\ stack # <<>>
    /\ top.slot = MAX_SLOTS
    /\ stack' = Front(stack)
    /\ UNCHANGED <<machine, function, buses, classes, devices, state>>

\* A slip: an empty slot is looked at again.
pci_check_device_Again ==
    /\ state = "scanning" /\ stack # <<>>
    /\ top.slot < MAX_SLOTS /\ top.functions = 0
    /\ Present(top.bus, top.slot, 0)
    /\ stack' = Goto([top EXCEPT !.functions = IF IsMulti(top.bus, top.slot)
                                               THEN MAX_FUNCTIONS ELSE 1])
    /\ UNCHANGED <<machine, function, buses, classes, devices, state>>

\* pci_check_device up to its loop.
pci_check_device ==
    /\ state = "scanning" /\ stack # <<>>
    /\ top.slot < MAX_SLOTS /\ top.functions = 0
    /\ stack' = Goto(IF ~Present(top.bus, top.slot, 0) THEN NextSlot(top)
                     ELSE [top EXCEPT !.functions = IF IsMulti(top.bus, top.slot)
                                                    THEN MAX_FUNCTIONS ELSE 1])
    /\ UNCHANGED <<machine, function, buses, classes, devices, state>>

here == regs(top.bus, top.slot, top.func)

AtFunction ==
    /\ state = "scanning" /\ stack # <<>>
    /\ top.functions > 0

\* pci_check_function finds nothing.
FunctionAbsent ==
    /\ AtFunction
    /\ here = Absent
    /\ stack' = Goto(NextFunction(top))
    /\ UNCHANGED <<machine, function, buses, classes, devices, state>>

\* It finds a bridge, and calls pci_check_bus for the bus behind it.
FunctionIsBridge ==
    /\ AtFunction
    /\ here.kind = "bridge"
    /\ stack' = Append(Goto(NextFunction(top)), pci_check_bus(here.secondary))
    /\ UNCHANGED <<machine, function, buses, classes, devices, state>>

\* A slip: the lists of a class are made each time it is met.
allocate_subclass_Again(class) ==
    [c \in Category |-> IF c[1] = class THEN <<>> ELSE devices[c]]

\* allocate_subclass: the lists of a class are made when it is first met.
allocate_subclass(class) ==
    [c \in Category |-> IF c[1] = class /\ class \notin classes THEN <<>> ELSE devices[c]]

\* It finds a device, which it enters in the table and in its class's list.
FunctionIsDevice ==
    LET location == <<top.bus, top.slot, top.func>>
        category == here.category
    IN  /\ AtFunction
        /\ here.kind = "device"
        /\ buses' = [buses EXCEPT ![location] = category]
        /\ classes' = classes \cup {category[1]}
        /\ devices' = [allocate_subclass(category[1]) EXCEPT ![category] = Append(@, location)]
        /\ stack' = Goto(NextFunction(top))
        /\ UNCHANGED <<machine, function, state>>

\* allocate_device or allocate_subclass has no memory: PANIC.
OutOfMemory ==
    /\ AtFunction
    /\ here.kind = "device"
    /\ state' = "panic"
    /\ UNCHANGED <<machine, function, stack, buses, classes, devices>>

\* The machine stops, or the constructor has returned.
Stopped == state # "scanning" /\ UNCHANGED pciVars

PciNext ==
    \/ HostBus \/ Finished \/ BusChecked
    \/ pci_check_device
    \/ FunctionAbsent \/ FunctionIsBridge \/ FunctionIsDevice \/ OutOfMemory
    \/ Stopped

PciSpec == PciInit /\ [][PciNext]_pciVars

\* The constructor runs to its end: nothing else runs yet.
PciFairSpec == PciSpec /\ WF_pciVars(PciNext)
-----------------------------------------------------------------------------
(* Properties. *)

Frame == [bus : Bus, slot : 0 .. MAX_SLOTS, func : Func, functions : 0 .. MAX_FUNCTIONS]

\* The types.  The stack is never deeper than there are buses.
PciTypeOK ==
    /\ function \in 0 .. MAX_FUNCTIONS
    /\ stack \in Seq(Frame) /\ Len(stack) <= MAX_BUSES
    /\ buses \in [Location -> Category \cup {NoDevice}]
    /\ classes \subseteq {c[1] : c \in Category}
    /\ \A c \in Category : devices[c] \in Seq(Location)
    /\ state \in {"scanning", "done", "panic"}

\* What pci_get_by_location and pci_get_devices_by_class say of a device
\* agrees: it is on the list of its own class and nowhere else, once.  A
\* function scanned twice would be linked a second time into its list, which
\* would then have no end.
TableMatchesLists ==
    \A c \in Category :
        /\ \A i, j \in DOMAIN devices[c] : devices[c][i] = devices[c][j] => i = j
        /\ ToSet(devices[c]) = {l \in Location : buses[l] = c}

\* No bus is scanned by two calls, one inside the other: the recursion is a
\* path down the tree of buses.
NoBusInsideItself ==
    \A i, j \in DOMAIN stack : i < j => stack[i].bus # stack[j].bus

\* The three of them, at every moment of the walk.
ScanInvariant == PciTypeOK /\ TableMatchesLists /\ NoBusInsideItself

\* When the walk is over it has found every function of the machine that is
\* not a bridge, however deep, and nothing else.
ScanComplete ==
    state = "done" =>
        \A l \in Location :
            buses[l] = IF machine.regs[l].kind = "device" THEN machine.regs[l].category
                                                          ELSE NoDevice

\* The walk ends: a system with more bridges never recurses forever.
ScanEnds == <>(state # "scanning")
==============================================================================
