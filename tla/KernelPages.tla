----------------------------- MODULE KernelPages -----------------------------
(***************************************************************************)
(* Pages and the kernel addresses they are mapped at: the part of          *)
(* lib/mem.c that puts its two buddy allocators and the page tables        *)
(* together.  Its callers are the heap and create_kernel_task, which       *)
(* allocate and free mapped blocks, and the drivers, which map device      *)
(* memory.  What they give back is the latest they got, or anything they   *)
(* hold (AnyOrder): only the first is safe.                                *)
(***************************************************************************)
EXTENDS Buddy

CONSTANTS
    Region,                 \* the free pages at boot: one of these <<from, to>>
    VaddrsFrom, VaddrsTo,   \* the free kernel addresses at boot, in pages
    Device,                 \* a page of device memory: not in any pool
    AnyOrder,               \* whether blocks are freed in any order
    MaxRefs                 \* bound: the references taken to one block

ASSUME KernelPagesAssumption ==
    /\ Region \subseteq Nat \X Nat
    /\ \A r \in Region : r[1] < r[2] /\ r[2] <= Device
    /\ VaddrsFrom \in Nat /\ VaddrsTo \in Nat /\ VaddrsFrom < VaddrsTo
    /\ VaddrsTo % 2^(Limit - 1) = 0
    /\ Device \in Nat /\ MaxRefs \in Nat /\ AnyOrder \in BOOLEAN

VARIABLES
    region,                 \* the free pages at boot
    pages,                  \* pages, pages_free_list
    vaddrs,                 \* vaddrs, vaddrs_free_list
    kernel_page_tables,     \* the page each kernel address maps to
    kernel_vaddr,           \* page_t.kernel_vaddr of every page
    kernel_vaddr_refcnt,    \* page_t.kernel_vaddr_refcnt of every page
    held                    \* the mappings the kernel was given

mappingVars == <<vaddrs, kernel_page_tables, kernel_vaddr, kernel_vaddr_refcnt>>
memVars == <<region, pages, mappingVars, held>>

\* A page table entry that is 0, and the null pointer.
Unmapped == -1
NoVaddr == -1

Init ==
    /\ region \in Region
    /\ pages = NewPool(region[1], region[2])
    /\ vaddrs = NewPool(VaddrsFrom, VaddrsTo)
    /\ kernel_page_tables = [v \in VaddrsFrom .. VaddrsTo - 1 |-> Unmapped]
    /\ kernel_vaddr = [p \in Index(pages) |-> NoVaddr]
    /\ kernel_vaddr_refcnt = [p \in Index(pages) |-> 0]
    /\ held = <<>>

\* What a caller knows of a mapping: where it is, how large it is, and which
\* page it starts with; and how many references to it the kernel has.
Mapping(addr, o, page) == [addr |-> addr, order |-> o, page |-> page, refs |-> 1]
-----------------------------------------------------------------------------
(* The functions of mem.c. *)

\* The same code as for pages, without the test of pages_count in the loop
\* of vaddr_free.  VaddrsTo (KERNEL_MEMORY_PAGES) is a multiple of the largest
\* block, so no buddy is beyond it and the test makes no difference.
vaddr_allocate(o) == page_allocate(vaddrs, o)
vaddr_free(addr) == page_free(vaddrs, addr)

\* It returns Taken(vaddrs, o).
map_phaddr_in_kernel(page, o) ==
    /\ vaddrs' = vaddr_allocate(o)
    /\ kernel_page_tables' = [v \in DOMAIN kernel_page_tables |->
            LET addr == Taken(vaddrs, o)
            IN  IF v \in Span(addr, o) THEN page + (v - addr) ELSE kernel_page_tables[v]]

\* A slip: only the first page of the block is unmapped.
unmap_phaddr_in_kernel_First(addr) ==
    /\ kernel_page_tables' = [kernel_page_tables EXCEPT ![addr] = Unmapped]
    /\ vaddrs' = vaddr_free(addr)

unmap_phaddr_in_kernel(addr) ==
    /\ kernel_page_tables' = [v \in DOMAIN kernel_page_tables |->
            IF v \in Span(addr, vaddrs.order[addr]) THEN Unmapped ELSE kernel_page_tables[v]]
    /\ vaddrs' = vaddr_free(addr)

\* page_map of a page that is mapped, and of one that is not.
page_map_again(page) ==
    /\ kernel_vaddr[page] # NoVaddr
    /\ kernel_vaddr_refcnt' = [kernel_vaddr_refcnt EXCEPT ![page] = @ + 1]
    /\ UNCHANGED <<vaddrs, kernel_page_tables, kernel_vaddr>>

page_map_first(page, o) ==
    /\ kernel_vaddr[page] = NoVaddr
    /\ map_phaddr_in_kernel(page, o)
    /\ kernel_vaddr' = [kernel_vaddr EXCEPT ![page] = Taken(vaddrs, o)]
    /\ kernel_vaddr_refcnt' = [kernel_vaddr_refcnt EXCEPT ![page] = @ + 1]

page_unmap(page) ==
    /\ kernel_vaddr_refcnt' = [kernel_vaddr_refcnt EXCEPT ![page] = @ - 1]
    /\ \/ /\ kernel_vaddr_refcnt'[page] # 0
          /\ UNCHANGED <<vaddrs, kernel_page_tables, kernel_vaddr>>
       \/ /\ kernel_vaddr_refcnt'[page] = 0
          /\ unmap_phaddr_in_kernel(kernel_vaddr[page])
          /\ kernel_vaddr' = [kernel_vaddr EXCEPT ![page] = NoVaddr]
-----------------------------------------------------------------------------
(* What the kernel does with them. *)

\* kernel_page_allocate returns an address: the page is mapped at it, for
\* the first time since it was allocated.
KernelPageAllocate(o) ==
    LET page == Taken(pages, o) IN
    /\ Available(pages, o) # {}
    /\ Available(vaddrs, o) # {}
    /\ pages' = page_allocate(pages, o)
    /\ page_map_first(page, o) \/ page_map_again(page)
    /\ held' = Append(held, Mapping(kernel_vaddr'[page], o, page))
    /\ UNCHANGED region

\* A slip: kernel_page_allocate forgets the page it could not map.
KernelPageAllocateFails_Leak(o) ==
    /\ Available(pages, o) # {}
    /\ Available(vaddrs, o) = {}
    /\ pages' = page_allocate(pages, o)
    /\ UNCHANGED <<region, mappingVars, held>>

\* There is a page and no address for it: the page is freed again.
KernelPageAllocateFails(o) ==
    /\ Available(pages, o) # {}
    /\ Available(vaddrs, o) = {}
    /\ pages' = page_free(page_allocate(pages, o), Taken(pages, o))
    /\ UNCHANGED <<region, mappingVars, held>>

MayFree(k) == AnyOrder \/ k = Len(held)

\* kernel_page_free of a mapping that has no other reference.  The page is
\* found through the page tables.
KernelPageFree(k) ==
    LET page == kernel_page_tables[held[k].addr] IN
    /\ MayFree(k)
    /\ held[k].page # Device
    /\ held[k].refs = 1
    /\ page_unmap(page)
    /\ pages' = page_free(pages, page)
    /\ held' = RemoveAt(held, k)
    /\ UNCHANGED region

\* page_map and page_unmap of a page that is held.
Map(k) ==
    /\ held[k].page # Device
    /\ held[k].refs < MaxRefs
    /\ page_map_again(held[k].page)
    /\ held' = [held EXCEPT ![k].refs = @ + 1]
    /\ UNCHANGED <<region, pages>>

Unmap(k) ==
    /\ held[k].page # Device
    /\ held[k].refs > 1
    /\ page_unmap(held[k].page)
    /\ held' = [held EXCEPT ![k].refs = @ - 1]
    /\ UNCHANGED <<region, pages>>

\* A driver maps its registers, and unmaps them.
MapDevice(o) ==
    /\ Available(vaddrs, o) # {}
    /\ map_phaddr_in_kernel(Device, o)
    /\ held' = Append(held, Mapping(Taken(vaddrs, o), o, Device))
    /\ UNCHANGED <<region, pages, kernel_vaddr, kernel_vaddr_refcnt>>

UnmapDevice(k) ==
    /\ MayFree(k)
    /\ held[k].page = Device
    /\ unmap_phaddr_in_kernel(held[k].addr)
    /\ held' = RemoveAt(held, k)
    /\ UNCHANGED <<region, pages, kernel_vaddr, kernel_vaddr_refcnt>>

Next ==
    \/ \E o \in Order :
        KernelPageAllocate(o) \/ KernelPageAllocateFails(o) \/ MapDevice(o)
    \/ \E k \in DOMAIN held :
        Map(k) \/ Unmap(k) \/ KernelPageFree(k) \/ UnmapDevice(k)

Spec == Init /\ [][Next]_memVars
-----------------------------------------------------------------------------
\* What page_free needs of a region at boot: no block of it has another one
\* as its buddy.  It is so where the region ends with a block of the largest
\* order (RegionsThatEndAligned), and in others.  Where it is not, the first
\* block that is freed can be merged with a smaller one.
RegionsUnmerged == \A r \in Region : Unmerged(FreeBlocks(NewPool(r[1], r[2])))

Held == ToSet(held)

TypeOK ==
    /\ region \in Region
    /\ PoolTypeOK(pages)
    /\ PoolTypeOK(vaddrs)
    /\ kernel_page_tables \in [VaddrsFrom .. VaddrsTo - 1 -> Nat \cup {Unmapped}]
    /\ kernel_vaddr \in [Index(pages) -> Index(vaddrs) \cup {NoVaddr}]
    /\ kernel_vaddr_refcnt \in [Index(pages) -> Nat]

\* A held mapping maps each of its addresses to its own page, and no other
\* address is mapped: callers never share memory, and nothing that was freed
\* can still be reached.
TablesExact ==
    \A v \in DOMAIN kernel_page_tables :
        IF \E h \in Held : v \in Span(h.addr, h.order)
        THEN \E h \in Held :
                /\ v \in Span(h.addr, h.order)
                /\ kernel_page_tables[v] = h.page + (v - h.addr)
        ELSE kernel_page_tables[v] = Unmapped

\* What a page says of its mapping is true: it is mapped as long as it has
\* references, at the address its holders know.
PagesKnowTheirMapping ==
    \A p \in Index(pages) :
        IF \E h \in Held : h.page = p
        THEN \E h \in Held :
                h.page = p /\ kernel_vaddr[p] = h.addr /\ kernel_vaddr_refcnt[p] = h.refs
        ELSE kernel_vaddr[p] = NoVaddr /\ kernel_vaddr_refcnt[p] = 0

PagesHeld == {Block(h.page, h.order) : h \in {g \in Held : g.page # Device}}
VaddrsHeld == {Block(h.addr, h.order) : h \in Held}

\* mem.h: order is the "allocated order".  It is that of the pages and of the
\* addresses that are allocated, and -1 of the others, which is how page_free
\* knows the page it must not free again.
OrderIsAllocated(pool, blocks) ==
    \A i \in Index(pool), o \in Order : pool.order[i] = o <=> Block(i, o) \in blocks

\* The page tables, what the pages and the addresses say of themselves, and
\* what the callers know are the same thing told three times.
MappingsInvariant ==
    /\ TypeOK /\ TablesExact /\ PagesKnowTheirMapping
    /\ OrderIsAllocated(pages, PagesHeld) /\ OrderIsAllocated(vaddrs, VaddrsHeld)

\* Neither pages nor addresses are given twice or lost, also when one of the
\* two runs out while the other has been taken already.
NothingLost ==
    /\ PartitionOf(pages, PagesHeld, region[1], region[2])
    /\ PartitionOf(vaddrs, VaddrsHeld, VaddrsFrom, VaddrsTo)

\* When everything is given back, the pools are what they were at boot:
\* merging undoes splitting, and memory does not fragment for good.
Restored ==
    held = <<>> =>
        /\ FreeBlocks(pages) = FreeBlocks(NewPool(region[1], region[2]))
        /\ FreeBlocks(vaddrs) = FreeBlocks(NewPool(VaddrsFrom, VaddrsTo))

\* mem.h: free_node "if not empty, belongs to a free-list".  A page on a free
\* list, and every page of the free block it stands for, is held by nobody.
FreeIsFree ==
    \A f \in FreeBlocks(pages), h \in PagesHeld :
        Span(f.index, f.order) \cap Span(h.index, h.order) = {}
=============================================================================
