----------------------------- MODULE BootMemory ------------------------------
(***************************************************************************)
(* How the kernel takes the memory of the machine: boot/mboot.c and the    *)
(* part of lib/mem.c that runs before anything is allocated.  What the     *)
(* boot loader left is kept, the page tables are built and extended, and   *)
(* the two pools of Buddy get all pages and all addresses that are left.   *)
(* An address is a number of units, of which a page has 2^PageBits.        *)
(***************************************************************************)
EXTENDS Buddy

CONSTANTS
    PageBits,
    KernelEnd,              \* _initial_mapping_end
    AddressLimit,           \* 2^32
    KERNEL_MEMORY_PAGES,
    PageStruct,             \* sizeof(page_t)
    BootInfo                \* what boot loaders may say

VARIABLES
    mbi,                    \* one of BootInfo
    pc, i,                  \* the function that runs, and its loop variable
    last_kernel_phaddr, memory_size,
    paging,                 \* whether the page tables are in use
    kernel_page_tables,     \* the pages that are mapped, at their own index
    pages,                  \* pages, pages_count, pages_free_list
    vaddrs_free_list

vars == <<mbi, pc, i, last_kernel_phaddr, memory_size, paging, kernel_page_tables,
          pages, vaddrs_free_list>>

PageSize == 2^PageBits
PageOf(addr) == addr \div PageSize
PAGE_END(addr) == ((addr + PageSize - 1) \div PageSize) * PageSize

\* An entry of the memory map.
Entry == [base : Nat, length : Nat, type : Nat]
EndOfRegion(region) == region.base + region.length
IsRam(region) == region.type = 1

(***************************************************************************)
(* Boot loaders describe whole pages, none of them twice; the kernel and   *)
(* what they loaded are in one region of RAM, where there is room for the  *)
(* page table of the kernel.  The size they give is where that region ends.*)
(* A size of 0 stands for no size.                                         *)
(***************************************************************************)
Honest(info) ==
    /\ \A k \in DOMAIN info.map :
        /\ info.map[k].base % PageSize = 0 /\ info.map[k].length % PageSize = 0
        /\ \A j \in DOMAIN info.map \ {k} :
            EndOfRegion(info.map[j]) <= info.map[k].base \/ EndOfRegion(info.map[k]) <= info.map[j].base
    /\ \E k \in DOMAIN info.map :
        /\ IsRam(info.map[k]) /\ EndOfRegion(info.map[k]) < AddressLimit
        /\ info.map[k].base <= PageSize
        /\ \A r \in ToSet(info.reserved) \cup {KernelEnd} :
            r + 4 + PageStruct * PageOf(AddressLimit) <= EndOfRegion(info.map[k])
        /\ info.memory \in {0, EndOfRegion(info.map[k])}

ASSUME BootMemoryAssumption ==
    /\ PageBits \in Nat /\ PageBits >= 2
    /\ KernelEnd \in Nat /\ AddressLimit \in Nat /\ PageStruct \in Nat
    /\ KERNEL_MEMORY_PAGES \in Nat /\ PageOf(AddressLimit) <= KERNEL_MEMORY_PAGES
    /\ BootInfo \subseteq [memory : Nat, map : Seq(Entry), reserved : Seq(Nat)]
    /\ \A info \in BootInfo : Honest(info)

\* 1 << PageBits, which the proofs know only from here.
ASSUME PageShiftDoubles == \A o \in 0 .. PageBits - 1 : 2^(o + 1) = 2 * 2^o

NoPool == [count |-> 0, free |-> [o \in Order |-> <<>>], order |-> <<>>]

Init ==
    /\ mbi \in BootInfo
    /\ pc = "initial_process_multiboot" /\ i = 1
    /\ last_kernel_phaddr = KernelEnd
    /\ memory_size = 0
    /\ paging = FALSE
    /\ kernel_page_tables = {}
    /\ pages = NoPool
    /\ vaddrs_free_list = [o \in Order |-> <<>>]
-----------------------------------------------------------------------------
(* initial_process_multiboot and memory_setup_paging, before paging. *)

reserve_up_to_phaddr_before_paging(phaddr) ==
    last_kernel_phaddr' = IF phaddr > last_kernel_phaddr THEN phaddr ELSE last_kernel_phaddr

\* The command line, the memory map and the modules are kept.
Reserve ==
    /\ pc = "initial_process_multiboot" /\ i <= Len(mbi.reserved)
    /\ reserve_up_to_phaddr_before_paging(mbi.reserved[i])
    /\ i' = i + 1
    /\ UNCHANGED <<mbi, pc, memory_size, paging, kernel_page_tables, pages, vaddrs_free_list>>

MemorySize ==
    /\ pc = "initial_process_multiboot" /\ i > Len(mbi.reserved)
    /\ memory_size' = mbi.memory
    /\ pc' = "memory_setup_paging"
    /\ UNCHANGED <<mbi, i, last_kernel_phaddr, paging, kernel_page_tables, pages, vaddrs_free_list>>

\* A slip: the last page, which is not full, is not mapped.
InitialMapping_Down == 0 .. PageOf(last_kernel_phaddr) - 1
InitialMapping == 0 .. PageOf(last_kernel_phaddr + PageSize - 1) - 1

memory_setup_paging ==
    /\ pc = "memory_setup_paging"
    /\ kernel_page_tables' = InitialMapping
    /\ paging' = TRUE
    /\ pc' = "size" /\ i' = 1
    /\ UNCHANGED <<mbi, last_kernel_phaddr, memory_size, pages, vaddrs_free_list>>
-----------------------------------------------------------------------------
(* CONSTRUCTOR(mem) *)

\* The entries both of its loops skip.
Skipped(region) == ~IsRam(region) \/ EndOfRegion(region) >= AddressLimit

\* One entry of the first loop.
SizeOfRegion ==
    /\ pc = "size" /\ mbi.memory = 0 /\ i <= Len(mbi.map)
    /\ memory_size' = IF Skipped(mbi.map[i]) THEN memory_size 
                      ELSE Max({memory_size, EndOfRegion(mbi.map[i])})
    /\ i' = i + 1
    /\ UNCHANGED <<mbi, pc, last_kernel_phaddr, paging, kernel_page_tables, pages, vaddrs_free_list>>

memory_map_kernel_range(phaddr, phend) ==
    kernel_page_tables' = kernel_page_tables \cup PageOf(phaddr) .. PageOf(phend) - 1

\* The array of pages is put after what is kept, and mapped; then the kernel
\* takes the rest of its last page too.
AllocatePages ==
    LET aligned == ((last_kernel_phaddr + 3) \div 4) * 4
        count == PageOf(memory_size + PageSize - 1)
        end == aligned + PageStruct * count
    IN  /\ pc = "size" /\ (mbi.memory # 0 \/ i > Len(mbi.map))
        /\ memory_map_kernel_range(PAGE_END(aligned), PAGE_END(end))
        /\ last_kernel_phaddr' = PAGE_END(end)
        /\ pages' = [count |-> count, free |-> [o \in Order |-> <<>>],
                     order |-> [p \in 0 .. count - 1 |-> -1]]
        /\ pc' = "pool" /\ i' = 1
        /\ UNCHANGED <<mbi, memory_size, paging, vaddrs_free_list>>

\* A region of the second loop: from where on it goes to the pool.
\* A slip: the kernel's own pages are not cut off.
FirstFree_Kernel(region) == region.base
FirstFree(region) ==
    IF region.base <= last_kernel_phaddr THEN last_kernel_phaddr ELSE region.base

Joined(free, more) == [o \in Order |-> free[o] \o more[o]]

AddRegion ==
    LET region == mbi.map[i] IN
    /\ pc = "pool" /\ i <= Len(mbi.map)
    /\ ~Skipped(region)
    /\ EndOfRegion(region) > last_kernel_phaddr
    /\ region.base < memory_size
    /\ pages' = [pages EXCEPT !.free =
            Joined(@, add_pages_to_pool(PageOf(FirstFree(region)),
                                        PageOf(EndOfRegion(region) + PageSize - 1)))]
    /\ i' = i + 1
    /\ UNCHANGED <<mbi, pc, last_kernel_phaddr, memory_size, paging, kernel_page_tables, vaddrs_free_list>>

SkipRegion ==
    LET region == mbi.map[i] IN
    /\ pc = "pool" /\ i <= Len(mbi.map)
    /\ \/ Skipped(region)
       \/ EndOfRegion(region) <= last_kernel_phaddr
       \/ region.base >= memory_size
    /\ i' = i + 1
    /\ UNCHANGED <<mbi, pc, last_kernel_phaddr, memory_size, paging, kernel_page_tables, pages, vaddrs_free_list>>

\* A slip: the addresses of the array of pages are not cut off.
AddVaddrs_Early ==
    /\ pc = "pool" /\ i > Len(mbi.map)
    /\ vaddrs_free_list' = add_pages_to_pool(PageOf(PAGE_END(KernelEnd)), KERNEL_MEMORY_PAGES)
    /\ pc' = "booted"
    /\ UNCHANGED <<mbi, i, last_kernel_phaddr, memory_size, paging, kernel_page_tables, pages>>

\* The kernel addresses behind those that are mapped.
AddVaddrs ==
    /\ pc = "pool" /\ i > Len(mbi.map)
    /\ vaddrs_free_list' = add_pages_to_pool(PageOf(last_kernel_phaddr), KERNEL_MEMORY_PAGES)
    /\ pc' = "booted"
    /\ UNCHANGED <<mbi, i, last_kernel_phaddr, memory_size, paging, kernel_page_tables, pages>>

Next ==
    \/ Reserve \/ MemorySize \/ memory_setup_paging
    \/ SizeOfRegion \/ AllocatePages \/ AddRegion \/ SkipRegion \/ AddVaddrs

Spec == Init /\ [][Next]_vars
-----------------------------------------------------------------------------
(* Properties. *)

\* The types.  A page of the pool has an entry in the array of pages.
TypeOK ==
    /\ pc \in {"initial_process_multiboot", "memory_setup_paging", "size", "pool", "booted"}
    /\ i \in Nat \ {0}
    /\ last_kernel_phaddr \in Nat /\ memory_size \in Nat
    /\ paging \in BOOLEAN
    /\ kernel_page_tables \subseteq 0 .. KERNEL_MEMORY_PAGES - 1
    /\ PoolTypeOK(pages)
    /\ vaddrs_free_list \in [Order -> Seq(0 .. KERNEL_MEMORY_PAGES - 1)]

\* Where the kernel, what the boot loader left and the array of pages are is
\* mapped at every moment from which paging is on; nothing else is.
KernelIsMapped ==
    paging => kernel_page_tables = 0 .. PageOf(PAGE_END(last_kernel_phaddr)) - 1

\* The page tables at every moment of the boot.
BootInvariant == TypeOK /\ KernelIsMapped

\* The pages of RAM the kernel does not keep: behind it, below the size the
\* boot loader gave, in regions that end within the kernel's addresses.
FreePages ==
    UNION {{p \in PageOf(r.base) .. PageOf(EndOfRegion(r)) - 1 : p >= PageOf(last_kernel_phaddr)} :
             r \in {s \in ToSet(mbi.map) :
                        IsRam(s) /\ EndOfRegion(s) < AddressLimit /\ (mbi.memory # 0 => s.base < mbi.memory)}}

\* Booted, the pool has each page of free RAM, in one block, and no other
\* page: nothing that is kept is given out, nothing is lost or linked twice.
PoolIsFreeRam ==
    pc = "booted" =>
        /\ UNION {Span(b.index, b.order) : b \in FreeBlocks(pages)} = FreePages
        /\ \A b, c \in FreeBlocks(pages) :
            Span(b.index, b.order) \cap Span(c.index, c.order) # {} => b = c
        /\ \A o \in Order : NoDuplicates(pages.free[o])
        /\ \A b \in FreeBlocks(pages) : b.index % 2^b.order = 0

\* No address that is mapped can be given for another page, and none of those
\* that are not is lost.
VaddrsAreUnmapped ==
    pc = "booted" =>
        UNION {UNION {Span(vaddrs_free_list[o][k], o) : k \in DOMAIN vaddrs_free_list[o]} : o \in Order}
            = (0 .. KERNEL_MEMORY_PAGES - 1) \ kernel_page_tables
==============================================================================
