----------------------------- MODULE HeapChunks -----------------------------
(***************************************************************************)
(* The memory of the heap of the kernel: libc/malloc/malloc.c, as          *)
(* libc/heap.c builds it (no locks, no footers, no debugging, no MORECORE  *)
(* and no MREMAP), on top of __mmap__ and __munmap__ of heap.c.            *)
(*                                                                         *)
(* A heap is a record of                                                   *)
(*   head      the chunks there are: for the address of each, its size,    *)
(*             CINUSE_BIT, PINUSE_BIT, and prev_foot, which is the size of *)
(*             the chunk before it if that one is free (for a chunk that   *)
(*             is mmapped: its distance from the mapping);                 *)
(*   bins      the free chunks, but for dv and top;                        *)
(*   dv, dvsize, top, topsize, trim_check, release_checks, footprint,      *)
(*   least_addr, use_mmap                                                  *)
(*             of malloc_state;                                            *)
(*   seg       the segments, the latest first: base, size, and the chunk   *)
(*             that the record of the segment is in (m->seg is in none);   *)
(*   blocks    the blocks that __mmap__ was given and __munmap__ did not   *)
(*             give back: the base and the size of each;                   *)
(*   aborted   whether ABORT was reached (which is freeze_system).         *)
(* Addresses and sizes are in bytes.  The fields that only debugging and   *)
(* statistics read (magic, max_footprint) are left out.                    *)
(***************************************************************************)
EXTENDS HeapBins

CONSTANTS
    PAGE_SIZE, granularity, mmap_threshold, trim_threshold,
    MAX_RELEASE_CHECK_RATE,
    MAX_SIZE_T,         \* the largest size_t
    Arena,              \* the kernel addresses of blocks are below this one,
    Places              \* and blocks start at these

IsPowerOf2(n) == \E k \in 0 .. 30 : n = 2^k

ASSUME HeapChunksAssumption ==
    /\ {PAGE_SIZE, granularity, MAX_SIZE_T + 1} \subseteq {n \in 1 .. 2^20 : IsPowerOf2(n)}
    /\ PAGE_SIZE <= granularity
    /\ granularity - 40 >= 2^TREEBIN_SHIFT
    /\ {mmap_threshold, trim_threshold, Arena} \subseteq Nat
    /\ trim_threshold > granularity + 40
    /\ MAX_RELEASE_CHECK_RATE \in Nat \ {0}
    /\ Places \subseteq 1 .. Arena

NULL == 0
WORD == 4
CHUNK_OVERHEAD == WORD
MMAP_FOOT_PAD == 4 * WORD
RECORD_SIZE == 24                               \* of a segment, padded
TOP_FOOT_SIZE == RECORD_SIZE + MIN_CHUNK_SIZE
SYS_ALLOC_PADDING == TOP_FOOT_SIZE + 8
MIN_REQUEST == MIN_CHUNK_SIZE - CHUNK_OVERHEAD - 1
MAX_REQUEST == MAX_SIZE_T + 1 - 4 * MIN_CHUNK_SIZE

SizeT(n) == n % (MAX_SIZE_T + 1)
AlignTo(n, unit) == SizeT(((SizeT(n + unit - 1)) \div unit) * unit)
pad_request(bytes) == ((bytes + CHUNK_OVERHEAD + 7) \div 8) * 8
request2size(bytes) == IF bytes < MIN_REQUEST THEN MIN_CHUNK_SIZE ELSE pad_request(bytes)
chunk2mem(p) == p + 2 * WORD
mem2chunk(mem) == mem - 2 * WORD

InitialHeap ==
    [head |-> << >>, bins |-> EmptyBins, dv |-> NULL, dvsize |-> 0, top |-> NULL,
     topsize |-> 0, trim_check |-> 0, release_checks |-> 0, footprint |-> 0,
     least_addr |-> 0, use_mmap |-> TRUE, seg |-> << >>, blocks |-> {}, aborted |-> FALSE]
-----------------------------------------------------------------------------
(* Chunks: see the macros on head and foot.  What a chunk takes in is no   *)
(* longer a chunk.                                                         *)

Chunk(size, cinuse, pinuse) ==
    [size |-> size, cinuse |-> cinuse, pinuse |-> pinuse, prev_foot |-> 0]
is_inuse(h, p) == h.head[p].cinuse \/ ~h.head[p].pinuse
is_mmapped(h, p) == ~h.head[p].cinuse /\ ~h.head[p].pinuse
Fencepost == Chunk(WORD, TRUE, TRUE)

\* Writes a head; the heads that were inside the chunk are gone.
Write(head, p, c) ==
    [a \in (DOMAIN head \cup {p}) \ (p + 1 .. p + c.size - 1) |-> IF a = p THEN c ELSE head[a]]

\* PINUSE_BIT is set at an address: its prev_foot is now in the chunk before.
\* What else is there may be the contents of a chunk.
mark_pinuse(head, p) ==
    IF p \in DOMAIN head THEN [head EXCEPT ![p].pinuse = TRUE, ![p].prev_foot = 0]
    ELSE Write(head, p, Chunk(0, FALSE, TRUE))

set_inuse(head, p, s) ==
    mark_pinuse(Write(head, p, [head[p] EXCEPT !.size = s, !.cinuse = TRUE]), p + s)
set_inuse_and_pinuse(head, p, s) == mark_pinuse(Write(head, p, Chunk(s, TRUE, TRUE)), p + s)
set_size_and_pinuse_of_inuse_chunk(head, p, s) == Write(head, p, Chunk(s, TRUE, TRUE))
set_size_and_pinuse_of_free_chunk(head, p, s) ==
    [Write(head, p, Chunk(s, FALSE, TRUE)) EXCEPT ![p + s].prev_foot = s]

set_free_with_pinuse(head, p, s) ==
    [set_size_and_pinuse_of_free_chunk(head, p, s) EXCEPT ![p + s].pinuse = FALSE]

\* The chunk's first nb bytes are in use, the rest of it is free.
split_off(head, p, nb, s) ==
    set_size_and_pinuse_of_free_chunk(
        set_size_and_pinuse_of_inuse_chunk(head, p, nb), p + nb, s - nb)

set_top(h, p, s) ==
    [h EXCEPT !.top = p, !.topsize = s, !.head = Write(@, p, Chunk(s, FALSE, TRUE))]
set_dv(h, p, s) == [h EXCEPT !.dv = p, !.dvsize = s]
no_dv(h) == set_dv(h, NULL, 0)

\* The head of the chunk behind top, which says TOP_FOOT_SIZE, is never read.
init_top(h, p, s) == [set_top(h, p, s) EXCEPT !.trim_check = trim_threshold]

\* The tests that the links of bins are sound: ABORT if they are not.
bin(h, p, s) == [h EXCEPT !.bins = insert_chunk(@, p, s)]
unbin(h, p, s) ==
    IF [chunk |-> p, size |-> s] \in Binned(h.bins) THEN [h EXCEPT !.bins = unlink_chunk(@, p, s)]
    ELSE [h EXCEPT !.aborted = TRUE]
replace_dv(h, p, s) ==
    set_dv(IF h.dvsize = 0 THEN h
           ELSE [h EXCEPT !.bins = insert_small_chunk(@, h.dv, h.dvsize)], p, s)
-----------------------------------------------------------------------------
(* The memory behind the heap.  A block is what kernel_page_allocate gives *)
(* for the order that __mmap__ asks for; where it is, is up to the buddy   *)
(* allocators of lib/mem.c, and so is whether there is one.  os is their   *)
(* answer: an address, or NULL.                                            *)

BlockSize(size) == Min({2^k * PAGE_SIZE : k \in {k \in 0 .. 20 : size \div PAGE_SIZE <= 2^k}})
Overlap(a, m, b, n) == a < b + n /\ b < a + m

CanMap(h, size, os) ==
    LET s == BlockSize(size) IN
    /\ os # NULL /\ os % s = 0 /\ os + s <= Arena
    /\ \A b \in h.blocks : ~Overlap(os, s, b.base, b.size)

mmap(h, size, os) == [h EXCEPT !.blocks = @ \cup {[base |-> os, size |-> BlockSize(size)]}]

\* Whatever the size is, it is the block that starts at the address that is
\* freed.  If none does, kernel_page_free changes a reference count, and
\* frees nothing.
munmap(h, addr, size) ==
    [h EXCEPT !.blocks = {b \in @ : b.base # addr}, !.footprint = @ - size,
              !.head = [a \in {a \in DOMAIN @ : a < addr \/ addr + size <= a} |-> @[a]]]

segment_holds(sp, a) == sp.base <= a /\ a < sp.base + sp.size
segment_holding(h, a) == Min({i \in DOMAIN h.seg : segment_holds(h.seg[i], a)})
\* The record of a segment is in a chunk; m->seg is outside the heap.
has_segment_link(h, i) ==
    \E j \in DOMAIN h.seg : j # 1 /\ segment_holds(h.seg[i], chunk2mem(h.seg[j].record))
-----------------------------------------------------------------------------
(* Taking memory from the system.  A result is a heap and the address that *)
(* is returned.                                                            *)

Gives(h, p) == [heap |-> h, mem |-> chunk2mem(p)]
Fails(h) == [heap |-> h, mem |-> NULL]

mmsize(nb) == AlignTo(nb + 6 * WORD + 7, PAGE_SIZE)
mmap_fits(h, nb, os) == mmsize(nb) > nb /\ CanMap(h, mmsize(nb), os)

\* The chunk of a mapping of its own starts where that does.
mmap_alloc(h, nb, os) ==
    LET psize == mmsize(nb) - MMAP_FOOT_PAD
        head == Write(Write(h.head, os, Chunk(psize, FALSE, FALSE)), os + psize, Fencepost)
    IN  Gives([mmap(h, mmsize(nb), os) EXCEPT
                    !.head = head,
                    !.footprint = @ + mmsize(nb),
                    !.least_addr = IF @ = 0 \/ os < @ THEN os ELSE @], os)

from_top(h, nb) ==
    LET cut == [h EXCEPT !.head = set_size_and_pinuse_of_inuse_chunk(@, h.top, nb)]
    IN  Gives(set_top(cut, h.top + nb, h.topsize - nb), h.top)

\* A new block ends where a segment starts: its first chunk is used, and the
\* rest of it becomes one with what was first in the segment.
prepend_alloc(h, newbase, oldbase, nb) ==
    LET q == newbase + nb
        qsize == oldbase - q
        old == h.head[oldbase]
        used == [h EXCEPT !.head = set_size_and_pinuse_of_inuse_chunk(@, newbase, nb)]
        dsize == h.dvsize + qsize
        free == IF is_inuse(h, oldbase) THEN used ELSE unbin(used, oldbase, old.size)
        fsize == IF is_inuse(h, oldbase) THEN qsize ELSE qsize + old.size
    IN  Gives(CASE oldbase = h.top -> set_top(used, q, h.topsize + qsize)
                [] oldbase = h.dv ->
                    [set_dv(used, q, dsize) EXCEPT
                        !.head = set_size_and_pinuse_of_free_chunk(@, q, dsize)]
                [] OTHER -> bin([free EXCEPT !.head = set_free_with_pinuse(@, q, fsize)], q, fsize),
              newbase)

\* The segment of top is closed with a chunk that holds its record, and top
\* goes to the new one.  The rest of the old top is binned if it is a chunk.
add_segment(h, tbase, tsize) ==
    LET old == h.seg[segment_holding(h, h.top)]
        asp == old.base + old.size - TOP_FOOT_SIZE
        sp == IF asp < h.top + MIN_CHUNK_SIZE THEN h.top ELSE asp
        record == Write(Write(h.head, sp, Chunk(RECORD_SIZE, TRUE, TRUE)),
                        sp + RECORD_SIZE, Fencepost)
        closed == IF sp = h.top THEN [h EXCEPT !.head = record]
                  ELSE bin([h EXCEPT !.head = set_free_with_pinuse(record, h.top, sp - h.top)],
                           h.top, sp - h.top)
    IN  [init_top(closed, tbase, tsize - TOP_FOOT_SIZE) EXCEPT
            !.seg = <<[base |-> tbase, size |-> tsize, record |-> NULL],
                      [@[1] EXCEPT !.record = sp]>> \o Tail(@)]

\* The new block is the heap's first, or it is behind the segment of top, or
\* before a segment, or apart.
from_top_if_fits(h, nb) == IF nb < h.topsize THEN from_top(h, nb) ELSE Fails(h)

grow(h, nb, os) ==
    LET asize == AlignTo(nb + SYS_ALLOC_PADDING, granularity)
        got == [mmap(h, asize, os) EXCEPT !.footprint = @ + asize]
        lower == [got EXCEPT !.least_addr = IF os < @ THEN os ELSE @]
        before == {i \in DOMAIN h.seg : h.seg[i].base + h.seg[i].size = os}
        behind == {i \in DOMAIN h.seg : h.seg[i].base = os + asize}
        first == init_top([got EXCEPT
                    !.least_addr = IF @ = 0 \/ os < @ THEN os ELSE @,
                    !.seg = <<[base |-> os, size |-> asize, record |-> NULL]>>,
                    !.release_checks = MAX_RELEASE_CHECK_RATE], os, asize - TOP_FOOT_SIZE)
        appended == init_top([got EXCEPT !.seg[Min(before)].size = @ + asize],
                             h.top, h.topsize + asize)
        extends == before # {} /\ segment_holds(h.seg[Min(before)], h.top)
    IN  IF asize <= nb \/ ~CanMap(h, asize, os) THEN Fails(h)
        ELSE IF h.top # NULL /\ ~extends /\ behind # {}
        THEN LET i == Min(behind) IN
             prepend_alloc([lower EXCEPT !.seg[i].base = os, !.seg[i].size = @ + asize],
                           os, h.seg[i].base, nb)
        ELSE from_top_if_fits(IF h.top = NULL THEN first
                              ELSE IF extends THEN appended
                              ELSE add_segment(lower, os, asize), nb)

\* A large request is a mapping of its own, if there is a heap already.
sys_alloc(h, nb, os) ==
    IF h.use_mmap /\ nb >= mmap_threshold /\ h.topsize # 0 /\ mmap_fits(h, nb, os)
    THEN mmap_alloc(h, nb, os)
    ELSE grow(h, nb, os)
=============================================================================
