-------------------------------- MODULE Heap --------------------------------
(***************************************************************************)
(* malloc, calloc and free of libc/malloc/malloc.c, and what is compiled   *)
(* with them: realloc, memalign, independent_calloc and bulk_free.  Each   *)
(* is one step: there are no locks, and tasks do not preempt each other.   *)
(*                                                                         *)
(* The kernel calls malloc and calloc (drivers/pci.c, lib/scheduler.c).    *)
(* Here it calls all of them, in any order, with what it is allowed to     *)
(* pass: addresses that are live.                                          *)
(***************************************************************************)
EXTENDS HeapChunks

CONSTANTS
    Sizes, Products,    \* what is asked of malloc and realloc, and of calloc
    Alignments,         \* and of memalign
    MaxLive,            \* bound: the allocations that are live at once
    MaxCalls,           \* bound: the calls that are made
    Scripts             \* the calls that were made before, one of these

ASSUME HeapAssumption ==
    /\ Sizes \subseteq 0 .. MAX_SIZE_T
    /\ Products \subseteq (0 .. MAX_SIZE_T) \X (0 .. MAX_SIZE_T)
    /\ Alignments \subseteq 1 .. MAX_SIZE_T
    /\ MaxLive \in Nat /\ MaxCalls \in Nat

VARIABLES
    heap,       \* _gm_, and the memory it manages
    live,       \* the allocations the callers have: the bytes and the
                \* alignment that were asked for
    calls       \* the calls that were made since the script

heapVars == <<heap, live, calls>>
-----------------------------------------------------------------------------
(* dlmalloc: the ways to serve a request, in the order they are tried.     *)

\* A chunk of the size, or of one that is too little larger to be split.
Remainderless(h, nb) == {s \in {nb, nb + 8} \cap SmallSizes : h.bins.small[s] # << >>}
Larger(h, nb) == {s \in SmallSizes : s > nb + 8 /\ h.bins.small[s] # << >>}

from_smallbin(h, nb) ==
    LET s == Min(Remainderless(h, nb))
        p == Head(h.bins.small[s])
    IN  Gives([unbin(h, p, s) EXCEPT !.head = set_inuse_and_pinuse(@, p, s)], p)

split_smallbin(h, nb) ==
    LET s == Min(Larger(h, nb))
        p == Head(h.bins.small[s])
    IN  Gives(replace_dv([unbin(h, p, s) EXCEPT !.head = split_off(@, p, nb, s)],
                         p + nb, s - nb), p)

\* The end of tmalloc_small and tmalloc_large, with the chunk that was found.
put_rest(h, p, s, into) == IF into = "dv" THEN replace_dv(h, p, s) ELSE bin(h, p, s)

use_large(h, nb, v, into) ==
    LET p == v.chunk
        rsize == v.size - nb
        out == unbin(h, p, v.size)
    IN  IF rsize < MIN_CHUNK_SIZE
        THEN Gives([out EXCEPT !.head = set_inuse_and_pinuse(@, p, v.size)], p)
        ELSE Gives(put_rest([out EXCEPT !.head = split_off(@, p, nb, v.size)],
                            p + nb, rsize, into), p)

tmalloc_small(h, nb) == use_large(h, nb, FindSmallest(h.bins), "dv")

\* Nothing is used when dv fits as well or better.
better_than_dv(h, nb, v) == v.size # 0 /\ (h.dvsize < nb \/ v.size < h.dvsize)
tmalloc_large(h, nb, v) == use_large(h, nb, v, "bin")

from_dv(h, nb) ==
    IF h.dvsize - nb >= MIN_CHUNK_SIZE
    THEN Gives(set_dv([h EXCEPT !.head = split_off(@, h.dv, nb, h.dvsize)],
                      h.dv + nb, h.dvsize - nb), h.dv)
    ELSE Gives([no_dv(h) EXCEPT !.head = set_inuse_and_pinuse(@, h.dv, h.dvsize)], h.dv)

malloc_rest(h, nb, os) ==
    IF nb <= h.dvsize THEN from_dv(h, nb)
    ELSE IF nb < h.topsize THEN from_top(h, nb)
    ELSE sys_alloc(h, nb, os)

malloc_large(h, nb, v, os) ==
    IF better_than_dv(h, nb, v) THEN tmalloc_large(h, nb, v) ELSE malloc_rest(h, nb, os)

dlmalloc(h, bytes, os) ==
    LET nb == IF bytes >= MAX_REQUEST THEN MAX_SIZE_T ELSE request2size(bytes)
        small == is_small(nb)
    IN  CASE small /\ Remainderless(h, nb) # {} -> from_smallbin(h, nb)
          [] small /\ Remainderless(h, nb) = {} /\ nb > h.dvsize /\ Larger(h, nb) # {} ->
                split_smallbin(h, nb)
          [] small /\ Remainderless(h, nb) \cup Larger(h, nb) = {} /\ nb > h.dvsize
                /\ HasTree(h.bins) -> tmalloc_small(h, nb)
          [] ~small /\ bytes < MAX_REQUEST -> malloc_large(h, nb, FindLarge(h.bins, nb), os)
          [] OTHER -> malloc_rest(h, nb, os)

\* A slip: the product is not tested.
dlcalloc_Unchecked(h, n, elem, os) == dlmalloc(h, SizeT(n * elem), os)

\* The product is tested by a division, unless both factors are below the
\* half of the bits.
Half == CHOOSE b \in 1 .. MAX_SIZE_T : b * b = MAX_SIZE_T + 1
dlcalloc(h, n, elem, os) ==
    LET req == SizeT(n * elem)
        over == n # 0 /\ (n >= Half \/ elem >= Half) /\ req \div n # elem
    IN  dlmalloc(h, IF over THEN MAX_SIZE_T ELSE req, os)
-----------------------------------------------------------------------------
(* Freeing. *)

Join(h, p, size, into) == [heap |-> h, p |-> p, size |-> size, into |-> into]

\* A chunk that is free joins the chunk before it, if that one is free too,
consolidate_backward(h, p, size) ==
    LET prevsize == h.head[p].prev_foot
        prev == p - prevsize
    IN  IF h.head[p].pinuse THEN Join(h, p, size, "bin")
        ELSE IF prev < h.least_addr THEN Join([h EXCEPT !.aborted = TRUE], p, size, "bin")
        ELSE IF prev = h.dv THEN Join(h, prev, prevsize + size, "dv")
        ELSE Join(unbin(h, prev, prevsize), prev, prevsize + size, "bin")

\* The chunk that was dv or was joined with dv is dv, another one is binned.
put(h, p, size, into) == IF into = "dv" THEN set_dv(h, p, size) ELSE bin(h, p, size)

\* A slip: the chunk behind is not looked at.
consolidate_forward_Never(j) ==
    [j EXCEPT !.heap =
        put([@ EXCEPT !.head = set_free_with_pinuse(@, j.p, j.size)], j.p, j.size, j.into)]

\* and the chunk behind it; then it is a part of top or of dv, or is binned.
consolidate_forward(j) ==
    LET h == j.heap
        p == j.p
        next == p + j.size
        nsize == h.head[next].size
        all == j.size + nsize
        join == [h EXCEPT !.head = set_size_and_pinuse_of_free_chunk(@, p, all)]
    IN  CASE h.head[next].cinuse ->
                [j EXCEPT !.heap =
                    put([h EXCEPT !.head = set_free_with_pinuse(@, p, j.size)], p, j.size, j.into)]
          [] ~h.head[next].cinuse /\ next = h.top ->
                Join(set_top(IF j.into = "dv" THEN no_dv(h) ELSE h, p, h.topsize + j.size),
                     p, j.size, "top")
          [] ~h.head[next].cinuse /\ next # h.top /\ next = h.dv ->
                Join(set_dv(join, p, all), p, all, "dv")
          [] OTHER -> Join(put(unbin(join, next, nsize), p, all, j.into), p, all, j.into)

consolidate(h, p, size) == consolidate_forward(consolidate_backward(h, p, size))

\* free of a chunk that is a mapping of its own; prev_foot says where that starts.
unmap_chunk(h, p) ==
    LET offset == h.head[p].prev_foot IN
    munmap(h, p - offset, h.head[p].size + offset + MMAP_FOOT_PAD)

usable_size(h, p) == h.head[p].size - IF is_mmapped(h, p) THEN 2 * WORD ELSE CHUNK_OVERHEAD

dispose_chunk(h, p, size) ==
    IF is_mmapped(h, p) THEN unmap_chunk(h, p) ELSE consolidate(h, p, size).heap

\* Of the segments but the latest, those that are one free chunk are unmapped.
Unused(h, sp) ==
    ~is_inuse(h, sp.base) /\ h.head[sp.base].size >= sp.size - TOP_FOOT_SIZE

release(h, sp) ==
    LET out == IF sp.base = h.dv THEN no_dv(h) ELSE unbin(h, sp.base, h.head[sp.base].size)
    IN  [munmap(out, sp.base, sp.size) EXCEPT !.seg = Remove(@, sp)]

release_unused_segments(h) ==
    LET others == SelectSeq(Tail(h.seg), LAMBDA sp : Unused(h, sp)) IN
    [FoldLeft(release, h, others) EXCEPT
        !.release_checks = Max({Len(h.seg) - 1, MAX_RELEASE_CHECK_RATE})]

\* What is left of top is one granule at most.  The tail of the segment is
\* unmapped as if it were a mapping of its own.
trim_top(h) ==
    LET i == segment_holding(h, h.top)
        extra == ((h.topsize - TOP_FOOT_SIZE + granularity - 1) \div granularity - 1) * granularity
        newsize == h.seg[i].size - extra
        top == init_top(munmap(h, h.seg[i].base + newsize, extra), h.top, h.topsize - extra)
    IN  IF h.topsize > TOP_FOOT_SIZE /\ h.seg[i].size >= extra /\ ~has_segment_link(h, i)
        THEN [top EXCEPT !.seg[i].size = newsize]
        ELSE h

sys_trim(h) ==
    LET trimmed == release_unused_segments(trim_top(h)) IN
    IF trimmed.footprint = h.footprint /\ trimmed.topsize > trimmed.trim_check
    THEN [trimmed EXCEPT !.trim_check = MAX_SIZE_T]
    ELSE trimmed

\* Every so often, what is not used goes back to the system.
tidy_up(j) ==
    LET h == j.heap IN
    CASE j.into = "top" /\ h.topsize > h.trim_check -> sys_trim(h)
      [] j.into = "bin" /\ ~is_small(j.size) ->
            IF h.release_checks = 1 THEN release_unused_segments(h)
            ELSE [h EXCEPT !.release_checks = @ - 1]
      [] OTHER -> h

dlfree(h, mem) ==
    LET p == mem2chunk(mem) IN
    IF p < h.least_addr \/ ~is_inuse(h, p) THEN [h EXCEPT !.aborted = TRUE]
    ELSE IF is_mmapped(h, p) THEN unmap_chunk(h, p)
    ELSE IF ~h.head[p + h.head[p].size].pinuse THEN [h EXCEPT !.aborted = TRUE]
    ELSE tidy_up(consolidate(h, p, h.head[p].size))
-----------------------------------------------------------------------------
(* realloc and memalign.  A chunk gives back its rest, or takes in the     *)
(* free space behind it.                                                   *)

\* The rest of a chunk of s bytes that is in use, if it can be a chunk.
give_back(h, p, nb, s) ==
    IF s - nb < MIN_CHUNK_SIZE THEN [h EXCEPT !.head = set_inuse(@, p, s)]
    ELSE dispose_chunk([h EXCEPT !.head = set_inuse(set_inuse(@, p, nb), p + nb, s - nb)],
                       p + nb, s - nb)

\* Whether the chunk can be changed in place, and how.
realloc_fits(h, p, nb) ==
    LET s == h.head[p].size
        next == p + s
    IN  IF is_mmapped(h, p) THEN ~is_small(nb) /\ s >= nb + WORD /\ s - nb <= 2 * granularity
        ELSE \/ s >= nb
             \/ next = h.top /\ s + h.topsize > nb
             \/ next = h.dv /\ s + h.dvsize >= nb
             \/ ~h.head[next].cinuse /\ next \notin {h.top, h.dv} /\ s + h.head[next].size >= nb

try_realloc_chunk(h, p, nb) ==
    LET s == h.head[p].size
        next == p + s
        rest == s + h.dvsize - nb
        inuse == [h EXCEPT !.head = set_inuse(@, p, nb)]
    IN  IF is_mmapped(h, p) THEN h
        ELSE IF s >= nb THEN IF s - nb < MIN_CHUNK_SIZE THEN h ELSE give_back(h, p, nb, s)
        ELSE IF next = h.top THEN set_top(inuse, p + nb, s + h.topsize - nb)
        ELSE IF next = h.dv
        THEN IF rest < MIN_CHUNK_SIZE
             THEN [no_dv(h) EXCEPT !.head = set_inuse(@, p, s + h.dvsize)]
             ELSE set_dv([inuse EXCEPT !.head = set_free_with_pinuse(@, p + nb, rest)], p + nb, rest)
        ELSE give_back(unbin(h, next, h.head[next].size), p, nb, s + h.head[next].size)

\* In place, or with a copy.
moved(new, mem) == IF new.mem = NULL THEN new ELSE [new EXCEPT !.heap = dlfree(@, mem)]

dlrealloc(h, mem, bytes, os) ==
    LET p == mem2chunk(mem)
        nb == request2size(bytes)
    IN  IF bytes >= MAX_REQUEST THEN Fails(h)
        ELSE IF ~is_inuse(h, p) \/ ~h.head[p + h.head[p].size].pinuse
        THEN Fails([h EXCEPT !.aborted = TRUE])
        ELSE IF realloc_fits(h, p, nb) THEN Gives(try_realloc_chunk(h, p, nb), p)
        ELSE moved(dlmalloc(h, bytes, os), mem)

\* The first address that is aligned and leaves room for a chunk before it,
\* if it is not that of the chunk; the room before and behind is given back.
AlignedAt(p, alignment) ==
    LET mem == ((chunk2mem(p) + alignment - 1) \div alignment) * alignment IN
    IF mem = chunk2mem(p) \/ mem2chunk(mem) - p >= MIN_CHUNK_SIZE THEN mem2chunk(mem)
    ELSE mem2chunk(mem) + alignment

give_leader(h, p, q) ==
    LET c == h.head[p] IN
    IF p = q THEN h
    ELSE IF is_mmapped(h, p)
    THEN [h EXCEPT !.head =
            (q :> [c EXCEPT !.size = @ - (q - p), !.prev_foot = @ + (q - p)])
              @@ [a \in DOMAIN @ \ {p} |-> @[a]]]
    ELSE dispose_chunk([h EXCEPT !.head =
            set_inuse(Write(@, q, Chunk(c.size - (q - p), TRUE, FALSE)), p, q - p)], p, q - p)

give_trailer(h, q, nb) ==
    IF ~is_mmapped(h, q) /\ h.head[q].size > nb + MIN_CHUNK_SIZE
    THEN give_back(h, q, nb, h.head[q].size) ELSE h

align_within(got, align, nb) ==
    LET p == mem2chunk(got.mem)
        q == AlignedAt(p, align)
    IN  IF got.mem = NULL THEN got
        ELSE Gives(give_trailer(give_leader(got.heap, p, q), q, nb), q)

internal_memalign(h, alignment, bytes, os) ==
    LET align == Min({2^k : k \in {k \in 4 .. 20 : alignment <= 2^k}})
        nb == request2size(bytes)
    IN  IF bytes >= MAX_REQUEST - align THEN Fails(h)
        ELSE align_within(dlmalloc(h, nb + align + MIN_CHUNK_SIZE - CHUNK_OVERHEAD, os), align, nb)

dlmemalign(h, alignment, bytes, os) ==
    IF alignment <= 8 THEN dlmalloc(h, bytes, os) ELSE internal_memalign(h, alignment, bytes, os)
-----------------------------------------------------------------------------
(* independent_calloc and bulk_free: several chunks at once. *)

\* One chunk is taken and cut up: an array of pointers, behind n elements.
\* It must not be a mapping of its own, whose parts could not be freed.
cut_up(got, n, esize, use_mmap) ==
    LET p == mem2chunk(got.mem)
        s == got.heap.head[p].size
        cut == [i \in 0 .. n |-> Chunk(IF i = n THEN s - n * esize ELSE esize, TRUE, TRUE)]
        parts == FoldLeft(LAMBDA head, i : Write(head, p + i * esize, cut[i]),
                          got.heap.head, [i \in 1 .. n + 1 |-> n + 1 - i])
    IN  IF got.mem = NULL
        THEN [heap |-> [got.heap EXCEPT !.use_mmap = use_mmap], mems |-> << >>]
        ELSE [heap |-> [got.heap EXCEPT !.use_mmap = use_mmap, !.head = parts],
              mems |-> [i \in 1 .. n + 1 |-> chunk2mem(p + (i - 1) * esize)]]

ialloc(h, n, elem, os) ==
    LET esize == request2size(elem)
        asize == request2size(n * WORD)
    IN  cut_up(dlmalloc([h EXCEPT !.use_mmap = FALSE], n * esize + asize - CHUNK_OVERHEAD, os),
               n, esize, h.use_mmap)

\* Of the array, a chunk that is followed by the one behind it is made one
\* with it; the others are freed.
internal_bulk_free(h, array) ==
    LET free(acc, k) ==
            LET p == acc.p
                s == acc.heap.head[p].size
                more == k < Len(array)
            IN  IF more /\ array[k + 1] = chunk2mem(p + s)
                THEN [heap |-> [acc.heap EXCEPT !.head =
                                    set_inuse(@, p, s + acc.heap.head[p + s].size)],
                      p |-> p]
                ELSE [heap |-> dispose_chunk(acc.heap, p, s),
                      p |-> IF more THEN mem2chunk(array[k + 1]) ELSE NULL]
        all == FoldLeft(free, [heap |-> h, p |-> mem2chunk(array[1])],
                        [k \in DOMAIN array |-> k]).heap
    IN  IF all.topsize > all.trim_check THEN sys_trim(all) ELSE all
-----------------------------------------------------------------------------
(* The calls. *)

\* What a script does: each call is <<bytes, os>>, an allocation, or <<k>>,
\* which frees the k-th allocation of the script.
Run(script) ==
    LET got(acc, r, bytes) ==
            [acc EXCEPT !.heap = r.heap, !.mems = Append(@, r.mem), !.bytes = Append(@, bytes)]
        call(acc, c) ==
            IF Len(c) = 1
            THEN [acc EXCEPT !.heap = dlfree(@, acc.mems[c[1]]), !.freed = @ \cup {c[1]}]
            ELSE got(acc, dlmalloc(acc.heap, c[1], c[2]), c[1])
    IN  FoldLeft(call, [heap |-> InitialHeap, mems |-> << >>, bytes |-> << >>, freed |-> {}], script)

Asked(bytes, alignment) == [bytes |-> bytes, alignment |-> alignment]

Init ==
    \E run \in {Run(script) : script \in Scripts} :
        LET left == {k \in DOMAIN run.mems : k \notin run.freed /\ run.mems[k] # NULL}
        IN  /\ heap = run.heap
            /\ live = [mem \in {run.mems[k] : k \in left} |->
                            Asked(run.bytes[CHOOSE k \in left : run.mems[k] = mem], 8)]
            /\ calls = 0

Mems == DOMAIN live
Without(mems) == [mem \in Mems \ mems |-> live[mem]]

\* A call, with room for n more allocations.
Called(n) ==
    /\ calls < MaxCalls /\ Cardinality(Mems) + n <= MaxLive
    /\ calls' = calls + 1

Returns(r, asked, others) ==
    /\ heap' = r.heap
    /\ live' = IF r.mem = NULL THEN others ELSE (r.mem :> asked) @@ others

Malloc(bytes, os) ==
    /\ Called(1)
    /\ Returns(dlmalloc(heap, bytes, os), Asked(bytes, 8), live)

\* What the caller of calloc wants is the product, whatever its width.
Calloc(n, elem, os) ==
    /\ Called(1)
    /\ Returns(dlcalloc(heap, n, elem, os), Asked(n * elem, 8), live)

Memalign(alignment, bytes, os) ==
    /\ Called(1)
    /\ Returns(dlmemalign(heap, alignment, bytes, os), Asked(bytes, alignment), live)

\* The old memory stays when there is no new one.
Realloc(mem, bytes, os) ==
    /\ Called(0)
    /\ \E r \in {dlrealloc(heap, mem, bytes, os)} :
        Returns(r, Asked(bytes, 8), IF r.mem = NULL THEN live ELSE Without({mem}))

Free(mem) ==
    /\ Called(0)
    /\ heap' = dlfree(heap, mem)
    /\ live' = Without({mem})

\* Two elements, and the array of the addresses of both.
IndependentCalloc(elem, os) ==
    /\ Called(3)
    /\ elem < MAX_REQUEST
    /\ \E r \in {ialloc(heap, 2, elem, os)} :
        /\ heap' = r.heap
        /\ live' = [mem \in ToSet(r.mems) |->
                        Asked(IF mem = Last(r.mems) THEN 2 * WORD ELSE elem, 8)] @@ live

BulkFree(array) ==
    /\ Called(0)
    /\ heap' = internal_bulk_free(heap, array)
    /\ live' = Without(ToSet(array))

Answers == {NULL} \cup Places

Next ==
    \/ \E os \in Answers :
        \/ \E bytes \in Sizes : Malloc(bytes, os) \/ IndependentCalloc(bytes, os)
        \/ \E pair \in Products : Calloc(pair[1], pair[2], os)
        \/ \E a \in Alignments, bytes \in Sizes : Memalign(a, bytes, os)
        \/ \E mem \in Mems, bytes \in Sizes : Realloc(mem, bytes, os)
    \/ \E mem \in Mems : Free(mem)
    \/ \E a, b \in Mems : a # b /\ BulkFree(<<a, b>>)

Spec == Init /\ [][Next]_heapVars
-----------------------------------------------------------------------------
(* What a sound heap is: see do_check_malloc_state and traverse_and_check. *)

\* The chunks of a segment, from its first to top or to its fencepost.
ChunksOf(h, sp) ==
    LET from[p \in {a \in DOMAIN h.head : segment_holds(sp, a)}] ==
            IF p = h.top \/ h.head[p] = Fencepost THEN {p}
            ELSE {p} \cup from[p + h.head[p].size]
    IN  from[sp.base]

SegmentChunks(h) == UNION {ChunksOf(h, h.seg[i]) : i \in DOMAIN h.seg}
Ends(h) == {h.top} \cup {p \in DOMAIN h.head : h.head[p] = Fencepost}
FreeChunks(h) == {p \in SegmentChunks(h) : ~h.head[p].cinuse /\ p # h.top}
MmappedChunks(h) == {p \in DOMAIN h.head : is_mmapped(h, p)}

\* Every chunk knows whether the one before it is free, and how large it is
\* then; two free chunks are never neighbours.
TagsSound(h) ==
    \A p \in SegmentChunks(h) \ Ends(h) :
        LET c == h.head[p]
            next == h.head[p + c.size]
        IN  /\ c.size % 8 = 0 /\ c.size >= MIN_CHUNK_SIZE
            /\ next.pinuse = c.cinuse
            /\ ~c.cinuse => c.pinuse /\ next.prev_foot = c.size /\ next.cinuse

\* Every head belongs to a segment or to a mapping of its own, and every free
\* chunk is in its bin, once, or is dv.
ChunksSound(h) ==
    /\ DOMAIN h.head = SegmentChunks(h) \cup MmappedChunks(h)
                        \cup {p + h.head[p].size : p \in MmappedChunks(h)}
    /\ BinsSound(h.bins)
    /\ Binned(h.bins) = {[chunk |-> p, size |-> h.head[p].size] : p \in FreeChunks(h) \ {h.dv}}
    /\ IF h.dv = NULL THEN h.dvsize = 0
       ELSE h.dv \in FreeChunks(h) /\ h.dvsize = h.head[h.dv].size

\* Top is the end of the latest segment.
TopSound(h) ==
    h.top # NULL =>
        /\ segment_holds(h.seg[1], h.top)
        /\ h.head[h.top] = Chunk(h.topsize, FALSE, TRUE)
        /\ h.topsize > 0
        /\ h.top + h.topsize + TOP_FOOT_SIZE = h.seg[1].base + h.seg[1].size

FootprintSound(h) ==
    LET Size(sp) == sp.size
        Mapping(p) == h.head[p].size + h.head[p].prev_foot + MMAP_FOOT_PAD
    IN  h.footprint = FoldSeq(LAMBDA sp, n : sp.size + n, 0, h.seg)
                        + MapThenSumSet(Mapping, MmappedChunks(h))

\* All that the allocator knows of its memory fits together, and none of the
\* tests it makes of that fails (a failed one stops the kernel).
HeapInvariant ==
    /\ TagsSound(heap) /\ ChunksSound(heap) /\ TopSound(heap) /\ FootprintSound(heap)
    /\ ~heap.aborted

\* An allocation has the room and the alignment that were asked for, in memory
\* that is mapped, and shares no byte with another one or with what the heap
\* keeps in its own memory.  For calloc, what was asked for is the product.
LiveMemory ==
    \A mem \in Mems :
        LET p == mem2chunk(mem)
            bytes == live[mem].bytes
        IN  /\ mem % live[mem].alignment = 0 /\ mem % 8 = 0
            /\ p \in DOMAIN heap.head /\ is_inuse(heap, p)
            /\ bytes <= usable_size(heap, p)
            /\ \A a \in mem .. mem + bytes - 1 :
                a % 8 = 0 => \E b \in heap.blocks : segment_holds(b, a)
            /\ \A other \in Mems \ {mem} : ~Overlap(mem, bytes, other, live[other].bytes)
            /\ \A i \in DOMAIN heap.seg : heap.seg[i].record # p

\* Of the chunks in the trees, the search finds the smallest one that fits.
BestFitFound ==
    LET sizes == LargeSizes(heap.bins) IN
    \A nb \in {n \in MIN_LARGE_SIZE .. Max(sizes \cup {0}) + 8 : n % 8 = 0} :
        FindLarge(heap.bins, nb).size = BestFit(sizes, nb)

\* A request that a free chunk can serve is served, also when the system has
\* no more memory.
ServedIfItFits ==
    \A bytes \in Sizes :
        LET nb == request2size(bytes) IN
        /\ bytes < MAX_REQUEST
        /\ \/ \E c \in Binned(heap.bins) : c.size >= nb
           \/ heap.dvsize >= nb
           \/ heap.topsize > nb
        => dlmalloc(heap, bytes, NULL).mem # NULL
=============================================================================
