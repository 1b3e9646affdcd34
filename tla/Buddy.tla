------------------------------- MODULE Buddy -------------------------------
(***************************************************************************)
(* The buddy allocator of lib/mem.c, which is there twice: for physical    *)
(* pages (page_allocate, page_free) and for pages of kernel addresses      *)
(* (vaddr_allocate, vaddr_free).  A block is the 2^o pages from an index   *)
(* on.  A list node belongs to the page at the index, so a free block is   *)
(* an index on the free list of its order, and nothing but the list it is  *)
(* on says what that order is.                                             *)
(*                                                                         *)
(* A pool is a record of count (pages_count, KERNEL_MEMORY_PAGES), free    *)
(* (the free list of each order, as a sequence of indices) and order (the  *)
(* order field of each page or address).                                   *)
(***************************************************************************)
EXTENDS Lists

CONSTANT Limit      \* BUDDY_ORDER_LIMIT: the orders are 0 .. Limit - 1

ASSUME BuddyAssumption == Limit \in Nat /\ 1 <= Limit

\* 1 << o, which the proofs know only from here: a shift doubles.
ASSUME ShiftDoubles == \A o \in 0 .. Limit - 1 : 2^(o + 1) = 2 * 2^o

Order == 0 .. Limit - 1
Index(pool) == 0 .. pool.count - 1

\* The pages of a block.
Span(index, o) == index .. index + 2^o - 1

\* index ^ (1 << o), and index with its bits below o cleared.
BuddyOf(index, o) ==
    IF (index \div 2^o) % 2 = 0 THEN index + 2^o ELSE index - 2^o
Aligned(index, o) == (index \div 2^o) * 2^o

\* !list_is_empty(&page->free_node), whichever list the page is on.
Linked(pool, index) == \E o \in Order : list_linked(pool.free[o], index)
-----------------------------------------------------------------------------
(* The initial pool. *)

max_order_for_length(length) == Max({o \in Order : 2^o <= length})
max_order_for_index(index) == Max({o \in Order : index % 2^o = 0})

max_order(index, length) ==
    Min({max_order_for_length(length), max_order_for_index(index)})

\* From an index on, up to another one: the largest block that can start
\* there goes to the list of its order, in front of those that follow.
add_pages_to_pool(from, to) ==
    LET lists[index \in from .. to] ==
            IF index = to THEN [o \in Order |-> <<>>]
            ELSE LET o == max_order(index, to - index)
                 IN  [lists[index + 2^o] EXCEPT ![o] = <<index>> \o @]
    IN  lists[from]

\* CONSTRUCTOR(mem), for one region of free memory that ends the pool.
NewPool(from, to) ==
    [count |-> to,
     free |-> add_pages_to_pool(from, to),
     order |-> [i \in 0 .. to - 1 |-> -1]]
-----------------------------------------------------------------------------
(* page_allocate: which page it returns, if it does not return NULL, and   *)
(* what becomes of the pool.                                               *)

\* The orders at which there is a free block that is large enough.
Available(pool, o) == {p \in Order : o <= p /\ pool.free[p] # <<>>}

\* The first block of the smallest of these orders is taken.
Taken(pool, o) == Head(pool.free[Min(Available(pool, o))])

\* The block is halved until it is as small as asked for.  Of each halving
\* the upper half stays, alone, on the list of its order, which was empty.
page_allocate(pool, o) ==
    LET from == Min(Available(pool, o))
        index == Taken(pool, o)
        free == [p \in Order |->
                    IF p = from THEN Tail(pool.free[p])
                    ELSE IF p \in o .. from - 1 THEN <<BuddyOf(index, p)>>
                    ELSE pool.free[p]]
    IN  [pool EXCEPT !.free = free, !.order[index] = o]
-----------------------------------------------------------------------------
(* page_free. *)

\* The order at which the merging of the block at index ends: there is no
\* larger one, the buddy would be outside the pool, or it is not linked.
\* That a linked buddy is as large as the block is not tested.
MergedOrder(pool, index) ==
    Min({o \in Order :
        /\ pool.order[index] <= o
        /\ \/ o = Limit - 1
           \/ BuddyOf(Aligned(index, o), o) >= pool.count
           \/ ~Linked(pool, BuddyOf(Aligned(index, o), o))})

\* A slip: nothing is merged.
page_free_NoMerge(pool, index) ==
    [pool EXCEPT !.free[pool.order[index]] = list_insert_before(@, EndOf(@), index),
                 !.order[index] = -1]

\* The buddies that are merged leave their lists; the merged block goes to
\* the end of the list of its order.  It is the merged block's first page
\* whose order becomes -1, whatever page was freed.
page_free(pool, index) ==
    IF pool.order[index] = -1 THEN pool
    ELSE LET o == MergedOrder(pool, index)
             base == Aligned(index, o)
             merged == {BuddyOf(Aligned(index, p), p) : p \in pool.order[index] .. o - 1}
             unlinked == [p \in Order |-> list_remove_all(pool.free[p], merged)]
         IN  [pool EXCEPT
                !.free = [unlinked EXCEPT ![o] = list_insert_before(@, EndOf(@), base)],
                !.order[base] = -1]
-----------------------------------------------------------------------------
(* What a sound pool is. *)

Block(index, o) == [index |-> index, order |-> o]

FreeBlocks(pool) ==
    UNION {{Block(pool.free[o][i], o) : i \in DOMAIN pool.free[o]} : o \in Order}

\* The pages from one index to another are each in exactly one block, free
\* or held: none is given to two callers, and none is lost.  Every block is
\* aligned to its size.
PartitionOf(pool, held, from, to) ==
    LET blocks == FreeBlocks(pool) \cup held
    IN  /\ UNION {Span(b.index, b.order) : b \in blocks} = from .. to - 1
        /\ \A b, c \in blocks :
              Span(b.index, b.order) \cap Span(c.index, c.order) # {} => b = c
        /\ FreeBlocks(pool) \cap held = {}
        /\ \A o \in Order : NoDuplicates(pool.free[o])
        /\ \A b \in blocks : b.index % 2^b.order = 0

\* No block is the buddy of another, whatever its order: what the merging
\* loop tests before it stops.
Unmerged(F) ==
    \A b, c \in F : b.order < Limit - 1 => BuddyOf(b.index, b.order) # c.index

PoolTypeOK(pool) ==
    /\ pool = [count |-> pool.count, free |-> pool.free, order |-> pool.order]
    /\ pool.count \in Nat
    /\ pool.free \in [Order -> Seq(Index(pool))]
    /\ pool.order \in [Index(pool) -> Order \cup {-1}]
=============================================================================
