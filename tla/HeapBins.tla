------------------------------ MODULE HeapBins ------------------------------
(***************************************************************************)
(* Where libc/malloc/malloc.c keeps the free chunks of the heap.  A small  *)
(* chunk is on the list of its size (a smallbin).  The larger ones are in  *)
(* the treebins: each is the trie of the sizes in an interval, which       *)
(* branches on the bits of the size from the highest down, and each of its *)
(* nodes is a ring of chunks of one size.                                  *)
(*                                                                         *)
(* A trie is a function of the paths of its nodes, which are sequences of  *)
(* bits.  A ring is the sequence of its chunks, from the node of the tree  *)
(* on in the direction of bk.  Pointers, the bits of smallmap and treemap  *)
(* (which tell what is empty) and the parents need nothing else.           *)
(***************************************************************************)
EXTENDS Integers, Sequences, SequencesExt, FiniteSetsExt

CONSTANT TREEBIN_SHIFT      \* a chunk of 2^TREEBIN_SHIFT bytes is not small

ASSUME HeapBinsAssumption == TREEBIN_SHIFT \in Nat /\ TREEBIN_SHIFT > 5

NTREEBINS == 32
MIN_CHUNK_SIZE == 16
MIN_LARGE_SIZE == 2^TREEBIN_SHIFT
is_small(s) == s < MIN_LARGE_SIZE
SmallSizes == {s \in MIN_CHUNK_SIZE .. MIN_LARGE_SIZE - 1 : s % 8 = 0}

Bit(s, n) == IF n < 0 THEN 0 ELSE (s \div 2^n) % 2
HighestBit(x) == CHOOSE k \in 0 .. 15 : 2^k <= x /\ x < 2^(k + 1)

compute_tree_index(s) ==
    LET x == s \div 2^TREEBIN_SHIFT
        k == HighestBit(x)
    IN  IF x = 0 THEN 0
        ELSE IF x > 65535 THEN NTREEBINS - 1
        ELSE 2 * k + Bit(s, k + TREEBIN_SHIFT - 1)

\* bit_for_tree_index: the bit of the size that the root of a tree looks at.
TopBit(i) == IF i = NTREEBINS - 1 THEN 31 ELSE i \div 2 + TREEBIN_SHIFT - 2

\* The path that a size takes through its tree, down to a depth.
BitsFrom(s, top, depth) == [d \in 1 .. depth |-> Bit(s, top + 1 - d)]
Path(s, depth) == BitsFrom(s, TopBit(compute_tree_index(s)), depth)

NoTree == << >>
Root == << >>
TreeOf(bins, s) == bins.tree[compute_tree_index(s)]
EmptyBins == [small |-> [s \in SmallSizes |-> << >>],
              tree |-> [i \in 0 .. NTREEBINS - 1 |-> NoTree]]
-----------------------------------------------------------------------------
(* Binning a chunk, and taking one out. *)

insert_small_chunk(bins, p, s) == [bins EXCEPT !.small[s] = <<p>> \o @]

\* Down the path of the size, to the node that has it or to a free place.
Spot(tree, path, s) ==
    CHOOSE n \in Prefixes(path) :
        /\ n \in DOMAIN tree => tree[n].size = s
        /\ \A m \in Prefixes(path) :
            Len(m) < Len(n) => m \in DOMAIN tree /\ tree[m].size # s

hang(tree, at, s, p) ==
    (at :> [size |-> s, ring |-> IF at \in DOMAIN tree THEN Append(tree[at].ring, p) ELSE <<p>>])
      @@ tree

insert_large_chunk(bins, p, s) ==
    [bins EXCEPT !.tree[compute_tree_index(s)] =
        hang(@, Spot(@, Path(s, Cardinality(DOMAIN @)), s), s, p)]

insert_chunk(bins, p, s) ==
    IF is_small(s) THEN insert_small_chunk(bins, p, s) ELSE insert_large_chunk(bins, p, s)

unlink_small_chunk(bins, p, s) == [bins EXCEPT !.small[s] = Remove(@, p)]

\* The leaf that is reached from a node by the rightmost child of each.
LeafBelow(tree, at) ==
    LET down[n \in DOMAIN tree] ==
            IF Append(n, 1) \in DOMAIN tree THEN down[Append(n, 1)]
            ELSE IF Append(n, 0) \in DOMAIN tree THEN down[Append(n, 0)]
            ELSE n
    IN  down[at]

\* A node without chunks is replaced by that leaf.
unlink_node(tree, at) ==
    LET leaf == LeafBelow(tree, at) IN
    [n \in DOMAIN tree \ {leaf} |-> IF n = at THEN tree[leaf] ELSE tree[n]]

unlink_from(tree, at, p) ==
    IF tree[at].ring = <<p>> THEN unlink_node(tree, at)
    ELSE [tree EXCEPT ![at].ring = Remove(@, p)]

unlink_large_chunk(bins, p, s) ==
    [bins EXCEPT !.tree[compute_tree_index(s)] =
        unlink_from(@, CHOOSE n \in DOMAIN @ : p \in ToSet(@[n].ring), p)]

unlink_chunk(bins, p, s) ==
    IF is_small(s) THEN unlink_small_chunk(bins, p, s) ELSE unlink_large_chunk(bins, p, s)
-----------------------------------------------------------------------------
(* Finding a chunk.  The trees are not sorted: what is above a node is     *)
(* neither smaller nor larger than the node.                               *)

HasTree(bins) == \E i \in DOMAIN bins.tree : bins.tree[i] # NoTree

\* leftmost_child, from a node down.
Leftmost(tree, at) ==
    LET down[n \in DOMAIN tree] ==
            {n} \cup (IF Append(n, 0) \in DOMAIN tree THEN down[Append(n, 0)]
                      ELSE IF Append(n, 1) \in DOMAIN tree THEN down[Append(n, 1)]
                      ELSE {})
    IN  IF at \in DOMAIN tree THEN down[at] ELSE {}

\* The chunk of the smallest of these nodes that is not too small.
Smallest(tree, nodes, nb) ==
    LET fits == {n \in nodes : tree[n].size >= nb}
        best == CHOOSE n \in fits : \A m \in fits : tree[n].size <= tree[m].size
    IN  IF fits = {} THEN [size |-> 0] ELSE [size |-> tree[best].size, chunk |-> Head(tree[best].ring)]

\* The nodes tmalloc_large looks at in the tree of the size it wants: those
\* on the path of the size, until one has it; then the leftmost ones of the
\* deepest subtree that is to the right of the path.
OnPath(tree, path, nb) ==
    {n \in Prefixes(path) \cap DOMAIN tree :
        \A m \in Prefixes(path) : Len(m) < Len(n) => tree[m].size # nb}

RightsOf(tree, on) == {Append(n, 1) : n \in on} \cap (DOMAIN tree \ on)

\* A slip: it is the highest subtree to the right.
RightOf_Highest(tree, on, nb) ==
    LET rights == RightsOf(tree, on) IN
    IF rights = {} THEN {}
    ELSE Leftmost(tree, CHOOSE n \in rights : \A m \in rights : Len(n) <= Len(m))

RightOf(tree, on, nb) ==
    LET rights == RightsOf(tree, on) IN
    IF rights = {} \/ \E n \in on : tree[n].size = nb THEN {}
    ELSE Leftmost(tree, CHOOSE n \in rights : \A m \in rights : Len(n) >= Len(m))

FindIn(tree, on, nb) == Smallest(tree, on \cup RightOf(tree, on, nb), nb)
FindInOwnTree(tree, nb) == FindIn(tree, OnPath(tree, Path(nb, Cardinality(DOMAIN tree)), nb), nb)

\* Of a larger tree, it is the leftmost nodes.
NextTree(bins, from) ==
    LET trees == {i \in from .. NTREEBINS - 1 : bins.tree[i] # NoTree} IN
    IF trees = {} THEN [size |-> 0]
    ELSE LET tree == bins.tree[Min(trees)] IN Smallest(tree, Leftmost(tree, Root), 0)

\* A slip: a chunk of a larger tree is not looked for.
FindLarge_OwnTree(bins, nb) == FindInOwnTree(TreeOf(bins, nb), nb)

\* The search of tmalloc_large, and that of tmalloc_small.
FindLarge(bins, nb) ==
    LET found == FindInOwnTree(TreeOf(bins, nb), nb) IN
    IF found.size # 0 THEN found ELSE NextTree(bins, compute_tree_index(nb) + 1)

FindSmallest(bins) == NextTree(bins, 0)
-----------------------------------------------------------------------------
(* What sound bins are: see do_check_tree and do_check_smallbin. *)

Nodes(tree) == {tree[n] : n \in DOMAIN tree}

\* The sizes and chunks that are in bins.
Binned(bins) ==
    UNION {{[chunk |-> p, size |-> s] : p \in ToSet(bins.small[s])} : s \in SmallSizes}
      \cup UNION {UNION {{[chunk |-> p, size |-> n.size] : p \in ToSet(n.ring)} :
                    n \in Nodes(bins.tree[i])} : i \in DOMAIN bins.tree}

\* Each node hangs below its parent, on the path of its size, and no size has
\* two of them; no chunk is in a bin twice.
BinsSound(bins) ==
    /\ \A s \in SmallSizes : IsInjective(bins.small[s])
    /\ \A i \in DOMAIN bins.tree :
        LET tree == bins.tree[i] IN
        \A n \in DOMAIN tree :
            /\ n # Root => Front(n) \in DOMAIN tree
            /\ compute_tree_index(tree[n].size) = i
            /\ n = Path(tree[n].size, Len(n))
            /\ tree[n].ring # << >> /\ IsInjective(tree[n].ring)
            /\ \A m \in DOMAIN tree : tree[m].size = tree[n].size => m = n

\* What the searches are for: the size of the smallest large chunk that fits.
LargeSizes(bins) == {c.size : c \in {c \in Binned(bins) : ~is_small(c.size)}}
BestFit(sizes, nb) ==
    LET fits == {s \in sizes : s >= nb} IN IF fits = {} THEN 0 ELSE Min(fits)
=============================================================================
