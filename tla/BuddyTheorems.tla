---------------------------- MODULE BuddyTheorems ----------------------------
(***************************************************************************)
(* What the buddy allocator of lib/mem.c does to its pool, for any number  *)
(* of orders and any pool: the blocks add_pages_to_pool makes, what        *)
(* page_allocate splits, and that page_free, called for the block that was *)
(* allocated last, merges exactly what was split for it.                   *)
(***************************************************************************)
EXTENDS Buddy, ListsTheorems

LEMMA Sizes ==
    /\ Limit \in Nat /\ Limit >= 1 /\ Doubles(Limit)
    /\ \A o \in 0 .. Limit : 2^o \in Nat \ {0}
    /\ \A o \in Order : 2^(o + 1) = 2 * 2^o /\ o \in 0 .. Limit /\ o + 1 \in 0 .. Limit
<1>1. Limit \in Nat /\ Limit >= 1 /\ Doubles(Limit)
    BY BuddyAssumption, ShiftDoubles DEF Doubles
<1>2. \A o \in 0 .. Limit : 2^o \in Nat \ {0}
    BY <1>1, PowersArePositive
<1>3. QED
    BY <1>1, <1>2 DEF Doubles, Order

\* The first page of a block that is cut off below its own order.
LEMMA AlignedIsSelf ==
    ASSUME NEW o \in Order, NEW i \in Nat, i % 2^o = 0
    PROVE  Aligned(i, o) = i
<1>1. 2^o \in Nat \ {0}
    BY Sizes
<1>2. i = 2^o * (i \div 2^o) + (i % 2^o)
    BY <1>1, DivMod
<1>3. i \div 2^o \in Nat
    BY <1>1, DivMod
<1>4. QED
    BY <1>1, <1>2, <1>3 DEF Aligned

\* Buddies are the halves of one block of the next order.
LEMMA BuddyHalves ==
    ASSUME NEW o \in Order, NEW i \in Nat, i % 2^o = 0
    PROVE  \E whole \in Nat :
                /\ whole % 2^(o + 1) = 0
                /\ \/ i = whole /\ BuddyOf(i, o) = whole + 2^o
                   \/ i = whole + 2^o /\ BuddyOf(i, o) = whole
<1> DEFINE m == 2^o
<1>1. m \in Nat \ {0} /\ 2^(o + 1) = 2 * m /\ 2 * m \in Nat \ {0}
    BY Sizes
<1> HIDE DEF m
<1>2. PICK q \in Nat : i = m * q
    BY <1>1, MultipleIffMod DEF m
<1>3. i \div m = q
    BY <1>1, <1>2, DivOfMultiple
<1>4. CASE q % 2 = 0
    <2>1. PICK k \in Nat : q = 2 * k
        BY <1>4, MultipleIffMod
    <2>2. i = (2 * m) * k
        BY <1>1, <1>2, <2>1
    <2>3. i % (2 * m) = 0
        BY <1>1, <2>2, MultipleIffMod
    <2>4. BuddyOf(i, o) = i + m
        BY <1>3, <1>4 DEF BuddyOf, m
    <2>5. QED
        BY <1>1, <2>3, <2>4 DEF m
<1>5. CASE q % 2 # 0
    <2>1. PICK k \in Nat : q = 2 * k + 1
        <3>1. q = 2 * (q \div 2) + (q % 2) /\ q % 2 = 1 /\ q \div 2 \in Nat
            BY <1>5, DivMod
        <3>2. QED
            BY <3>1
    <2>2. i - m = (2 * m) * k /\ i - m \in Nat
        BY <1>1, <1>2, <2>1
    <2>3. (i - m) % (2 * m) = 0
        BY <1>1, <2>2, MultipleIffMod
    <2>4. BuddyOf(i, o) = i - m
        BY <1>3, <1>5 DEF BuddyOf, m
    <2>5. i = (i - m) + m
        BY <1>1, <2>2
    <2>6. QED
        BY <1>1, <2>2, <2>3, <2>4, <2>5 DEF m
<1>6. QED
    BY <1>4, <1>5

\* The halvings of page_allocate: the buddy of what is left is above it, and
\* the other way round.
LEMMA UpperHalf ==
    ASSUME NEW p \in Order, NEW i \in Nat, i % 2^p = 0, NEW q \in 0 .. p - 1
    PROVE  /\ BuddyOf(i, q) = i + 2^q /\ BuddyOf(i + 2^q, q) = i
           /\ (i + 2^q) % 2^q = 0 /\ i + 2 * 2^q <= i + 2^p /\ i % 2^q = 0
<1>1. /\ p \in 0 .. Limit /\ q \in 0 .. p /\ q \in 0 .. Limit /\ q + 1 \in 0 .. p /\ q \in Order
      /\ 2^q \in Nat \ {0} /\ 2^p \in Nat \ {0} /\ 2^(q + 1) = 2 * 2^q
    BY Sizes DEF Order
<1>2. i % 2^q = 0 /\ i % 2^(q + 1) = 0
    BY <1>1, Sizes, AlignedForSmaller
<1>3. (i + 2^q) % 2^q = 0
    <2> DEFINE m == 2^q
    <2>1. m \in Nat \ {0} /\ m % m = 0 /\ i % m = 0
        BY <1>1, <1>2
    <2> HIDE DEF m
    <2>2. (i + m) % m = 0
        BY <2>1, MultiplesAdd
    <2>3. QED
        BY <2>2 DEF m
<1>4. 2 * 2^q <= 2^p
    BY <1>1, Sizes, PowersGrow
<1>5. \A whole \in Nat : whole % 2^(q + 1) = 0 => i # whole + 2^q /\ (i + 2^q = whole + 2^q <=> whole = i)
    <2>1. SUFFICES ASSUME NEW whole \in Nat, whole % (2 * 2^q) = 0, i = whole + 2^q
                   PROVE  FALSE
        BY <1>1
    <2>2. 2 * 2^q \in Nat \ {0} /\ i % (2 * 2^q) = 0 /\ whole < i
        BY <1>1, <1>2, <2>1
    <2>3. whole + 2 * 2^q <= i
        BY <2>1, <2>2, MultiplesApart
    <2>4. QED
        BY <1>1, <2>1, <2>3
<1>6. BuddyOf(i, q) = i + 2^q
    <2>1. PICK whole \in Nat :
                /\ whole % 2^(q + 1) = 0
                /\ \/ i = whole /\ BuddyOf(i, q) = whole + 2^q
                   \/ i = whole + 2^q /\ BuddyOf(i, q) = whole
        BY <1>1, <1>2, BuddyHalves
    <2>2. QED
        BY <1>5, <2>1
<1>7. BuddyOf(i + 2^q, q) = i
    <2>1. i + 2^q \in Nat
        BY <1>1
    <2>2. PICK whole \in Nat :
                /\ whole % 2^(q + 1) = 0
                /\ \/ i + 2^q = whole /\ BuddyOf(i + 2^q, q) = whole + 2^q
                   \/ i + 2^q = whole + 2^q /\ BuddyOf(i + 2^q, q) = whole
        BY <1>1, <1>3, <2>1, BuddyHalves
    <2>3. i + 2^q # whole
        <3>1. ASSUME i + 2^q = whole PROVE FALSE
            <4>1. 2 * 2^q \in Nat \ {0} /\ i < whole /\ whole % (2 * 2^q) = 0 /\ i % (2 * 2^q) = 0
                BY <1>1, <1>2, <2>2, <3>1
            <4>2. i + 2 * 2^q <= whole
                BY <4>1, MultiplesApart
            <4>3. QED
                BY <1>1, <3>1, <4>2
        <3>2. QED
            BY <3>1
    <2>4. QED
        BY <1>1, <2>2, <2>3
<1>8. QED
    BY <1>1, <1>2, <1>3, <1>4, <1>6, <1>7

\* Of two blocks that meet the smaller one is part of the larger.
LEMMA Nested ==
    ASSUME NEW p \in 0 .. Limit, NEW i \in Nat, i % 2^p = 0,
           NEW o \in 0 .. p, NEW k \in Nat, k % 2^o = 0,
           NEW v \in Nat, i <= v, v < i + 2^p, k <= v, v < k + 2^o
    PROVE  i <= k /\ k + 2^o <= i + 2^p
<1>1. o \in 0 .. Limit /\ 2^o \in Nat \ {0} /\ 2^p \in Nat \ {0}
    BY Sizes
<1>2. i % 2^o = 0
    BY Sizes, AlignedForSmaller
<1>3. (i + 2^p) % 2^o = 0
    <2> DEFINE m == 2^o
               w == 2^p
    <2>1. w % w = 0
        BY <1>1
    <2>2. w % m = 0
        BY <1>1, <2>1, Sizes, AlignedForSmaller
    <2>3. m \in Nat \ {0} /\ w \in Nat /\ i % m = 0
        BY <1>1, <1>2
    <2> HIDE DEF m, w
    <2>4. (i + w) % m = 0
        BY <2>2, <2>3, MultiplesAdd
    <2>5. QED
        BY <2>4 DEF m, w
<1>4. i <= k
    <2>1. ASSUME k < i PROVE k + 2^o <= i
        <3> DEFINE m == 2^o
        <3>1. m \in Nat \ {0} /\ k % m = 0 /\ i % m = 0
            BY <1>1, <1>2
        <3> HIDE DEF m
        <3>2. k + m <= i
            BY <2>1, <3>1, MultiplesApart
        <3>3. QED
            BY <3>2 DEF m
    <2>2. QED
        BY <1>1, <2>1
<1>5. k + 2^o <= i + 2^p
    <2> DEFINE m == 2^o
               end == i + 2^p
    <2>1. m \in Nat \ {0} /\ end \in Nat /\ k < end /\ k % m = 0 /\ end % m = 0
        BY <1>1, <1>3
    <2> HIDE DEF m, end
    <2>2. k + m <= end
        BY <2>1, MultiplesApart
    <2>3. QED
        BY <2>2 DEF m, end
<1>6. QED
    BY <1>4, <1>5
-----------------------------------------------------------------------------
(* Sets of blocks.                                                         *)

BlockSet == [index : Nat, order : Order]
SpanOf(b) == Span(b.index, b.order)

\* The blocks are aligned, no two of them meet, and together they are the
\* pages from one index to another.
Tiles(B, from, to) ==
    /\ B \subseteq BlockSet
    /\ \A b \in B : b.index % 2^b.order = 0
    /\ \A b, c \in B, v \in Nat : v \in SpanOf(b) /\ v \in SpanOf(c) => b = c
    /\ \A v \in Nat : v \in from .. to - 1 <=> \E b \in B : v \in SpanOf(b)

\* What is left of a block of order p of which its first 2^o pages are taken.
Pieces(index, o, p) == {Block(index + 2^q, q) : q \in o .. p - 1}

\* Free blocks, and those that are taken.
Level(F, H, from, to) ==
    Tiles(F \cup H, from, to) /\ F \cap H = {} /\ Unmerged(F)

\* The block b is cut from one of the free blocks.
Splits(F, G, b) ==
    \E p \in b.order .. Limit - 1 :
        /\ Block(b.index, p) \in F
        /\ G = (F \ {Block(b.index, p)}) \cup Pieces(b.index, b.order, p)

LEMMA Spans ==
    /\ \A b \in BlockSet : b.index \in Nat /\ b.order \in Order /\ b = Block(b.index, b.order)
    /\ \A i \in Nat, o \in Order :
        Block(i, o) \in BlockSet /\ Block(i, o).index = i /\ Block(i, o).order = o
    /\ \A i \in Nat, o \in Order, v \in Nat :
        v \in SpanOf(Block(i, o)) <=> i <= v /\ v < i + 2^o
<1>1. \A b \in BlockSet : b.index \in Nat /\ b.order \in Order /\ b = Block(b.index, b.order)
    BY DEF BlockSet, Block
<1>2. \A i \in Nat, o \in Order :
        Block(i, o) \in BlockSet /\ Block(i, o).index = i /\ Block(i, o).order = o
    BY DEF BlockSet, Block
<1>3. ASSUME NEW i \in Nat, NEW o \in Order, NEW v \in Nat
      PROVE  v \in SpanOf(Block(i, o)) <=> i <= v /\ v < i + 2^o
    <2>1. 2^o \in Nat \ {0}
        BY Sizes
    <2>2. SpanOf(Block(i, o)) = i .. i + 2^o - 1
        BY <1>2 DEF SpanOf, Span
    <2>3. QED
        BY <2>1, <2>2
<1>4. QED
    BY <1>1, <1>2, <1>3

\* A block that is split is tiled by its first pages and the pieces.
LEMMA PiecesTile ==
    ASSUME NEW x \in Nat, NEW p \in Order, NEW o \in 0 .. p, x % 2^p = 0
    PROVE  Tiles({Block(x, o)} \cup Pieces(x, o, p), x, x + 2^p)
<1> DEFINE P == {Block(x, o)} \cup Pieces(x, o, p)
<1>1. /\ o \in Order /\ \A q \in o .. p - 1 : q \in Order /\ q \in 0 .. p - 1
      /\ \A q \in 0 .. p : q \in 0 .. Limit /\ q \in Order /\ 2^q \in Nat \ {0}
      /\ \A q \in o .. p - 1 : x + 2^q \in Nat
      /\ p \in 0 .. Limit /\ p \in Nat /\ o \in Nat /\ o <= p
    BY Sizes DEF Order
<1>2. \A q, r \in 0 .. p : q < r => 2 * 2^q <= 2^r
    <2>1. \A q, r \in 0 .. Limit : q < r => 2 * 2^q <= 2^r
        BY Sizes, PowersGrow
    <2>2. QED
        BY <1>1, <2>1
<1>3. \A b : b \in P <=> b = Block(x, o) \/ \E q \in o .. p - 1 : b = Block(x + 2^q, q)
    BY DEF Pieces
<1> HIDE DEF P
<1>4. \A b \in P : b \in BlockSet /\ b.index % 2^b.order = 0
    <2>1. Block(x, o) \in BlockSet /\ Block(x, o).index % 2^(Block(x, o).order) = 0
        <3>1. x % 2^o = 0
            BY <1>1, Sizes, AlignedForSmaller
        <3>2. QED
            BY <1>1, <3>1, Spans
    <2>2. ASSUME NEW q \in o .. p - 1
          PROVE  /\ Block(x + 2^q, q) \in BlockSet
                 /\ Block(x + 2^q, q).index % 2^(Block(x + 2^q, q).order) = 0
        <3>1. (x + 2^q) % 2^q = 0
            BY <1>1, UpperHalf
        <3>2. QED
            BY <1>1, <3>1, Spans
    <2>3. QED
        BY <1>3, <2>1, <2>2
<1>5. \A v \in Nat :
        /\ v \in SpanOf(Block(x, o)) <=> x <= v /\ v < x + 2^o
        /\ \A q \in o .. p - 1 : v \in SpanOf(Block(x + 2^q, q)) <=>
                x + 2^q <= v /\ v < x + 2 * 2^q
    <2>1. SUFFICES ASSUME NEW v \in Nat, NEW q \in o .. p - 1
                   PROVE  v \in SpanOf(Block(x + 2^q, q)) <=> x + 2^q <= v /\ v < x + 2 * 2^q
        BY <1>1, Spans
    <2>2. v \in SpanOf(Block(x + 2^q, q)) <=> x + 2^q <= v /\ v < x + 2^q + 2^q
        BY <1>1, Spans
    <2>3. 2^q \in Nat
        BY <1>1
    <2>4. QED
        BY <2>2, <2>3
<1>6. ASSUME NEW b \in P, NEW c \in P, NEW v \in Nat, v \in SpanOf(b), v \in SpanOf(c)
      PROVE  b = c
    <2>1. \A q \in o .. p - 1 : 2^o <= 2^q
        BY <1>1, <1>2
    <2>2. \A q \in o .. p - 1 : ~(v \in SpanOf(Block(x, o)) /\ v \in SpanOf(Block(x + 2^q, q)))
        BY <1>1, <1>5, <2>1
    <2>3. ASSUME NEW q \in o .. p - 1, NEW r \in o .. p - 1,
                 v \in SpanOf(Block(x + 2^q, q)), v \in SpanOf(Block(x + 2^r, r))
          PROVE  q = r
        <3>1. x + 2^q <= v /\ v < x + 2 * 2^q /\ x + 2^r <= v /\ v < x + 2 * 2^r
            BY <1>5, <2>3
        <3>2. 2^q \in Nat /\ 2^r \in Nat /\ (q < r => 2 * 2^q <= 2^r) /\ (r < q => 2 * 2^r <= 2^q)
            BY <1>1, <1>2
        <3>3. ~(q < r) /\ ~(r < q)
            BY <3>1, <3>2
        <3>4. QED
            BY <1>1, <3>3
    <2>4. QED
        BY <1>3, <1>6, <2>2, <2>3
<1> DEFINE end == x + 2^p
<1>7. ASSUME NEW v \in Nat
      PROVE  v \in x .. end - 1 <=> \E b \in P : v \in SpanOf(b)
    <2>1. 2^p \in Nat /\ 2^o \in Nat
        BY <1>1
    <2>2. ASSUME NEW b \in P, v \in SpanOf(b)
          PROVE  v \in x .. x + 2^p - 1
        <3>1. 2^o <= 2^p
            BY <1>1, <1>2
        <3>2. \A q \in o .. p - 1 : 2 * 2^q <= 2^p /\ 2^q \in Nat
            BY <1>1, <1>2
        <3>3. x <= v /\ v < x + 2^p
            BY <1>3, <1>5, <2>1, <2>2, <3>1, <3>2
        <3>4. QED
            BY <2>1, <3>3
    <2>3. ASSUME x <= v, v < x + 2^p, ~(v < x + 2^o)
          PROVE  \E b \in P : v \in SpanOf(b)
        <3> DEFINE I == {q \in o .. p - 1 : 2^q <= v - x}
                   q == Max(I)
        <3>1. o \in I
            <4>1. o < p
                BY <1>1, <2>3
            <4>2. QED
                BY <1>1, <2>1, <2>3, <4>1
        <3>2. I \in SUBSET (0 .. p) /\ I # {}
            <4>1. \A r \in I : r \in 0 .. p
                BY <1>1
            <4>2. QED
                BY <3>1, <4>1
        <3> HIDE DEF I
        <3>3. q \in I /\ \A r \in I : r <= q
            <4>1. p \in Nat
                BY <1>1
            <4>2. QED
                BY <3>2, <4>1, MaxIsGreatest
        <3> HIDE DEF q
        <3>4. q \in o .. p - 1 /\ 2^q <= v - x /\ 2^q \in Nat /\ q + 1 \in 0 .. p
            BY <1>1, <3>3 DEF I
        <3>5. 2^(q + 1) = 2 * 2^q /\ 2^(q + 1) \in Nat
            BY <1>1, <3>4, Sizes
        <3>6. v - x < 2 * 2^q
            <4>1. CASE q + 1 = p
                BY <2>1, <2>3, <3>5, <4>1
            <4>2. CASE q + 1 # p
                <5>1. q + 1 \in o .. p - 1 /\ ~(q + 1 <= q)
                    BY <1>1, <3>4, <4>2
                <5>2. ~(2^(q + 1) <= v - x)
                    BY <3>3, <5>1 DEF I
                <5>3. QED
                    BY <3>5, <5>2
            <4>3. QED
                BY <4>1, <4>2
        <3>7. v \in SpanOf(Block(x + 2^q, q))
            BY <1>5, <3>4, <3>6
        <3>8. QED
            BY <1>3, <3>4, <3>7
    <2>4. QED
        BY <1>3, <1>5, <2>1, <2>2, <2>3
<1>8. QED
    <2>1. Tiles(P, x, x + 2^p)
        <3>1. P \subseteq BlockSet
            BY <1>4
        <3>2. \A b \in P : b.index % 2^b.order = 0
            BY <1>4
        <3>3. \A b, c \in P, v \in Nat : v \in SpanOf(b) /\ v \in SpanOf(c) => b = c
            BY <1>6
        <3> HIDE DEF end
        <3>4. \A v \in Nat : v \in x .. end - 1 <=> \E b \in P : v \in SpanOf(b)
            BY <1>7, Zenon
        <3>5. Tiles(P, x, end)
            BY <3>1, <3>2, <3>3, <3>4, Zenon DEF Tiles
        <3>6. QED
            BY <3>5 DEF end
    <2>2. QED
        BY <2>1 DEF P

\* A tile may be replaced by smaller ones.
LEMMA Retile ==
    ASSUME NEW from, NEW to, NEW B, Tiles(B, from, to), NEW b \in B,
           NEW P, Tiles(P, b.index, b.index + 2^b.order)
    PROVE  /\ Tiles((B \ {b}) \cup P, from, to)
           /\ \A c \in P : c \in B => c = b
<1> DEFINE C == (B \ {b}) \cup P
<1>1. /\ B \subseteq BlockSet /\ P \subseteq BlockSet
      /\ \A c \in B : c.index % 2^c.order = 0
      /\ \A c \in P : c.index % 2^c.order = 0
      /\ \A c, d \in B, v \in Nat : v \in SpanOf(c) /\ v \in SpanOf(d) => c = d
      /\ \A c, d \in P, v \in Nat : v \in SpanOf(c) /\ v \in SpanOf(d) => c = d
    BY Zenon DEF Tiles
<1>2. ASSUME NEW v \in Nat
      PROVE  v \in SpanOf(b) <=> \E c \in P : v \in SpanOf(c)
    <2> DEFINE end == b.index + 2^b.order
    <2>1. v \in SpanOf(b) <=> v \in b.index .. end - 1
        <3>1. b.index \in Nat /\ b.order \in Order /\ b = Block(b.index, b.order)
            BY <1>1, Spans
        <3>2. 2^b.order \in Nat /\ (v \in SpanOf(b) <=> b.index <= v /\ v < b.index + 2^b.order)
            BY <3>1, Spans, Sizes
        <3>3. QED
            BY <3>1, <3>2
    <2>2. Tiles(P, b.index, end)
        OBVIOUS
    <2> HIDE DEF end
    <2>3. v \in b.index .. end - 1 <=> \E c \in P : v \in SpanOf(c)
        BY <2>2, Zenon DEF Tiles
    <2>4. QED
        BY <2>1, <2>3, Zenon
<1>3. ASSUME NEW v \in Nat
      PROVE  v \in from .. to - 1 <=> \E c \in B : v \in SpanOf(c)
    BY Zenon DEF Tiles
<1>4. \A c, d \in C, v \in Nat : v \in SpanOf(c) /\ v \in SpanOf(d) => c = d
    <2>1. SUFFICES ASSUME NEW c \in C, NEW d \in C, NEW v \in Nat,
                          v \in SpanOf(c), v \in SpanOf(d)
                   PROVE  c = d
        BY Zenon
    <2>2. \A x \in P, y \in B \ {b} : ~(v \in SpanOf(x) /\ v \in SpanOf(y))
        BY <1>1, <1>2, Zenon
    <2>3. QED
        BY <1>1, <2>1, <2>2
<1>5. ASSUME NEW v \in Nat
      PROVE  v \in from .. to - 1 <=> \E c \in C : v \in SpanOf(c)
    <2>1. (\E c \in B : v \in SpanOf(c)) <=> (\E c \in B \ {b} : v \in SpanOf(c)) \/ v \in SpanOf(b)
        OBVIOUS
    <2>2. (\E c \in C : v \in SpanOf(c)) <=>
                (\E c \in B \ {b} : v \in SpanOf(c)) \/ (\E c \in P : v \in SpanOf(c))
        OBVIOUS
    <2>3. QED
        BY <1>2, <1>3, <2>1, <2>2, Zenon
<1>6. C \subseteq BlockSet /\ \A c \in C : c.index % 2^c.order = 0
    <2>1. C \subseteq BlockSet
        BY <1>1
    <2>2. ASSUME NEW c \in C
          PROVE  c.index % 2^c.order = 0
        <3>1. c \in B \/ c \in P
            OBVIOUS
        <3>2. QED
            BY <1>1, <3>1, Zenon
    <2>3. QED
        BY <2>1, <2>2, Zenon
<1>7. ASSUME NEW c \in P, c \in B
      PROVE  c = b
    <2>1. c.index \in Nat /\ c.order \in Order /\ c = Block(c.index, c.order)
        BY <1>1, Spans
    <2>2. c.index \in SpanOf(c)
        <3>1. 2^(c.order) \in Nat \ {0}
            BY <2>1, Sizes
        <3>2. QED
            BY <2>1, <3>1, Spans
    <2>3. c.index \in SpanOf(b)
        BY <1>2, <2>1, <2>2
    <2>4. QED
        BY <1>1, <1>7, <2>1, <2>2, <2>3, Zenon
<1>8. Tiles(C, from, to)
    <2> HIDE DEF C
    <2>1. QED
        BY <1>4, <1>5, <1>6, Zenon DEF Tiles
<1>9. QED
    BY <1>7, <1>8, Zenon DEF C

\* Blocks that start in the same page, or one of which starts in the other.
LEMMA Starts ==
    ASSUME NEW b \in BlockSet
    PROVE  b.index \in Nat /\ b.index \in SpanOf(b) /\ 2^b.order \in Nat \ {0}
<1>1. b.index \in Nat /\ b.order \in Order /\ b = Block(b.index, b.order)
    BY Spans
<1>2. 2^b.order \in Nat \ {0}
    BY <1>1, Sizes
<1>3. QED
    BY <1>1, <1>2, Spans

\* Splitting makes no two blocks that could be merged: a piece's buddy is what
\* it was cut from, and a block beside the one that is split has its buddy
\* nowhere in it.
LEMMA SplitKeepsUnmerged ==
    ASSUME NEW from, NEW to, NEW F, NEW H, Tiles(F \cup H, from, to), Unmerged(F),
           NEW x \in Nat, NEW p \in Order, NEW o \in 0 .. p, Block(x, p) \in F
    PROVE  Unmerged((F \ {Block(x, p)}) \cup Pieces(x, o, p))
<1> DEFINE big == Block(x, p)
           G == (F \ {big}) \cup Pieces(x, o, p)
<1>1. /\ F \subseteq BlockSet
      /\ \A c \in F : c.index % 2^c.order = 0
      /\ \A c, d \in F, v \in Nat : v \in SpanOf(c) /\ v \in SpanOf(d) => c = d
    <2> DEFINE B == F \cup H
    <2>1. \A c \in F : c \in B
        OBVIOUS
    <2>2. Tiles(B, from, to)
        OBVIOUS
    <2> HIDE DEF B
    <2>3. /\ B \subseteq BlockSet
          /\ \A c \in B : c.index % 2^c.order = 0
          /\ \A c, d \in B, v \in Nat : v \in SpanOf(c) /\ v \in SpanOf(d) => c = d
        BY <2>2, Zenon DEF Tiles
    <2>4. QED
        BY <2>1, <2>3, Zenon
<1>2. big \in BlockSet /\ big.index = x /\ big.order = p /\ x % 2^p = 0
    <2>1. big \in BlockSet /\ big.index = x /\ big.order = p
        BY Spans
    <2>2. QED
        BY <1>1, <2>1
<1>3. \A v \in Nat : v \in SpanOf(big) <=> x <= v /\ v < x + 2^p
    BY Spans
<1>4. \A q \in o .. p - 1 :
        /\ q \in 0 .. p - 1 /\ q \in Order /\ 2^q \in Nat \ {0} /\ x + 2^q \in Nat
        /\ BuddyOf(x + 2^q, q) = x /\ x + 2 * 2^q <= x + 2^p
        /\ Block(x + 2^q, q).index = x + 2^q /\ Block(x + 2^q, q).order = q
    <2>1. SUFFICES ASSUME NEW q \in o .. p - 1
                   PROVE  /\ q \in 0 .. p - 1 /\ q \in Order /\ 2^q \in Nat \ {0} /\ x + 2^q \in Nat
                          /\ BuddyOf(x + 2^q, q) = x /\ x + 2 * 2^q <= x + 2^p
                          /\ Block(x + 2^q, q).index = x + 2^q /\ Block(x + 2^q, q).order = q
        OBVIOUS
    <2>2. q \in 0 .. p - 1 /\ q \in Order
        BY Sizes DEF Order
    <2>3. 2^q \in Nat \ {0}
        BY <2>2, Sizes
    <2>4. BuddyOf(x + 2^q, q) = x /\ x + 2 * 2^q <= x + 2^p
        BY <1>2, <2>2, UpperHalf
    <2>5. x + 2^q \in Nat
        BY <2>3
    <2>6. QED
        BY <2>2, <2>3, <2>4, <2>5, Spans
<1>5. \A c \in G : c \in F \ {big} \/ \E q \in o .. p - 1 : c = Block(x + 2^q, q)
    BY DEF Pieces
<1> HIDE DEF big, G
\* No block starts where the block did that was split.
<1>6. ASSUME NEW d \in G
      PROVE  d.index # x
    <2>1. CASE d \in F \ {big}
        <3>1. d \in BlockSet /\ d \in F /\ d # big
            BY <1>1, <2>1
        <3>2. d.index \in Nat /\ d.index \in SpanOf(d)
            BY <3>1, Starts
        <3>3. x \in SpanOf(big)
            BY <1>2, Starts
        <3>4. QED
            BY <1>1, <3>1, <3>2, <3>3 DEF big
    <2>2. CASE \E q \in o .. p - 1 : d = Block(x + 2^q, q)
        BY <1>4, <2>2
    <2>3. QED
        BY <1>5, <2>1, <2>2
\* The buddy of another block is not in it, either.
<1>7. ASSUME NEW c \in F \ {big}, c.order < Limit - 1, NEW q \in o .. p - 1
      PROVE  BuddyOf(c.index, c.order) # x + 2^q
    <2> DEFINE i == c.index
               r == c.order
               y == x + 2^q
    <2>1. /\ c \in BlockSet /\ c \in F /\ c # big
          /\ i \in Nat /\ r \in Order /\ c = Block(i, r) /\ i % 2^r = 0
          /\ i \in SpanOf(c)
        BY <1>1, <1>7, Spans, Starts
    <2>2. i \notin SpanOf(big)
        BY <1>1, <2>1 DEF big
    <2>3. /\ y \in Nat /\ x < y /\ y < x + 2^p /\ 2^q \in Nat \ {0} /\ 2^p \in Nat \ {0}
          /\ 2^r \in Nat \ {0} /\ r + 1 \in 0 .. Limit - 1 /\ p \in 0 .. Limit - 1 /\ Limit \in Nat
        <3>1. r + 1 \in 0 .. Limit - 1 /\ p \in 0 .. Limit - 1
            BY <1>7, <2>1, Sizes DEF Order
        <3>2. 2^p \in Nat \ {0} /\ 2^r \in Nat \ {0} /\ Limit \in Nat
            BY <2>1, Sizes
        <3>3. y \in Nat /\ 2^q \in Nat \ {0} /\ x + 2 * 2^q <= x + 2^p
            BY <1>4
        <3>4. QED
            BY <3>1, <3>2, <3>3
    <2>4. SUFFICES ASSUME BuddyOf(i, r) = y
                   PROVE  FALSE
        OBVIOUS
    <2> HIDE DEF i, r, y
    <2>5. PICK whole \in Nat :
                /\ whole % 2^(r + 1) = 0
                /\ \/ i = whole /\ y = whole + 2^r
                   \/ i = whole + 2^r /\ y = whole
        BY <2>1, <2>4, BuddyHalves
    <2>6. 2^(r + 1) = 2 * 2^r
        BY <2>1, Sizes
    <2>7. whole <= y /\ y < whole + 2^(r + 1) /\ whole <= i /\ i < whole + 2^(r + 1)
        BY <2>1, <2>3, <2>5, <2>6
    <2>8. CASE r + 1 <= p
        <3> DEFINE s == r + 1
        <3>1. /\ s \in 0 .. p /\ p \in 0 .. Limit /\ whole % 2^s = 0
              /\ x <= y /\ y < x + 2^p /\ whole <= y /\ y < whole + 2^s
            BY <2>3, <2>5, <2>7, <2>8
        <3> HIDE DEF s
        <3>2. x <= whole /\ whole + 2^s <= x + 2^p
            BY <1>2, <2>3, <3>1, Nested
        <3>3. x <= i /\ i < x + 2^p
            BY <2>1, <2>3, <2>6, <2>7, <3>2 DEF s
        <3>4. QED
            BY <1>3, <2>1, <2>2, <3>3
    <2>9. CASE ~(r + 1 <= p)
        <3>1. p \in 0 .. r /\ r \in 0 .. Limit /\ r + 1 \in 0 .. Limit /\ r \in 0 .. r + 1
            BY <2>1, <2>3, <2>9, Sizes
        <3>2. y % 2^r = 0
            <4>1. whole % 2^r = 0
                BY <2>5, <3>1, Sizes, AlignedForSmaller
            <4> DEFINE m == 2^r
            <4>2. m \in Nat \ {0} /\ whole % m = 0 /\ m % m = 0
                BY <2>3, <4>1
            <4>3. y = whole \/ y = whole + m
                BY <2>5
            <4> HIDE DEF m
            <4>4. y % m = 0
                BY <4>2, <4>3, MultiplesAdd
            <4>5. QED
                BY <4>4 DEF m
        <3>3. y % 2^p = 0
            BY <2>3, <3>1, <3>2, Sizes, AlignedForSmaller
        <3> DEFINE n == 2^p
        <3>4. n \in Nat \ {0} /\ y % n = 0 /\ x % n = 0 /\ x < y /\ y < x + n /\ y \in Nat
            BY <1>2, <2>3, <3>3
        <3> HIDE DEF n
        <3>5. x + n <= y
            BY <3>4, MultiplesApart
        <3>6. QED
            BY <3>4, <3>5
    <2>10. QED
        BY <2>8, <2>9
<1>8. ASSUME NEW c \in G, NEW d \in G, c.order < Limit - 1
      PROVE  BuddyOf(c.index, c.order) # d.index
    <2>1. CASE \E q \in o .. p - 1 : c = Block(x + 2^q, q)
        <3>1. BuddyOf(c.index, c.order) = x
            BY <1>4, <2>1
        <3>2. QED
            BY <1>6, <3>1
    <2>2. CASE c \in F \ {big} /\ \E q \in o .. p - 1 : d = Block(x + 2^q, q)
        BY <1>4, <1>7, <1>8, <2>2
    <2>3. CASE c \in F \ {big} /\ d \in F \ {big}
        BY <1>8, <2>3 DEF Unmerged
    <2>4. QED
        BY <1>5, <2>1, <2>2, <2>3
<1>9. Unmerged(G)
    BY <1>8 DEF Unmerged
<1>10. QED
    BY <1>9 DEF G, big

LEMMA SplitLevel ==
    ASSUME NEW from, NEW to, NEW F, NEW H, Level(F, H, from, to),
           NEW b \in BlockSet, NEW G, Splits(F, G, b)
    PROVE  Level(G, H \cup {b}, from, to) /\ b \notin H
<1> DEFINE x == b.index
           o == b.order
<1>1. x \in Nat /\ o \in Order /\ b = Block(x, o)
    BY Spans
<1>2. PICK p \in o .. Limit - 1 :
            Block(x, p) \in F /\ G = (F \ {Block(x, p)}) \cup Pieces(x, o, p)
    BY DEF Splits
<1> DEFINE big == Block(x, p)
           P == {b} \cup Pieces(x, o, p)
           B == F \cup H
<1>3. p \in Order /\ o \in 0 .. p
    BY <1>1, <1>2, Sizes DEF Order
<1>4. Tiles(B, from, to) /\ F \cap H = {} /\ Unmerged(F)
    BY Zenon DEF Level
<1>5. big \in B /\ big \in BlockSet /\ big.index = x /\ big.order = p
    BY <1>1, <1>2, <1>3, Spans
<1>6. x % 2^p = 0
    <2> HIDE DEF B, big, x
    <2>1. \A c \in B : c.index % 2^c.order = 0
        BY <1>4, Zenon DEF Tiles
    <2>2. QED
        BY <1>5, <2>1
<1>7. Tiles(P, x, x + 2^p)
    BY <1>1, <1>3, <1>6, PiecesTile
<1>8. Unmerged(G)
    BY <1>1, <1>2, <1>3, <1>4, SplitKeepsUnmerged
<1>9. Tiles((B \ {big}) \cup P, from, to) /\ \A c \in P : c \in B => c = big
    <2> HIDE DEF B, P, big, x
    <2>1. Tiles(P, big.index, big.index + 2^big.order)
        BY <1>5, <1>7
    <2>2. QED
        BY <1>4, <1>5, <2>1, Retile
<1>10. (B \ {big}) \cup P = G \cup (H \cup {b})
    BY <1>2, <1>4
<1>11. b \notin H
    BY <1>2, <1>4, <1>9
<1>12. b \notin G
    <2>1. ASSUME b \in F
          PROVE  b = big
        BY <1>9, <2>1
    <2>2. ASSUME b \in Pieces(x, o, p)
          PROVE  FALSE
        <3>1. PICK q \in o .. p - 1 : b = Block(x + 2^q, q)
            BY <2>2 DEF Pieces
        <3>2. q \in Order /\ 2^q \in Nat \ {0}
            BY <1>1, <1>3, Sizes DEF Order
        <3>3. b.index = x + 2^q
            BY <1>1, <3>1, <3>2, Spans
        <3>4. QED
            BY <1>1, <3>2, <3>3
    <2>3. QED
        BY <1>2, <2>1, <2>2
<1>13. \A c \in G : c \notin H
    <2>1. ASSUME NEW c \in Pieces(x, o, p), c \in H
          PROVE  FALSE
        BY <1>2, <1>4, <1>9, <2>1
    <2>2. QED
        BY <1>2, <1>4, <2>1
<1>14. G \cap (H \cup {b}) = {}
    BY <1>12, <1>13
<1> HIDE DEF B, P, big, x, o
<1>15. QED
    BY <1>8, <1>9, <1>10, <1>11, <1>14, Zenon DEF Level

-----------------------------------------------------------------------------
(* The blocks that are made of a region.                                   *)

BlocksOf(lists) == {b \in BlockSet : b.index \in ToSet(lists[b.order])}

\* max_order: the greatest order a block can have at an index.
LEMMA MaxOrder ==
    ASSUME NEW to \in Nat, NEW i \in 0 .. to - 1
    PROVE  LET m == max_order(i, to - i)
           IN  /\ m \in Order /\ i % 2^m = 0 /\ i + 2^m <= to
               /\ \A r \in Order : i % 2^r = 0 /\ i + 2^r <= to => r <= m
<1> DEFINE n == to - i
           L == {o \in Order : 2^o <= n}
           I == {o \in Order : i % 2^o = 0}
<1>1. n \in Nat /\ 1 <= n /\ to = i + n /\ i \in Nat
    OBVIOUS
<1>2. 0 \in Order /\ 2^0 = 1 /\ Limit - 1 \in Nat /\ Order = 0 .. Limit - 1
    BY Sizes DEF Order
<1> HIDE DEF n
<1>3. \A o \in Order : o \in 0 .. Limit /\ o \in Nat /\ 2^o \in Nat \ {0}
    BY Sizes DEF Order
<1>4. 0 \in L /\ 0 \in I
    BY <1>1, <1>2
<1>5. L \in SUBSET (0 .. Limit - 1) /\ L # {} /\ I \in SUBSET (0 .. Limit - 1) /\ I # {}
    BY <1>2, <1>4
<1> DEFINE l == Max(L)
           a == Max(I)
           m == Min({l, a})
<1>6. l \in L /\ (\A r \in L : r <= l) /\ a \in I /\ (\A r \in I : r <= a)
    <2> HIDE DEF L, I
    <2>1. QED
        BY <1>2, <1>5, MaxIsGreatest
<1>7. max_order(i, to - i) = m
    BY DEF max_order, max_order_for_length, max_order_for_index, n
<1> HIDE DEF l, a
<1>8. l \in Order /\ a \in Order /\ 2^l <= n /\ i % 2^a = 0 /\ l \in Nat /\ a \in Nat
    BY <1>3, <1>6
<1>9. m \in {l, a} /\ m <= l /\ m <= a
    BY <1>8, MinIsLeast
<1> HIDE DEF m
<1>10. m \in Order /\ m \in 0 .. l /\ m \in 0 .. a /\ m \in Nat
    BY <1>3, <1>8, <1>9
<1>11. i % 2^m = 0
    BY <1>1, <1>3, <1>8, <1>10, Sizes, AlignedForSmaller
<1>12. 2^m <= n
    <2>1. m < l => 2 * 2^m <= 2^l
        BY <1>3, <1>8, <1>10, Sizes, PowersGrow
    <2>2. QED
        BY <1>1, <1>3, <1>8, <1>9, <1>10, <2>1
<1>13. ASSUME NEW r \in Order, i % 2^r = 0, i + 2^r <= to
       PROVE  r <= m
    <2>1. r \in I
        BY <1>13
    <2>2. r \in L
        BY <1>1, <1>3, <1>13
    <2>3. QED
        BY <1>6, <1>9, <2>1, <2>2
<1>14. i + 2^m <= to
    BY <1>1, <1>3, <1>10, <1>12
<1>15. QED
    BY <1>7, <1>10, <1>11, <1>13, <1>14

\* The lists from every index on, as add_pages_to_pool makes them.
AddsPages(f, from, to) ==
    /\ add_pages_to_pool(from, to) = f[from]
    /\ f[to] = [o \in Order |-> <<>>]
    /\ \A i \in from .. to - 1 :
            f[i] = [f[i + 2^max_order(i, to - i)] EXCEPT ![max_order(i, to - i)] = <<i>> \o @]

LEMMA AddsPagesExists ==
    ASSUME NEW to \in Nat, NEW from \in 0 .. to
    PROVE  \E f \in [from .. to -> [Order -> Seq(0 .. to - 1)]] : AddsPages(f, from, to)
<1> DEFINE T == [Order -> Seq(0 .. to - 1)]
           m(i) == max_order(i, to - i)
           Step(f, i) == IF i = to THEN [o \in Order |-> <<>>]
                         ELSE [f[i + 2^m(i)] EXCEPT ![m(i)] = <<i>> \o @]
           Body(f) == [i \in from .. to |-> Step(f, i)]
           UpTo(k, f) == \A i \in from .. to : to - i <= k => f[i] = Step(f, i)
           Reached == {k \in Nat : k <= to - from => \E f \in [from .. to -> T] : UpTo(k, f)}
<1>1. \A i \in from .. to - 1 :
        m(i) \in Order /\ 2^m(i) \in Nat \ {0} /\ i + 2^m(i) \in i + 1 .. to
    <2>1. SUFFICES ASSUME NEW i \in from .. to - 1
                   PROVE  m(i) \in Order /\ 2^m(i) \in Nat \ {0} /\ i + 2^m(i) \in i + 1 .. to
        BY Zenon
    <2>2. i \in 0 .. to - 1
        OBVIOUS
    <2>3. m(i) \in Order /\ i + 2^m(i) <= to
        BY <2>2, MaxOrder
    <2>4. 2^m(i) \in Nat \ {0}
        BY <2>3, Sizes
    <2> HIDE DEF m
    <2>5. QED
        BY <2>2, <2>3, <2>4
<1>2. [o \in Order |-> <<>>] \in T
    BY EmptySeq
<1>3. ASSUME NEW i \in from .. to, NEW f \in [from .. to -> T]
      PROVE  Step(f, i) \in T
    <2>1. CASE i = to
        BY <1>2, <2>1
    <2>2. CASE i # to
        <3>1. i \in from .. to - 1 /\ i \in 0 .. to - 1
            BY <2>2
        <3>2. m(i) \in Order /\ i + 2^m(i) \in from .. to
            BY <1>1, <3>1
        <3> DEFINE j == i + 2^m(i)
        <3> HIDE DEF m, j
        <3>3. f[j] \in T /\ f[j][m(i)] \in Seq(0 .. to - 1)
            BY <3>2 DEF j
        <3>4. <<i>> \o f[j][m(i)] \in Seq(0 .. to - 1)
            BY <3>1, <3>3, PrependKeeps
        <3>5. [f[j] EXCEPT ![m(i)] = <<i>> \o @] \in T
            BY <3>2, <3>3, <3>4
        <3>6. QED
            BY <2>2, <3>5 DEF j
    <2>3. QED
        BY <2>1, <2>2
<1>4. ASSUME NEW i \in from .. to, NEW f, NEW g,
             \A k \in from .. to : to - k < to - i => f[k] = g[k]
      PROVE  Step(f, i) = Step(g, i)
    <2>1. CASE i = to
        BY <2>1
    <2>2. CASE i # to
        <3>1. i \in from .. to - 1
            BY <2>2
        <3> DEFINE j == i + 2^m(i)
        <3>2. j \in from .. to /\ to - j < to - i
            BY <1>1, <3>1
        <3> HIDE DEF m, j
        <3>3. f[j] = g[j]
            BY <1>4, <3>2
        <3>4. QED
            BY <2>2, <3>3 DEF j
    <2>3. QED
        BY <2>1, <2>2
<1> HIDE DEF m, T, Step
<1>5. 0 \in Reached
    <2> DEFINE e == [o \in Order |-> <<>>]
               f == [i \in from .. to |-> e]
    <2>1. f \in [from .. to -> T]
        BY <1>2
    <2>2. f[to] = e /\ Step(f, to) = e
        BY DEF Step
    <2>3. UpTo(0, f)
        <3> HIDE DEF f, e
        <3>1. QED
            BY <2>2
    <2>4. QED
        BY <2>1, <2>3
<1>6. ASSUME NEW k \in Nat, k \in Reached
      PROVE  k + 1 \in Reached
    <2>1. SUFFICES ASSUME k + 1 <= to - from
                   PROVE  \E f \in [from .. to -> T] : UpTo(k + 1, f)
        OBVIOUS
    <2> HIDE DEF UpTo
    <2>2. PICK f \in [from .. to -> T] : UpTo(k, f)
        <3>1. k <= to - from
            BY <2>1
        <3>2. QED
            BY <1>6, <3>1
    <2> USE DEF UpTo
    <2> DEFINE i == to - (k + 1)
               g == [f EXCEPT ![i] = Step(f, i)]
    <2>3. i \in from .. to /\ to - i = k + 1 /\ k \in Int
        BY <2>1
    <2>4. g \in [from .. to -> T]
        BY <1>3, <2>3
    <2>5. g[i] = Step(f, i) /\ \A j \in from .. to : j # i => g[j] = f[j]
        BY <2>3
    <2> HIDE DEF g, i
    <2>6. ASSUME NEW j \in from .. to, to - j <= k + 1
          PROVE  g[j] = Step(g, j)
        <3>1. \A l \in from .. to : to - l < to - j => f[l] = g[l]
            BY <2>3, <2>5, <2>6
        <3>2. Step(f, j) = Step(g, j)
            BY <1>4, <3>1
        <3>3. CASE j = i
            BY <2>5, <3>2, <3>3
        <3>4. CASE j # i
            <4>1. to - j <= k
                BY <2>3, <2>6, <3>4
            <4>2. f[j] = Step(f, j)
                BY <2>2, <4>1
            <4>3. QED
                BY <2>5, <3>2, <3>4, <4>2
        <3>5. QED
            BY <3>3, <3>4
    <2>7. UpTo(k + 1, g)
        BY <2>6
    <2>8. QED
        BY <2>4, <2>7
<1>7. to - from \in Reached
    <2> HIDE DEF Reached
    <2>1. Nat \subseteq Reached
        BY <1>5, <1>6, StepInduction
    <2>2. QED
        BY <2>1
<1>8. PICK f \in [from .. to -> T] : f = Body(f)
    <2> HIDE DEF UpTo
    <2>1. PICK f \in [from .. to -> T] : UpTo(to - from, f)
        BY <1>7
    <2> USE DEF UpTo
    <2>2. \A i \in from .. to : f[i] = Step(f, i)
        BY <2>1
    <2>3. f = Body(f)
        BY <2>2
    <2>4. QED
        BY <2>3
<1> DEFINE c == CHOOSE g : g = Body(g)
<1>9. c = Body(c) /\ add_pages_to_pool(from, to) = c[from]
    <2>1. c = Body(c)
        <3> HIDE DEF Body
        <3>1. QED
            BY <1>8
    <2>2. add_pages_to_pool(from, to) = c[from]
        BY Zenon DEF add_pages_to_pool, Step, m
    <2>3. QED
        BY <2>1, <2>2
<1> HIDE DEF c
<1>10. DOMAIN c = from .. to /\ \A i \in from .. to : c[i] = Step(c, i)
    BY <1>9
\* It is the function that was built, whatever it is that CHOOSE chooses.
<1>11. c \in [from .. to -> T]
    <2> DEFINE Same == {k \in Nat : k <= to - from => c[to - k] = f[to - k]}
    <2>1. \A i \in from .. to : f[i] = Step(f, i)
        BY <1>8
    <2>2. ASSUME NEW k \in Nat, \A d \in 0 .. k - 1 : d \in Same
          PROVE  k \in Same
        <3>1. SUFFICES ASSUME k <= to - from PROVE c[to - k] = f[to - k]
            OBVIOUS
        <3> DEFINE i == to - k
        <3>2. i \in from .. to /\ to - i = k
            BY <3>1
        <3>3. ASSUME NEW j \in from .. to, to - j < to - i
              PROVE  c[j] = f[j]
            <4>1. to - j \in 0 .. k - 1 /\ to - (to - j) = j /\ to - j <= to - from
                BY <3>2, <3>3
            <4>2. QED
                BY <2>2, <4>1
        <3> HIDE DEF i
        <3>4. Step(c, i) = Step(f, i)
            BY <1>4, <3>2, <3>3
        <3>5. QED
            BY <1>10, <2>1, <3>2, <3>4 DEF i
    <2>3. Nat \subseteq Same
        <3> HIDE DEF Same
        <3>1. QED
            BY <2>2, StrongInduction
    <2>4. ASSUME NEW i \in from .. to
          PROVE  c[i] \in T
        <3> DEFINE d == to - i
        <3>1. d \in Nat /\ to - d = i /\ d <= to - from
            OBVIOUS
        <3> HIDE DEF d
        <3>2. c[to - d] = f[to - d]
            BY <2>3, <3>1
        <3>3. QED
            BY <3>1, <3>2
    <2>5. c = [i \in from .. to |-> c[i]]
        BY <1>9
    <2> DEFINE D == from .. to
    <2>6. c = [i \in D |-> c[i]] /\ \A i \in D : c[i] \in T
        BY <2>4, <2>5
    <2> HIDE DEF D
    <2>7. [i \in D |-> c[i]] \in [D -> T]
        BY <2>6
    <2>8. c \in [D -> T]
        BY <2>6, <2>7, Zenon
    <2>9. QED
        BY <2>8 DEF D
<1>12. AddsPages(c, from, to)
    <2>1. c[to] = [o \in Order |-> <<>>]
        <3>1. to \in from .. to
            OBVIOUS
        <3>2. c[to] = Step(c, to)
            BY <1>10, <3>1
        <3>3. QED
            BY <3>2, Zenon DEF Step
    <2>2. ASSUME NEW i \in from .. to - 1
          PROVE  c[i] = [c[i + 2^m(i)] EXCEPT ![m(i)] = <<i>> \o @]
        <3>1. i \in from .. to /\ i # to
            OBVIOUS
        <3>2. QED
            BY <1>10, <3>1 DEF Step
    <2>3. QED
        BY <1>9, <2>1, <2>2 DEF AddsPages, m
<1>13. QED
    BY <1>11, <1>12 DEF T

\* One more block in front.
LEMMA TileInFront ==
    ASSUME NEW i \in Nat, NEW o \in Order, i % 2^o = 0,
           NEW to \in Nat, i + 2^o <= to, NEW B, Tiles(B, i + 2^o, to)
    PROVE  Tiles(B \cup {Block(i, o)}, i, to)
<1> DEFINE b == Block(i, o)
           C == B \cup {b}
           j == i + 2^o
<1>1. 2^o \in Nat \ {0} /\ j \in Nat /\ i < j /\ j <= to
    BY Sizes
<1>2. b \in BlockSet /\ b.index % 2^b.order = 0 /\ \A v \in Nat : v \in SpanOf(b) <=> i <= v /\ v < j
    BY Spans
<1> HIDE DEF b, j
<1>3. Tiles(B, j, to)
    BY DEF j
<1>4. /\ B \subseteq BlockSet
      /\ \A c \in B : c.index % 2^c.order = 0
      /\ \A c, d \in B, v \in Nat : v \in SpanOf(c) /\ v \in SpanOf(d) => c = d
      /\ \A v \in Nat : v \in j .. to - 1 <=> \E c \in B : v \in SpanOf(c)
    BY <1>3, Zenon DEF Tiles
<1>5. \A v \in Nat : v \in SpanOf(b) => ~\E c \in B : v \in SpanOf(c)
    BY <1>1, <1>2, <1>4
<1>6. ASSUME NEW v \in Nat
      PROVE  v \in i .. to - 1 <=> \E c \in C : v \in SpanOf(c)
    <2>1. v \in i .. to - 1 <=> v \in SpanOf(b) \/ v \in j .. to - 1
        BY <1>1, <1>2
    <2>2. QED
        BY <1>4, <2>1
<1>7. C \subseteq BlockSet /\ \A c \in C : c.index % 2^c.order = 0
    BY <1>2, <1>4
<1>8. \A c, d \in C, v \in Nat : v \in SpanOf(c) /\ v \in SpanOf(d) => c = d
    BY <1>4, <1>5, Zenon
<1>9. Tiles(C, i, to)
    <2> HIDE DEF C
    <2>1. QED
        BY <1>6, <1>7, <1>8, Zenon DEF Tiles
<1>10. QED
    BY <1>9 DEF b

\* add_pages_to_pool puts each page of the region into one block, of the
\* greatest order it can have there.
LEMMA AddedPages ==
    ASSUME NEW to \in Nat, NEW from \in 0 .. to
    PROVE  LET lists == add_pages_to_pool(from, to)
           IN  /\ lists \in [Order -> Seq(0 .. to - 1)]
               /\ \A o \in Order : NoDuplicates(lists[o])
               /\ Tiles(BlocksOf(lists), from, to)
               /\ \A c \in BlocksOf(lists) : c.order = max_order(c.index, to - c.index)
<1> DEFINE T == [Order -> Seq(0 .. to - 1)]
           m(i) == max_order(i, to - i)
           Good(l, i) == /\ \A o \in Order : NoDuplicates(l[o])
                         /\ Tiles(BlocksOf(l), i, to)
                         /\ \A c \in BlocksOf(l) : c.order = m(c.index)
<1>1. PICK f \in [from .. to -> T] : AddsPages(f, from, to)
    BY AddsPagesExists
<1>2. /\ add_pages_to_pool(from, to) = f[from]
      /\ f[to] = [o \in Order |-> <<>>]
      /\ \A i \in from .. to - 1 : f[i] = [f[i + 2^m(i)] EXCEPT ![m(i)] = <<i>> \o @]
    BY <1>1 DEF AddsPages
<1> DEFINE Reached == {k \in Nat : k <= to - from => Good(f[to - k], to - k)}
<1>3. Good(f[to], to)
    <2> DEFINE l == f[to]
    <2>1. l = [o \in Order |-> <<>>]
        BY <1>2
    <2> HIDE DEF l
    <2>2. \A o \in Order : l[o] = <<>> /\ NoDuplicates(l[o]) /\ ToSet(l[o]) = {}
        BY <2>1 DEF NoDuplicates, ToSet
    <2>3. BlocksOf(l) = {}
        BY <2>2 DEF BlocksOf, BlockSet
    <2>4. Tiles({}, to, to)
        <3>1. \A v \in Nat : v \notin to .. to - 1
            OBVIOUS
        <3>2. QED
            BY <3>1 DEF Tiles
    <2>5. QED
        BY <2>2, <2>3, <2>4 DEF l
<1>4. ASSUME NEW i \in from .. to - 1, Good(f[i + 2^m(i)], i + 2^m(i))
      PROVE  Good(f[i], i)
    <2> DEFINE o == m(i)
               j == i + 2^o
               l == f[j]
               b == Block(i, o)
               r == [l EXCEPT ![o] = <<i>> \o @]
    <2>1. o \in Order /\ i % 2^o = 0 /\ i + 2^o <= to /\ i \in 0 .. to - 1
        <3>1. i \in 0 .. to - 1
            OBVIOUS
        <3>2. QED
            BY <3>1, MaxOrder
    <2>2. 2^o \in Nat \ {0}
        BY <2>1, Sizes
    <2>3. Good(l, j) /\ f[i] = r
        BY <1>2, <1>4
    <2>4. b \in BlockSet /\ b.index = i /\ b.order = o
        BY <2>1, Spans
    <2> HIDE DEF o, m
    <2>5. j \in from .. to /\ i < j /\ i \in Nat
        BY <2>1, <2>2
    <2>6. l \in T /\ \A p \in Order : l[p] \in Seq(0 .. to - 1)
        BY <2>5
    <2> HIDE DEF l, T, b
    <2>7. /\ ToSet(<<i>> \o l[o]) = ToSet(l[o]) \cup {i}
          /\ NoDuplicates(l[o]) /\ ~list_linked(l[o], i) => NoDuplicates(<<i>> \o l[o])
        BY <2>1, <2>6, PrependKeeps
    <2>8. \A p \in Order : r[p] = IF p = o THEN <<i>> \o l[o] ELSE l[p]
        BY <2>1, <2>6 DEF T
    <2> HIDE DEF r
    <2>9. BlocksOf(r) = BlocksOf(l) \cup {b}
        <3>1. ASSUME NEW c \in BlockSet
              PROVE  c \in BlocksOf(r) <=> c \in BlocksOf(l) \/ c = b
            <4>1. c.order \in Order /\ (c = b <=> c.index = i /\ c.order = o)
                BY <2>4, Spans DEF b
            <4>2. c \in BlocksOf(r) <=> c.index \in ToSet(r[c.order])
                BY DEF BlocksOf
            <4>3. c \in BlocksOf(l) <=> c.index \in ToSet(l[c.order])
                BY DEF BlocksOf
            <4>4. CASE c.order = o
                BY <2>7, <2>8, <4>1, <4>2, <4>3, <4>4
            <4>5. CASE c.order # o
                BY <2>8, <4>1, <4>2, <4>3, <4>5
            <4>6. QED
                BY <4>4, <4>5
        <3>2. BlocksOf(r) \subseteq BlockSet /\ BlocksOf(l) \subseteq BlockSet
            BY DEF BlocksOf
        <3>3. QED
            BY <2>4, <3>1, <3>2
    <2>10. ~list_linked(l[o], i)
        <3>1. SUFFICES ASSUME i \in ToSet(l[o])
                       PROVE  FALSE
            BY DEF list_linked
        <3>2. b \in BlocksOf(l)
            BY <2>4, <3>1 DEF BlocksOf
        <3>3. i \in SpanOf(b)
            BY <2>4, Starts
        <3>4. i \in j .. to - 1
            BY <2>3, <2>5, <3>2, <3>3, Zenon DEF Tiles
        <3>5. QED
            BY <2>5, <3>4
    <2>11. \A p \in Order : NoDuplicates(r[p])
        BY <2>3, <2>7, <2>8, <2>10
    <2>12. Tiles(BlocksOf(r), i, to)
        <3>1. Tiles(BlocksOf(l), i + 2^o, to)
            BY <2>3
        <3>2. Tiles(BlocksOf(l) \cup {Block(i, o)}, i, to)
            BY <2>1, <2>5, <3>1, TileInFront
        <3>3. QED
            BY <2>9, <3>2 DEF b
    <2>13. \A c \in BlocksOf(r) : c.order = m(c.index)
        BY <2>3, <2>4, <2>9 DEF o
    <2>14. QED
        BY <2>3, <2>11, <2>12, <2>13
<1>5. ASSUME NEW k \in Nat, \A d \in 0 .. k - 1 : d \in Reached
      PROVE  k \in Reached
    <2> HIDE DEF Good
    <2>1. SUFFICES ASSUME k <= to - from PROVE Good(f[to - k], to - k)
        OBVIOUS
    <2> DEFINE i == to - k
    <2>2. CASE k = 0
        BY <1>3, <2>2
    <2>3. CASE k # 0
        <3>1. i \in from .. to - 1 /\ i \in 0 .. to - 1 /\ k = to - i
            BY <2>1, <2>3
        <3> HIDE DEF i
        <3>2. m(i) \in Order /\ i + 2^m(i) <= to
            BY <3>1, MaxOrder
        <3>3. 2^m(i) \in Nat \ {0}
            BY <3>2, Sizes
        <3> DEFINE w == 2^m(i)
                   j == i + w
                   d == to - j
        <3>4. w \in Nat \ {0} /\ i + w <= to
            BY <3>2, <3>3
        <3> HIDE DEF m, w
        <3>5. j \in from .. to /\ d \in 0 .. k - 1 /\ d <= to - from /\ to - d = j
            BY <3>1, <3>4
        <3> HIDE DEF j, d
        <3>6. Good(f[j], j)
            BY <1>5, <3>5
        <3>7. Good(f[i], i)
            BY <1>4, <3>1, <3>6 DEF j, w
        <3>8. QED
            BY <3>7 DEF i
    <2>4. QED
        BY <2>2, <2>3
<1>6. Good(f[from], from)
    <2> HIDE DEF Good, Reached
    <2>1. Nat \subseteq Reached
        BY <1>5, StrongInduction
    <2> DEFINE d == to - from
    <2>2. d \in Nat /\ to - d = from /\ d <= to - from
        OBVIOUS
    <2> HIDE DEF d
    <2>3. Good(f[to - d], to - d)
        BY <2>1, <2>2 DEF Reached
    <2>4. QED
        BY <2>2, <2>3
<1>7. f[from] \in T
    OBVIOUS
<1>8. QED
    BY <1>2, <1>6, <1>7

\* Where the region ends with a block of the largest order, none of them are
\* buddies: the lower one would have been made twice as large.
LEMMA AddedUnmerged ==
    ASSUME NEW to \in Nat, NEW from \in 0 .. to, to % 2^(Limit - 1) = 0
    PROVE  Unmerged(BlocksOf(add_pages_to_pool(from, to)))
<1> DEFINE B == BlocksOf(add_pages_to_pool(from, to))
<1>1. /\ B \subseteq BlockSet
      /\ \A b \in B : b.index % 2^b.order = 0
      /\ \A b, c \in B, v \in Nat : v \in SpanOf(b) /\ v \in SpanOf(c) => b = c
      /\ \A v \in Nat : v \in from .. to - 1 <=> \E b \in B : v \in SpanOf(b)
      /\ \A b \in B : b.order = max_order(b.index, to - b.index)
    <2>1. Tiles(B, from, to) /\ \A b \in B : b.order = max_order(b.index, to - b.index)
        BY AddedPages
    <2> HIDE DEF B
    <2>2. QED
        BY <2>1, Zenon DEF Tiles
<1> HIDE DEF B
<1>2. ASSUME NEW b \in B
      PROVE  /\ b.index \in 0 .. to - 1 /\ b.order \in Order /\ b.index \in SpanOf(b)
             /\ b = Block(b.index, b.order) /\ b.index % 2^b.order = 0
             /\ b.index + 2^b.order <= to
             /\ \A r \in Order : b.index % 2^r = 0 /\ b.index + 2^r <= to => r <= b.order
    <2>1. /\ b.index \in Nat /\ b.order \in Order /\ b.index \in SpanOf(b)
          /\ b = Block(b.index, b.order)
        BY <1>1, Starts, Spans
    <2>2. b.index \in 0 .. to - 1
        <3>1. b.index \in from .. to - 1
            BY <1>1, <2>1
        <3>2. QED
            BY <3>1
    <2>3. QED
        BY <1>1, <2>1, <2>2, MaxOrder
<1>3. SUFFICES ASSUME NEW b \in B, NEW c \in B, b.order < Limit - 1,
                      BuddyOf(b.index, b.order) = c.index
               PROVE  FALSE
    BY DEF Unmerged, B
<1> DEFINE i == b.index
           r == b.order
           s == r + 1
<1>4. /\ i \in 0 .. to - 1 /\ i \in Nat /\ r \in Order /\ i % 2^r = 0 /\ i + 2^r <= to
      /\ i \in SpanOf(b)
      /\ \A t \in Order : i % 2^t = 0 /\ i + 2^t <= to => t <= r
    BY <1>2
<1>5. /\ s \in Order /\ r < s /\ 2^s = 2 * 2^r /\ 2^r \in Nat \ {0} /\ 2^s \in Nat \ {0}
      /\ s \in 0 .. Limit - 1 /\ Limit - 1 \in 0 .. Limit /\ s \in 0 .. Limit
    BY <1>3, <1>4, Sizes, SMTT(30) DEF Order
<1>6. PICK whole \in Nat :
            /\ whole % 2^s = 0
            /\ \/ i = whole /\ c.index = whole + 2^r
               \/ i = whole + 2^r /\ c.index = whole
    BY <1>3, <1>4, BuddyHalves
<1> HIDE DEF i, r, s
<1>7. CASE i = whole
    <2>1. to % 2^s = 0
        <3> DEFINE t == Limit - 1
        <3>1. t \in 0 .. Limit /\ s \in 0 .. t /\ to % 2^t = 0
            BY <1>5
        <3> HIDE DEF t
        <3>2. QED
            BY <3>1, Sizes, AlignedForSmaller
    <2> DEFINE m == 2^s
    <2>2. m \in Nat \ {0} /\ i % m = 0 /\ to % m = 0 /\ i < to
        BY <1>4, <1>5, <1>6, <1>7, <2>1
    <2> HIDE DEF m
    <2>3. i + m <= to
        BY <1>4, <2>2, MultiplesApart
    <2>4. s <= r
        BY <1>4, <1>5, <2>2, <2>3 DEF m
    <2>5. r \in Nat /\ s = r + 1
        BY <1>4, Sizes DEF Order, s
    <2>6. QED
        BY <2>4, <2>5
<1>8. CASE i = whole + 2^r /\ c.index = whole
    <2>1. whole + 2^s <= to
        BY <1>4, <1>5, <1>8
    <2>2. s <= c.order /\ c.order \in Order /\ c = Block(whole, c.order)
        BY <1>2, <1>5, <1>6, <1>8, <2>1
    <2>3. 2^s <= 2^c.order
        <3>1. c.order \in 0 .. Limit /\ 2^c.order \in Nat
            BY <2>2, Sizes
        <3>2. s < c.order => 2 * 2^s <= 2^c.order
            BY <1>5, <3>1, Sizes, PowersGrow
        <3>3. s = c.order \/ s < c.order
            BY <1>5, <2>2, <3>1
        <3>4. QED
            BY <1>5, <3>1, <3>2, <3>3
    <2>4. i \in SpanOf(c)
        <3>1. 2^c.order \in Nat
            BY <2>2, Sizes
        <3>2. whole <= i /\ i < whole + 2^c.order
            BY <1>4, <1>5, <1>8, <2>3, <3>1
        <3>3. QED
            BY <1>4, <2>2, <3>2, Spans
    <2>5. b = c
        BY <1>1, <1>4, <2>4
    <2>6. QED
        BY <1>5, <1>8, <2>5 DEF i
<1>9. QED
    BY <1>6, <1>7, <1>8

-----------------------------------------------------------------------------
(* The operations on a pool.                                               *)

\* A pool whose lists are sound.
PoolLists(pool) ==
    /\ PoolTypeOK(pool)
    /\ \A o \in Order : NoDuplicates(pool.free[o])

LEMMA FreeBlocksOf ==
    ASSUME NEW pool, PoolTypeOK(pool)
    PROVE  /\ FreeBlocks(pool) = BlocksOf(pool.free)
           /\ \A i, o : o \in Order /\ i \in ToSet(pool.free[o])
                            => i \in Index(pool) /\ Block(i, o) \in FreeBlocks(pool)
           /\ \A i : Linked(pool, i) <=> \E b \in FreeBlocks(pool) : b.index = i
<1> DEFINE F == FreeBlocks(pool)
           free == pool.free
<1>1. pool.count \in Nat /\ free \in [Order -> Seq(Index(pool))]
    BY DEF PoolTypeOK
<1>2. ASSUME NEW o \in Order, NEW i \in ToSet(free[o])
      PROVE  i \in Index(pool) /\ i \in Nat
    <2>1. free[o] \in Seq(Index(pool))
        BY <1>1
    <2>2. PICK k \in DOMAIN free[o] : i = free[o][k]
        BY <1>2 DEF ToSet
    <2>3. i \in Index(pool)
        BY <2>1, <2>2, ElementOfSeq, LenProperties
    <2>4. QED
        BY <1>1, <2>3 DEF Index
<1>3. \A b : b \in F <=> \E o \in Order : \E k \in DOMAIN free[o] : b = Block(free[o][k], o)
    BY DEF FreeBlocks
<1>4. \A b : b \in F <=> \E o \in Order : \E i \in ToSet(free[o]) : b = Block(i, o)
    BY <1>3 DEF ToSet
<1> HIDE DEF F, free
<1>5. \A o \in Order : \A i \in ToSet(free[o]) :
            Block(i, o) \in BlockSet /\ Block(i, o).index = i /\ Block(i, o).order = o
    BY <1>2, Spans
<1>6. \A b : b \in F <=> b \in BlocksOf(free)
    <2>1. ASSUME NEW b \in F
          PROVE  b \in BlocksOf(free)
        BY <1>4, <1>5, <2>1 DEF BlocksOf
    <2>2. ASSUME NEW b \in BlocksOf(free)
          PROVE  b \in F
        <3>1. b \in BlockSet /\ b.index \in ToSet(free[b.order])
            BY DEF BlocksOf
        <3>2. b.order \in Order /\ b = Block(b.index, b.order)
            BY <3>1, Spans
        <3>3. QED
            BY <1>4, <3>1, <3>2
    <2>3. QED
        BY <2>1, <2>2
<1>7. F = BlocksOf(free)
    BY <1>6
<1>8. ASSUME NEW i
      PROVE  Linked(pool, i) <=> \E b \in F : b.index = i
    <2>1. Linked(pool, i) <=> \E o \in Order : i \in ToSet(free[o])
        BY DEF Linked, list_linked, free
    <2>2. ASSUME NEW o \in Order, i \in ToSet(free[o])
          PROVE  \E b \in F : b.index = i
        BY <1>4, <1>5, <2>2
    <2>3. ASSUME NEW b \in F, b.index = i
          PROVE  \E o \in Order : i \in ToSet(free[o])
        BY <1>4, <1>5, <2>3
    <2>4. QED
        BY <2>1, <2>2, <2>3
<1>9. \A i, o : o \in Order /\ i \in ToSet(free[o]) => i \in Index(pool) /\ Block(i, o) \in F
    BY <1>2, <1>4
<1>10. QED
    BY <1>7, <1>8, <1>9 DEF F, free

\* page_allocate takes a block of the order asked for from a free block.
LEMMA AllocateSplits ==
    ASSUME NEW pool, PoolLists(pool), NEW o \in Order, Available(pool, o) # {},
           NEW from \in Nat, NEW H, Tiles(FreeBlocks(pool) \cup H, from, pool.count)
    PROVE  LET after == page_allocate(pool, o)
               index == Taken(pool, o)
           IN  /\ index \in Index(pool)
               /\ PoolLists(after) /\ after.count = pool.count
               /\ after.order = [pool.order EXCEPT ![index] = o]
               /\ Splits(FreeBlocks(pool), FreeBlocks(after), Block(index, o))
<1> DEFINE A == Available(pool, o)
           p == Min(A)
           free == pool.free
           x == Taken(pool, o)
           F == FreeBlocks(pool)
           lists == [q \in Order |->
                        IF q = p THEN Tail(free[q])
                        ELSE IF q \in o .. p - 1 THEN <<BuddyOf(x, q)>>
                        ELSE free[q]]
           after == page_allocate(pool, o)
           big == Block(x, p)
<1>1. /\ pool.count \in Nat /\ free \in [Order -> Seq(Index(pool))]
      /\ pool.order \in [Index(pool) -> Order \cup {-1}]
      /\ \A q \in Order : NoDuplicates(free[q])
    BY DEF PoolLists, PoolTypeOK
<1>2. A \in SUBSET Nat /\ A # {} /\ A \subseteq Order
    BY Sizes DEF Available, Order
<1>3. p \in A /\ \A q \in A : p <= q
    <2> HIDE DEF A
    <2>1. QED
        BY <1>2, MinIsLeast
<1> HIDE DEF p
<1>4. p \in Order /\ o <= p /\ free[p] # <<>> /\ \A q \in o .. p - 1 : q \in Order /\ free[q] = <<>>
    <2>1. p \in Order /\ o <= p /\ free[p] # <<>>
        BY <1>3 DEF Available
    <2>2. ASSUME NEW q \in o .. p - 1
          PROVE  q \in Order /\ free[q] = <<>>
        <3>1. q \in Order /\ o <= q /\ ~(p <= q)
            BY <2>1, Sizes DEF Order
        <3>2. q \notin A
            BY <1>3, <3>1
        <3>3. QED
            BY <3>1, <3>2 DEF Available
    <2>3. QED
        BY <2>1, <2>2
<1>5. x = Head(free[p])
    BY DEF Taken, p
<1>6. after = [pool EXCEPT !.free = lists, !.order[x] = o]
    BY DEF page_allocate, p
<1>7. PoolTypeOK(pool)
    BY DEF PoolLists
<1> HIDE DEF A, x, after, F
<1>8. /\ x \in ToSet(free[p]) /\ Tail(free[p]) \in Seq(Index(pool))
      /\ NoDuplicates(Tail(free[p])) /\ ToSet(Tail(free[p])) = ToSet(free[p]) \ {x}
    <2>1. free[p] \in Seq(Index(pool))
        BY <1>1, <1>4
    <2>2. QED
        BY <1>1, <1>4, <1>5, <2>1, TailKeeps
<1>9. x \in Index(pool) /\ x \in Nat /\ big \in F
    <2>1. x \in Index(pool) /\ big \in F
        BY <1>4, <1>7, <1>8, FreeBlocksOf DEF F
    <2>2. QED
        BY <1>1, <2>1 DEF Index
<1>10. big \in BlockSet /\ big.index = x /\ big.order = p
    BY <1>4, <1>9, Spans
<1>11. /\ x % 2^p = 0
       /\ \A v \in Nat : v \in SpanOf(big) => v \in from .. pool.count - 1
    <2> DEFINE B == F \cup H
    <2>1. Tiles(B, from, pool.count) /\ big \in B
        BY <1>9 DEF F
    <2> HIDE DEF B, big
    <2>2. big.index % 2^big.order = 0 /\ \A v \in Nat : v \in SpanOf(big) => v \in from .. pool.count - 1
        BY <2>1, Zenon DEF Tiles
    <2>3. QED
        BY <1>10, <2>2
<1>12. \A q \in o .. p - 1 :
            /\ q \in Order /\ BuddyOf(x, q) = x + 2^q /\ x + 2^q \in Index(pool)
            /\ Block(x + 2^q, q) \in BlockSet
            /\ Block(x + 2^q, q).index = x + 2^q /\ Block(x + 2^q, q).order = q
    <2>1. SUFFICES ASSUME NEW q \in o .. p - 1
                   PROVE  /\ q \in Order /\ BuddyOf(x, q) = x + 2^q /\ x + 2^q \in Index(pool)
                          /\ Block(x + 2^q, q) \in BlockSet
                          /\ Block(x + 2^q, q).index = x + 2^q /\ Block(x + 2^q, q).order = q
        BY Zenon
    <2>2. q \in Order /\ q \in 0 .. p - 1
        BY <1>4, Sizes DEF Order
    <2>3. BuddyOf(x, q) = x + 2^q /\ x + 2 * 2^q <= x + 2^p
        BY <1>4, <1>9, <1>11, <2>2, UpperHalf
    <2>4. 2^q \in Nat \ {0} /\ 2^p \in Nat
        BY <1>4, <2>2, Sizes
    <2>5. x + 2^q \in Nat /\ x <= x + 2^q /\ x + 2^q < x + 2^p
        BY <1>9, <2>3, <2>4
    <2>6. x + 2^q \in from .. pool.count - 1
        BY <1>4, <1>9, <1>11, <2>5, Spans
    <2>7. x + 2^q \in Index(pool)
        BY <2>5, <2>6 DEF Index
    <2>8. QED
        BY <2>2, <2>3, <2>5, <2>7, Spans
<1>13. /\ lists[p] = Tail(free[p])
       /\ \A q \in o .. p - 1 : lists[q] = <<x + 2^q>>
       /\ \A q \in Order : q # p /\ q \notin o .. p - 1 => lists[q] = free[q]
    <2>1. \A q \in o .. p - 1 : q # p
        BY <1>4, Sizes DEF Order
    <2>2. QED
        BY <1>4, <1>12, <2>1
<1>14. \A q \in o .. p - 1 : ToSet(lists[q]) = {x + 2^q} /\ NoDuplicates(lists[q])
    <2>1. \A v : ToSet(<<v>>) = {v} /\ NoDuplicates(<<v>>)
        BY DEF ToSet, NoDuplicates
    <2>2. QED
        BY <1>13, <2>1
<1>15. lists \in [Order -> Seq(Index(pool))]
    <2>1. ASSUME NEW q \in Order
          PROVE  lists[q] \in Seq(Index(pool))
        BY <1>1, <1>8, <1>12, <1>13
    <2>2. QED
        BY <2>1
<1>16. \A q \in Order : NoDuplicates(lists[q])
    BY <1>1, <1>8, <1>13, <1>14
<1> HIDE DEF lists
<1>17. /\ after.count = pool.count /\ after.free = lists
       /\ after.order = [pool.order EXCEPT ![x] = o]
       /\ PoolTypeOK(after) /\ Index(after) = Index(pool)
    <2>1. after = [count |-> pool.count, free |-> lists, order |-> [pool.order EXCEPT ![x] = o]]
        <3>1. pool = [count |-> pool.count, free |-> pool.free, order |-> pool.order]
            BY <1>7, Zenon DEF PoolTypeOK
        <3>2. QED
            BY <1>6, <3>1
    <2>2. after.count = pool.count /\ after.free = lists /\ after.order = [pool.order EXCEPT ![x] = o]
        BY <2>1
    <2>3. Index(after) = Index(pool)
        BY <2>2 DEF Index
    <2>4. after.order \in [Index(pool) -> Order \cup {-1}]
        BY <1>1, <1>9, <2>2
    <2>5. after = [count |-> after.count, free |-> after.free, order |-> after.order]
        BY <2>1, <2>2
    <2>6. QED
        BY <1>1, <1>15, <2>2, <2>3, <2>4, <2>5, Zenon DEF PoolTypeOK
<1>18. FreeBlocks(after) = (F \ {big}) \cup Pieces(x, o, p)
    <2>1. FreeBlocks(after) = BlocksOf(lists) /\ F = BlocksOf(free)
        BY <1>7, <1>17, FreeBlocksOf DEF F
    <2>2. \A b : b \in Pieces(x, o, p) <=> \E q \in o .. p - 1 : b = Block(x + 2^q, q)
        BY DEF Pieces
    <2>3. Pieces(x, o, p) \subseteq BlockSet
        BY <1>12, <2>2
    <2>4. ASSUME NEW b \in BlockSet
          PROVE  b \in BlocksOf(lists) <=> b \in F \ {big} \/ b \in Pieces(x, o, p)
        <3> DEFINE q == b.order
                   i == b.index
        <3>1. q \in Order /\ b = Block(i, q)
            BY <2>4, Spans
        <3>2. (b \in BlocksOf(lists) <=> i \in ToSet(lists[q])) /\ (b \in F <=> i \in ToSet(free[q]))
            BY <2>1 DEF BlocksOf
        <3>3. b = big <=> i = x /\ q = p
            BY <1>10, <3>1
        <3>4. b \in Pieces(x, o, p) <=> q \in o .. p - 1 /\ i = x + 2^q
            BY <1>12, <2>2, <3>1
        <3> HIDE DEF q, i
        <3>5. p \notin o .. p - 1
            BY <1>4, Sizes DEF Order
        <3>6. CASE q = p
            BY <1>8, <1>13, <3>2, <3>3, <3>4, <3>5, <3>6
        <3>7. CASE q \in o .. p - 1
            <4>1. free[q] = <<>> /\ ToSet(<<>>) = {}
                BY <1>4, <3>7 DEF ToSet
            <4>2. QED
                BY <1>14, <3>2, <3>3, <3>4, <3>5, <3>7, <4>1
        <3>8. CASE q # p /\ q \notin o .. p - 1
            BY <1>13, <3>1, <3>2, <3>3, <3>4, <3>8
        <3>9. QED
            BY <3>6, <3>7, <3>8
    <2>5. F \subseteq BlockSet /\ BlocksOf(lists) \subseteq BlockSet
        BY <2>1 DEF BlocksOf
    <2>6. QED
        BY <2>1, <2>3, <2>4, <2>5
<1>19. Splits(F, FreeBlocks(after), Block(x, o))
    <2>1. Block(x, o).index = x /\ Block(x, o).order = o
        BY <1>9, Spans
    <2>2. p \in o .. Limit - 1
        BY <1>4, Sizes DEF Order
    <2>3. QED
        BY <1>9, <1>18, <2>1, <2>2 DEF Splits
<1>20. QED
    BY <1>9, <1>16, <1>17, <1>19 DEF PoolLists, F, after, x

\* page_free of a block that was split from others, before anything else
\* happened to the pool, merges it with the pieces of that splitting and stops.
LEMMA FreeMerges ==
    ASSUME NEW pool, PoolLists(pool), NEW from \in Nat, NEW F, NEW H,
           Level(F, H, from, pool.count),
           NEW b \in BlockSet, Splits(F, FreeBlocks(pool), b),
           pool.order[b.index] = b.order
    PROVE  LET after == page_free(pool, b.index)
           IN  /\ b.index \in Index(pool)
               /\ PoolLists(after) /\ after.count = pool.count
               /\ after.order = [pool.order EXCEPT ![b.index] = -1]
               /\ FreeBlocks(after) = F
<1> DEFINE x == b.index
           o == b.order
           G == FreeBlocks(pool)
           free == pool.free
           after == page_free(pool, x)
<1>1. /\ pool.count \in Nat /\ free \in [Order -> Seq(Index(pool))]
      /\ pool.order \in [Index(pool) -> Order \cup {-1}]
      /\ \A q \in Order : NoDuplicates(free[q])
      /\ PoolTypeOK(pool)
    BY DEF PoolLists, PoolTypeOK
<1>2. x \in Nat /\ o \in Order /\ b = Block(x, o)
    BY Spans
<1>3. PICK p \in o .. Limit - 1 :
            Block(x, p) \in F /\ G = (F \ {Block(x, p)}) \cup Pieces(x, o, p)
    BY DEF Splits
<1> DEFINE big == Block(x, p)
           M == {r \in Order :
                    /\ pool.order[x] <= r
                    /\ \/ r = Limit - 1
                       \/ BuddyOf(Aligned(x, r), r) >= pool.count
                       \/ ~Linked(pool, BuddyOf(Aligned(x, r), r))}
           merged == {BuddyOf(Aligned(x, r), r) : r \in o .. p - 1}
           unlinked == [r \in Order |-> list_remove_all(free[r], merged)]
           lists == [unlinked EXCEPT ![p] = list_insert_before(@, EndOf(@), x)]
<1>4. p \in Order /\ o \in 0 .. p /\ o \in Nat /\ p \in Nat /\ Limit \in Nat /\ p <= Limit - 1 /\ o <= p
    BY <1>2, <1>3, Sizes DEF Order
<1>5. big \in F /\ big \in BlockSet /\ big.index = x /\ big.order = p /\ x \in SpanOf(big)
    <2>1. big \in BlockSet /\ big.index = x /\ big.order = p
        BY <1>2, <1>4, Spans
    <2>2. QED
        BY <1>3, <2>1, Starts
<1>6. /\ F \subseteq BlockSet /\ Unmerged(F)
      /\ \A c, d \in F, v \in Nat : v \in SpanOf(c) /\ v \in SpanOf(d) => c = d
      /\ \A v \in Nat : v \in SpanOf(big) => v \in from .. pool.count - 1
      /\ x % 2^p = 0
    <2> DEFINE B == F \cup H
    <2>1. Tiles(B, from, pool.count) /\ F \subseteq B /\ big \in B /\ Unmerged(F)
        BY <1>5 DEF Level
    <2> HIDE DEF B, big, x
    <2>2. /\ B \subseteq BlockSet
          /\ \A c \in B : c.index % 2^c.order = 0
          /\ \A c, d \in B, v \in Nat : v \in SpanOf(c) /\ v \in SpanOf(d) => c = d
          /\ \A v \in Nat : v \in SpanOf(big) => v \in from .. pool.count - 1
        BY <2>1, Zenon DEF Tiles
    <2>3. QED
        BY <1>5, <2>1, <2>2
<1> HIDE DEF big, x, o, G, M, after, free
\* Below the order of the block that was split the buddies are its pieces.
<1>7. ASSUME NEW r \in o .. p - 1
      PROVE  /\ r \in Order /\ r \in 0 .. p - 1 /\ 2^r \in Nat \ {0} /\ r # Limit - 1
             /\ Aligned(x, r) = x /\ BuddyOf(x, r) = x + 2^r
             /\ x + 2^r \in Nat /\ x + 2^r \in SpanOf(big) /\ x + 2^r < pool.count
             /\ Block(x + 2^r, r) \in G
    <2>1. r \in Order /\ r \in 0 .. p - 1 /\ r # Limit - 1
        BY <1>4 DEF Order
    <2>2. 2^r \in Nat \ {0} /\ 2^p \in Nat
        BY <1>4, <2>1, Sizes
    <2>3. BuddyOf(x, r) = x + 2^r /\ x % 2^r = 0 /\ x + 2 * 2^r <= x + 2^p
        BY <1>2, <1>4, <1>6, <2>1, UpperHalf
    <2>4. Aligned(x, r) = x
        BY <1>2, <2>1, <2>3, AlignedIsSelf
    <2>5. x + 2^r \in Nat /\ x <= x + 2^r /\ x + 2^r < x + 2^p
        BY <1>2, <2>2, <2>3
    <2>6. x + 2^r \in SpanOf(big)
        BY <1>2, <1>4, <2>5, Spans DEF big
    <2>7. x + 2^r < pool.count
        BY <1>1, <1>6, <2>5, <2>6
    <2>8. Block(x + 2^r, r) \in G
        BY <1>3 DEF Pieces, big
    <2>9. QED
        BY <2>1, <2>2, <2>3, <2>4, <2>5, <2>6, <2>7, <2>8
<1>8. \A c \in Pieces(x, o, p) : \E r \in o .. p - 1 : c = Block(x + 2^r, r)
    BY DEF Pieces
<1>9. \A i : Linked(pool, i) <=> \E c \in G : c.index = i
    BY <1>1, FreeBlocksOf DEF G
\* At that order the merging ends: its buddy was not free before.
<1>10. p \in M
    <2>1. pool.order[x] <= p
        BY <1>4 DEF x, o
    <2>2. ASSUME p # Limit - 1
          PROVE  ~Linked(pool, BuddyOf(Aligned(x, p), p))
        <3> DEFINE y == BuddyOf(x, p)
        <3>1. Aligned(x, p) = x
            BY <1>2, <1>4, <1>6, AlignedIsSelf
        <3>2. \A c \in F : c.index # y
            <4>1. p < Limit - 1
                BY <1>4, <2>2
            <4>2. QED
                BY <1>5, <1>6, <4>1 DEF Unmerged
        <3>3. y \in Nat => y \notin SpanOf(big)
            <4>1. 2^p \in Nat \ {0}
                BY <1>4, Sizes
            <4>2. y = x + 2^p \/ y = x - 2^p
                BY DEF BuddyOf
            <4> DEFINE w == 2^p
            <4>3. y \in Nat => ~(x <= y /\ y < x + w)
                <5> HIDE DEF y
                <5>1. QED
                    BY <1>2, <4>1, <4>2
            <4>4. y \in Nat => (y \in SpanOf(big) <=> x <= y /\ y < x + w)
                BY <1>2, <1>4, Spans DEF big
            <4> HIDE DEF w, y
            <4>5. QED
                BY <4>3, <4>4
        <3>4. \A c \in Pieces(x, o, p) : c.index # y
            <4>1. SUFFICES ASSUME NEW r \in o .. p - 1
                           PROVE  Block(x + 2^r, r).index # y
                BY <1>8
            <4>2. Block(x + 2^r, r).index = x + 2^r /\ x + 2^r \in Nat /\ x + 2^r \in SpanOf(big)
                BY <1>7, Spans
            <4> HIDE DEF y
            <4>3. QED
                BY <3>3, <4>2
        <3> HIDE DEF y
        <3>5. \A c \in G : c.index # y
            BY <1>3, <3>2, <3>4 DEF G
        <3>6. QED
            BY <1>9, <3>1, <3>5 DEF y
    <2>3. QED
        BY <1>4, <2>1, <2>2 DEF M
<1>11. \A r \in M : p <= r
    <2>1. SUFFICES ASSUME NEW r \in M, ~(p <= r)
                   PROVE  FALSE
        OBVIOUS
    <2>2. r \in Order /\ o <= r
        BY <2>1 DEF M, x, o
    <2>3. r \in o .. p - 1
        BY <1>4, <2>1, <2>2 DEF Order
    <2>4. Aligned(x, r) = x /\ BuddyOf(x, r) = x + 2^r /\ x + 2^r < pool.count /\ r # Limit - 1
        BY <1>7, <2>3
    <2>5. Linked(pool, x + 2^r)
        <3>1. Block(x + 2^r, r) \in G /\ Block(x + 2^r, r).index = x + 2^r
            BY <1>7, <2>3, Spans
        <3>2. QED
            BY <1>9, <3>1
    <2>6. x + 2^r \in Nat
        BY <1>7, <2>3
    <2>7. QED
        BY <1>1, <2>1, <2>4, <2>5, <2>6 DEF M
<1>12. MergedOrder(pool, x) = p
    <2>1. M \in SUBSET Nat /\ M # {}
        BY <1>10, Sizes DEF M, Order
    <2>2. Min(M) \in M /\ \A y \in M : Min(M) <= y
        BY <2>1, MinIsLeast
    <2>3. Min(M) \in Nat
        BY <2>1, <2>2
    <2>4. Min(M) = p
        BY <1>4, <1>10, <1>11, <2>2, <2>3
    <2>5. MergedOrder(pool, x) = Min(M)
        BY DEF MergedOrder, M
    <2>6. QED
        BY <2>4, <2>5
<1>13. Aligned(x, p) = x
    BY <1>2, <1>4, <1>6, AlignedIsSelf
<1>14. x \in Index(pool) /\ pool.order[x] = o /\ pool.order[x] # -1
    <2>1. x \in from .. pool.count - 1
        BY <1>2, <1>5, <1>6
    <2>2. QED
        BY <1>1, <1>2, <1>4, <2>1 DEF Index, x, o
<1>15. after = [pool EXCEPT !.free = lists, !.order[x] = -1]
    BY <1>12, <1>13, <1>14 DEF page_free, after, free
<1>16. \A i : i \in merged <=> \E r \in o .. p - 1 : i = x + 2^r
    BY <1>7
<1> HIDE DEF merged
<1>17. \A r \in Order :
            /\ unlinked[r] \in Seq(Index(pool))
            /\ ToSet(unlinked[r]) = ToSet(free[r]) \ merged
            /\ NoDuplicates(unlinked[r])
    BY <1>1, RemoveAllKeeps
<1>18. BlocksOf(unlinked) = F \ {big}
    <2>1. G = BlocksOf(free)
        BY <1>1, FreeBlocksOf DEF G, free
    <2> HIDE DEF unlinked
    <2>2. ASSUME NEW c \in BlockSet
          PROVE  c \in BlocksOf(unlinked) <=> c \in G /\ c.index \notin merged
        <3>1. c.order \in Order
            BY <2>2, Spans
        <3>2. QED
            BY <1>17, <2>1, <3>1 DEF BlocksOf
    <2>3. ASSUME NEW c \in Pieces(x, o, p)
          PROVE  c.index \in merged
        <3>1. PICK r \in o .. p - 1 : c = Block(x + 2^r, r)
            BY <1>8, <2>3
        <3>2. c.index = x + 2^r
            BY <1>7, <3>1, Spans
        <3>3. QED
            BY <1>16, <3>2
    <2>4. ASSUME NEW c \in F \ {big}
          PROVE  c.index \notin merged
        <3>1. SUFFICES ASSUME NEW r \in o .. p - 1, c.index = x + 2^r
                       PROVE  FALSE
            BY <1>16
        <3>2. c.index \in Nat /\ c.index \in SpanOf(c)
            BY <1>6, Starts
        <3>3. c.index \in SpanOf(big)
            BY <1>7, <3>1
        <3>4. QED
            BY <1>5, <1>6, <3>2, <3>3
    <2>5. G = (F \ {big}) \cup Pieces(x, o, p)
        BY <1>3 DEF big, G
    <2>6. BlocksOf(unlinked) \subseteq BlockSet
        BY DEF BlocksOf
    <2>7. QED
        BY <1>6, <2>2, <2>3, <2>4, <2>5, <2>6
<1>19. /\ list_insert_before(unlinked[p], EndOf(unlinked[p]), x) \in Seq(Index(pool))
       /\ ToSet(list_insert_before(unlinked[p], EndOf(unlinked[p]), x)) = ToSet(unlinked[p]) \cup {x}
       /\ NoDuplicates(list_insert_before(unlinked[p], EndOf(unlinked[p]), x))
    <2> HIDE DEF unlinked
    <2> DEFINE s == unlinked[p]
    <2>1. s \in Seq(Index(pool)) /\ NoDuplicates(s)
        BY <1>4, <1>17
    <2>2. EndOf(s) \in 1 .. Len(s) + 1
        BY <2>1, LenProperties DEF EndOf
    <2>3. ~list_linked(s, x)
        <3>1. x \notin ToSet(s)
            BY <1>5, <1>18 DEF BlocksOf
        <3>2. QED
            BY <3>1 DEF list_linked
    <2> HIDE DEF s
    <2>4. QED
        BY <1>14, <2>1, <2>2, <2>3, InsertProperties, InsertKeeps DEF s
<1>20. \A r \in Order :
            lists[r] = IF r = p THEN list_insert_before(unlinked[p], EndOf(unlinked[p]), x)
                       ELSE unlinked[r]
    BY <1>4
<1>21. lists \in [Order -> Seq(Index(pool))] /\ \A r \in Order : NoDuplicates(lists[r])
    <2>1. \A r \in Order : lists[r] \in Seq(Index(pool)) /\ NoDuplicates(lists[r])
        BY <1>17, <1>19, <1>20
    <2>2. lists = [r \in Order |-> lists[r]]
        OBVIOUS
    <2> HIDE DEF lists
    <2>3. [r \in Order |-> lists[r]] \in [Order -> Seq(Index(pool))]
        BY <2>1
    <2>4. QED
        BY <2>1, <2>2, <2>3, Zenon
<1> HIDE DEF unlinked, lists
<1>22. BlocksOf(lists) = F
    <2>1. ASSUME NEW c \in BlockSet
          PROVE  c \in BlocksOf(lists) <=> c \in BlocksOf(unlinked) \/ c = big
        <3>1. c.order \in Order /\ (c = big <=> c.index = x /\ c.order = p)
            BY <1>5, <2>1, Spans DEF big
        <3>2. CASE c.order = p
            BY <1>19, <1>20, <3>1, <3>2 DEF BlocksOf
        <3>3. CASE c.order # p
            BY <1>20, <3>1, <3>3 DEF BlocksOf
        <3>4. QED
            BY <3>2, <3>3
    <2>2. BlocksOf(lists) \subseteq BlockSet
        BY DEF BlocksOf
    <2>3. QED
        BY <1>5, <1>6, <1>18, <2>1, <2>2
<1>23. /\ after.count = pool.count /\ after.free = lists
       /\ after.order = [pool.order EXCEPT ![x] = -1] /\ PoolTypeOK(after)
    <2>1. after = [count |-> pool.count, free |-> lists, order |-> [pool.order EXCEPT ![x] = -1]]
        <3>1. pool = [count |-> pool.count, free |-> pool.free, order |-> pool.order]
            BY <1>1, Zenon DEF PoolTypeOK
        <3>2. QED
            BY <1>15, <3>1
    <2>2. after.count = pool.count /\ after.free = lists /\ after.order = [pool.order EXCEPT ![x] = -1]
        BY <2>1
    <2>3. Index(after) = Index(pool)
        BY <2>2 DEF Index
    <2>4. after.order \in [Index(pool) -> Order \cup {-1}]
        BY <1>1, <1>14, <2>2
    <2>5. after = [count |-> after.count, free |-> after.free, order |-> after.order]
        BY <2>1, <2>2
    <2>6. QED
        BY <1>1, <1>21, <2>2, <2>3, <2>4, <2>5, Zenon DEF PoolTypeOK
<1>24. FreeBlocks(after) = F
    BY <1>22, <1>23, FreeBlocksOf
<1>25. QED
    BY <1>14, <1>21, <1>23, <1>24 DEF PoolLists, after, x

\* The pool of a region.
LEMMA NewPoolSound ==
    ASSUME NEW to \in Nat, NEW from \in 0 .. to
    PROVE  LET pool == NewPool(from, to)
           IN  /\ PoolLists(pool) /\ pool.count = to
               /\ pool.order = [i \in 0 .. to - 1 |-> -1]
               /\ Tiles(FreeBlocks(pool), from, to)
               /\ to % 2^(Limit - 1) = 0 => Unmerged(FreeBlocks(pool))
<1> DEFINE pool == NewPool(from, to)
           lists == add_pages_to_pool(from, to)
           none == [i \in 0 .. to - 1 |-> -1]
<1>1. /\ lists \in [Order -> Seq(0 .. to - 1)] /\ \A o \in Order : NoDuplicates(lists[o])
      /\ Tiles(BlocksOf(lists), from, to)
      /\ to % 2^(Limit - 1) = 0 => Unmerged(BlocksOf(lists))
    BY AddedPages, AddedUnmerged
<1>2. pool = [count |-> to, free |-> lists, order |-> none]
    BY DEF NewPool
<1> HIDE DEF lists, pool, none
<1>3. pool.count = to /\ pool.free = lists /\ pool.order = none
    BY <1>2
<1>4. Index(pool) = 0 .. to - 1
    BY <1>3 DEF Index
<1>5. none \in [0 .. to - 1 -> Order \cup {-1}]
    BY DEF none
<1>6. pool = [count |-> pool.count, free |-> pool.free, order |-> pool.order]
    BY <1>2, <1>3
<1>7. PoolTypeOK(pool)
    BY <1>1, <1>3, <1>4, <1>5, <1>6, Zenon DEF PoolTypeOK
<1>8. FreeBlocks(pool) = BlocksOf(lists)
    BY <1>3, <1>7, FreeBlocksOf
<1>9. QED
    BY <1>1, <1>3, <1>7, <1>8 DEF PoolLists, pool, none
-----------------------------------------------------------------------------
(* A pool and what was taken from it: the blocks in the order in which     *)
(* they were allocated, some of the allocations having taken none.  What   *)
(* was free before each of them is kept, so that freeing the latest block  *)
(* can be seen to undo its allocation.                                     *)

TakenBy(taken, n) == UNION {taken[j] : j \in 1 .. n}

\* One allocation.
Takes(F, G, H, t) ==
    \/ t = {} /\ G = F
    \/ \E b \in BlockSet : t = {b} /\ b \notin H /\ Splits(F, G, b)

History(h, taken, n, from, to) ==
    /\ h[0] = FreeBlocks(NewPool(from, to))
    /\ \A i \in 0 .. n : Level(h[i], TakenBy(taken, i), from, to)
    /\ \A i \in 1 .. n : Takes(h[i - 1], h[i], TakenBy(taken, i - 1), taken[i])

HasHistory(F, taken, n, from, to) ==
    \E h \in [0 .. n -> SUBSET BlockSet] : History(h, taken, n, from, to) /\ h[n] = F

OrdersKnown(pool, H) ==
    \A i \in Index(pool), o \in Order : pool.order[i] = o <=> Block(i, o) \in H

PoolInv(pool, taken, n, from, to) ==
    /\ PoolLists(pool) /\ pool.count = to
    /\ OrdersKnown(pool, TakenBy(taken, n))
    /\ HasHistory(FreeBlocks(pool), taken, n, from, to)

LEMMA TakenByAgrees ==
    ASSUME NEW n \in Nat, NEW taken, NEW other, \A j \in 1 .. n : other[j] = taken[j]
    PROVE  \A i \in 0 .. n : TakenBy(other, i) = TakenBy(taken, i)
<1>1. SUFFICES ASSUME NEW i \in 0 .. n PROVE TakenBy(other, i) = TakenBy(taken, i)
    OBVIOUS
<1>2. \A j \in 1 .. i : other[j] = taken[j]
    OBVIOUS
<1>3. QED
    BY <1>2, Zenon DEF TakenBy

LEMMA TakenByNext ==
    ASSUME NEW n \in Nat, NEW taken
    PROVE  TakenBy(taken, n + 1) = TakenBy(taken, n) \cup taken[n + 1] /\ TakenBy(taken, 0) = {}
<1>1. 1 .. n + 1 = (1 .. n) \cup {n + 1} /\ 1 .. 0 = {}
    OBVIOUS
<1>2. QED
    BY <1>1 DEF TakenBy

\* The level that a history ends in.
LEMMA HistoryEnds ==
    ASSUME NEW n \in Nat, NEW pool, NEW taken, NEW from, NEW to, PoolInv(pool, taken, n, from, to)
    PROVE  Level(FreeBlocks(pool), TakenBy(taken, n), from, to)
<1>1. PICK h \in [0 .. n -> SUBSET BlockSet] :
            History(h, taken, n, from, to) /\ h[n] = FreeBlocks(pool)
    BY DEF PoolInv, HasHistory
<1>2. n \in 0 .. n
    OBVIOUS
<1>3. QED
    BY <1>1, <1>2 DEF History

\* What is no longer than the history it is part of.
LEMMA HistoryAgrees ==
    ASSUME NEW n \in Nat, NEW F, NEW taken, NEW other, \A j \in 1 .. n : other[j] = taken[j],
           NEW from, NEW to, HasHistory(F, taken, n, from, to)
    PROVE  HasHistory(F, other, n, from, to)
<1>1. PICK h \in [0 .. n -> SUBSET BlockSet] : History(h, taken, n, from, to) /\ h[n] = F
    BY DEF HasHistory
<1>2. \A i \in 0 .. n : TakenBy(other, i) = TakenBy(taken, i)
    BY TakenByAgrees
<1>3. \A i \in 1 .. n : i - 1 \in 0 .. n
    OBVIOUS
<1>4. History(h, other, n, from, to)
    BY <1>1, <1>2, <1>3 DEF History
<1>5. QED
    BY <1>1, <1>4 DEF HasHistory

LEMMA HistoryGrows ==
    ASSUME NEW n \in Nat, NEW F, NEW taken, NEW from, NEW to, HasHistory(F, taken, n, from, to),
           NEW G \in SUBSET BlockSet, Level(G, TakenBy(taken, n + 1), from, to),
           Takes(F, G, TakenBy(taken, n), taken[n + 1])
    PROVE  HasHistory(G, taken, n + 1, from, to)
<1>1. PICK h \in [0 .. n -> SUBSET BlockSet] : History(h, taken, n, from, to) /\ h[n] = F
    BY DEF HasHistory
<1> DEFINE g == [i \in 0 .. n + 1 |-> IF i = n + 1 THEN G ELSE h[i]]
<1>2. g \in [0 .. n + 1 -> SUBSET BlockSet]
    <2>1. \A i \in 0 .. n + 1 : i = n + 1 \/ i \in 0 .. n
        OBVIOUS
    <2>2. QED
        BY <2>1
<1>3. g[n + 1] = G /\ \A i \in 0 .. n : g[i] = h[i]
    <2>1. n + 1 \in 0 .. n + 1 /\ \A i \in 0 .. n : i \in 0 .. n + 1 /\ i # n + 1
        OBVIOUS
    <2>2. QED
        BY <2>1
<1> HIDE DEF g
<1>4. g[0] = FreeBlocks(NewPool(from, to))
    BY <1>1, <1>3 DEF History
<1>5. ASSUME NEW i \in 0 .. n + 1
      PROVE  Level(g[i], TakenBy(taken, i), from, to)
    <2>1. i = n + 1 \/ i \in 0 .. n
        OBVIOUS
    <2>2. QED
        BY <1>1, <1>3, <2>1 DEF History
<1>6. ASSUME NEW i \in 1 .. n + 1
      PROVE  Takes(g[i - 1], g[i], TakenBy(taken, i - 1), taken[i])
    <2>1. CASE i = n + 1
        <3>1. i - 1 = n /\ n \in 0 .. n
            BY <2>1
        <3>2. QED
            BY <1>1, <1>3, <2>1, <3>1
    <2>2. CASE i \in 1 .. n
        <3>1. i \in 0 .. n /\ i - 1 \in 0 .. n
            BY <2>2
        <3>2. QED
            BY <1>1, <1>3, <2>2, <3>1 DEF History
    <2>3. i = n + 1 \/ i \in 1 .. n
        OBVIOUS
    <2>4. QED
        BY <2>1, <2>2, <2>3
<1>7. History(g, taken, n + 1, from, to)
    BY <1>4, <1>5, <1>6 DEF History
<1>8. QED
    BY <1>2, <1>3, <1>7 DEF HasHistory

\* What was free before the latest allocation.
LEMMA HistoryShrinks ==
    ASSUME NEW n \in Nat, NEW G, NEW taken, NEW from, NEW to,
           HasHistory(G, taken, n + 1, from, to)
    PROVE  \E F \in SUBSET BlockSet :
                /\ HasHistory(F, taken, n, from, to)
                /\ Level(F, TakenBy(taken, n), from, to)
                /\ Takes(F, G, TakenBy(taken, n), taken[n + 1])
<1>1. PICK g \in [0 .. n + 1 -> SUBSET BlockSet] : History(g, taken, n + 1, from, to) /\ g[n + 1] = G
    BY DEF HasHistory
<1> DEFINE h == [i \in 0 .. n |-> g[i]]
<1>2. /\ n + 1 \in 1 .. n + 1 /\ (n + 1) - 1 = n /\ n \in 0 .. n /\ 0 \in 0 .. n
      /\ \A i \in 0 .. n : i \in 0 .. n + 1
      /\ \A i \in 1 .. n : i \in 1 .. n + 1 /\ i - 1 \in 0 .. n /\ i \in 0 .. n
    OBVIOUS
<1>3. h \in [0 .. n -> SUBSET BlockSet] /\ \A i \in 0 .. n : h[i] = g[i]
    BY <1>1, <1>2
<1> HIDE DEF h
<1>4. History(h, taken, n, from, to)
    <2>1. h[0] = FreeBlocks(NewPool(from, to))
        BY <1>1, <1>2, <1>3 DEF History
    <2>2. \A i \in 0 .. n : Level(h[i], TakenBy(taken, i), from, to)
        BY <1>1, <1>2, <1>3 DEF History
    <2>3. \A i \in 1 .. n : Takes(h[i - 1], h[i], TakenBy(taken, i - 1), taken[i])
        BY <1>1, <1>2, <1>3 DEF History
    <2>4. QED
        BY <2>1, <2>2, <2>3 DEF History
<1>5. HasHistory(h[n], taken, n, from, to)
    BY <1>3, <1>4 DEF HasHistory
<1>6. Level(h[n], TakenBy(taken, n), from, to)
    BY <1>2, <1>4 DEF History
<1>7. Takes(h[n], G, TakenBy(taken, n), taken[n + 1])
    BY <1>1, <1>2, <1>3 DEF History
<1>8. h[n] \in SUBSET BlockSet
    BY <1>2, <1>3
<1>9. QED
    BY <1>5, <1>6, <1>7, <1>8

\* A block of a level, free or taken, and the pages it is.
LEMMA LevelBlocks ==
    ASSUME NEW F, NEW H, NEW from, NEW to, Level(F, H, from, to)
    PROVE  /\ F \subseteq BlockSet /\ H \subseteq BlockSet /\ F \cap H = {}
           /\ \A b, c \in F \cup H, v \in Nat : v \in SpanOf(b) /\ v \in SpanOf(c) => b = c
           /\ \A b \in F \cup H : b.index % 2^b.order = 0
           /\ \A v \in Nat : v \in from .. to - 1 <=> \E b \in F \cup H : v \in SpanOf(b)
<1> DEFINE B == F \cup H
<1>1. Tiles(B, from, to) /\ F \cap H = {}
    BY DEF Level
<1>2. F \subseteq B /\ H \subseteq B
    OBVIOUS
<1> HIDE DEF B
<1>3. /\ B \subseteq BlockSet
      /\ \A b, c \in B, v \in Nat : v \in SpanOf(b) /\ v \in SpanOf(c) => b = c
      /\ \A b \in B : b.index % 2^b.order = 0
      /\ \A v \in Nat : v \in from .. to - 1 <=> \E b \in B : v \in SpanOf(b)
    BY <1>1, Zenon DEF Tiles
<1>4. F \subseteq BlockSet /\ H \subseteq BlockSet
    BY <1>2, <1>3
<1>5. QED
    BY <1>1, <1>3, <1>4, Zenon DEF B

LEMMA PoolStarts ==
    ASSUME NEW to \in Nat, NEW from \in 0 .. to, Unmerged(FreeBlocks(NewPool(from, to))),
           NEW taken
    PROVE  PoolInv(NewPool(from, to), taken, 0, from, to)
<1> DEFINE pool == NewPool(from, to)
           F == FreeBlocks(pool)
<1>1. /\ PoolLists(pool) /\ pool.count = to /\ pool.order = [i \in 0 .. to - 1 |-> -1]
      /\ Tiles(F, from, to) /\ Unmerged(F)
    <2>1. Unmerged(F)
        OBVIOUS
    <2>2. QED
        BY <2>1, NewPoolSound
<1> HIDE DEF pool
<1>2. TakenBy(taken, 0) = {}
    BY TakenByNext
<1>3. OrdersKnown(pool, TakenBy(taken, 0))
    <2>1. \A i \in Index(pool) : pool.order[i] = -1
        BY <1>1 DEF Index
    <2>2. \A o \in Order : o # -1
        BY Sizes DEF Order
    <2>3. QED
        BY <1>2, <2>1, <2>2 DEF OrdersKnown
<1>4. F \subseteq BlockSet
    BY <1>1, Zenon DEF Tiles
<1>5. Level(F, {}, from, to)
    <2>1. F \cup {} = F /\ F \cap {} = {}
        OBVIOUS
    <2>2. QED
        BY <1>1, <2>1 DEF Level
<1> DEFINE h == [i \in 0 .. 0 |-> F]
<1>6. 0 .. 0 = {0} /\ 1 .. 0 = {}
    OBVIOUS
<1>7. h \in [0 .. 0 -> SUBSET BlockSet] /\ h[0] = F
    BY <1>4, <1>6
<1> HIDE DEF h
<1>8. History(h, taken, 0, from, to)
    <2>1. h[0] = FreeBlocks(NewPool(from, to))
        BY <1>7 DEF pool
    <2>2. \A i \in 0 .. 0 : Level(h[i], TakenBy(taken, i), from, to)
        BY <1>2, <1>5, <1>6, <1>7
    <2>3. QED
        BY <1>6, <2>1, <2>2 DEF History
<1>9. HasHistory(F, taken, 0, from, to)
    BY <1>7, <1>8 DEF HasHistory
<1>10. PoolInv(pool, taken, 0, from, to)
    BY <1>1, <1>3, <1>9 DEF PoolInv
<1>11. QED
    BY <1>10 DEF pool

\* The order in which the blocks were taken is all that matters.
LEMMA PoolAgrees ==
    ASSUME NEW n \in Nat, NEW pool, NEW taken, NEW other, NEW from, NEW to,
           PoolInv(pool, taken, n, from, to), \A j \in 1 .. n : other[j] = taken[j]
    PROVE  PoolInv(pool, other, n, from, to)
<1>1. n \in 0 .. n
    OBVIOUS
<1>2. TakenBy(other, n) = TakenBy(taken, n)
    BY <1>1, TakenByAgrees
<1>3. HasHistory(FreeBlocks(pool), other, n, from, to)
    BY HistoryAgrees DEF PoolInv
<1>4. QED
    BY <1>2, <1>3 DEF PoolInv

\* An allocation that takes nothing from this pool.
LEMMA PoolSkips ==
    ASSUME NEW n \in Nat, NEW pool, NEW taken, NEW from, NEW to, taken[n + 1] = {}
    PROVE  PoolInv(pool, taken, n, from, to) <=> PoolInv(pool, taken, n + 1, from, to)
<1> DEFINE F == FreeBlocks(pool)
<1>1. TakenBy(taken, n + 1) = TakenBy(taken, n)
    BY TakenByNext
<1>2. ASSUME PoolInv(pool, taken, n, from, to)
      PROVE  PoolInv(pool, taken, n + 1, from, to)
    <2>1. Level(F, TakenBy(taken, n), from, to)
        BY <1>2, HistoryEnds
    <2>2. F \in SUBSET BlockSet
        BY <2>1, LevelBlocks
    <2>3. Takes(F, F, TakenBy(taken, n), taken[n + 1])
        BY DEF Takes
    <2>4. HasHistory(F, taken, n, from, to)
        BY <1>2 DEF PoolInv
    <2> HIDE DEF F
    <2>5. HasHistory(F, taken, n + 1, from, to)
        BY <1>1, <2>1, <2>2, <2>3, <2>4, HistoryGrows
    <2>6. QED
        BY <1>1, <1>2, <2>5 DEF PoolInv, F
<1>3. ASSUME PoolInv(pool, taken, n + 1, from, to)
      PROVE  PoolInv(pool, taken, n, from, to)
    <2>1. HasHistory(F, taken, n + 1, from, to)
        BY <1>3 DEF PoolInv
    <2> HIDE DEF F
    <2>2. PICK E \in SUBSET BlockSet :
                HasHistory(E, taken, n, from, to) /\ Takes(E, F, TakenBy(taken, n), taken[n + 1])
        BY <2>1, HistoryShrinks
    <2>3. E = F
        BY <2>2 DEF Takes
    <2>4. QED
        BY <1>1, <1>3, <2>2, <2>3 DEF PoolInv, F
<1>4. QED
    BY <1>2, <1>3

LEMMA PoolAllocates ==
    ASSUME NEW n \in Nat, NEW pool, NEW taken, NEW from \in Nat, NEW to,
           PoolInv(pool, taken, n, from, to),
           NEW o \in Order, Available(pool, o) # {},
           taken[n + 1] = {Block(Taken(pool, o), o)}
    PROVE  /\ Taken(pool, o) \in Index(pool)
           /\ PoolInv(page_allocate(pool, o), taken, n + 1, from, to)
<1> DEFINE x == Taken(pool, o)
           b == Block(x, o)
           F == FreeBlocks(pool)
           H == TakenBy(taken, n)
           after == page_allocate(pool, o)
           G == FreeBlocks(after)
<1>1. /\ PoolLists(pool) /\ pool.count = to /\ OrdersKnown(pool, H)
      /\ HasHistory(F, taken, n, from, to)
    BY DEF PoolInv
<1>2. Level(F, H, from, to)
    BY HistoryEnds
<1>3. /\ x \in Index(pool)
      /\ PoolLists(after) /\ after.count = to
      /\ after.order = [pool.order EXCEPT ![x] = o]
      /\ Splits(F, G, b)
    <2>1. Tiles(F \cup H, from, pool.count)
        BY <1>1, <1>2 DEF Level
    <2>2. QED
        BY <1>1, <2>1, AllocateSplits
<1>4. x \in Nat /\ b \in BlockSet /\ b.index = x /\ b.order = o
    <2>1. pool.count \in Nat
        BY <1>1 DEF PoolLists, PoolTypeOK
    <2>2. x \in Nat
        BY <1>3, <2>1 DEF Index
    <2>3. QED
        BY <2>2, Spans
<1>5. taken[n + 1] = {b}
    OBVIOUS
<1> HIDE DEF x, b, F, H, after, G
<1>6. Level(G, H \cup {b}, from, to) /\ b \notin H
    BY <1>2, <1>3, <1>4, SplitLevel
<1>7. TakenBy(taken, n + 1) = H \cup {b}
    BY <1>5, TakenByNext DEF H
<1>8. HasHistory(G, taken, n + 1, from, to)
    <2>1. G \in SUBSET BlockSet
        BY <1>6, LevelBlocks
    <2>2. Takes(F, G, H, taken[n + 1])
        BY <1>3, <1>4, <1>5, <1>6 DEF Takes
    <2>3. QED
        BY <1>1, <1>6, <1>7, <2>1, <2>2, HistoryGrows DEF H
<1>9. OrdersKnown(after, H \cup {b})
    <2>1. pool.order \in [Index(pool) -> Order \cup {-1}] /\ Index(after) = Index(pool)
        BY <1>1, <1>3 DEF PoolLists, PoolTypeOK, Index
    <2>2. ASSUME NEW i \in Index(pool), NEW p \in Order
          PROVE  after.order[i] = p <=> Block(i, p) \in H \cup {b}
        <3>1. i \in Nat /\ Block(i, p) \in BlockSet /\ Block(i, p).index = i /\ Block(i, p).order = p
            <4>1. i \in Nat
                BY <1>1 DEF Index, PoolLists, PoolTypeOK
            <4>2. QED
                BY <4>1, Spans
        <3>2. Block(i, p) = b <=> i = x /\ p = o
            BY <1>4, <3>1 DEF b
        <3>3. CASE i # x
            BY <1>1, <1>3, <2>1, <3>2, <3>3 DEF OrdersKnown
        <3>4. CASE i = x
            <4>1. ASSUME Block(i, p) \in H
                  PROVE  Block(i, p) = b
                <5>1. i \in SpanOf(Block(i, p)) /\ i \in SpanOf(b)
                    BY <1>4, <3>1, <3>4, Starts
                <5>2. Block(i, p) \in G \cup (H \cup {b}) /\ b \in G \cup (H \cup {b})
                    BY <4>1
                <5>3. QED
                    BY <1>6, <3>1, <5>1, <5>2, LevelBlocks
            <4>2. after.order[i] = o
                BY <1>3, <2>1, <3>4
            <4>3. QED
                BY <3>2, <3>4, <4>1, <4>2
        <3>5. QED
            BY <3>3, <3>4
    <2>3. QED
        BY <2>1, <2>2 DEF OrdersKnown
<1>10. PoolInv(after, taken, n + 1, from, to)
    BY <1>3, <1>7, <1>8, <1>9 DEF PoolInv, G
<1>11. QED
    BY <1>3, <1>10 DEF after, x

LEMMA PoolFrees ==
    ASSUME NEW n \in Nat, NEW pool, NEW taken, NEW from \in Nat, NEW to,
           PoolInv(pool, taken, n + 1, from, to),
           NEW b \in BlockSet, taken[n + 1] = {b}
    PROVE  PoolInv(page_free(pool, b.index), taken, n, from, to)
<1> DEFINE x == b.index
           o == b.order
           G == FreeBlocks(pool)
           H == TakenBy(taken, n)
           after == page_free(pool, x)
<1>1. /\ PoolLists(pool) /\ pool.count = to /\ OrdersKnown(pool, TakenBy(taken, n + 1))
      /\ HasHistory(G, taken, n + 1, from, to)
    BY DEF PoolInv
<1>2. TakenBy(taken, n + 1) = H \cup {b}
    BY TakenByNext
<1>3. Level(G, H \cup {b}, from, to)
    <2>1. n + 1 \in Nat
        OBVIOUS
    <2>2. QED
        BY <1>2, <2>1, HistoryEnds
<1> HIDE DEF G
<1>4. PICK F \in SUBSET BlockSet :
            /\ HasHistory(F, taken, n, from, to)
            /\ Level(F, H, from, to)
            /\ Takes(F, G, H, taken[n + 1])
    BY <1>1, HistoryShrinks
<1>5. Splits(F, G, b) /\ b \notin H
    BY <1>4 DEF Takes
<1>6. x \in Nat /\ o \in Order /\ b = Block(x, o) /\ x \in SpanOf(b)
    BY Spans, Starts
<1> HIDE DEF x, o, H
<1>7. x \in Index(pool)
    <2>1. x \in from .. to - 1
        BY <1>3, <1>6, LevelBlocks
    <2>2. to \in Nat
        BY <1>1 DEF PoolLists, PoolTypeOK
    <2>3. QED
        BY <1>1, <1>6, <2>1, <2>2 DEF Index
<1>8. pool.order[x] = o
    BY <1>1, <1>2, <1>6, <1>7 DEF OrdersKnown
<1>9. /\ PoolLists(after) /\ after.count = to
      /\ after.order = [pool.order EXCEPT ![x] = -1]
      /\ FreeBlocks(after) = F
    <2>1. Splits(F, FreeBlocks(pool), b) /\ Level(F, H, from, pool.count)
        BY <1>1, <1>4, <1>5 DEF G
    <2>2. pool.order[b.index] = b.order
        BY <1>8 DEF x, o
    <2>3. QED
        BY <1>1, <2>1, <2>2, FreeMerges, ZenonT(30) DEF x
<1> HIDE DEF after
<1>10. OrdersKnown(after, H)
    <2>1. pool.order \in [Index(pool) -> Order \cup {-1}] /\ Index(after) = Index(pool)
        BY <1>1, <1>9 DEF PoolLists, PoolTypeOK, Index
    <2>2. ASSUME NEW i \in Index(pool), NEW p \in Order
          PROVE  after.order[i] = p <=> Block(i, p) \in H
        <3>1. i \in Nat /\ Block(i, p) \in BlockSet /\ Block(i, p).index = i /\ Block(i, p).order = p
            <4>1. i \in Nat
                BY <1>1 DEF Index, PoolLists, PoolTypeOK
            <4>2. QED
                BY <4>1, Spans
        <3>2. p # -1
            BY Sizes DEF Order
        <3>3. CASE i # x
            <4>1. Block(i, p) # b
                BY <3>1, <3>3 DEF x
            <4>2. QED
                BY <1>1, <1>2, <1>9, <2>1, <3>3, <4>1 DEF OrdersKnown
        <3>4. CASE i = x
            <4>1. Block(i, p) \notin H
                <5>1. SUFFICES ASSUME Block(i, p) \in H PROVE FALSE
                    OBVIOUS
                <5>2. i \in SpanOf(Block(i, p)) /\ i \in SpanOf(b)
                    BY <1>6, <3>1, <3>4, Starts
                <5>3. Block(i, p) \in G \cup (H \cup {b}) /\ b \in G \cup (H \cup {b})
                    BY <5>1
                <5>4. Block(i, p) = b
                    BY <1>3, <3>1, <5>2, <5>3, LevelBlocks
                <5>5. QED
                    BY <1>5, <5>1, <5>4
            <4>2. after.order[i] = -1
                BY <1>9, <2>1, <3>4
            <4>3. QED
                BY <3>2, <4>1, <4>2
        <3>5. QED
            BY <3>3, <3>4
    <2>3. QED
        BY <2>1, <2>2 DEF OrdersKnown
<1>11. PoolInv(after, taken, n, from, to)
    BY <1>4, <1>9, <1>10 DEF PoolInv, H
<1>12. QED
    BY <1>11 DEF after, x

\* What a page is part of.
LEMMA PoolTiles ==
    ASSUME NEW n \in Nat, NEW pool, NEW taken, NEW from \in Nat, NEW to,
           PoolInv(pool, taken, n, from, to)
    PROVE  PartitionOf(pool, TakenBy(taken, n), from, to)
<1> DEFINE F == FreeBlocks(pool)
           H == TakenBy(taken, n)
           B == F \cup H
<1>1. Level(F, H, from, to) /\ PoolLists(pool) /\ pool.count = to
    BY HistoryEnds DEF PoolInv
<1>2. to \in Nat
    BY <1>1 DEF PoolLists, PoolTypeOK
<1> HIDE DEF F, H
<1>3. /\ B \subseteq BlockSet /\ F \cap H = {}
      /\ \A b, c \in B, v \in Nat : v \in SpanOf(b) /\ v \in SpanOf(c) => b = c
      /\ \A b \in B : b.index % 2^b.order = 0
      /\ \A v \in Nat : v \in from .. to - 1 <=> \E b \in B : v \in SpanOf(b)
    <2>1. /\ F \subseteq BlockSet /\ H \subseteq BlockSet /\ F \cap H = {}
          /\ \A b, c \in F \cup H, v \in Nat : v \in SpanOf(b) /\ v \in SpanOf(c) => b = c
          /\ \A b \in F \cup H : b.index % 2^b.order = 0
          /\ \A v \in Nat : v \in from .. to - 1 <=> \E b \in F \cup H : v \in SpanOf(b)
        <3>1. Level(F, H, from, to)
            BY <1>1
        <3>2. QED
            BY <3>1, LevelBlocks
    <2>2. B \subseteq BlockSet
        BY <2>1
    <2>3. QED
        BY <2>1, <2>2, Zenon
<1> HIDE DEF B
<1>4. ASSUME NEW b \in B, NEW v \in SpanOf(b)
      PROVE  v \in Nat
    <2>1. b.index \in Nat /\ 2^b.order \in Nat
        BY <1>3, Starts
    <2>2. QED
        BY <2>1 DEF SpanOf, Span
<1>5. UNION {Span(b.index, b.order) : b \in B} = from .. to - 1
    <2>1. \A v \in from .. to - 1 : v \in Nat
        BY <1>2
    <2>2. \A v : v \in from .. to - 1 <=> \E b \in B : v \in SpanOf(b)
        BY <1>3, <1>4, <2>1, Zenon
    <2> DEFINE U == UNION {SpanOf(b) : b \in B}
               I == from .. to - 1
    <2>3. \A v : v \in U <=> \E b \in B : v \in SpanOf(b)
        OBVIOUS
    <2>4. \A v : v \in U <=> v \in I
        BY <2>2, <2>3, Zenon
    <2> HIDE DEF I
    <2>5. U = I
        <3> HIDE DEF U
        <3>1. QED
            BY <2>4
    <2>6. QED
        BY <2>5 DEF SpanOf, I
<1>6. \A b, c \in B : Span(b.index, b.order) \cap Span(c.index, c.order) # {} => b = c
    <2>1. SUFFICES ASSUME NEW b \in B, NEW c \in B, NEW v,
                          v \in Span(b.index, b.order), v \in Span(c.index, c.order)
                   PROVE  b = c
        OBVIOUS
    <2>2. v \in SpanOf(b) /\ v \in SpanOf(c)
        BY <2>1 DEF SpanOf
    <2>3. v \in Nat
        BY <1>4, <2>2
    <2>4. QED
        BY <1>3, <2>2, <2>3, Zenon
<1>7. \A o \in Order : NoDuplicates(pool.free[o])
    BY <1>1 DEF PoolLists
<1>8. QED
    BY <1>3, <1>5, <1>6, <1>7, Zenon DEF PartitionOf, B, F, H

\* No page was taken by two allocations.
LEMMA TakenApart ==
    ASSUME NEW n \in Nat, NEW pool, NEW taken, NEW from, NEW to,
           PoolInv(pool, taken, n, from, to),
           NEW i \in 1 .. n, NEW j \in 1 .. n, NEW b \in taken[i], NEW c \in taken[j],
           NEW v \in Nat, v \in SpanOf(b), v \in SpanOf(c)
    PROVE  i = j /\ b \in BlockSet /\ v \in from .. to - 1
<1>1. PICK h \in [0 .. n -> SUBSET BlockSet] :
            History(h, taken, n, from, to) /\ h[n] = FreeBlocks(pool)
    BY DEF PoolInv, HasHistory
<1>2. Level(h[n], TakenBy(taken, n), from, to)
    BY <1>1, HistoryEnds
<1>3. b \in TakenBy(taken, n) /\ c \in TakenBy(taken, n)
    BY DEF TakenBy
<1>4. b = c /\ b \in BlockSet /\ v \in from .. to - 1
    <2>1. b \in h[n] \cup TakenBy(taken, n) /\ c \in h[n] \cup TakenBy(taken, n)
        BY <1>3
    <2>2. QED
        BY <1>2, <1>3, <2>1, LevelBlocks
<1>5. \A k, l \in 1 .. n : k < l => ~(b \in taken[k] /\ b \in taken[l])
    <2>1. SUFFICES ASSUME NEW k \in 1 .. n, NEW l \in 1 .. n, k < l, b \in taken[k], b \in taken[l]
                   PROVE  FALSE
        OBVIOUS
    <2>2. Takes(h[l - 1], h[l], TakenBy(taken, l - 1), taken[l])
        BY <1>1 DEF History
    <2>3. k \in 1 .. l - 1
        BY <2>1
    <2>4. b \in TakenBy(taken, l - 1)
        BY <2>1, <2>3 DEF TakenBy
    <2>5. QED
        BY <2>1, <2>2, <2>4 DEF Takes
<1>6. QED
    BY <1>4, <1>5

\* What was taken, and what the order fields say of it.
LEMMA TakenIs ==
    ASSUME NEW n \in Nat, NEW pool, NEW taken, NEW from \in Nat, NEW to,
           PoolInv(pool, taken, n, from, to), NEW i \in 1 .. n, NEW b \in taken[i]
    PROVE  /\ b \in BlockSet /\ b.index \in Index(pool) /\ pool.order[b.index] = b.order
           /\ \A v \in Nat : v \in SpanOf(b) => v \in from .. to - 1
<1> DEFINE F == FreeBlocks(pool)
           H == TakenBy(taken, n)
<1>1. Level(F, H, from, to) /\ PoolLists(pool) /\ pool.count = to /\ OrdersKnown(pool, H)
    BY HistoryEnds DEF PoolInv
<1>2. to \in Nat
    BY <1>1 DEF PoolLists, PoolTypeOK
<1>3. b \in H
    BY DEF TakenBy
<1> HIDE DEF F, H
<1>4. b \in BlockSet /\ \A v \in Nat : v \in SpanOf(b) => v \in from .. to - 1
    BY <1>1, <1>3, LevelBlocks
<1>5. b.index \in Nat /\ b.order \in Order /\ b = Block(b.index, b.order) /\ b.index \in SpanOf(b)
    BY <1>4, Spans, Starts
<1>6. b.index \in Index(pool)
    BY <1>1, <1>2, <1>4, <1>5 DEF Index
<1>7. QED
    BY <1>1, <1>3, <1>4, <1>5, <1>6 DEF OrdersKnown

\* With nothing taken the pool is as it was made.
LEMMA PoolRestored ==
    ASSUME NEW pool, NEW taken, NEW from, NEW to, PoolInv(pool, taken, 0, from, to)
    PROVE  FreeBlocks(pool) = FreeBlocks(NewPool(from, to))
<1>1. PICK h \in [0 .. 0 -> SUBSET BlockSet] : History(h, taken, 0, from, to) /\ h[0] = FreeBlocks(pool)
    BY DEF PoolInv, HasHistory
<1>2. QED
    BY <1>1 DEF History

=============================================================================
