-------------------------- MODULE BootMemoryProofs --------------------------
(***************************************************************************)
(* Proofs about the boot of BootMemory, for any page size, any memory map  *)
(* with any number of regions, and whatever the boot loader left.          *)
(***************************************************************************)
EXTENDS BootMemory, BuddyTheorems

-----------------------------------------------------------------------------
(* Pages and addresses.                                                    *)

LEMMA PageSizeIs ==
    /\ PageSize \in Nat \ {0}
    /\ \E k \in Nat : PageSize = 4 * k
<1>1. PageBits \in Nat /\ PageBits >= 2 /\ Doubles(PageBits)
    BY BootMemoryAssumption, PageShiftDoubles DEF Doubles
<1>2. PageSize \in Nat \ {0}
    BY <1>1, PowersArePositive DEF PageSize
<1>3. 2^2 = 4
    <2>1. 2^(0 + 1) = 2 * 2^0 /\ 2^(1 + 1) = 2 * 2^1 /\ 2^0 = 1
        BY <1>1 DEF Doubles
    <2>2. 0 + 1 = 1 /\ 1 + 1 = 2
        OBVIOUS
    <2>3. QED
        BY <2>1, <2>2
<1>4. 2 \in 0 .. PageBits /\ PageBits \in 2 .. PageBits
    BY <1>1
<1>5. PICK k \in Nat \ {0} : 2^PageBits = 2^2 * k
    BY <1>1, <1>4, PowersAreMultiples
<1>6. QED
    BY <1>2, <1>3, <1>5 DEF PageSize

\* The first page behind an address.
Ceil(a) == PageOf(a + PageSize - 1)

LEMMA CeilIs ==
    ASSUME NEW a \in Nat
    PROVE  /\ Ceil(a) \in Nat /\ a <= PageSize * Ceil(a)
           /\ \A r \in Nat : a <= PageSize * r => Ceil(a) <= r
           /\ PAGE_END(a) = PageSize * Ceil(a) /\ PAGE_END(a) \in Nat
           /\ PAGE_END(a) % PageSize = 0
           /\ PageOf(PAGE_END(a)) = Ceil(a)
<1> DEFINE m == PageSize
           q == Ceil(a)
           n == (a + m) - 1
<1>1. m \in Nat \ {0}
    BY PageSizeIs
<1>2. n \in Nat /\ q = n \div m
    BY <1>1 DEF Ceil, PageOf
<1>3. PAGE_END(a) = q * m
    BY <1>1, <1>2 DEF PAGE_END, Ceil, PageOf
<1> HIDE DEF m, q
<1>4. n = m * q + (n % m) /\ n % m \in 0 .. m - 1 /\ q \in Nat
    BY <1>1, <1>2, DivMod
<1>5. a <= m * q
    BY <1>1, <1>4
<1>6. ASSUME NEW r \in Nat, a <= m * r
      PROVE  q <= r
    <2>1. SUFFICES ASSUME r + 1 <= q
                   PROVE  FALSE
        BY <1>4
    <2>2. m * r + m <= m * q
        BY <1>1, <1>4, <2>1
    <2>3. QED
        BY <1>1, <1>4, <1>6, <2>2
<1>7. PAGE_END(a) = m * q /\ PAGE_END(a) \in Nat
    BY <1>1, <1>3, <1>4
<1>8. (m * q) % m = 0 /\ (m * q) \div m = q
    BY <1>1, <1>4, DivOfMultiple
<1>9. QED
    BY <1>4, <1>5, <1>6, <1>7, <1>8 DEF m, q, PageOf

\* Addresses of whole pages are compared by their pages.
LEMMA WholePages ==
    ASSUME NEW a \in Nat, a % PageSize = 0
    PROVE  /\ PageOf(a) \in Nat /\ a = PageSize * PageOf(a) /\ Ceil(a) = PageOf(a)
           /\ \A b \in Nat : b % PageSize = 0 =>
                (a <= b <=> PageOf(a) <= PageOf(b)) /\ (a < b <=> PageOf(a) < PageOf(b))
<1> DEFINE m == PageSize
<1>1. m \in Nat \ {0}
    BY PageSizeIs
<1>2. \A b \in Nat : b % m = 0 => PageOf(b) \in Nat /\ b = m * PageOf(b)
    BY <1>1, DivMod DEF PageOf
<1>3. ASSUME NEW p \in Nat, NEW q \in Nat
      PROVE  (m * p <= m * q <=> p <= q) /\ (m * p < m * q <=> p < q)
    <2> HIDE DEF m
    <2>1. p < q => m * p + m <= m * q
        BY <1>1, <1>3
    <2>2. q < p => m * q + m <= m * p
        BY <1>1, <1>3
    <2>3. m * p \in Nat /\ m * q \in Nat
        BY <1>1
    <2>4. QED
        BY <1>1, <2>1, <2>2, <2>3
<1>4. ASSUME NEW b \in Nat, b % m = 0
      PROVE  (a <= b <=> PageOf(a) <= PageOf(b)) /\ (a < b <=> PageOf(a) < PageOf(b))
    BY <1>2, <1>3, <1>4
<1>5. Ceil(a) = PageOf(a)
    <2>1. /\ Ceil(a) \in Nat /\ a <= m * Ceil(a)
          /\ \A r \in Nat : a <= m * r => Ceil(a) <= r
        BY CeilIs
    <2>2. PageOf(a) \in Nat /\ a = m * PageOf(a)
        BY <1>2
    <2> HIDE DEF m
    <2>3. Ceil(a) <= PageOf(a) /\ PageOf(a) <= Ceil(a)
        BY <1>1, <1>3, <2>1, <2>2
    <2>4. QED
        BY <2>1, <2>2, <2>3
<1>6. QED
    BY <1>2, <1>4, <1>5

\* An address less than another is in no later page.
LEMMA PageOfGrows ==
    ASSUME NEW a \in Nat, a % PageSize = 0, NEW b \in Nat, a <= b
    PROVE  PageOf(a) <= PageOf(b) /\ PageOf(b) \in Nat
<1> DEFINE m == PageSize
           p == PageOf(a)
           q == PageOf(b)
<1>1. m \in Nat \ {0}
    BY PageSizeIs
<1>2. p \in Nat /\ a = m * p
    BY WholePages
<1>3. b = m * q + (b % m) /\ b % m \in 0 .. m - 1 /\ q \in Nat
    BY <1>1, DivMod DEF PageOf
<1> HIDE DEF m, p, q
<1>4. q < p => m * q + m <= m * p
    BY <1>1, <1>2, <1>3
<1>5. p <= q
    BY <1>1, <1>2, <1>3, <1>4
<1>6. QED
    BY <1>3, <1>5 DEF p, q

\* Rounding up to the alignment of the array of pages does not leave the page.
LEMMA AlignedUp ==
    ASSUME NEW a \in Nat
    PROVE  LET aligned == ((a + 3) \div 4) * 4
           IN  aligned \in Nat /\ a <= aligned /\ aligned <= a + 3 /\ Ceil(aligned) = Ceil(a)
<1> DEFINE aligned == ((a + 3) \div 4) * 4
           m == PageSize
<1>1. aligned \in Nat /\ a <= aligned /\ aligned <= a + 3
    OBVIOUS
<1>2. PICK k \in Nat : m = 4 * k
    BY PageSizeIs
<1>3. ASSUME NEW r \in Nat, a <= m * r
      PROVE  aligned <= m * r
    <2>1. m * r = 4 * (k * r) /\ k * r \in Nat
        BY <1>2
    <2> DEFINE x == k * r
    <2>2. a <= 4 * x /\ x \in Nat
        BY <1>3, <2>1
    <2> HIDE DEF x
    <2>3. aligned <= 4 * x
        BY <2>2
    <2>4. QED
        BY <2>1, <2>3 DEF x
<1> HIDE DEF aligned
<1>4. /\ Ceil(a) \in Nat /\ a <= m * Ceil(a) /\ \A r \in Nat : a <= m * r => Ceil(a) <= r
      /\ Ceil(aligned) \in Nat /\ aligned <= m * Ceil(aligned)
      /\ \A r \in Nat : aligned <= m * r => Ceil(aligned) <= r
    BY <1>1, CeilIs
<1>5. m * Ceil(aligned) \in Nat
    BY <1>4, PageSizeIs
<1> HIDE DEF m
<1>6. Ceil(aligned) <= Ceil(a) /\ Ceil(a) <= Ceil(aligned)
    <2>1. Ceil(aligned) <= Ceil(a)
        BY <1>3, <1>4
    <2>2. a <= m * Ceil(aligned)
        BY <1>1, <1>4, <1>5
    <2>3. QED
        BY <1>4, <2>1, <2>2
<1>7. QED
    BY <1>1, <1>4, <1>6 DEF aligned

-----------------------------------------------------------------------------
(* What the boot loader says.                                              *)

Lo(j) == PageOf(mbi.map[j].base)
Hi(j) == PageOf(EndOfRegion(mbi.map[j]))

\* What an address is that the kernel keeps before it has put its array of
\* pages anywhere.
Kept == ToSet(mbi.reserved) \cup {KernelEnd}

\* The region of the kernel ends at e.
Home(e) ==
    /\ e \in Nat /\ e % PageSize = 0 /\ e < AddressLimit /\ mbi.memory \in {0, e}
    /\ \A r \in Kept : r + 4 + PageStruct * PageOf(AddressLimit) <= e
    /\ \A j \in 1 .. Len(mbi.map) : mbi.map[j].base < e => EndOfRegion(mbi.map[j]) <= e

LEMMA Constants ==
    /\ KernelEnd \in Nat /\ AddressLimit \in Nat /\ PageStruct \in Nat
    /\ KERNEL_MEMORY_PAGES \in Nat /\ PageOf(AddressLimit) <= KERNEL_MEMORY_PAGES
    /\ PageOf(AddressLimit) \in Nat
<1>1. PageOf(AddressLimit) \in Nat
    BY PageSizeIs, DivMod, BootMemoryAssumption DEF PageOf
<1>2. QED
    BY <1>1, BootMemoryAssumption

LEMMA MbiIs ==
    ASSUME mbi \in BootInfo
    PROVE  /\ mbi.map \in Seq(Entry) /\ Len(mbi.map) \in Nat /\ DOMAIN mbi.map = 1 .. Len(mbi.map)
           /\ mbi.reserved \in Seq(Nat) /\ Len(mbi.reserved) \in Nat /\ mbi.memory \in Nat
           /\ \A j \in 1 .. Len(mbi.reserved) : mbi.reserved[j] \in Kept
           /\ Kept \subseteq Nat
<1>1. mbi.map \in Seq(Entry) /\ mbi.reserved \in Seq(Nat) /\ mbi.memory \in Nat
    BY BootMemoryAssumption
<1>2. /\ Len(mbi.map) \in Nat /\ DOMAIN mbi.map = 1 .. Len(mbi.map)
      /\ Len(mbi.reserved) \in Nat /\ DOMAIN mbi.reserved = 1 .. Len(mbi.reserved)
    BY <1>1, LenProperties
<1>3. \A j \in 1 .. Len(mbi.reserved) : mbi.reserved[j] \in Nat
    BY <1>1, ElementOfSeq
<1>4. /\ \A j \in 1 .. Len(mbi.reserved) : mbi.reserved[j] \in Kept
      /\ Kept \subseteq Nat
    BY <1>2, <1>3, Constants DEF Kept, ToSet
<1>5. QED
    BY <1>1, <1>2, <1>4

\* A region is whole pages.
LEMMA RegionIs ==
    ASSUME mbi \in BootInfo, NEW j \in 1 .. Len(mbi.map)
    PROVE  /\ mbi.map[j].base \in Nat /\ mbi.map[j].base % PageSize = 0
           /\ EndOfRegion(mbi.map[j]) \in Nat /\ EndOfRegion(mbi.map[j]) % PageSize = 0
           /\ mbi.map[j].base <= EndOfRegion(mbi.map[j])
           /\ Lo(j) \in Nat /\ Hi(j) \in Nat /\ Lo(j) <= Hi(j)
<1> DEFINE r == mbi.map[j]
<1>1. r \in Entry
    BY MbiIs, ElementOfSeq
<1>2. Honest(mbi) /\ j \in DOMAIN mbi.map
    BY BootMemoryAssumption, MbiIs
<1>3. r.base % PageSize = 0 /\ r.length % PageSize = 0
    BY <1>2, Zenon DEF Honest
<1>4. r.base \in Nat /\ r.length \in Nat /\ EndOfRegion(r) = r.base + r.length
    BY <1>1 DEF Entry, EndOfRegion
<1> HIDE DEF r
<1>5. EndOfRegion(r) % PageSize = 0
    BY <1>3, <1>4, PageSizeIs, MultiplesAdd
<1>6. EndOfRegion(r) \in Nat /\ r.base <= EndOfRegion(r)
    BY <1>4
<1>7. PageOf(r.base) \in Nat /\ PageOf(EndOfRegion(r)) \in Nat /\ PageOf(r.base) <= PageOf(EndOfRegion(r))
    BY <1>3, <1>4, <1>5, <1>6, WholePages
<1>8. QED
    BY <1>3, <1>4, <1>5, <1>6, <1>7 DEF r, Lo, Hi

\* No two regions have a page in common.
LEMMA RegionsApart ==
    ASSUME mbi \in BootInfo, NEW j \in 1 .. Len(mbi.map), NEW k \in 1 .. Len(mbi.map), j # k
    PROVE  /\ \/ EndOfRegion(mbi.map[j]) <= mbi.map[k].base
              \/ EndOfRegion(mbi.map[k]) <= mbi.map[j].base
           /\ Hi(j) <= Lo(k) \/ Hi(k) <= Lo(j)
<1>1. Honest(mbi) /\ j \in DOMAIN mbi.map \ {k} /\ k \in DOMAIN mbi.map
    BY BootMemoryAssumption, MbiIs
<1>2. \/ EndOfRegion(mbi.map[j]) <= mbi.map[k].base
      \/ EndOfRegion(mbi.map[k]) <= mbi.map[j].base
    BY <1>1, Zenon DEF Honest
<1>3. /\ \A m \in {j, k} : mbi.map[m].base \in Nat /\ mbi.map[m].base % PageSize = 0
      /\ \A m \in {j, k} : EndOfRegion(mbi.map[m]) \in Nat /\ EndOfRegion(mbi.map[m]) % PageSize = 0
    BY RegionIs
<1>4. /\ EndOfRegion(mbi.map[j]) <= mbi.map[k].base => Hi(j) <= Lo(k)
      /\ EndOfRegion(mbi.map[k]) <= mbi.map[j].base => Hi(k) <= Lo(j)
    BY <1>3, WholePages DEF Hi, Lo
<1>5. QED
    BY <1>2, <1>4

LEMMA HomeExists ==
    ASSUME mbi \in BootInfo
    PROVE  \E e : Home(e)
<1>1. Honest(mbi) /\ DOMAIN mbi.map = 1 .. Len(mbi.map)
    BY BootMemoryAssumption, MbiIs
<1>2. PICK k \in 1 .. Len(mbi.map) :
            /\ EndOfRegion(mbi.map[k]) < AddressLimit
            /\ \A r \in Kept : r + 4 + PageStruct * PageOf(AddressLimit) <= EndOfRegion(mbi.map[k])
            /\ mbi.memory \in {0, EndOfRegion(mbi.map[k])}
    BY <1>1, Zenon DEF Honest, Kept
<1> DEFINE e == EndOfRegion(mbi.map[k])
<1>3. e \in Nat /\ e % PageSize = 0 /\ mbi.map[k].base <= e
    BY RegionIs
<1>4. ASSUME NEW j \in 1 .. Len(mbi.map), mbi.map[j].base < e
      PROVE  EndOfRegion(mbi.map[j]) <= e
    <2>1. CASE j = k
        BY <1>3, <2>1
    <2>2. CASE j # k
        <3>1. EndOfRegion(mbi.map[j]) <= mbi.map[k].base \/ e <= mbi.map[j].base
            BY <2>2, RegionsApart
        <3>2. mbi.map[j].base \in Nat /\ EndOfRegion(mbi.map[j]) \in Nat /\ mbi.map[k].base \in Nat
            BY RegionIs
        <3> HIDE DEF e
        <3>3. QED
            BY <1>3, <1>4, <3>1, <3>2
    <2>3. QED
        BY <2>1, <2>2
<1>5. Home(e)
    BY <1>2, <1>3, <1>4, Zenon DEF Home
<1>6. QED
    BY <1>5

\* What is kept is mapped below the end of the kernel's addresses, and so is
\* the array of pages behind it.
LEMMA HomeFits ==
    ASSUME mbi \in BootInfo, NEW e, Home(e)
    PROVE  /\ PageOf(e) <= PageOf(AddressLimit) /\ PageOf(e) \in Nat
           /\ \A a \in Nat : a <= e => Ceil(a) <= KERNEL_MEMORY_PAGES /\ PAGE_END(a) <= e
           /\ \A r \in Kept : r <= e
<1>1. e \in Nat /\ e % PageSize = 0 /\ e < AddressLimit
    BY DEF Home
<1>2. PageOf(e) <= PageOf(AddressLimit) /\ PageOf(e) \in Nat
    BY <1>1, Constants, WholePages, PageOfGrows
<1>3. ASSUME NEW a \in Nat, a <= e
      PROVE  Ceil(a) <= KERNEL_MEMORY_PAGES /\ PAGE_END(a) <= e
    <2>1. /\ Ceil(a) \in Nat /\ PAGE_END(a) \in Nat /\ PAGE_END(a) % PageSize = 0
          /\ PageOf(PAGE_END(a)) = Ceil(a)
          /\ \A r \in Nat : a <= PageSize * r => Ceil(a) <= r
        BY CeilIs
    <2>2. e = PageSize * PageOf(e)
        BY <1>1, WholePages
    <2>3. Ceil(a) <= PageOf(e)
        BY <1>2, <1>3, <2>1, <2>2
    <2>4. PAGE_END(a) <= e
        BY <1>1, <2>1, <2>3, WholePages
    <2>5. QED
        BY <1>2, <2>1, <2>3, <2>4, Constants
<1>4. ASSUME NEW r \in Kept
      PROVE  r <= e
    <2>1. r \in Nat /\ r + 4 + PageStruct * PageOf(AddressLimit) <= e
        BY MbiIs DEF Home
    <2>2. PageStruct * PageOf(AddressLimit) \in Nat
        BY Constants
    <2>3. QED
        BY <1>1, <2>1, <2>2
<1>5. QED
    BY <1>2, <1>3, <1>4
-----------------------------------------------------------------------------
(* Blocks of several regions.                                              *)

\* The blocks are aligned, no two of them meet, and together they are P.
Covers(B, P) ==
    /\ B \subseteq BlockSet
    /\ \A b \in B : b.index % 2^b.order = 0
    /\ \A b, c \in B, v \in Nat : v \in SpanOf(b) /\ v \in SpanOf(c) => b = c
    /\ \A v \in Nat : v \in P <=> \E b \in B : v \in SpanOf(b)

\* The lists of blocks below n, which are P.
ListsCover(lists, n, P) ==
    /\ lists \in [Order -> Seq(0 .. n - 1)]
    /\ \A o \in Order : NoDuplicates(lists[o])
    /\ Covers(BlocksOf(lists), P)

LEMMA AddedCover ==
    ASSUME NEW to \in Nat, NEW from \in 0 .. to, NEW n \in Nat, to <= n
    PROVE  ListsCover(add_pages_to_pool(from, to), n, from .. to - 1)
<1> DEFINE lists == add_pages_to_pool(from, to)
<1>1. /\ lists \in [Order -> Seq(0 .. to - 1)]
      /\ \A o \in Order : NoDuplicates(lists[o])
      /\ Tiles(BlocksOf(lists), from, to)
    BY AddedPages
<1> HIDE DEF lists
<1>2. \A s \in Seq(0 .. to - 1) : s \in Seq(0 .. n - 1)
    <2>1. SUFFICES ASSUME NEW s \in Seq(0 .. to - 1)
                   PROVE  s \in Seq(0 .. n - 1)
        OBVIOUS
    <2>2. \A k \in 1 .. Len(s) : s[k] \in 0 .. n - 1
        BY ElementOfSeq
    <2>3. Len(s) \in Nat /\ s \in [1 .. Len(s) -> 0 .. n - 1]
        BY <2>2, LenProperties
    <2>4. QED
        BY <2>3, SeqDef
<1>3. lists \in [Order -> Seq(0 .. n - 1)]
    BY <1>1, <1>2
<1>4. Covers(BlocksOf(lists), from .. to - 1)
    BY <1>1, Zenon DEF Tiles, Covers
<1>5. QED
    BY <1>1, <1>3, <1>4, Zenon DEF ListsCover, lists

LEMMA NothingCovers ==
    ASSUME NEW n \in Nat
    PROVE  ListsCover([o \in Order |-> <<>>], n, {})
<1> DEFINE lists == [o \in Order |-> <<>>]
<1>1. lists \in [Order -> Seq(0 .. n - 1)] /\ \A o \in Order : lists[o] = <<>>
    OBVIOUS
<1> HIDE DEF lists
<1>2. \A o \in Order : NoDuplicates(lists[o]) /\ ToSet(lists[o]) = {}
    BY <1>1 DEF NoDuplicates, ToSet
<1>3. BlocksOf(lists) = {}
    BY <1>2 DEF BlocksOf, BlockSet
<1>4. Covers({}, {})
    BY DEF Covers
<1>5. QED
    BY <1>1, <1>2, <1>3, <1>4 DEF ListsCover, lists

\* One list behind another.
LEMMA ConcatKeeps ==
    ASSUME NEW S, NEW s \in Seq(S), NEW t \in Seq(S), NoDuplicates(s), NoDuplicates(t),
           ToSet(s) \cap ToSet(t) = {}
    PROVE  s \o t \in Seq(S) /\ NoDuplicates(s \o t) /\ ToSet(s \o t) = ToSet(s) \cup ToSet(t)
<1> DEFINE m == Len(s)
           n == Len(t)
           r == s \o t
<1>1. /\ m \in Nat /\ n \in Nat /\ DOMAIN s = 1 .. m /\ DOMAIN t = 1 .. n
    BY LenProperties
<1>2. /\ r \in Seq(S) /\ Len(r) = m + n
      /\ \A k \in 1 .. m + n : r[k] = IF k <= m THEN s[k] ELSE t[k - m]
    BY ConcatProperties
<1>3. DOMAIN r = 1 .. m + n
    BY <1>2, LenProperties
<1> HIDE DEF m, n, r
<1>4. /\ \A k \in 1 .. m : k \in 1 .. m + n /\ r[k] = s[k]
      /\ \A k \in 1 .. n : k + m \in 1 .. m + n /\ r[k + m] = t[k]
    BY <1>1, <1>2
<1>5. \A k \in 1 .. m + n : k \in 1 .. m \/ \E j \in 1 .. n : k = j + m
    <2>1. \A k \in 1 .. m + n : k \notin 1 .. m => k - m \in 1 .. n /\ k = (k - m) + m
        BY <1>1
    <2>2. QED
        BY <2>1
<1>6. ToSet(r) = ToSet(s) \cup ToSet(t)
    <2>1. /\ \A x : x \in ToSet(r) <=> \E k \in 1 .. m + n : r[k] = x
          /\ \A x : x \in ToSet(s) <=> \E k \in 1 .. m : s[k] = x
          /\ \A x : x \in ToSet(t) <=> \E k \in 1 .. n : t[k] = x
        BY <1>1, <1>3 DEF ToSet
    <2>2. \A x : x \in ToSet(r) <=> x \in ToSet(s) \/ x \in ToSet(t)
        <3>1. ASSUME NEW x, x \in ToSet(r)
              PROVE  x \in ToSet(s) \/ x \in ToSet(t)
            BY <1>4, <1>5, <2>1, <3>1
        <3>2. ASSUME NEW x, x \in ToSet(s) \/ x \in ToSet(t)
              PROVE  x \in ToSet(r)
            BY <1>4, <2>1, <3>2
        <3>3. QED
            BY <3>1, <3>2
    <2>3. QED
        BY <2>2
<1>7. ASSUME NEW j \in 1 .. m + n, NEW k \in 1 .. m + n, r[j] = r[k]
      PROVE  j = k
    <2>1. /\ \A a, b \in 1 .. m : s[a] = s[b] => a = b
          /\ \A a, b \in 1 .. n : t[a] = t[b] => a = b
          /\ \A a \in 1 .. m, b \in 1 .. n : s[a] # t[b]
        BY <1>1 DEF NoDuplicates, ToSet
    <2>2. QED
        BY <1>4, <1>5, <1>7, <2>1
<1>8. QED
    BY <1>2, <1>3, <1>6, <1>7 DEF NoDuplicates, r

\* Regions that have no page in common.
LEMMA JoinCovers ==
    ASSUME NEW n \in Nat, NEW l, NEW P, ListsCover(l, n, P), NEW m, NEW Q, ListsCover(m, n, Q),
           \A v \in Nat : ~(v \in P /\ v \in Q)
    PROVE  ListsCover(Joined(l, m), n, P \cup Q)
<1> DEFINE j == Joined(l, m)
           B == BlocksOf(l)
           C == BlocksOf(m)
<1>1. /\ l \in [Order -> Seq(0 .. n - 1)] /\ m \in [Order -> Seq(0 .. n - 1)]
      /\ \A o \in Order : NoDuplicates(l[o]) /\ NoDuplicates(m[o])
      /\ Covers(B, P) /\ Covers(C, Q)
    BY DEF ListsCover
<1>2. /\ B \subseteq BlockSet /\ C \subseteq BlockSet
      /\ \A b \in B : b.index % 2^b.order = 0
      /\ \A b \in C : b.index % 2^b.order = 0
      /\ \A b, c \in B, v \in Nat : v \in SpanOf(b) /\ v \in SpanOf(c) => b = c
      /\ \A b, c \in C, v \in Nat : v \in SpanOf(b) /\ v \in SpanOf(c) => b = c
      /\ \A v \in Nat : v \in P <=> \E b \in B : v \in SpanOf(b)
      /\ \A v \in Nat : v \in Q <=> \E b \in C : v \in SpanOf(b)
    BY <1>1, Zenon DEF Covers
<1>3. ASSUME NEW o \in Order
      PROVE  ToSet(l[o]) \cap ToSet(m[o]) = {}
    <2>1. SUFFICES ASSUME NEW x, x \in ToSet(l[o]), x \in ToSet(m[o])
                   PROVE  FALSE
        OBVIOUS
    <2>2. x \in Nat
        <3>1. l[o] \in Seq(0 .. n - 1)
            BY <1>1
        <3>2. PICK k \in DOMAIN l[o] : x = l[o][k]
            BY <2>1 DEF ToSet
        <3>3. x \in 0 .. n - 1
            BY <3>1, <3>2, ElementOfSeq, LenProperties
        <3>4. QED
            BY <3>3
    <2>3. /\ Block(x, o) \in BlockSet /\ Block(x, o).index = x /\ Block(x, o).order = o
          /\ x \in SpanOf(Block(x, o))
        BY <2>2, Spans, Starts
    <2>4. Block(x, o) \in B /\ Block(x, o) \in C
        BY <2>1, <2>3 DEF BlocksOf
    <2>5. x \in P /\ x \in Q
        BY <1>2, <2>2, <2>3, <2>4
    <2>6. QED
        BY <2>2, <2>5
<1>4. ASSUME NEW o \in Order
      PROVE  /\ j[o] \in Seq(0 .. n - 1) /\ NoDuplicates(j[o])
             /\ ToSet(j[o]) = ToSet(l[o]) \cup ToSet(m[o])
    <2>1. j[o] = l[o] \o m[o]
        BY DEF Joined
    <2>2. l[o] \in Seq(0 .. n - 1) /\ m[o] \in Seq(0 .. n - 1)
        BY <1>1
    <2>3. QED
        BY <1>1, <1>3, <2>1, <2>2, ConcatKeeps
<1>5. j \in [Order -> Seq(0 .. n - 1)]
    BY <1>4 DEF Joined
<1>6. BlocksOf(j) = B \cup C
    <2>1. \A b \in BlockSet : b.order \in Order
        BY Spans
    <2>2. \A b \in BlockSet : b.index \in ToSet(j[b.order]) <=>
                b.index \in ToSet(l[b.order]) \/ b.index \in ToSet(m[b.order])
        BY <1>4, <2>1
    <2> HIDE DEF j
    <2>3. QED
        BY <2>2 DEF BlocksOf
<1> HIDE DEF B, C, j
<1>7. Covers(B \cup C, P \cup Q)
    <2>1. ASSUME NEW b \in B \cup C, NEW c \in B \cup C, NEW v \in Nat, v \in SpanOf(b), v \in SpanOf(c)
          PROVE  b = c
        BY <1>2, <2>1
    <2>2. \A v \in Nat : v \in P \cup Q <=> \E b \in B \cup C : v \in SpanOf(b)
        BY <1>2
    <2>3. B \cup C \subseteq BlockSet /\ \A b \in B \cup C : b.index % 2^b.order = 0
        BY <1>2
    <2>4. QED
        BY <2>1, <2>2, <2>3, Zenon DEF Covers
<1>8. QED
    BY <1>4, <1>5, <1>6, <1>7, Zenon DEF ListsCover, j

-----------------------------------------------------------------------------
(* The inductive invariant, phase by phase.                                *)

NoLists == [o \in Order |-> <<>>]

\* Before paging is on.
Reserving ==
    /\ paging = FALSE /\ kernel_page_tables = {}
    /\ last_kernel_phaddr \in Kept
    /\ pages = NoPool /\ vaddrs_free_list = NoLists

\* The size of memory, after n entries of the map.
SizeKnown(n) ==
    /\ mbi.memory # 0 => memory_size = mbi.memory
    /\ mbi.memory = 0 =>
        /\ \/ memory_size = 0
           \/ \E j \in 1 .. Len(mbi.map) :
                ~Skipped(mbi.map[j]) /\ memory_size = EndOfRegion(mbi.map[j])
        /\ \A j \in 1 .. Len(mbi.map) :
                j <= n /\ ~Skipped(mbi.map[j]) => EndOfRegion(mbi.map[j]) <= memory_size

\* Before the array of pages has a place.
Sizing ==
    /\ paging = TRUE /\ kernel_page_tables = 0 .. Ceil(last_kernel_phaddr) - 1
    /\ last_kernel_phaddr \in Kept
    /\ pages = NoPool /\ vaddrs_free_list = NoLists
    /\ SizeKnown(i - 1)

\* The regions of which there is something in the pool, and the pages of
\* the first n of them.
Used(j) ==
    /\ ~Skipped(mbi.map[j])
    /\ EndOfRegion(mbi.map[j]) > last_kernel_phaddr
    /\ mbi.map[j].base < memory_size

First(j) == PageOf(FirstFree(mbi.map[j]))

Added(n) ==
    {v \in Nat : \E j \in 1 .. Len(mbi.map) : j <= n /\ Used(j) /\ First(j) <= v /\ v < Hi(j)}

\* Once it has one.
Placed ==
    /\ paging = TRUE /\ kernel_page_tables = 0 .. PageOf(last_kernel_phaddr) - 1
    /\ last_kernel_phaddr % PageSize = 0 /\ PageOf(last_kernel_phaddr) <= KERNEL_MEMORY_PAGES
    /\ SizeKnown(Len(mbi.map)) /\ memory_size % PageSize = 0
    /\ PoolTypeOK(pages) /\ pages.count = PageOf(memory_size)
    /\ ListsCover(pages.free, pages.count, Added(i - 1))

BootSound ==
    /\ mbi \in BootInfo /\ i \in Nat \ {0} /\ last_kernel_phaddr \in Nat /\ memory_size \in Nat
    /\ \/ pc = "initial_process_multiboot" /\ Reserving
       \/ pc = "memory_setup_paging" /\ Reserving /\ memory_size = mbi.memory
       \/ pc = "size" /\ Sizing
       \/ pc = "pool" /\ Placed /\ vaddrs_free_list = NoLists
       \/ /\ pc = "booted" /\ Placed /\ i > Len(mbi.map)
          /\ vaddrs_free_list = add_pages_to_pool(PageOf(last_kernel_phaddr), KERNEL_MEMORY_PAGES)

\* What every region that is used gives: below the size of memory, and behind
\* the kernel.
LEMMA UsedIs ==
    ASSUME mbi \in BootInfo, last_kernel_phaddr \in Nat, last_kernel_phaddr % PageSize = 0,
           memory_size \in Nat, memory_size % PageSize = 0, SizeKnown(Len(mbi.map)),
           NEW j \in 1 .. Len(mbi.map), Used(j)
    PROVE  /\ First(j) \in Nat /\ First(j) <= Hi(j) /\ Hi(j) <= PageOf(memory_size)
           /\ \A v \in Nat : First(j) <= v <=> Lo(j) <= v /\ PageOf(last_kernel_phaddr) <= v
<1> DEFINE r == mbi.map[j]
<1>1. /\ r.base \in Nat /\ r.base % PageSize = 0
      /\ EndOfRegion(r) \in Nat /\ EndOfRegion(r) % PageSize = 0 /\ r.base <= EndOfRegion(r)
      /\ Lo(j) \in Nat /\ Hi(j) \in Nat /\ Lo(j) <= Hi(j)
    BY RegionIs
<1>2. ~Skipped(r) /\ EndOfRegion(r) > last_kernel_phaddr /\ r.base < memory_size
    BY DEF Used
<1>3. EndOfRegion(r) <= memory_size
    <2>1. CASE mbi.memory = 0
        <3>1. Len(mbi.map) \in Nat
            BY MbiIs
        <3>2. j <= Len(mbi.map)
            BY <3>1
        <3>3. QED
            BY <1>2, <2>1, <3>2 DEF SizeKnown
    <2>2. CASE mbi.memory # 0
        <3>1. PICK e : Home(e)
            BY HomeExists
        <3>2. memory_size = e
            BY <2>2, <3>1 DEF SizeKnown, Home
        <3>3. QED
            BY <1>2, <3>1, <3>2 DEF Home
    <2>3. QED
        BY <2>1, <2>2
<1>4. /\ Lo(j) = PageOf(r.base) /\ Hi(j) = PageOf(EndOfRegion(r))
      /\ First(j) = PageOf(FirstFree(r))
      /\ FirstFree(r) = IF r.base <= last_kernel_phaddr THEN last_kernel_phaddr ELSE r.base
    BY DEF Lo, Hi, First, FirstFree
<1> HIDE DEF r
<1>5. Hi(j) <= PageOf(memory_size)
    BY <1>1, <1>3, <1>4, WholePages
<1>6. PageOf(last_kernel_phaddr) \in Nat
    BY WholePages
<1>7. CASE r.base <= last_kernel_phaddr
    <2>1. Lo(j) <= PageOf(last_kernel_phaddr) /\ PageOf(last_kernel_phaddr) <= Hi(j)
        BY <1>1, <1>2, <1>4, <1>7, WholePages
    <2>2. First(j) = PageOf(last_kernel_phaddr)
        BY <1>4, <1>7
    <2>3. QED
        BY <1>1, <1>5, <1>6, <2>1, <2>2
<1>8. CASE ~(r.base <= last_kernel_phaddr)
    <2>1. PageOf(last_kernel_phaddr) <= Lo(j)
        BY <1>1, <1>4, <1>8, WholePages
    <2>2. First(j) = Lo(j)
        BY <1>4, <1>8
    <2>3. QED
        BY <1>1, <1>5, <1>6, <2>1, <2>2
<1>9. QED
    BY <1>7, <1>8
-----------------------------------------------------------------------------
(* The steps.                                                              *)

LEMMA InitBoot ==
    ASSUME Init
    PROVE  BootSound
<1>1. /\ mbi \in BootInfo /\ pc = "initial_process_multiboot" /\ i = 1
      /\ last_kernel_phaddr = KernelEnd /\ memory_size = 0
      /\ paging = FALSE /\ kernel_page_tables = {} /\ pages = NoPool
      /\ vaddrs_free_list = NoLists
    BY DEF Init, NoLists
<1>2. Reserving
    BY <1>1 DEF Reserving, Kept
<1>3. QED
    BY <1>1, <1>2, Constants DEF BootSound

LEMMA ReserveBoot ==
    ASSUME BootSound, Reserve
    PROVE  BootSound'
<1>1. /\ pc = "initial_process_multiboot" /\ i <= Len(mbi.reserved)
      /\ last_kernel_phaddr' = IF mbi.reserved[i] > last_kernel_phaddr
                               THEN mbi.reserved[i] ELSE last_kernel_phaddr
      /\ i' = i + 1 /\ mbi' = mbi /\ pc' = pc /\ memory_size' = memory_size /\ paging' = paging
      /\ kernel_page_tables' = kernel_page_tables /\ pages' = pages
      /\ vaddrs_free_list' = vaddrs_free_list
    BY DEF Reserve, reserve_up_to_phaddr_before_paging
<1>2. /\ mbi \in BootInfo /\ i \in Nat \ {0} /\ memory_size \in Nat /\ Reserving
    BY <1>1 DEF BootSound
<1>3. last_kernel_phaddr \in Kept /\ mbi.reserved[i] \in Kept /\ Kept \subseteq Nat
    <2>1. i \in 1 .. Len(mbi.reserved)
        BY <1>1, <1>2, MbiIs
    <2>2. QED
        BY <1>2, <2>1, MbiIs DEF Reserving
<1>4. Kept' = Kept
    BY <1>1 DEF Kept
<1>5. last_kernel_phaddr' \in Kept' /\ last_kernel_phaddr' \in Nat
    BY <1>1, <1>3, <1>4
<1>6. Reserving'
    BY <1>1, <1>2, <1>5 DEF Reserving
<1>7. i' \in Nat \ {0}
    BY <1>1, <1>2
<1>8. QED
    BY <1>1, <1>2, <1>5, <1>6, <1>7 DEF BootSound

LEMMA MemorySizeBoot ==
    ASSUME BootSound, MemorySize
    PROVE  BootSound'
<1>1. /\ pc = "initial_process_multiboot" /\ memory_size' = mbi.memory /\ pc' = "memory_setup_paging"
      /\ mbi' = mbi /\ i' = i /\ last_kernel_phaddr' = last_kernel_phaddr /\ paging' = paging
      /\ kernel_page_tables' = kernel_page_tables /\ pages' = pages
      /\ vaddrs_free_list' = vaddrs_free_list
    BY DEF MemorySize
<1>2. /\ mbi \in BootInfo /\ i \in Nat \ {0} /\ last_kernel_phaddr \in Nat /\ Reserving
      /\ mbi.memory \in Nat
    BY <1>1, MbiIs DEF BootSound
<1>3. Reserving'
    BY <1>1, <1>2 DEF Reserving, Kept
<1>4. QED
    BY <1>1, <1>2, <1>3 DEF BootSound

LEMMA PagingBoot ==
    ASSUME BootSound, memory_setup_paging
    PROVE  BootSound'
<1>1. /\ pc = "memory_setup_paging" /\ kernel_page_tables' = InitialMapping /\ paging' = TRUE
      /\ pc' = "size" /\ i' = 1 /\ mbi' = mbi /\ last_kernel_phaddr' = last_kernel_phaddr
      /\ memory_size' = memory_size /\ pages' = pages /\ vaddrs_free_list' = vaddrs_free_list
    BY DEF memory_setup_paging
<1>2. /\ mbi \in BootInfo /\ last_kernel_phaddr \in Nat /\ memory_size \in Nat /\ Reserving
      /\ memory_size = mbi.memory
    BY <1>1 DEF BootSound
<1>3. SizeKnown(0)
    BY <1>2 DEF SizeKnown
<1>4. SizeKnown(i - 1)'
    BY <1>1, <1>3 DEF SizeKnown
<1>5. InitialMapping = 0 .. Ceil(last_kernel_phaddr) - 1
    BY DEF InitialMapping, Ceil
<1>6. Sizing'
    BY <1>1, <1>2, <1>4, <1>5 DEF Sizing, Reserving, Kept, Ceil
<1>7. QED
    BY <1>1, <1>2, <1>6 DEF BootSound

LEMMA SizeOfRegionBoot ==
    ASSUME BootSound, SizeOfRegion
    PROVE  BootSound'
<1> DEFINE r == mbi.map[i]
<1>1. /\ pc = "size" /\ mbi.memory = 0 /\ i <= Len(mbi.map)
      /\ memory_size' = IF Skipped(r) THEN memory_size ELSE Max({memory_size, EndOfRegion(r)})
      /\ i' = i + 1 /\ mbi' = mbi /\ pc' = pc /\ last_kernel_phaddr' = last_kernel_phaddr
      /\ paging' = paging /\ kernel_page_tables' = kernel_page_tables /\ pages' = pages
      /\ vaddrs_free_list' = vaddrs_free_list
    BY DEF SizeOfRegion
<1>2. /\ mbi \in BootInfo /\ i \in Nat \ {0} /\ last_kernel_phaddr \in Nat /\ memory_size \in Nat
      /\ Sizing
    BY <1>1 DEF BootSound
<1>3. i \in 1 .. Len(mbi.map) /\ EndOfRegion(r) \in Nat
    BY <1>1, <1>2, MbiIs, RegionIs
<1>4. \A j \in 1 .. Len(mbi.map) : EndOfRegion(mbi.map[j]) \in Nat
    BY <1>2, RegionIs
<1>5. SizeKnown(i - 1)
    BY <1>2 DEF Sizing
<1> DEFINE n == memory_size + EndOfRegion(r)
           I == {memory_size, EndOfRegion(r)}
<1>6. /\ ~Skipped(r) => memory_size' \in I /\ memory_size <= memory_size' /\ EndOfRegion(r) <= memory_size'
      /\ Skipped(r) => memory_size' = memory_size
    <2>1. n \in Nat /\ I \in SUBSET (0 .. n) /\ I # {}
        BY <1>2, <1>3
    <2>2. Max(I) \in I /\ \A y \in I : y <= Max(I)
        BY <2>1, MaxIsGreatest
    <2>3. QED
        BY <1>1, <2>2
<1>7. memory_size' \in Nat /\ memory_size <= memory_size'
    BY <1>2, <1>3, <1>6
<1>8. SizeKnown(i - 1)'
    <2>1. mbi'.memory = 0
        BY <1>1
    <2>2. \/ memory_size' = 0
          \/ \E j \in 1 .. Len(mbi.map) :
                ~Skipped(mbi.map[j]) /\ memory_size' = EndOfRegion(mbi.map[j])
        BY <1>1, <1>3, <1>5, <1>6 DEF SizeKnown
    <2>3. ASSUME NEW j \in 1 .. Len(mbi.map), j <= i, ~Skipped(mbi.map[j])
          PROVE  EndOfRegion(mbi.map[j]) <= memory_size'
        <3>1. CASE j = i
            BY <1>6, <2>3, <3>1
        <3>2. CASE j # i
            <4>1. j <= i - 1
                BY <1>2, <2>3, <3>2, MbiIs
            <4>2. EndOfRegion(mbi.map[j]) <= memory_size
                BY <1>1, <1>5, <2>3, <4>1 DEF SizeKnown
            <4>3. QED
                BY <1>2, <1>4, <1>7, <4>2
        <3>3. QED
            BY <3>1, <3>2
    <2>4. i' - 1 = i
        BY <1>1, <1>2
    <2>5. QED
        BY <1>1, <2>1, <2>2, <2>3, <2>4 DEF SizeKnown
<1>9. Sizing'
    BY <1>1, <1>2, <1>8 DEF Sizing, Kept, Ceil
<1>10. i' \in Nat \ {0}
    BY <1>1, <1>2
<1>11. QED
    BY <1>1, <1>2, <1>7, <1>9, <1>10 DEF BootSound


\* The size of memory when the map was read.
LEMMA SizeIs ==
    ASSUME mbi \in BootInfo, memory_size \in Nat, NEW n, SizeKnown(n)
    PROVE  memory_size % PageSize = 0 /\ PageOf(memory_size) <= PageOf(AddressLimit)
<1>1. memory_size % PageSize = 0 /\ memory_size <= AddressLimit
    <2>1. CASE mbi.memory # 0
        <3>1. PICK e : Home(e)
            BY HomeExists
        <3>2. memory_size = e
            BY <2>1, <3>1 DEF SizeKnown, Home
        <3>3. QED
            BY <3>1, <3>2, Constants DEF Home
    <2>2. CASE mbi.memory = 0 /\ memory_size = 0
        <3>1. 0 % PageSize = 0
            BY PageSizeIs
        <3>2. QED
            BY <2>2, <3>1, Constants
    <2>3. CASE mbi.memory = 0 /\ memory_size # 0
        <3>1. PICK j \in 1 .. Len(mbi.map) :
                    ~Skipped(mbi.map[j]) /\ memory_size = EndOfRegion(mbi.map[j])
            BY <2>3 DEF SizeKnown
        <3>2. EndOfRegion(mbi.map[j]) \in Nat /\ EndOfRegion(mbi.map[j]) % PageSize = 0
            BY RegionIs
        <3>3. QED
            BY <3>1, <3>2, Constants DEF Skipped
    <2>4. QED
        BY <2>1, <2>2, <2>3
<1>2. QED
    BY <1>1, Constants, PageOfGrows

LEMMA AllocatePagesBoot ==
    ASSUME BootSound, AllocatePages
    PROVE  BootSound'
<1> DEFINE a == last_kernel_phaddr
           aligned == ((a + 3) \div 4) * 4
           count == PageOf(memory_size + PageSize - 1)
           end == aligned + PageStruct * count
<1>1. /\ pc = "size" /\ (mbi.memory # 0 \/ i > Len(mbi.map))
      /\ kernel_page_tables' =
            kernel_page_tables \cup PageOf(PAGE_END(aligned)) .. PageOf(PAGE_END(end)) - 1
      /\ last_kernel_phaddr' = PAGE_END(end)
      /\ pages' = [count |-> count, free |-> NoLists, order |-> [p \in 0 .. count - 1 |-> -1]]
      /\ pc' = "pool" /\ i' = 1 /\ mbi' = mbi /\ memory_size' = memory_size /\ paging' = paging
      /\ vaddrs_free_list' = vaddrs_free_list
    BY DEF AllocatePages, memory_map_kernel_range, NoLists
<1>2. /\ mbi \in BootInfo /\ i \in Nat \ {0} /\ a \in Nat /\ memory_size \in Nat
      /\ Sizing /\ a \in Kept /\ SizeKnown(i - 1)
    BY <1>1 DEF BootSound, Sizing
<1>3. /\ memory_size % PageSize = 0 /\ count = PageOf(memory_size) /\ count \in Nat
      /\ count <= PageOf(AddressLimit)
    <2>1. memory_size % PageSize = 0 /\ PageOf(memory_size) <= PageOf(AddressLimit)
        BY <1>2, SizeIs
    <2>2. count = Ceil(memory_size)
        BY DEF Ceil
    <2>3. QED
        BY <1>2, <2>1, <2>2, WholePages
<1>4. aligned \in Nat /\ a <= aligned /\ aligned <= a + 3 /\ Ceil(aligned) = Ceil(a)
    BY <1>2, AlignedUp
<1> HIDE DEF count, aligned
<1>5. PICK e : Home(e)
    BY <1>2, HomeExists
<1>6. end \in Nat /\ a <= end /\ end <= e
    <2>1. a + 4 + PageStruct * PageOf(AddressLimit) <= e /\ e \in Nat
        BY <1>2, <1>5 DEF Home
    <2>2. /\ PageStruct * count <= PageStruct * PageOf(AddressLimit)
          /\ PageStruct * count \in Nat /\ PageStruct * PageOf(AddressLimit) \in Nat
        BY <1>3, Constants
    <2>3. QED
        BY <1>2, <1>4, <2>1, <2>2
<1> HIDE DEF end, a
<1>7. /\ PAGE_END(end) \in Nat /\ PAGE_END(end) % PageSize = 0
      /\ PageOf(PAGE_END(end)) = Ceil(end) /\ Ceil(end) \in Nat
      /\ PageOf(PAGE_END(aligned)) = Ceil(a) /\ Ceil(a) \in Nat /\ Ceil(a) <= Ceil(end)
    <2>1. /\ PAGE_END(end) \in Nat /\ PAGE_END(end) % PageSize = 0
          /\ PageOf(PAGE_END(end)) = Ceil(end) /\ Ceil(end) \in Nat
          /\ end <= PageSize * Ceil(end)
        BY <1>6, CeilIs
    <2>2. PageOf(PAGE_END(aligned)) = Ceil(a) /\ Ceil(a) \in Nat
        BY <1>2, <1>4, CeilIs
    <2>3. PageSize * Ceil(end) \in Nat
        BY <2>1, PageSizeIs
    <2>4. a <= PageSize * Ceil(end)
        BY <1>2, <1>6, <2>1, <2>3
    <2>5. Ceil(a) <= Ceil(end)
        BY <1>2, <2>1, <2>4, CeilIs
    <2>6. QED
        BY <2>1, <2>2, <2>5
<1>8. Ceil(end) <= KERNEL_MEMORY_PAGES
    BY <1>2, <1>5, <1>6, HomeFits
<1>9. kernel_page_tables' = 0 .. PageOf(last_kernel_phaddr') - 1
    <2>1. kernel_page_tables = 0 .. Ceil(a) - 1
        BY <1>2 DEF Sizing, a
    <2>2. kernel_page_tables' = (0 .. Ceil(a) - 1) \cup (Ceil(a) .. Ceil(end) - 1)
        BY <1>1, <1>7, <2>1
    <2>3. PageOf(last_kernel_phaddr') = Ceil(end)
        BY <1>1, <1>7
    <2>4. QED
        BY <1>7, <2>2, <2>3
<1>10. SizeKnown(Len(mbi.map))'
    <2>1. Len(mbi.map) \in Nat
        BY <1>2, MbiIs
    <2>2. mbi.memory = 0 => \A j \in 1 .. Len(mbi.map) : j <= i - 1
        BY <1>1, <1>2, <2>1
    <2>3. SizeKnown(Len(mbi.map))
        BY <1>2, <2>2 DEF SizeKnown
    <2>4. QED
        BY <1>1, <2>3 DEF SizeKnown
<1>11. PoolTypeOK(pages') /\ pages'.count = count /\ pages'.free = NoLists
    <2>1. pages'.count = count /\ pages'.free = NoLists /\ pages'.order = [p \in 0 .. count - 1 |-> -1]
        BY <1>1
    <2>2. pages' = [count |-> pages'.count, free |-> pages'.free, order |-> pages'.order]
        BY <1>1, <2>1
    <2>3. NoLists \in [Order -> Seq(0 .. count - 1)]
        BY DEF NoLists
    <2>4. [p \in 0 .. count - 1 |-> -1] \in [0 .. count - 1 -> Order \cup {-1}]
        OBVIOUS
    <2>5. QED
        BY <1>3, <2>1, <2>2, <2>3, <2>4 DEF PoolTypeOK, Index
<1>12. ListsCover(pages.free, pages.count, Added(i - 1))'
    <2>1. ListsCover(NoLists, count, {})
        BY <1>3, NothingCovers DEF NoLists
    <2>2. Added(i - 1)' = {}
        BY <1>1 DEF Added
    <2>3. ListsCover(pages'.free, pages'.count, Added(i - 1)')
        BY <1>11, <2>1, <2>2
    <2>4. QED
        BY <2>3 DEF ListsCover
<1>13. /\ paging' = TRUE /\ last_kernel_phaddr' % PageSize = 0
       /\ PageOf(last_kernel_phaddr') <= KERNEL_MEMORY_PAGES
       /\ memory_size' % PageSize = 0 /\ pages'.count = PageOf(memory_size')
    BY <1>1, <1>2, <1>3, <1>7, <1>8, <1>11 DEF Sizing
<1>14. PoolTypeOK(pages)'
    BY <1>11 DEF PoolTypeOK, Index
<1>15. Placed'
    BY <1>9, <1>10, <1>12, <1>13, <1>14, Zenon DEF Placed
<1>16. vaddrs_free_list' = NoLists /\ last_kernel_phaddr' \in Nat /\ i' \in Nat \ {0}
    BY <1>1, <1>2, <1>7 DEF Sizing
<1>17. QED
    BY <1>1, <1>2, <1>15, <1>16 DEF BootSound

\* The regions are the same ones after a turn of the last loop.
LEMMA RegionsStay ==
    ASSUME mbi' = mbi, last_kernel_phaddr' = last_kernel_phaddr, memory_size' = memory_size
    PROVE  /\ SizeKnown(Len(mbi.map))' <=> SizeKnown(Len(mbi.map))
           /\ \A n : Added(n)' = Added(n)
<1>1. \A j : Used(j)' <=> Used(j)
    BY DEF Used
<1>2. \A j : First(j)' = First(j) /\ Hi(j)' = Hi(j)
    BY DEF First, FirstFree, Hi
<1>3. \A n : Added(n)' = Added(n)
    BY <1>1, <1>2 DEF Added
<1>4. SizeKnown(Len(mbi.map))' <=> SizeKnown(Len(mbi.map))
    BY DEF SizeKnown
<1>5. QED
    BY <1>3, <1>4

LEMMA AddRegionBoot ==
    ASSUME BootSound, AddRegion
    PROVE  BootSound'
<1> DEFINE r == mbi.map[i]
           n == pages.count
           P == Added(i - 1)
           more == add_pages_to_pool(PageOf(FirstFree(r)), PageOf(EndOfRegion(r) + PageSize - 1))
           from == First(i)
           to == Hi(i)
           free == Joined(pages.free, more)
<1>1. /\ pc = "pool" /\ i <= Len(mbi.map)
      /\ ~Skipped(r) /\ EndOfRegion(r) > last_kernel_phaddr /\ r.base < memory_size
      /\ pages' = [pages EXCEPT !.free = free]
      /\ i' = i + 1 /\ mbi' = mbi /\ pc' = pc /\ last_kernel_phaddr' = last_kernel_phaddr
      /\ memory_size' = memory_size /\ paging' = paging /\ kernel_page_tables' = kernel_page_tables
      /\ vaddrs_free_list' = vaddrs_free_list
    BY DEF AddRegion
<1>2. /\ mbi \in BootInfo /\ i \in Nat \ {0} /\ last_kernel_phaddr \in Nat /\ memory_size \in Nat
      /\ Placed /\ vaddrs_free_list = NoLists
    BY <1>1 DEF BootSound
<1>3. /\ last_kernel_phaddr % PageSize = 0 /\ memory_size % PageSize = 0
      /\ SizeKnown(Len(mbi.map)) /\ PoolTypeOK(pages) /\ n = PageOf(memory_size)
      /\ ListsCover(pages.free, n, P)
    BY <1>2 DEF Placed
<1>4. i \in 1 .. Len(mbi.map) /\ Used(i) /\ Len(mbi.map) \in Nat
    BY <1>1, <1>2, MbiIs DEF Used
<1>5. from \in Nat /\ to \in Nat /\ from <= to /\ to <= n /\ n \in Nat
    <2>1. /\ First(i) \in Nat /\ First(i) <= Hi(i) /\ Hi(i) <= PageOf(memory_size)
        BY <1>2, <1>3, <1>4, UsedIs
    <2>2. Hi(i) \in Nat /\ PageOf(memory_size) \in Nat
        BY <1>2, <1>3, <1>4, RegionIs, WholePages
    <2>3. QED
        BY <1>3, <2>1, <2>2
<1>6. more = add_pages_to_pool(from, to)
    <2>1. EndOfRegion(r) \in Nat /\ EndOfRegion(r) % PageSize = 0
        BY <1>2, <1>4, RegionIs
    <2>2. Ceil(EndOfRegion(r)) = PageOf(EndOfRegion(r))
        BY <2>1, WholePages
    <2>3. QED
        BY <2>2 DEF Ceil, First, Hi
<1> HIDE DEF more, from, to, n, P
<1>7. ListsCover(more, n, from .. to - 1)
    BY <1>5, <1>6, AddedCover
\* Its pages are none of those that were added before.
<1>8. \A v \in Nat : ~(v \in P /\ v \in from .. to - 1)
    <2>1. SUFFICES ASSUME NEW v \in Nat, v \in P, from <= v, v < to
                   PROVE  FALSE
        BY <1>5
    <2>2. PICK j \in 1 .. Len(mbi.map) : j <= i - 1 /\ Used(j) /\ First(j) <= v /\ v < Hi(j)
        BY <2>1 DEF P, Added
    <2>3. j # i
        BY <1>2, <2>2
    <2>4. Lo(i) <= v /\ v < Hi(i)
        BY <1>2, <1>3, <1>4, <2>1, UsedIs DEF from, to
    <2>5. Lo(j) <= v
        BY <1>2, <1>3, <2>2, UsedIs
    <2>6. Hi(i) <= Lo(j) \/ Hi(j) <= Lo(i)
        BY <1>2, <1>4, <2>3, RegionsApart
    <2>7. Lo(i) \in Nat /\ Hi(i) \in Nat /\ Lo(j) \in Nat /\ Hi(j) \in Nat
        BY <1>2, <1>4, RegionIs
    <2>8. QED
        BY <2>2, <2>4, <2>5, <2>6, <2>7
<1>9. ListsCover(free, n, P \cup from .. to - 1)
    BY <1>3, <1>5, <1>7, <1>8, JoinCovers
<1>10. Added(i) = P \cup (from .. to - 1)
    <2>1. ASSUME NEW v \in Nat
          PROVE  v \in Added(i) <=> v \in P \/ v \in from .. to - 1
        <3>1. \A j \in 1 .. Len(mbi.map) : j <= i <=> j <= i - 1 \/ j = i
            BY <1>2, <1>4
        <3>2. v \in from .. to - 1 <=> First(i) <= v /\ v < Hi(i)
            BY <1>5 DEF from, to
        <3>3. v \in Added(i) <=>
                \E j \in 1 .. Len(mbi.map) : j <= i /\ Used(j) /\ First(j) <= v /\ v < Hi(j)
            BY DEF Added
        <3>4. v \in P <=>
                \E j \in 1 .. Len(mbi.map) : j <= i - 1 /\ Used(j) /\ First(j) <= v /\ v < Hi(j)
            BY DEF P, Added
        <3>5. i <= i
            BY <1>2
        <3>6. QED
            BY <1>4, <3>1, <3>2, <3>3, <3>4, Zenon
    <2>2. Added(i) \subseteq Nat /\ P \subseteq Nat /\ from .. to - 1 \subseteq Nat
        BY <1>5 DEF P, Added
    <2>3. QED
        BY <2>1, <2>2
<1>11. ListsCover(free, n, Added(i))
    BY <1>9, <1>10
<1>12. free \in [Order -> Seq(0 .. n - 1)]
    BY <1>11 DEF ListsCover
<1> HIDE DEF free
<1>13. PoolTypeOK(pages') /\ pages'.count = n /\ pages'.free = free
    <2>1. /\ pages = [count |-> pages.count, free |-> pages.free, order |-> pages.order]
          /\ n \in Nat /\ pages.order \in [0 .. n - 1 -> Order \cup {-1}]
        BY <1>3, <1>5 DEF PoolTypeOK, Index, n
    <2>2. pages' = [count |-> n, free |-> free, order |-> pages.order]
        BY <1>1, <2>1 DEF n
    <2>3. pages'.count = n /\ pages'.free = free /\ pages'.order = pages.order
        BY <2>2
    <2>4. QED
        BY <1>12, <2>1, <2>2, <2>3 DEF PoolTypeOK, Index
<1>14. PoolTypeOK(pages)'
    BY <1>13 DEF PoolTypeOK, Index
<1>15. /\ SizeKnown(Len(mbi.map))' /\ \A m : Added(m)' = Added(m)
    BY <1>1, <1>3, RegionsStay
<1>16. ListsCover(pages.free, pages.count, Added(i - 1))'
    <2>1. i' - 1 = i
        BY <1>1, <1>2
    <2>2. Added(i - 1)' = Added(i)
        BY <1>1, <1>15, <2>1 DEF Added
    <2>3. ListsCover(pages'.free, pages'.count, Added(i - 1)')
        BY <1>11, <1>13, <2>2
    <2>4. QED
        BY <2>3 DEF ListsCover
<1>17. /\ paging' = TRUE /\ kernel_page_tables' = 0 .. PageOf(last_kernel_phaddr') - 1
       /\ last_kernel_phaddr' % PageSize = 0 /\ PageOf(last_kernel_phaddr') <= KERNEL_MEMORY_PAGES
       /\ memory_size' % PageSize = 0 /\ pages'.count = PageOf(memory_size')
    BY <1>1, <1>2, <1>3, <1>13 DEF Placed
<1>18. Placed'
    BY <1>14, <1>15, <1>16, <1>17, Zenon DEF Placed
<1>19. i' \in Nat \ {0}
    BY <1>1, <1>2
<1>20. QED
    BY <1>1, <1>2, <1>18, <1>19 DEF BootSound


LEMMA SkipRegionBoot ==
    ASSUME BootSound, SkipRegion
    PROVE  BootSound'
<1> DEFINE r == mbi.map[i]
<1>1. /\ pc = "pool" /\ i <= Len(mbi.map)
      /\ Skipped(r) \/ EndOfRegion(r) <= last_kernel_phaddr \/ r.base >= memory_size
      /\ i' = i + 1 /\ mbi' = mbi /\ pc' = pc /\ last_kernel_phaddr' = last_kernel_phaddr
      /\ memory_size' = memory_size /\ paging' = paging /\ kernel_page_tables' = kernel_page_tables
      /\ pages' = pages /\ vaddrs_free_list' = vaddrs_free_list
    BY DEF SkipRegion
<1>2. /\ mbi \in BootInfo /\ i \in Nat \ {0} /\ last_kernel_phaddr \in Nat /\ memory_size \in Nat
      /\ Placed /\ vaddrs_free_list = NoLists
    BY <1>1 DEF BootSound
<1>3. ~Used(i)
    <2>1. i \in 1 .. Len(mbi.map)
        BY <1>1, <1>2, MbiIs
    <2>2. EndOfRegion(r) \in Nat /\ r.base \in Nat
        BY <1>2, <2>1, RegionIs
    <2>3. QED
        BY <1>1, <1>2, <2>2 DEF Used
<1>4. Added(i) = Added(i - 1)
    <2>1. \A j \in 1 .. Len(mbi.map) : Used(j) => (j <= i <=> j <= i - 1)
        <3>1. SUFFICES ASSUME NEW j \in 1 .. Len(mbi.map), Used(j)
                       PROVE  j <= i <=> j <= i - 1
            OBVIOUS
        <3>2. j # i
            BY <1>3, <3>1
        <3>3. j \in Int
            BY <1>2, MbiIs
        <3>4. QED
            BY <1>2, <3>2, <3>3
    <2>2. QED
        BY <2>1 DEF Added
<1>5. SizeKnown(Len(mbi.map))' /\ \A m : Added(m)' = Added(m)
    BY <1>1, <1>2, RegionsStay DEF Placed
<1>6. ListsCover(pages.free, pages.count, Added(i - 1))'
    <2>1. i' - 1 = i
        BY <1>1, <1>2
    <2>2. Added(i - 1)' = Added(i)
        BY <1>1, <1>5, <2>1 DEF Added
    <2>3. ListsCover(pages'.free, pages'.count, Added(i - 1)')
        BY <1>1, <1>2, <1>4, <2>2 DEF Placed
    <2>4. QED
        BY <2>3 DEF ListsCover
<1>7. PoolTypeOK(pages)'
    BY <1>1, <1>2 DEF Placed, PoolTypeOK, Index
<1>8. Placed'
    <2>1. /\ paging' = TRUE /\ kernel_page_tables' = 0 .. PageOf(last_kernel_phaddr') - 1
          /\ last_kernel_phaddr' % PageSize = 0
          /\ PageOf(last_kernel_phaddr') <= KERNEL_MEMORY_PAGES
          /\ memory_size' % PageSize = 0 /\ pages'.count = PageOf(memory_size')
        BY <1>1, <1>2 DEF Placed
    <2>2. QED
        BY <1>5, <1>6, <1>7, <2>1, Zenon DEF Placed
<1>9. i' \in Nat \ {0}
    BY <1>1, <1>2
<1>10. QED
    BY <1>1, <1>2, <1>8, <1>9 DEF BootSound

\* Nothing Placed speaks of changes.
LEMMA PlacedStays ==
    ASSUME Placed, mbi' = mbi, i' = i, last_kernel_phaddr' = last_kernel_phaddr,
           memory_size' = memory_size, paging' = paging,
           kernel_page_tables' = kernel_page_tables, pages' = pages
    PROVE  Placed'
<1>1. SizeKnown(Len(mbi.map))' /\ \A m : Added(m)' = Added(m)
    BY RegionsStay DEF Placed
<1>2. ListsCover(pages.free, pages.count, Added(i - 1))'
    <2>1. Added(i - 1)' = Added(i - 1)
        BY <1>1 DEF Added
    <2>2. ListsCover(pages'.free, pages'.count, Added(i - 1)')
        BY <2>1 DEF Placed
    <2>3. QED
        BY <2>2 DEF ListsCover
<1>3. PoolTypeOK(pages)'
    BY DEF Placed, PoolTypeOK, Index
<1>4. /\ paging' = TRUE /\ kernel_page_tables' = 0 .. PageOf(last_kernel_phaddr') - 1
      /\ last_kernel_phaddr' % PageSize = 0
      /\ PageOf(last_kernel_phaddr') <= KERNEL_MEMORY_PAGES
      /\ memory_size' % PageSize = 0 /\ pages'.count = PageOf(memory_size')
    BY DEF Placed
<1>5. QED
    BY <1>1, <1>2, <1>3, <1>4, Zenon DEF Placed

LEMMA AddVaddrsBoot ==
    ASSUME BootSound, AddVaddrs
    PROVE  BootSound'
<1>1. /\ pc = "pool" /\ i > Len(mbi.map)
      /\ vaddrs_free_list' = add_pages_to_pool(PageOf(last_kernel_phaddr), KERNEL_MEMORY_PAGES)
      /\ pc' = "booted" /\ i' = i /\ mbi' = mbi /\ last_kernel_phaddr' = last_kernel_phaddr
      /\ memory_size' = memory_size /\ paging' = paging /\ kernel_page_tables' = kernel_page_tables
      /\ pages' = pages
    BY DEF AddVaddrs
<1>2. /\ mbi \in BootInfo /\ i \in Nat \ {0} /\ last_kernel_phaddr \in Nat /\ memory_size \in Nat
      /\ Placed
    BY <1>1 DEF BootSound
<1>3. Placed'
    BY <1>1, <1>2, PlacedStays
<1>4. /\ i' > Len(mbi'.map)
      /\ vaddrs_free_list' = add_pages_to_pool(PageOf(last_kernel_phaddr'), KERNEL_MEMORY_PAGES)
    BY <1>1
<1>5. QED
    BY <1>1, <1>2, <1>3, <1>4 DEF BootSound

LEMMA StutterBoot ==
    ASSUME BootSound, UNCHANGED vars
    PROVE  BootSound'
<1>1. /\ pc' = pc /\ i' = i /\ mbi' = mbi /\ last_kernel_phaddr' = last_kernel_phaddr
      /\ memory_size' = memory_size /\ paging' = paging /\ kernel_page_tables' = kernel_page_tables
      /\ pages' = pages /\ vaddrs_free_list' = vaddrs_free_list
    BY DEF vars
<1>2. Reserving => Reserving'
    BY <1>1 DEF Reserving, Kept
<1>3. Sizing => Sizing'
    BY <1>1 DEF Sizing, Kept, SizeKnown
<1>4. Placed => Placed'
    BY <1>1, PlacedStays
<1>5. QED
    BY <1>1, <1>2, <1>3, <1>4 DEF BootSound

LEMMA BootSoundAlways == Spec => []BootSound
<1>1. BootSound /\ [Next]_vars => BootSound'
    <2>1. SUFFICES ASSUME BootSound, [Next]_vars
                   PROVE  BootSound'
        OBVIOUS
    <2>2. CASE UNCHANGED vars
        BY <2>1, <2>2, StutterBoot
    <2>3. CASE Next
        BY <2>1, <2>3, ReserveBoot, MemorySizeBoot, PagingBoot, SizeOfRegionBoot, AllocatePagesBoot,
           AddRegionBoot, SkipRegionBoot, AddVaddrsBoot DEF Next
    <2>4. QED
        BY <2>1, <2>2, <2>3
<1>2. QED
    BY <1>1, InitBoot, PTL DEF Spec

-----------------------------------------------------------------------------
(* What follows from it.                                                   *)

LEMMA NoPoolIs == PoolTypeOK(NoPool)
<1>1. NoPool.count = 0 /\ NoPool.free = NoLists /\ NoPool.order = <<>>
    BY DEF NoPool, NoLists
<1>2. NoPool = [count |-> NoPool.count, free |-> NoPool.free, order |-> NoPool.order]
    BY <1>1 DEF NoPool, NoLists
<1>3. Index(NoPool) = {}
    BY <1>1 DEF Index
<1>4. NoLists \in [Order -> Seq({})]
    BY DEF NoLists
<1>5. <<>> \in [{} -> Order \cup {-1}]
    OBVIOUS
<1>6. QED
    BY <1>1, <1>2, <1>3, <1>4, <1>5 DEF PoolTypeOK

LEMMA SoundIsMapped ==
    ASSUME BootSound
    PROVE  BootInvariant
<1> DEFINE a == last_kernel_phaddr
           q == PageOf(PAGE_END(a))
<1>1. /\ mbi \in BootInfo /\ i \in Nat \ {0} /\ a \in Nat /\ memory_size \in Nat
      /\ pc \in {"initial_process_multiboot", "memory_setup_paging", "size", "pool", "booted"}
      /\ Reserving \/ Sizing \/ Placed
    BY DEF BootSound
<1>2. Ceil(a) \in Nat /\ q = Ceil(a)
    BY <1>1, CeilIs
<1>3. /\ paging \in BOOLEAN /\ kernel_page_tables \subseteq 0 .. KERNEL_MEMORY_PAGES - 1
      /\ PoolTypeOK(pages) /\ (paging => kernel_page_tables = 0 .. q - 1)
    <2>1. CASE Reserving
        BY <2>1, NoPoolIs DEF Reserving
    <2>2. CASE Sizing
        <3>1. /\ paging = TRUE /\ kernel_page_tables = 0 .. Ceil(a) - 1 /\ a \in Kept /\ pages = NoPool
            BY <2>2 DEF Sizing
        <3>2. PICK e : Home(e)
            BY <1>1, HomeExists
        <3>3. Ceil(a) <= KERNEL_MEMORY_PAGES
            BY <1>1, <3>1, <3>2, HomeFits
        <3>4. PoolTypeOK(pages)
            BY <3>1, NoPoolIs
        <3> HIDE DEF a, q
        <3>5. kernel_page_tables \subseteq 0 .. KERNEL_MEMORY_PAGES - 1
            BY <1>2, <3>1, <3>3, Constants
        <3>6. QED
            BY <1>2, <3>1, <3>4, <3>5
    <2>3. CASE Placed
        <3>1. /\ paging = TRUE /\ kernel_page_tables = 0 .. PageOf(a) - 1 /\ a % PageSize = 0
              /\ PageOf(a) <= KERNEL_MEMORY_PAGES /\ PoolTypeOK(pages)
            BY <2>3 DEF Placed
        <3>2. PageOf(a) = Ceil(a)
            BY <1>1, <3>1, WholePages
        <3> HIDE DEF a, q
        <3>3. kernel_page_tables \subseteq 0 .. KERNEL_MEMORY_PAGES - 1
            BY <1>2, <3>1, <3>2, Constants
        <3>4. QED
            BY <1>2, <3>1, <3>2, <3>3
    <2>4. QED
        BY <1>1, <2>1, <2>2, <2>3
<1>4. vaddrs_free_list \in [Order -> Seq(0 .. KERNEL_MEMORY_PAGES - 1)]
    <2>1. CASE vaddrs_free_list = NoLists
        BY <2>1, Constants, NothingCovers DEF ListsCover, NoLists
    <2>2. CASE vaddrs_free_list # NoLists
        <3>1. Placed /\ vaddrs_free_list = add_pages_to_pool(PageOf(a), KERNEL_MEMORY_PAGES)
            BY <2>2 DEF BootSound, Reserving, Sizing
        <3>2. PageOf(a) \in 0 .. KERNEL_MEMORY_PAGES
            BY <1>1, <3>1, WholePages, Constants DEF Placed
        <3>3. KERNEL_MEMORY_PAGES \in Nat /\ KERNEL_MEMORY_PAGES <= KERNEL_MEMORY_PAGES
            BY Constants
        <3>4. ListsCover(vaddrs_free_list, KERNEL_MEMORY_PAGES, PageOf(a) .. KERNEL_MEMORY_PAGES - 1)
            BY <3>1, <3>2, <3>3, AddedCover
        <3>5. QED
            BY <3>4 DEF ListsCover
    <2>3. QED
        BY <2>1, <2>2
<1>5. TypeOK
    BY <1>1, <1>3, <1>4, Zenon DEF TypeOK
<1>6. KernelIsMapped
    BY <1>3, Zenon DEF KernelIsMapped
<1>7. QED
    BY <1>5, <1>6 DEF BootInvariant

\* Booted, every region has been looked at: the pages added are those of
\* FreePages.
LEMMA AddedIsFreePages ==
    ASSUME mbi \in BootInfo, last_kernel_phaddr \in Nat, last_kernel_phaddr % PageSize = 0,
           memory_size \in Nat, memory_size % PageSize = 0, SizeKnown(Len(mbi.map)),
           i \in Nat, i > Len(mbi.map)
    PROVE  Added(i - 1) = FreePages
<1> DEFINE n == Len(mbi.map)
           k == PageOf(last_kernel_phaddr)
           Good(j) == /\ IsRam(mbi.map[j]) /\ EndOfRegion(mbi.map[j]) < AddressLimit
                      /\ (mbi.memory # 0 => mbi.map[j].base < mbi.memory)
<1>1. n \in Nat /\ DOMAIN mbi.map = 1 .. n /\ k \in Nat
    BY MbiIs, WholePages
<1>2. \A p : p \in FreePages <=>
            \E j \in 1 .. n : Good(j) /\ p \in Lo(j) .. Hi(j) - 1 /\ p >= k
    <2> DEFINE Gives(r, p) ==
                    /\ IsRam(r) /\ EndOfRegion(r) < AddressLimit
                    /\ (mbi.memory # 0 => r.base < mbi.memory)
                    /\ p \in PageOf(r.base) .. PageOf(EndOfRegion(r)) - 1
                    /\ p >= PageOf(last_kernel_phaddr)
    <2>1. \A p : p \in FreePages <=> \E r \in ToSet(mbi.map) : Gives(r, p)
        BY DEF FreePages
    <2>2. \A j, p : Gives(mbi.map[j], p) <=> Good(j) /\ p \in Lo(j) .. Hi(j) - 1 /\ p >= k
        BY DEF Lo, Hi
    <2> HIDE DEF Gives, Good, k, n
    <2>3. \A r : r \in ToSet(mbi.map) <=> \E j \in 1 .. n : r = mbi.map[j]
        BY <1>1, Zenon DEF ToSet
    <2>4. \A p : p \in FreePages <=> \E j \in 1 .. n : Gives(mbi.map[j], p)
        BY <2>1, <2>3, Zenon
    <2>5. QED
        BY <2>2, <2>4, Zenon
<1>3. \A p : p \in Added(i - 1) <=>
            p \in Nat /\ \E j \in 1 .. n : Used(j) /\ First(j) <= p /\ p < Hi(j)
    <2>1. \A j \in 1 .. n : j <= i - 1
        BY <1>1
    <2>2. QED
        BY <2>1 DEF Added
<1>4. ASSUME NEW p \in Nat, NEW j \in 1 .. n
      PROVE  Used(j) /\ First(j) <= p /\ p < Hi(j) <=>
                Good(j) /\ p \in Lo(j) .. Hi(j) - 1 /\ p >= k
    <2> DEFINE r == mbi.map[j]
    <2>1. /\ r.base \in Nat /\ r.base % PageSize = 0
          /\ EndOfRegion(r) \in Nat /\ EndOfRegion(r) % PageSize = 0
          /\ Lo(j) \in Nat /\ Hi(j) \in Nat
        BY RegionIs
    <2>2. Skipped(r) <=> ~IsRam(r) \/ ~(EndOfRegion(r) < AddressLimit)
        BY <2>1, Constants DEF Skipped
    <2>3. ASSUME Used(j), First(j) <= p, p < Hi(j)
          PROVE  Good(j) /\ p \in Lo(j) .. Hi(j) - 1 /\ p >= k
        <3>1. Lo(j) <= p /\ k <= p
            BY <2>3, UsedIs
        <3>2. mbi.memory # 0 => r.base < mbi.memory
            BY <2>3 DEF Used, SizeKnown
        <3>3. IsRam(r) /\ EndOfRegion(r) < AddressLimit
            BY <2>2, <2>3 DEF Used
        <3>4. p \in Lo(j) .. Hi(j) - 1
            BY <2>1, <2>3, <3>1
        <3>5. p >= k
            BY <1>1, <3>1
        <3>6. QED
            BY <3>2, <3>3, <3>4, <3>5
    <2>4. ASSUME Good(j), p \in Lo(j) .. Hi(j) - 1, p >= k
          PROVE  Used(j) /\ First(j) <= p /\ p < Hi(j)
        <3>1. Lo(j) <= p /\ p < Hi(j) /\ k <= p
            BY <1>1, <2>1, <2>4
        <3>2. ~Skipped(r)
            BY <2>2, <2>4
        <3>3. k < Hi(j) /\ Lo(j) < Hi(j)
            BY <1>1, <2>1, <3>1
        <3>4. last_kernel_phaddr < EndOfRegion(r) /\ r.base < EndOfRegion(r)
            BY <2>1, <3>3, WholePages DEF Lo, Hi
        <3>5. r.base < memory_size
            <4>1. CASE mbi.memory # 0
                BY <2>4, <4>1 DEF SizeKnown
            <4>2. CASE mbi.memory = 0
                <5>1. j <= n
                    BY <1>1
                <5>2. EndOfRegion(r) <= memory_size
                    BY <3>2, <4>2, <5>1 DEF SizeKnown
                <5> HIDE DEF r
                <5>3. QED
                    BY <2>1, <3>4, <5>2
            <4>3. QED
                BY <4>1, <4>2
        <3>6. EndOfRegion(r) > last_kernel_phaddr
            BY <2>1, <3>4
        <3>7. Used(j)
            BY <3>2, <3>5, <3>6 DEF Used
        <3>8. First(j) <= p
            BY <3>1, <3>7, UsedIs
        <3>9. QED
            BY <3>1, <3>7, <3>8
    <2>5. QED
        BY <2>3, <2>4
<1>5. \A p : p \in FreePages => p \in Nat
    <2>1. SUFFICES ASSUME NEW p, p \in FreePages
                   PROVE  p \in Nat
        OBVIOUS
    <2>2. PICK j \in 1 .. n : p \in Lo(j) .. Hi(j) - 1
        BY <1>2, <2>1
    <2>3. Lo(j) \in Nat /\ Hi(j) \in Nat
        BY RegionIs
    <2>4. QED
        BY <2>2, <2>3
<1> HIDE DEF Good, n, k
<1>6. \A p : p \in Added(i - 1) <=> p \in FreePages
    <2>1. ASSUME NEW p \in Nat
          PROVE  p \in Added(i - 1) <=> p \in FreePages
        BY <1>2, <1>3, <1>4, Zenon
    <2>2. QED
        BY <1>3, <1>5, <2>1, Zenon
<1>7. QED
    BY <1>6


LEMMA SoundIsFreeRam ==
    ASSUME BootSound
    PROVE  PoolIsFreeRam
<1> DEFINE F == FreeBlocks(pages)
<1>1. SUFFICES ASSUME pc = "booted"
               PROVE  /\ UNION {Span(b.index, b.order) : b \in F} = FreePages
                      /\ \A b, c \in F :
                            Span(b.index, b.order) \cap Span(c.index, c.order) # {} => b = c
                      /\ \A o \in Order : NoDuplicates(pages.free[o])
                      /\ \A b \in F : b.index % 2^b.order = 0
    BY DEF PoolIsFreeRam
<1>2. /\ mbi \in BootInfo /\ i \in Nat /\ last_kernel_phaddr \in Nat /\ memory_size \in Nat
      /\ Placed /\ i > Len(mbi.map)
    BY <1>1 DEF BootSound
<1>3. /\ last_kernel_phaddr % PageSize = 0 /\ memory_size % PageSize = 0 /\ SizeKnown(Len(mbi.map))
      /\ PoolTypeOK(pages) /\ ListsCover(pages.free, pages.count, Added(i - 1))
    BY <1>2, Zenon DEF Placed
<1>4. Added(i - 1) = FreePages
    BY <1>2, <1>3, AddedIsFreePages
<1>5. F = BlocksOf(pages.free)
    BY <1>3, FreeBlocksOf
<1> HIDE DEF F
<1>6. /\ \A o \in Order : NoDuplicates(pages.free[o])
      /\ Covers(F, FreePages)
    BY <1>3, <1>4, <1>5, Zenon DEF ListsCover
<1>7. /\ F \subseteq BlockSet
      /\ \A b \in F : b.index % 2^b.order = 0
      /\ \A b, c \in F, v \in Nat : v \in SpanOf(b) /\ v \in SpanOf(c) => b = c
      /\ \A v \in Nat : v \in FreePages <=> \E b \in F : v \in SpanOf(b)
    BY <1>6, Zenon DEF Covers
<1>8. \A b \in F : \A v : v \in SpanOf(b) => v \in Nat
    <2>1. \A b \in F : b \in BlockSet
        BY <1>7
    <2>2. \A b \in BlockSet : b.index \in Nat /\ 2^b.order \in Nat \ {0}
        BY Starts
    <2>3. QED
        BY <2>1, <2>2 DEF SpanOf, Span
<1>9. FreePages \subseteq Nat
    BY <1>4 DEF Added
<1>10. UNION {Span(b.index, b.order) : b \in F} = FreePages
    <2>1. \A v : v \in UNION {Span(b.index, b.order) : b \in F} <=> \E b \in F : v \in SpanOf(b)
        BY Zenon DEF SpanOf
    <2>2. QED
        BY <1>7, <1>8, <1>9, <2>1
<1>11. ASSUME NEW b \in F, NEW c \in F, Span(b.index, b.order) \cap Span(c.index, c.order) # {}
       PROVE  b = c
    <2>1. PICK v : v \in SpanOf(b) /\ v \in SpanOf(c)
        BY <1>11, Zenon DEF SpanOf
    <2>2. v \in Nat
        BY <1>8, <2>1
    <2>3. QED
        BY <1>7, <2>1, <2>2
<1>12. QED
    BY <1>6, <1>7, <1>10, <1>11, Zenon

\* The pages of the blocks on lists.
LEMMA SpansOfLists ==
    ASSUME NEW n \in Nat, NEW lists, NEW P, ListsCover(lists, n, P), P \subseteq Nat
    PROVE  UNION {UNION {Span(lists[o][k], o) : k \in DOMAIN lists[o]} : o \in Order} = P
<1> DEFINE B == BlocksOf(lists)
           U == UNION {UNION {Span(lists[o][k], o) : k \in DOMAIN lists[o]} : o \in Order}
<1>1. lists \in [Order -> Seq(0 .. n - 1)] /\ Covers(B, P)
    BY DEF ListsCover
<1>2. /\ B \subseteq BlockSet
      /\ \A v \in Nat : v \in P <=> \E b \in B : v \in SpanOf(b)
    BY <1>1, Zenon DEF Covers
<1>3. \A v : v \in U <=> \E o \in Order : \E k \in DOMAIN lists[o] : v \in Span(lists[o][k], o)
    OBVIOUS
<1>4. ASSUME NEW o \in Order, NEW k \in DOMAIN lists[o]
      PROVE  /\ Block(lists[o][k], o) \in B /\ lists[o][k] \in Nat
             /\ SpanOf(Block(lists[o][k], o)) = Span(lists[o][k], o)
    <2>1. lists[o] \in Seq(0 .. n - 1)
        BY <1>1
    <2>2. lists[o][k] \in 0 .. n - 1
        BY <2>1, ElementOfSeq, LenProperties
    <2>3. lists[o][k] \in Nat /\ lists[o][k] \in ToSet(lists[o])
        BY <2>2 DEF ToSet
    <2>4. LET b == Block(lists[o][k], o)
          IN  b \in BlockSet /\ b.index = lists[o][k] /\ b.order = o
        BY <2>3, Spans
    <2>5. QED
        BY <2>3, <2>4 DEF BlocksOf, SpanOf
<1>5. ASSUME NEW b \in B
      PROVE  /\ b.order \in Order /\ \E k \in DOMAIN lists[b.order] : lists[b.order][k] = b.index
             /\ SpanOf(b) = Span(b.index, b.order)
    <2>1. b \in BlockSet /\ b.index \in ToSet(lists[b.order])
        BY DEF BlocksOf
    <2>2. b.order \in Order
        BY <2>1, Spans
    <2>3. QED
        BY <2>1, <2>2 DEF ToSet, SpanOf
<1>6. \A v : v \in U => v \in Nat
    <2>1. SUFFICES ASSUME NEW v, v \in U
                   PROVE  v \in Nat
        OBVIOUS
    <2>2. PICK o \in Order : \E k \in DOMAIN lists[o] : v \in Span(lists[o][k], o)
        BY <1>3, <2>1
    <2>3. PICK k \in DOMAIN lists[o] : v \in Span(lists[o][k], o)
        BY <2>2
    <2>4. lists[o][k] \in Nat /\ 2^o \in Nat
        BY <1>4, Sizes
    <2>5. QED
        BY <2>3, <2>4 DEF Span
<1> HIDE DEF B, U
<1>7. \A v \in Nat : v \in U <=> \E b \in B : v \in SpanOf(b)
    <2>1. ASSUME NEW v \in Nat, v \in U
          PROVE  \E b \in B : v \in SpanOf(b)
        BY <1>3, <1>4, <2>1
    <2>2. ASSUME NEW v \in Nat, NEW b \in B, v \in SpanOf(b)
          PROVE  v \in U
        BY <1>3, <1>5, <2>2
    <2>3. QED
        BY <2>1, <2>2
<1>8. U = P
    BY <1>2, <1>6, <1>7
<1>9. QED
    BY <1>8 DEF U

LEMMA SoundIsUnmapped ==
    ASSUME BootSound
    PROVE  VaddrsAreUnmapped
<1> DEFINE n == KERNEL_MEMORY_PAGES
           q == PageOf(last_kernel_phaddr)
<1>1. SUFFICES ASSUME pc = "booted"
               PROVE  UNION {UNION {Span(vaddrs_free_list[o][k], o) :
                                        k \in DOMAIN vaddrs_free_list[o]} : o \in Order}
                        = (0 .. n - 1) \ kernel_page_tables
    BY DEF VaddrsAreUnmapped
<1>2. /\ last_kernel_phaddr \in Nat /\ Placed
      /\ vaddrs_free_list = add_pages_to_pool(q, n)
    BY <1>1 DEF BootSound
<1>3. kernel_page_tables = 0 .. q - 1 /\ last_kernel_phaddr % PageSize = 0 /\ q <= n
    BY <1>2 DEF Placed
<1>4. q \in 0 .. n /\ n \in Nat /\ n <= n
    BY <1>2, <1>3, WholePages, Constants
<1> HIDE DEF n, q
<1>5. ListsCover(vaddrs_free_list, n, q .. n - 1)
    BY <1>2, <1>4, AddedCover
<1>6. q .. n - 1 \subseteq Nat /\ (0 .. n - 1) \ (0 .. q - 1) = q .. n - 1
    BY <1>4
<1>7. QED
    BY <1>3, <1>4, <1>5, <1>6, SpansOfLists
-----------------------------------------------------------------------------
(* Theorems.                                                               *)

\* From the moment paging is on, the page tables map what the kernel keeps,
\* nothing less and nothing more, whatever the boot loader left: also while
\* the array of pages, which is behind it, is put into memory.
THEOREM BootStaysSound == Spec => []BootInvariant
<1>1. BootSound => BootInvariant
    BY SoundIsMapped
<1>2. QED
    BY <1>1, BootSoundAlways, PTL

\* The two loops over the memory map agree: the array of pages has an entry
\* for each page the second loop adds, the pool gets all free RAM, once, and
\* nothing the kernel keeps, for any number of regions in any order.
THEOREM PoolGetsFreeRam == Spec => []PoolIsFreeRam
<1>1. BootSound => PoolIsFreeRam
    BY SoundIsFreeRam
<1>2. QED
    BY <1>1, BootSoundAlways, PTL

\* The pool of kernel addresses starts as what the page tables do not map:
\* what KernelPages begins with.
THEOREM VaddrsGetTheRest == Spec => []VaddrsAreUnmapped
<1>1. BootSound => VaddrsAreUnmapped
    BY SoundIsUnmapped
<1>2. QED
    BY <1>1, BootSoundAlways, PTL
=============================================================================
