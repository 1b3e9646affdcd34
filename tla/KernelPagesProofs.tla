-------------------------- MODULE KernelPagesProofs --------------------------
(***************************************************************************)
(* Proofs about KernelPages, where what is given back is the latest that   *)
(* was got (~AnyOrder).                                                    *)
(***************************************************************************)
EXTENDS KernelPages, BuddyTheorems

LEMMA Constants ==
    /\ \A r \in Region : r[1] \in Nat /\ r[2] \in Nat /\ r[1] < r[2] /\ r[2] <= Device
    /\ VaddrsFrom \in Nat /\ VaddrsTo \in Nat /\ VaddrsFrom < VaddrsTo
    /\ VaddrsTo % 2^(Limit - 1) = 0 /\ Device \in Nat /\ Unmapped = -1 /\ NoVaddr = -1
BY KernelPagesAssumption DEF Unmapped, NoVaddr

\* Regions that end where a block of the largest order can end are such.
THEOREM RegionsThatEndAligned ==
    ASSUME \A r \in Region : r[2] % 2^(Limit - 1) = 0
    PROVE  RegionsUnmerged
<1>1. ASSUME NEW r \in Region
      PROVE  Unmerged(FreeBlocks(NewPool(r[1], r[2])))
    <2> DEFINE from == r[1]
               to == r[2]
    <2>1. to \in Nat /\ from \in 0 .. to /\ to % 2^(Limit - 1) = 0
        BY Constants
    <2> HIDE DEF from, to
    <2>2. Unmerged(FreeBlocks(NewPool(from, to)))
        BY <2>1, NewPoolSound
    <2>3. QED
        BY <2>2 DEF from, to
<1>2. QED
    BY <1>1 DEF RegionsUnmerged
-----------------------------------------------------------------------------
(* The mappings that are held, as the stack they are, and the blocks each  *)
(* of them took.                                                           *)

Mappings == [addr : Nat, order : Order, page : Nat, refs : Nat \ {0}]

PagesTaken(s) ==
    [i \in DOMAIN s |-> IF s[i].page = Device THEN {} ELSE {Block(s[i].page, s[i].order)}]
VaddrsTaken(s) == [i \in DOMAIN s |-> {Block(s[i].addr, s[i].order)}]

LEMMA HeldIs ==
    ASSUME NEW s \in Seq(Mappings)
    PROVE  /\ Len(s) \in Nat /\ DOMAIN s = 1 .. Len(s)
           /\ \A i \in 1 .. Len(s) :
                /\ s[i].addr \in Nat /\ s[i].order \in Order /\ s[i].page \in Nat
                /\ s[i].refs \in Nat \ {0}
                /\ VaddrsTaken(s)[i] = {Block(s[i].addr, s[i].order)}
                /\ s[i].page # Device => PagesTaken(s)[i] = {Block(s[i].page, s[i].order)}
                /\ s[i].page = Device => PagesTaken(s)[i] = {}
<1>1. Len(s) \in Nat /\ DOMAIN s = 1 .. Len(s) /\ \A i \in 1 .. Len(s) : s[i] \in Mappings
    BY LenProperties, ElementOfSeq
<1>2. QED
    BY <1>1 DEF Mappings, PagesTaken, VaddrsTaken

LEMMA TakenAgrees ==
    ASSUME NEW s \in Seq(Mappings), NEW t \in Seq(Mappings),
           NEW i \in 1 .. Len(s), i \in 1 .. Len(t),
           t[i].addr = s[i].addr, t[i].order = s[i].order, t[i].page = s[i].page
    PROVE  PagesTaken(t)[i] = PagesTaken(s)[i] /\ VaddrsTaken(t)[i] = VaddrsTaken(s)[i]
<1>1. /\ VaddrsTaken(s)[i] = {Block(s[i].addr, s[i].order)}
      /\ PagesTaken(s)[i] = IF s[i].page = Device THEN {} ELSE {Block(s[i].page, s[i].order)}
    BY HeldIs
<1>2. /\ VaddrsTaken(t)[i] = {Block(t[i].addr, t[i].order)}
      /\ PagesTaken(t)[i] = IF t[i].page = Device THEN {} ELSE {Block(t[i].page, t[i].order)}
    BY HeldIs
<1>3. QED
    BY <1>1, <1>2, Zenon

LEMMA HeldGrows ==
    ASSUME NEW s \in Seq(Mappings), NEW e \in Mappings
    PROVE  /\ Append(s, e) \in Seq(Mappings) /\ Len(Append(s, e)) = Len(s) + 1
           /\ Append(s, e)[Len(s) + 1] = e
           /\ \A i \in 1 .. Len(s) :
                /\ Append(s, e)[i] = s[i]
                /\ PagesTaken(Append(s, e))[i] = PagesTaken(s)[i]
                /\ VaddrsTaken(Append(s, e))[i] = VaddrsTaken(s)[i]
<1> DEFINE t == Append(s, e)
<1>1. /\ t \in Seq(Mappings) /\ Len(t) = Len(s) + 1 /\ t[Len(s) + 1] = e
      /\ \A i \in 1 .. Len(s) : t[i] = s[i]
    BY AppendProperties
<1>2. Len(s) \in Nat /\ DOMAIN s = 1 .. Len(s)
    BY HeldIs
<1> HIDE DEF t
<1>3. \A i \in 1 .. Len(s) : i \in 1 .. Len(t)
    BY <1>1, <1>2
<1>4. \A i \in 1 .. Len(s) :
            /\ PagesTaken(t)[i] = PagesTaken(s)[i]
            /\ VaddrsTaken(t)[i] = VaddrsTaken(s)[i]
    BY <1>1, <1>3, TakenAgrees
<1>5. QED
    BY <1>1, <1>4 DEF t

LEMMA HeldShrinks ==
    ASSUME NEW s \in Seq(Mappings), Len(s) # 0
    PROVE  LET t == RemoveAt(s, Len(s)) IN
           /\ t \in Seq(Mappings) /\ Len(t) = Len(s) - 1
           /\ \A i \in 1 .. Len(s) - 1 :
                /\ t[i] = s[i]
                /\ PagesTaken(t)[i] = PagesTaken(s)[i]
                /\ VaddrsTaken(t)[i] = VaddrsTaken(s)[i]
<1> DEFINE n == Len(s)
           front == SubSeq(s, 1, n - 1)
           back == SubSeq(s, n + 1, n)
           t == front \o back
<1>1. n \in Nat /\ DOMAIN s = 1 .. n /\ n # 0 /\ \A i \in 1 .. n : s[i] \in Mappings
    BY HeldIs, ElementOfSeq, LenProperties
<1> HIDE DEF n
<1>2. front \in Seq(Mappings) /\ Len(front) = n - 1 /\ \A i \in 1 .. n - 1 : front[i] = s[i]
    BY <1>1, SubSeqProperties
<1>3. back = <<>>
    BY <1>1, SubSeqEmpty
<1> HIDE DEF front, back
<1>4. t = front
    BY <1>2, <1>3, ConcatEmptySeq
<1>5. RemoveAt(s, Len(s)) = t
    BY DEF RemoveAt, t, front, back, n
<1> HIDE DEF t
<1>6. t \in Seq(Mappings) /\ Len(t) = n - 1 /\ \A i \in 1 .. n - 1 : t[i] = s[i]
    BY <1>2, <1>4
<1>7. \A i \in 1 .. n - 1 : i \in 1 .. Len(t) /\ i \in 1 .. Len(s)
    BY <1>1, <1>6 DEF n
<1>8. \A i \in 1 .. n - 1 :
            /\ PagesTaken(t)[i] = PagesTaken(s)[i]
            /\ VaddrsTaken(t)[i] = VaddrsTaken(s)[i]
    BY <1>6, <1>7, TakenAgrees
<1>9. QED
    BY <1>5, <1>6, <1>8 DEF n

\* The k-th mapping has r references.
Counted(s, k, r) == [s EXCEPT ![k].refs = r]

LEMMA HeldCounts ==
    ASSUME NEW s \in Seq(Mappings), NEW k \in 1 .. Len(s), NEW r \in Nat \ {0},
           NEW w, w = Counted(s, k, r)
    PROVE  /\ w \in Seq(Mappings) /\ Len(w) = Len(s)
           /\ \A i \in 1 .. Len(s) :
                /\ w[i].addr = s[i].addr /\ w[i].order = s[i].order /\ w[i].page = s[i].page
                /\ w[i].refs = IF i = k THEN r ELSE s[i].refs
                /\ PagesTaken(w)[i] = PagesTaken(s)[i]
                /\ VaddrsTaken(w)[i] = VaddrsTaken(s)[i]
<1> DEFINE e == [s[k] EXCEPT !.refs = r]
           t == [s EXCEPT ![k] = e]
<1>1. Len(s) \in Nat /\ DOMAIN s = 1 .. Len(s) /\ \A i \in 1 .. Len(s) : s[i] \in Mappings
    BY LenProperties, ElementOfSeq
<1>2. e \in Mappings /\ e.addr = s[k].addr /\ e.order = s[k].order /\ e.page = s[k].page /\ e.refs = r
    BY <1>1 DEF Mappings
<1> HIDE DEF e
<1>3. t \in Seq(Mappings) /\ Len(t) = Len(s) /\ \A i \in 1 .. Len(s) : t[i] = IF i = k THEN e ELSE s[i]
    BY <1>1, <1>2, ExceptSeq
<1> HIDE DEF t
<1>4. \A i \in 1 .. Len(s) : i \in 1 .. Len(t)
    BY <1>3
<1>5. \A i \in 1 .. Len(s) :
            /\ t[i].addr = s[i].addr /\ t[i].order = s[i].order /\ t[i].page = s[i].page
            /\ t[i].refs = IF i = k THEN r ELSE s[i].refs
    BY <1>2, <1>3
<1>6. \A i \in 1 .. Len(s) :
            /\ PagesTaken(t)[i] = PagesTaken(s)[i]
            /\ VaddrsTaken(t)[i] = VaddrsTaken(s)[i]
    BY <1>3, <1>4, <1>5, TakenAgrees
<1>7. w = t
    BY DEF t, e, Counted
<1>8. QED
    BY <1>3, <1>5, <1>6, <1>7
-----------------------------------------------------------------------------
(* The inductive invariant.                                                *)

\* The addresses of a mapping.
AddrsOf(h) == SpanOf(Block(h.addr, h.order))

\* The addresses were taken by the mappings that are held, in their order, and
\* the page tables say what those mappings say.
VaddrsInv ==
    /\ PoolInv(vaddrs, VaddrsTaken(held), Len(held), VaddrsFrom, VaddrsTo)
    /\ kernel_page_tables \in [VaddrsFrom .. VaddrsTo - 1 -> Nat \cup {Unmapped}]
    /\ \A k \in 1 .. Len(held), v \in Nat : v \in AddrsOf(held[k]) =>
            kernel_page_tables[v] = held[k].page + (v - held[k].addr)
    /\ \A v \in VaddrsFrom .. VaddrsTo - 1 :
            (\A k \in 1 .. Len(held) : v \notin AddrsOf(held[k])) => kernel_page_tables[v] = Unmapped

\* The pages were taken by the mappings that are not of a device, in the same
\* order, and each page knows its mapping.
PagesInv ==
    /\ region \in Region
    /\ PoolInv(pages, PagesTaken(held), Len(held), region[1], region[2])
    /\ kernel_vaddr \in [0 .. region[2] - 1 -> (0 .. VaddrsTo - 1) \cup {NoVaddr}]
    /\ kernel_vaddr_refcnt \in [0 .. region[2] - 1 -> Nat]
    /\ \A k \in 1 .. Len(held) : held[k].page # Device =>
            /\ kernel_vaddr[held[k].page] = held[k].addr
            /\ kernel_vaddr_refcnt[held[k].page] = held[k].refs
    /\ \A p \in 0 .. region[2] - 1 :
            (\A k \in 1 .. Len(held) : held[k].page # p)
                => kernel_vaddr[p] = NoVaddr /\ kernel_vaddr_refcnt[p] = 0

IInv == held \in Seq(Mappings) /\ PagesInv /\ VaddrsInv

\* What the history of a pool of addresses says of the mappings.
LEMMA VaddrFacts ==
    ASSUME NEW s \in Seq(Mappings), NEW pool,
           PoolInv(pool, VaddrsTaken(s), Len(s), VaddrsFrom, VaddrsTo), NEW i \in 1 .. Len(s)
    PROVE  /\ s[i].addr \in 0 .. VaddrsTo - 1
           /\ s[i].addr \in AddrsOf(s[i]) /\ pool.order[s[i].addr] = s[i].order
           /\ \A v \in Nat : v \in AddrsOf(s[i]) =>
                v \in VaddrsFrom .. VaddrsTo - 1 /\ s[i].addr <= v
           /\ \A j \in 1 .. Len(s), v \in Nat : v \in AddrsOf(s[i]) /\ v \in AddrsOf(s[j]) => i = j
<1> DEFINE b == Block(s[i].addr, s[i].order)
           n == Len(s)
           T == VaddrsTaken(s)
<1>1. n \in Nat /\ \A j \in 1 .. n : T[j] = {Block(s[j].addr, s[j].order)}
    BY HeldIs
<1>2. s[i].addr \in Nat /\ s[i].order \in Order
    BY HeldIs
<1>3. b \in BlockSet /\ b.index = s[i].addr /\ b.order = s[i].order /\ b.index \in SpanOf(b)
    BY <1>2, Spans, Starts
<1>4. b \in T[i]
    BY <1>1
<1>5. PoolInv(pool, T, n, VaddrsFrom, VaddrsTo) /\ i \in 1 .. n
    OBVIOUS
<1> HIDE DEF T, n
<1>6. /\ b.index \in Index(pool) /\ pool.order[b.index] = b.order
      /\ \A v \in Nat : v \in SpanOf(b) => v \in VaddrsFrom .. VaddrsTo - 1
    <2>1. VaddrsFrom \in Nat
        BY Constants
    <2> HIDE DEF b
    <2>2. QED
        BY <1>1, <1>4, <1>5, <2>1, TakenIs, SMTT(30)
<1>7. ASSUME NEW j \in 1 .. n, NEW v \in Nat, v \in AddrsOf(s[i]), v \in AddrsOf(s[j])
      PROVE  i = j
    <2> DEFINE c == Block(s[j].addr, s[j].order)
    <2>1. c \in T[j] /\ v \in SpanOf(b) /\ v \in SpanOf(c)
        BY <1>1, <1>7 DEF AddrsOf
    <2> HIDE DEF b, c
    <2>2. QED
        BY <1>1, <1>4, <1>5, <2>1, TakenApart
<1>8. \A v \in Nat : v \in SpanOf(b) => s[i].addr <= v
    BY <1>2, Spans
<1>9. s[i].addr \in 0 .. VaddrsTo - 1
    <2>1. s[i].addr \in VaddrsFrom .. VaddrsTo - 1
        BY <1>2, <1>3, <1>6
    <2>2. QED
        BY <1>2, <2>1, Constants
<1>10. QED
    BY <1>3, <1>6, <1>7, <1>8, <1>9 DEF AddrsOf, n

\* And of a pool of pages.
LEMMA PageFacts ==
    ASSUME NEW s \in Seq(Mappings), NEW pool, NEW from, NEW to,
           PoolInv(pool, PagesTaken(s), Len(s), from, to),
           from \in Nat, to \in Nat, to <= Device
    PROVE  \A i \in 1 .. Len(s) : s[i].page # Device =>
            /\ s[i].page \in 0 .. to - 1 /\ pool.order[s[i].page] = s[i].order
            /\ \A j \in 1 .. Len(s) : s[j].page = s[i].page => i = j
<1> SUFFICES ASSUME NEW i \in 1 .. Len(s), s[i].page # Device
             PROVE  /\ s[i].page \in 0 .. to - 1 /\ pool.order[s[i].page] = s[i].order
                    /\ \A j \in 1 .. Len(s) : s[j].page = s[i].page => i = j
    OBVIOUS
<1> DEFINE b == Block(s[i].page, s[i].order)
           n == Len(s)
           T == PagesTaken(s)
<1>1. /\ n \in Nat /\ i \in 1 .. n
      /\ \A j \in 1 .. n : s[j].page # Device => T[j] = {Block(s[j].page, s[j].order)}
    BY HeldIs
<1>2. \A j \in 1 .. n : s[j].page \in Nat /\ s[j].order \in Order
    BY HeldIs
<1>3. b \in BlockSet /\ b.index = s[i].page /\ b.order = s[i].order /\ b.index \in SpanOf(b)
    BY <1>1, <1>2, Spans, Starts
<1>4. b \in T[i]
    BY <1>1
<1>5. PoolInv(pool, T, n, from, to)
    OBVIOUS
<1> HIDE DEF T, n
<1>6. b.index \in Index(pool) /\ pool.order[b.index] = b.order
    <2>1. from \in Nat
        OBVIOUS
    <2> HIDE DEF b
    <2>2. QED
        BY <1>1, <1>4, <1>5, <2>1, TakenIs
<1>7. ASSUME NEW j \in 1 .. n, s[j].page = s[i].page
      PROVE  i = j
    <2> DEFINE c == Block(s[j].page, s[j].order)
    <2>1. c \in T[j]
        BY <1>1, <1>7
    <2>2. s[i].page \in Nat /\ s[i].page \in SpanOf(b) /\ s[i].page \in SpanOf(c)
        <3>1. c \in BlockSet /\ c.index = s[j].page /\ c.index \in SpanOf(c)
            BY <1>2, Spans, Starts
        <3>2. QED
            BY <1>1, <1>2, <1>3, <1>7, <3>1
    <2> HIDE DEF b, c
    <2>3. QED
        BY <1>1, <1>4, <1>5, <2>1, <2>2, TakenApart
<1>8. s[i].page \in 0 .. to - 1
    <2>1. pool.count = to
        BY <1>5 DEF PoolInv
    <2>2. QED
        BY <1>3, <1>6, <2>1 DEF Index
<1>9. QED
    BY <1>3, <1>6, <1>7, <1>8 DEF n

-----------------------------------------------------------------------------
(* The addresses, step by step.                                            *)

\* A new mapping takes its addresses from the pool, and no others change.
LEMMA MapStep ==
    ASSUME held \in Seq(Mappings), VaddrsInv,
           NEW o \in Order, NEW page \in Nat, Available(vaddrs, o) # {},
           map_phaddr_in_kernel(page, o),
           held' = Append(held, Mapping(Taken(vaddrs, o), o, page))
    PROVE  /\ Mapping(Taken(vaddrs, o), o, page) \in Mappings
           /\ Taken(vaddrs, o) \in 0 .. VaddrsTo - 1
           /\ VaddrsInv'
<1> DEFINE x == Taken(vaddrs, o)
           e == Mapping(x, o, page)
           n == Len(held)
           t == Append(held, e)
           T == VaddrsTaken(t)
           D == VaddrsFrom .. VaddrsTo - 1
           after == page_allocate(vaddrs, o)
           Tables == [v \in D |-> IF v \in Span(x, o) THEN page + (v - x)
                                  ELSE kernel_page_tables[v]]
<1>1. /\ PoolInv(vaddrs, VaddrsTaken(held), n, VaddrsFrom, VaddrsTo)
      /\ kernel_page_tables \in [D -> Nat \cup {Unmapped}]
      /\ \A k \in 1 .. n, v \in Nat : v \in AddrsOf(held[k]) =>
            kernel_page_tables[v] = held[k].page + (v - held[k].addr)
      /\ \A v \in D : (\A k \in 1 .. n : v \notin AddrsOf(held[k]))
            => kernel_page_tables[v] = Unmapped
    BY DEF VaddrsInv
<1>2. vaddrs' = after /\ held' = t /\ kernel_page_tables' = Tables
    BY <1>1 DEF map_phaddr_in_kernel, vaddr_allocate
<1>3. n \in Nat /\ VaddrsFrom \in Nat /\ VaddrsTo \in Nat
    BY HeldIs, Constants
<1>4. x \in 0 .. VaddrsTo - 1 /\ x \in Nat
    <2> DEFINE U == [i \in 1 .. n + 1 |-> IF i = n + 1 THEN {Block(x, o)} ELSE VaddrsTaken(held)[i]]
    <2>1. U[n + 1] = {Block(x, o)} /\ \A i \in 1 .. n : U[i] = VaddrsTaken(held)[i]
        <3>1. n + 1 \in 1 .. n + 1 /\ \A i \in 1 .. n : i \in 1 .. n + 1 /\ i # n + 1
            BY <1>3
        <3>2. QED
            BY <3>1
    <2> HIDE DEF U
    <2>2. PoolInv(vaddrs, U, n, VaddrsFrom, VaddrsTo)
        BY <1>1, <1>3, <2>1, PoolAgrees
    <2>3. x \in Index(vaddrs)
        BY <1>3, <2>1, <2>2, PoolAllocates
    <2>4. vaddrs.count = VaddrsTo
        BY <1>1 DEF PoolInv
    <2>5. QED
        BY <1>3, <2>3, <2>4 DEF Index
<1>5. e \in Mappings /\ e.addr = x /\ e.order = o /\ e.page = page
    BY <1>4 DEF Mapping, Mappings
<1> HIDE DEF x, e
<1>6. /\ t \in Seq(Mappings) /\ Len(t) = n + 1 /\ t[n + 1] = e
      /\ \A i \in 1 .. n : t[i] = held[i] /\ T[i] = VaddrsTaken(held)[i]
    BY <1>5, HeldGrows
<1> HIDE DEF t
<1>7. T[n + 1] = {Block(x, o)}
    <2>1. n + 1 \in 1 .. Len(t)
        BY <1>3, <1>6
    <2>2. QED
        BY <1>5, <1>6, <2>1, HeldIs
<1> HIDE DEF T, n, after
<1>8. PoolInv(after, T, n + 1, VaddrsFrom, VaddrsTo)
    <2>1. PoolInv(vaddrs, T, n, VaddrsFrom, VaddrsTo)
        BY <1>1, <1>3, <1>6, PoolAgrees
    <2>2. QED
        BY <1>3, <1>7, <2>1, PoolAllocates DEF x, after
<1>9. \A i \in 1 .. n + 1 :
        /\ \A v \in Nat : v \in AddrsOf(t[i]) => v \in D /\ t[i].addr <= v
        /\ \A j \in 1 .. n + 1, v \in Nat : v \in AddrsOf(t[i]) /\ v \in AddrsOf(t[j]) => i = j
    <2>1. PoolInv(after, VaddrsTaken(t), Len(t), VaddrsFrom, VaddrsTo)
        BY <1>6, <1>8 DEF T
    <2>2. QED
        BY <1>6, <2>1, VaddrFacts
<1>10. AddrsOf(e) = Span(x, o)
    BY <1>4, <1>5, Spans DEF AddrsOf, SpanOf
<1>11. \A i \in 1 .. n + 1 : i \in 1 .. n \/ i = n + 1
    BY <1>3
<1>12. n + 1 \in 1 .. n + 1 /\ \A i \in 1 .. n : i \in 1 .. n + 1 /\ i # n + 1
    BY <1>3
<1>13. \A v \in D : v \in Nat /\ Tables[v] = IF v \in AddrsOf(e) THEN page + (v - x)
                                             ELSE kernel_page_tables[v]
    BY <1>3, <1>10
<1>14. Tables \in [D -> Nat \cup {Unmapped}]
    <2>1. ASSUME NEW v \in D
          PROVE  Tables[v] \in Nat \cup {Unmapped}
        <3>1. CASE v \in AddrsOf(e)
            <4>1. v \in Nat /\ x <= v
                BY <1>5, <1>6, <1>9, <1>12, <1>13, <3>1
            <4>2. Tables[v] = page + (v - x)
                BY <1>13, <3>1
            <4>3. QED
                BY <1>4, <4>1, <4>2
        <3>2. CASE v \notin AddrsOf(e)
            BY <1>1, <1>13, <3>2
        <3>3. QED
            BY <3>1, <3>2
    <2>2. QED
        BY <2>1
<1> HIDE DEF Tables
<1>15. ASSUME NEW k \in 1 .. n + 1, NEW v \in Nat, v \in AddrsOf(t[k])
       PROVE  Tables[v] = t[k].page + (v - t[k].addr)
    <2>1. v \in D
        BY <1>9, <1>15
    <2>2. CASE k = n + 1
        BY <1>5, <1>6, <1>13, <1>15, <2>1, <2>2
    <2>3. CASE k \in 1 .. n
        <3>1. v \notin AddrsOf(e)
            BY <1>6, <1>9, <1>12, <1>15, <2>3
        <3>2. Tables[v] = kernel_page_tables[v]
            BY <1>13, <2>1, <3>1
        <3>3. QED
            BY <1>1, <1>6, <1>15, <2>3, <3>2
    <2>4. QED
        BY <1>11, <2>2, <2>3
<1>16. ASSUME NEW v \in D, \A k \in 1 .. n + 1 : v \notin AddrsOf(t[k])
       PROVE  Tables[v] = Unmapped
    <2>1. v \notin AddrsOf(e) /\ \A k \in 1 .. n : v \notin AddrsOf(held[k])
        BY <1>6, <1>12, <1>16
    <2>2. QED
        BY <1>1, <1>13, <2>1
<1>17. VaddrsInv'
    <2> HIDE DEF D
    <2>1. Len(held') = n + 1 /\ held' = t /\ vaddrs' = after /\ kernel_page_tables' = Tables
        BY <1>2, <1>6
    <2>2. PoolInv(vaddrs', VaddrsTaken(held'), Len(held'), VaddrsFrom, VaddrsTo)
        BY <1>8, <2>1 DEF T
    <2>3. \A k \in 1 .. Len(held'), v \in Nat : v \in AddrsOf(held'[k]) =>
            kernel_page_tables'[v] = held'[k].page + (v - held'[k].addr)
        BY <1>15, <2>1, Zenon
    <2>4. \A v \in D : (\A k \in 1 .. Len(held') : v \notin AddrsOf(held'[k]))
            => kernel_page_tables'[v] = Unmapped
        BY <1>16, <2>1, Zenon
    <2>5. kernel_page_tables' \in [D -> Nat \cup {Unmapped}]
        BY <1>14, <2>1
    <2>6. QED
        BY <2>2, <2>3, <2>4, <2>5, Zenon DEF VaddrsInv, D
<1>18. QED
    BY <1>4, <1>5, <1>17 DEF x, e

\* The latest mapping gives its addresses back, and all of them are unmapped.
LEMMA UnmapStep ==
    ASSUME held \in Seq(Mappings), VaddrsInv, Len(held) # 0,
           unmap_phaddr_in_kernel(held[Len(held)].addr),
           held' = RemoveAt(held, Len(held))
    PROVE  VaddrsInv'
<1> DEFINE n == Len(held)
           m == n - 1
           e == held[n]
           x == e.addr
           o == e.order
           t == RemoveAt(held, n)
           T == VaddrsTaken(held)
           D == VaddrsFrom .. VaddrsTo - 1
           after == page_free(vaddrs, x)
           Tables == [v \in D |-> IF v \in Span(x, vaddrs.order[x]) THEN Unmapped
                                  ELSE kernel_page_tables[v]]
<1>1. /\ PoolInv(vaddrs, T, n, VaddrsFrom, VaddrsTo)
      /\ kernel_page_tables \in [D -> Nat \cup {Unmapped}]
      /\ \A k \in 1 .. n, v \in Nat : v \in AddrsOf(held[k]) =>
            kernel_page_tables[v] = held[k].page + (v - held[k].addr)
      /\ \A v \in D : (\A k \in 1 .. n : v \notin AddrsOf(held[k]))
            => kernel_page_tables[v] = Unmapped
    BY DEF VaddrsInv
<1>2. vaddrs' = after /\ held' = t /\ kernel_page_tables' = Tables
    BY <1>1 DEF unmap_phaddr_in_kernel, vaddr_free
<1>3. /\ n \in Nat /\ m \in Nat /\ n = m + 1 /\ n \in 1 .. n
      /\ \A k \in 1 .. m : k \in 1 .. n /\ k # n
      /\ \A k \in 1 .. n : k \in 1 .. m \/ k = n
      /\ VaddrsFrom \in Nat /\ VaddrsTo \in Nat
    BY HeldIs, Constants
<1>4. /\ t \in Seq(Mappings) /\ Len(t) = m
      /\ \A i \in 1 .. m : t[i] = held[i] /\ VaddrsTaken(t)[i] = T[i]
    BY HeldShrinks
<1> HIDE DEF t
<1>5. x \in Nat /\ o \in Order /\ T[n] = {Block(x, o)}
    BY <1>3, HeldIs
<1>6. /\ vaddrs.order[x] = o
      /\ \A j \in 1 .. n, v \in Nat : v \in AddrsOf(e) /\ v \in AddrsOf(held[j]) => n = j
      /\ \A j \in 1 .. n, v \in Nat : v \in AddrsOf(held[j]) => v \in D
    BY <1>1, <1>3, VaddrFacts, ZenonT(30)
<1>7. AddrsOf(e) = Span(x, o)
    BY <1>5, Spans DEF AddrsOf, SpanOf
<1>8. PoolInv(after, VaddrsTaken(t), m, VaddrsFrom, VaddrsTo)
    <2> DEFINE b == Block(x, o)
    <2>1. b \in BlockSet /\ b.index = x /\ T[n] = {b}
        BY <1>5, Spans
    <2> HIDE DEF b, T, x, o, n, m
    <2>2. T[m + 1] = {b} /\ PoolInv(vaddrs, T, m + 1, VaddrsFrom, VaddrsTo)
        BY <1>1, <1>3, <2>1
    <2>3. PoolInv(after, T, m, VaddrsFrom, VaddrsTo)
        BY <1>3, <2>1, <2>2, PoolFrees
    <2>4. QED
        BY <1>3, <1>4, <2>3, PoolAgrees
<1> HIDE DEF e, after
<1>9. \A v \in D : v \in Nat /\ Tables[v] = IF v \in AddrsOf(e) THEN Unmapped ELSE kernel_page_tables[v]
    <2>1. Span(x, vaddrs.order[x]) = AddrsOf(e)
        BY <1>6, <1>7
    <2>2. \A v \in D : v \in Nat
        BY Constants
    <2> HIDE DEF D
    <2>3. \A v \in D : Tables[v] = IF v \in Span(x, vaddrs.order[x]) THEN Unmapped
                                   ELSE kernel_page_tables[v]
        BY Zenon
    <2>4. QED
        BY <2>1, <2>2, <2>3, Zenon
<1>10. Tables \in [D -> Nat \cup {Unmapped}]
    <2>1. \A v \in D : Tables[v] \in Nat \cup {Unmapped}
        BY <1>1, <1>9
    <2>2. QED
        BY <2>1
<1> HIDE DEF Tables, n, m, D
<1>11. ASSUME NEW k \in 1 .. m, NEW v \in Nat, v \in AddrsOf(t[k])
       PROVE  Tables[v] = t[k].page + (v - t[k].addr)
    <2>1. t[k] = held[k] /\ v \in AddrsOf(held[k]) /\ k \in 1 .. n /\ k # n
        BY <1>3, <1>4, <1>11
    <2>2. v \in D /\ v \notin AddrsOf(e)
        BY <1>6, <2>1
    <2>3. Tables[v] = kernel_page_tables[v]
        BY <1>9, <2>2
    <2>4. QED
        BY <1>1, <2>1, <2>3
<1>12. ASSUME NEW v \in D, \A k \in 1 .. m : v \notin AddrsOf(t[k])
       PROVE  Tables[v] = Unmapped
    <2>1. \A k \in 1 .. m : v \notin AddrsOf(held[k])
        BY <1>4, <1>12
    <2>2. CASE v \in AddrsOf(e)
        BY <1>9, <2>2
    <2>3. CASE v \notin AddrsOf(e)
        <3>1. \A k \in 1 .. n : v \notin AddrsOf(held[k])
            BY <1>3, <2>1, <2>3 DEF e
        <3>2. QED
            BY <1>1, <1>9, <2>3, <3>1
    <2>4. QED
        BY <2>2, <2>3
<1>13. Len(held') = m /\ held' = t /\ vaddrs' = after /\ kernel_page_tables' = Tables
    BY <1>2, <1>4 DEF n, e
<1>14. PoolInv(vaddrs', VaddrsTaken(held'), Len(held'), VaddrsFrom, VaddrsTo)
    BY <1>8, <1>13
<1>15. \A k \in 1 .. Len(held'), v \in Nat : v \in AddrsOf(held'[k]) =>
            kernel_page_tables'[v] = held'[k].page + (v - held'[k].addr)
    BY <1>11, <1>13, Zenon
<1>16. \A v \in D : (\A k \in 1 .. Len(held') : v \notin AddrsOf(held'[k]))
            => kernel_page_tables'[v] = Unmapped
    BY <1>12, <1>13, Zenon
<1>17. kernel_page_tables' \in [D -> Nat \cup {Unmapped}]
    BY <1>10, <1>13
<1>18. QED
    BY <1>14, <1>15, <1>16, <1>17, Zenon DEF VaddrsInv, D

\* Another reference to a mapping, or one less, changes nothing of it.
LEMMA CountStep ==
    ASSUME held \in Seq(Mappings), VaddrsInv, UNCHANGED <<vaddrs, kernel_page_tables>>,
           NEW k \in 1 .. Len(held), NEW r \in Nat \ {0}, held' = Counted(held, k, r)
    PROVE  VaddrsInv'
<1> DEFINE n == Len(held)
           t == held'
           D == VaddrsFrom .. VaddrsTo - 1
<1>1. /\ PoolInv(vaddrs, VaddrsTaken(held), n, VaddrsFrom, VaddrsTo)
      /\ kernel_page_tables \in [D -> Nat \cup {Unmapped}]
      /\ \A i \in 1 .. n, v \in Nat : v \in AddrsOf(held[i]) =>
            kernel_page_tables[v] = held[i].page + (v - held[i].addr)
      /\ \A v \in D : (\A i \in 1 .. n : v \notin AddrsOf(held[i]))
            => kernel_page_tables[v] = Unmapped
    BY DEF VaddrsInv
<1>2. n \in Nat
    BY HeldIs
<1>3. /\ Len(t) = n
      /\ \A i \in 1 .. n :
            /\ t[i].addr = held[i].addr /\ t[i].order = held[i].order /\ t[i].page = held[i].page
            /\ VaddrsTaken(t)[i] = VaddrsTaken(held)[i]
    BY HeldCounts
<1> HIDE DEF t, D, n
<1>4. \A i \in 1 .. n : AddrsOf(t[i]) = AddrsOf(held[i])
    BY <1>3 DEF AddrsOf
<1>5. PoolInv(vaddrs, VaddrsTaken(t), n, VaddrsFrom, VaddrsTo)
    BY <1>1, <1>2, <1>3, PoolAgrees
<1>6. vaddrs' = vaddrs /\ kernel_page_tables' = kernel_page_tables /\ held' = t /\ Len(held') = n
    BY <1>3 DEF t
<1>7. \A i \in 1 .. n, v \in Nat : v \in AddrsOf(t[i]) =>
            kernel_page_tables[v] = t[i].page + (v - t[i].addr)
    BY <1>1, <1>3, <1>4
<1>8. \A v \in D : (\A i \in 1 .. n : v \notin AddrsOf(t[i])) => kernel_page_tables[v] = Unmapped
    BY <1>1, <1>4
<1>9. QED
    BY <1>1, <1>5, <1>6, <1>7, <1>8, Zenon DEF VaddrsInv, D

-----------------------------------------------------------------------------
(* The pages, step by step.                                                *)

\* The page that is allocated is one that no mapping has, and the mapping of
\* it is the next in the history of the pool.
LEMMA PageIsTaken ==
    ASSUME held \in Seq(Mappings), PagesInv, NEW o \in Order, Available(pages, o) # {}
    PROVE  /\ Taken(pages, o) \in 0 .. region[2] - 1 /\ Taken(pages, o) # Device
           /\ \A k \in 1 .. Len(held) : held[k].page # Taken(pages, o)
           /\ \A e \in Mappings : e.page = Taken(pages, o) /\ e.order = o =>
                PoolInv(page_allocate(pages, o), PagesTaken(Append(held, e)), Len(held) + 1,
                        region[1], region[2])
<1> DEFINE x == Taken(pages, o)
           n == Len(held)
           from == region[1]
           to == region[2]
           after == page_allocate(pages, o)
           U == [i \in 1 .. n + 1 |-> IF i = n + 1 THEN {Block(x, o)} ELSE PagesTaken(held)[i]]
<1>1. PoolInv(pages, PagesTaken(held), n, from, to) /\ region \in Region
    BY DEF PagesInv
<1>2. n \in Nat /\ from \in Nat /\ to \in Nat /\ to <= Device
    BY <1>1, HeldIs, Constants
<1>3. U[n + 1] = {Block(x, o)} /\ \A i \in 1 .. n : U[i] = PagesTaken(held)[i]
    <2>1. n + 1 \in 1 .. n + 1 /\ \A i \in 1 .. n : i \in 1 .. n + 1 /\ i # n + 1
        BY <1>2
    <2>2. QED
        BY <2>1
<1> HIDE DEF U, n, from, to
<1>4. x \in Index(pages) /\ PoolInv(after, U, n + 1, from, to)
    <2>1. PoolInv(pages, U, n, from, to)
        BY <1>1, <1>2, <1>3, PoolAgrees
    <2>2. QED
        BY <1>2, <1>3, <2>1, PoolAllocates
<1>5. x \in 0 .. to - 1 /\ x \in Nat /\ x # Device
    <2>1. pages.count = to
        BY <1>1 DEF PoolInv
    <2>2. x \in 0 .. to - 1
        BY <1>4, <2>1 DEF Index
    <2>3. Device \in Nat
        BY Constants
    <2> HIDE DEF x
    <2>4. QED
        BY <1>2, <2>2, <2>3
<1> HIDE DEF x, after
<1>6. ASSUME NEW e \in Mappings, e.page = x, e.order = o
      PROVE  PoolInv(after, PagesTaken(Append(held, e)), n + 1, from, to)
    <2> DEFINE t == Append(held, e)
    <2>1. /\ t \in Seq(Mappings) /\ Len(t) = n + 1 /\ t[n + 1] = e
          /\ \A i \in 1 .. n : PagesTaken(t)[i] = PagesTaken(held)[i]
        BY HeldGrows DEF n
    <2> HIDE DEF t
    <2>2. n + 1 \in 1 .. Len(t) /\ \A i \in 1 .. n + 1 : i \in 1 .. n \/ i = n + 1
        BY <1>2, <2>1
    <2>3. PagesTaken(t)[n + 1] = {Block(x, o)}
        BY <1>5, <1>6, <2>1, <2>2, HeldIs
    <2>4. \A i \in 1 .. n + 1 : PagesTaken(t)[i] = U[i]
        BY <1>3, <2>1, <2>2, <2>3
    <2>5. n + 1 \in Nat
        BY <1>2
    <2>6. QED
        BY <1>4, <2>4, <2>5, PoolAgrees DEF t
<1>7. ASSUME NEW k \in 1 .. n, held[k].page = x
      PROVE  FALSE
    <2> DEFINE e == [addr |-> 0, order |-> o, page |-> x, refs |-> 1]
               t == Append(held, e)
    <2>1. e \in Mappings /\ e.page = x /\ e.order = o
        BY <1>5 DEF Mappings
    <2> HIDE DEF e
    <2>2. PoolInv(after, PagesTaken(t), n + 1, from, to)
        BY <1>6, <2>1
    <2>3. t \in Seq(Mappings) /\ Len(t) = n + 1 /\ t[n + 1] = e /\ t[k] = held[k]
        BY <2>1, HeldGrows DEF n
    <2> HIDE DEF t
    <2>4. n + 1 \in 1 .. Len(t) /\ k \in 1 .. Len(t) /\ k # n + 1
        BY <1>2, <2>3
    <2>5. t[k].page = t[n + 1].page /\ t[n + 1].page # Device
        BY <1>5, <1>7, <2>1, <2>3
    <2>6. PoolInv(after, PagesTaken(t), Len(t), from, to)
        BY <2>2, <2>3
    <2> DEFINE m == n + 1
    <2>7. m \in 1 .. Len(t) /\ k # m /\ t[k].page = t[m].page /\ t[m].page # Device
        BY <2>4, <2>5
    <2> HIDE DEF m
    <2>8. \A j \in 1 .. Len(t) : t[j].page = t[m].page => m = j
        BY <1>2, <2>3, <2>6, <2>7, PageFacts
    <2>9. QED
        BY <2>4, <2>7, <2>8
<1>8. QED
    BY <1>5, <1>6, <1>7 DEF x, after, n, from, to

\* A page that could not be mapped is given back at once.
LEMMA PageIsReturned ==
    ASSUME held \in Seq(Mappings), PagesInv, NEW o \in Order, Available(pages, o) # {},
           pages' = page_free(page_allocate(pages, o), Taken(pages, o)),
           UNCHANGED <<region, kernel_vaddr, kernel_vaddr_refcnt, held>>
    PROVE  PagesInv'
<1> DEFINE x == Taken(pages, o)
           n == Len(held)
           from == region[1]
           to == region[2]
           e == [addr |-> 0, order |-> o, page |-> x, refs |-> 1]
           t == Append(held, e)
           T == PagesTaken(t)
           after == page_allocate(pages, o)
<1>1. x \in 0 .. to - 1 /\ x # Device /\ region \in Region
    BY PageIsTaken DEF PagesInv
<1>2. n \in Nat /\ from \in Nat /\ to \in Nat
    BY <1>1, HeldIs, Constants
<1>3. e \in Mappings /\ e.page = x /\ e.order = o /\ x \in Nat
    BY <1>1 DEF Mappings
<1>4. PoolInv(after, T, n + 1, from, to)
    <2> HIDE DEF e
    <2>1. QED
        BY <1>3, PageIsTaken
<1> HIDE DEF e, x, after
<1>5. /\ t \in Seq(Mappings) /\ Len(t) = n + 1 /\ t[n + 1] = e
      /\ \A i \in 1 .. n : T[i] = PagesTaken(held)[i]
    BY <1>3, HeldGrows
<1> HIDE DEF t, n
<1>6. T[n + 1] = {Block(x, o)}
    <2>1. n + 1 \in 1 .. Len(t)
        BY <1>2, <1>5
    <2>2. QED
        BY <1>1, <1>3, <1>5, <2>1, HeldIs
<1> HIDE DEF T, from, to
<1>7. PoolInv(page_free(after, x), PagesTaken(held), n, from, to)
    <2> DEFINE b == Block(x, o)
    <2>1. b \in BlockSet /\ b.index = x /\ T[n + 1] = {b}
        BY <1>3, <1>6, Spans
    <2> HIDE DEF b
    <2>2. PoolInv(page_free(after, x), T, n, from, to)
        BY <1>2, <1>4, <2>1, PoolFrees
    <2>3. QED
        BY <1>2, <1>5, <2>2, PoolAgrees
<1>8. /\ PoolInv(pages', PagesTaken(held'), Len(held'), region'[1], region'[2])
      /\ region' = region /\ held' = held
      /\ kernel_vaddr' = kernel_vaddr /\ kernel_vaddr_refcnt' = kernel_vaddr_refcnt
    BY <1>7 DEF x, after, n, from, to
<1>9. QED
    BY <1>8, Zenon DEF PagesInv

-----------------------------------------------------------------------------
(* The steps of the specification.                                         *)

LEMMA AllocateKeeps ==
    ASSUME IInv, NEW o \in Order, KernelPageAllocate(o)
    PROVE  IInv'
<1> DEFINE page == Taken(pages, o)
           x == Taken(vaddrs, o)
           n == Len(held)
           P == 0 .. region[2] - 1
           e == Mapping(x, o, page)
           t == Append(held, e)
<1>1. held \in Seq(Mappings) /\ PagesInv /\ VaddrsInv
    BY DEF IInv
<1>2. /\ Available(pages, o) # {} /\ Available(vaddrs, o) # {}
      /\ pages' = page_allocate(pages, o)
      /\ page_map_first(page, o) \/ page_map_again(page)
      /\ held' = Append(held, Mapping(kernel_vaddr'[page], o, page))
      /\ region' = region
    BY DEF KernelPageAllocate
<1>3. /\ region \in Region
      /\ kernel_vaddr \in [P -> (0 .. VaddrsTo - 1) \cup {NoVaddr}]
      /\ kernel_vaddr_refcnt \in [P -> Nat]
      /\ \A k \in 1 .. n : held[k].page # Device =>
            /\ kernel_vaddr[held[k].page] = held[k].addr
            /\ kernel_vaddr_refcnt[held[k].page] = held[k].refs
      /\ \A p \in P : (\A k \in 1 .. n : held[k].page # p)
            => kernel_vaddr[p] = NoVaddr /\ kernel_vaddr_refcnt[p] = 0
    BY <1>1 DEF PagesInv
<1>4. /\ page \in P /\ page # Device /\ \A k \in 1 .. n : held[k].page # page
      /\ \A f \in Mappings : f.page = page /\ f.order = o =>
            PoolInv(page_allocate(pages, o), PagesTaken(Append(held, f)), n + 1,
                    region[1], region[2])
    BY <1>1, <1>2, PageIsTaken
<1>5. n \in Nat /\ page \in Nat
    BY <1>1, <1>4, HeldIs
<1> HIDE DEF page, P, n
<1>6. kernel_vaddr[page] = NoVaddr /\ kernel_vaddr_refcnt[page] = 0
    BY <1>3, <1>4
<1>7. /\ map_phaddr_in_kernel(page, o)
      /\ kernel_vaddr' = [kernel_vaddr EXCEPT ![page] = x]
      /\ kernel_vaddr_refcnt' = [kernel_vaddr_refcnt EXCEPT ![page] = @ + 1]
    BY <1>2, <1>6 DEF page_map_first, page_map_again
<1>8. held' = t
    BY <1>2, <1>3, <1>4, <1>7
<1>9. e \in Mappings /\ x \in 0 .. VaddrsTo - 1 /\ VaddrsInv'
    BY <1>1, <1>2, <1>5, <1>7, <1>8, MapStep
<1>10. e.addr = x /\ e.order = o /\ e.page = page /\ e.refs = 1
    BY DEF Mapping
<1> HIDE DEF x, e
<1>11. PoolInv(pages', PagesTaken(t), n + 1, region[1], region[2])
    BY <1>2, <1>4, <1>9, <1>10
<1>12. /\ t \in Seq(Mappings) /\ Len(t) = n + 1 /\ t[n + 1] = e
       /\ \A k \in 1 .. n : t[k] = held[k]
    BY <1>1, <1>9, HeldGrows DEF n
<1> HIDE DEF t
<1>13. /\ \A k \in 1 .. n + 1 : k \in 1 .. n \/ k = n + 1
       /\ n + 1 \in 1 .. n + 1 /\ \A k \in 1 .. n : k \in 1 .. n + 1
    BY <1>5
<1>14. /\ kernel_vaddr' \in [P -> (0 .. VaddrsTo - 1) \cup {NoVaddr}]
       /\ kernel_vaddr_refcnt' \in [P -> Nat]
       /\ kernel_vaddr'[page] = x /\ kernel_vaddr_refcnt'[page] = 1
       /\ \A p \in P : p # page => kernel_vaddr'[p] = kernel_vaddr[p]
                                   /\ kernel_vaddr_refcnt'[p] = kernel_vaddr_refcnt[p]
    BY <1>3, <1>4, <1>6, <1>7, <1>9
<1>15. ASSUME NEW k \in 1 .. n + 1, t[k].page # Device
       PROVE  kernel_vaddr'[t[k].page] = t[k].addr /\ kernel_vaddr_refcnt'[t[k].page] = t[k].refs
    <2>1. CASE k = n + 1
        BY <1>10, <1>12, <1>14, <2>1
    <2>2. CASE k \in 1 .. n
        <3>1. t[k] = held[k] /\ held[k].page # page
            BY <1>4, <1>12, <2>2
        <3>2. held[k].page \in P
            <4>1. region[1] \in Nat /\ region[2] \in Nat /\ region[2] <= Device
                BY <1>3, Constants
            <4>2. PoolInv(pages, PagesTaken(held), Len(held), region[1], region[2])
                BY <1>1 DEF PagesInv
            <4>3. k \in 1 .. Len(held) /\ held[k].page # Device
                BY <1>15, <2>2, <3>1 DEF n
            <4>4. QED
                BY <1>1, <4>1, <4>2, <4>3, PageFacts DEF P
        <3>3. QED
            BY <1>3, <1>14, <1>15, <2>2, <3>1, <3>2
    <2>3. QED
        BY <1>13, <2>1, <2>2
<1>16. ASSUME NEW p \in P, \A k \in 1 .. n + 1 : t[k].page # p
       PROVE  kernel_vaddr'[p] = NoVaddr /\ kernel_vaddr_refcnt'[p] = 0
    <2>1. p # page /\ \A k \in 1 .. n : held[k].page # p
        BY <1>10, <1>12, <1>13, <1>16
    <2>2. QED
        BY <1>3, <1>14, <2>1
<1>17. PagesInv'
    <2>1. held' = t /\ Len(held') = n + 1 /\ region' = region
        BY <1>2, <1>8, <1>12
    <2>2. PoolInv(pages', PagesTaken(held'), Len(held'), region'[1], region'[2])
        BY <1>11, <2>1
    <2>3. \A k \in 1 .. Len(held') : held'[k].page # Device =>
            /\ kernel_vaddr'[held'[k].page] = held'[k].addr
            /\ kernel_vaddr_refcnt'[held'[k].page] = held'[k].refs
        BY <1>15, <2>1, Zenon
    <2>4. \A p \in P : (\A k \in 1 .. Len(held') : held'[k].page # p)
            => kernel_vaddr'[p] = NoVaddr /\ kernel_vaddr_refcnt'[p] = 0
        BY <1>16, <2>1, Zenon
    <2>5. P = 0 .. region'[2] - 1 /\ region' \in Region
        BY <1>3, <2>1 DEF P
    <2>6. QED
        BY <1>14, <2>2, <2>3, <2>4, <2>5, Zenon DEF PagesInv
<1>18. held' \in Seq(Mappings)
    BY <1>8, <1>12
<1>19. QED
    BY <1>9, <1>17, <1>18 DEF IInv

LEMMA AllocateFailsKeeps ==
    ASSUME IInv, NEW o \in Order, KernelPageAllocateFails(o)
    PROVE  IInv'
<1>1. held \in Seq(Mappings) /\ PagesInv /\ VaddrsInv
    BY DEF IInv
<1>2. /\ Available(pages, o) # {}
      /\ pages' = page_free(page_allocate(pages, o), Taken(pages, o))
      /\ UNCHANGED <<region, kernel_vaddr, kernel_vaddr_refcnt, held>>
      /\ vaddrs' = vaddrs /\ kernel_page_tables' = kernel_page_tables /\ held' = held
    BY DEF KernelPageAllocateFails, mappingVars
<1>3. PagesInv'
    BY <1>1, <1>2, PageIsReturned
<1>4. VaddrsInv'
    BY <1>1, <1>2, Zenon DEF VaddrsInv
<1>5. QED
    BY <1>1, <1>2, <1>3, <1>4 DEF IInv

\* The latest mapping and its page are given back.
LEMMA FreeKeeps ==
    ASSUME ~AnyOrder, IInv, NEW q \in DOMAIN held, KernelPageFree(q)
    PROVE  IInv'
<1> DEFINE n == Len(held)
           m == n - 1
           P == 0 .. region[2] - 1
           page == held[n].page
           x == held[n].addr
           t == RemoveAt(held, n)
           T == PagesTaken(held)
<1>1. held \in Seq(Mappings) /\ PagesInv /\ VaddrsInv
    BY DEF IInv
<1>2. /\ n \in Nat /\ m \in Nat /\ n = m + 1 /\ n \in 1 .. n /\ n # 0
      /\ \A k \in 1 .. m : k \in 1 .. n /\ k # n
      /\ \A k \in 1 .. n : k \in 1 .. m \/ k = n
      /\ q = n
    <2>1. n \in Nat /\ DOMAIN held = 1 .. n
        BY <1>1, HeldIs
    <2>2. q = n
        BY DEF KernelPageFree, MayFree
    <2> HIDE DEF n
    <2>3. QED
        BY <2>1, <2>2
<1>3. page \in Nat /\ x \in Nat /\ held[n].order \in Order
    BY <1>1, <1>2, HeldIs
<1>4. kernel_page_tables[x] = page
    <2>1. PoolInv(vaddrs, VaddrsTaken(held), Len(held), VaddrsFrom, VaddrsTo)
        BY <1>1 DEF VaddrsInv
    <2>2. x \in AddrsOf(held[n])
        BY <1>1, <1>2, <2>1, VaddrFacts
    <2>3. kernel_page_tables[x] = page + (x - x)
        BY <1>1, <1>2, <1>3, <2>2 DEF VaddrsInv
    <2> HIDE DEF x, page
    <2>4. QED
        BY <1>3, <2>3
<1>5. /\ page # Device /\ held[n].refs = 1
      /\ page_unmap(page)
      /\ pages' = page_free(pages, page)
      /\ held' = t /\ region' = region
    BY <1>2, <1>4 DEF KernelPageFree
<1>6. /\ region \in Region /\ PoolInv(pages, T, n, region[1], region[2])
      /\ kernel_vaddr \in [P -> (0 .. VaddrsTo - 1) \cup {NoVaddr}]
      /\ kernel_vaddr_refcnt \in [P -> Nat]
      /\ \A k \in 1 .. n : held[k].page # Device =>
            /\ kernel_vaddr[held[k].page] = held[k].addr
            /\ kernel_vaddr_refcnt[held[k].page] = held[k].refs
      /\ \A p \in P : (\A k \in 1 .. n : held[k].page # p)
            => kernel_vaddr[p] = NoVaddr /\ kernel_vaddr_refcnt[p] = 0
    BY <1>1 DEF PagesInv
<1>7. /\ page \in P /\ \A k \in 1 .. n : held[k].page = page => n = k
      /\ \A k \in 1 .. n : held[k].page # Device => held[k].page \in P
    <2>1. region[1] \in Nat /\ region[2] \in Nat /\ region[2] <= Device
        BY <1>6, Constants
    <2>2. \A i \in 1 .. n : held[i].page # Device =>
            /\ held[i].page \in P
            /\ \A j \in 1 .. n : held[j].page = held[i].page => i = j
        BY <1>1, <1>6, <2>1, PageFacts
    <2>3. QED
        BY <1>2, <1>5, <2>2
<1>8. kernel_vaddr[page] = x /\ kernel_vaddr_refcnt[page] = 1
    BY <1>2, <1>5, <1>6
<1>9. /\ unmap_phaddr_in_kernel(x)
      /\ kernel_vaddr' = [kernel_vaddr EXCEPT ![page] = NoVaddr]
      /\ kernel_vaddr_refcnt' = [kernel_vaddr_refcnt EXCEPT ![page] = 0]
    <2>1. kernel_vaddr_refcnt' = [kernel_vaddr_refcnt EXCEPT ![page] = @ - 1]
        BY <1>5 DEF page_unmap
    <2> HIDE DEF page, P
    <2>2. kernel_vaddr_refcnt' = [kernel_vaddr_refcnt EXCEPT ![page] = 0]
        BY <1>6, <1>7, <1>8, <2>1
    <2>3. kernel_vaddr_refcnt'[page] = 0
        BY <1>6, <1>7, <2>2
    <2>4. QED
        BY <1>5, <1>8, <2>2, <2>3 DEF page_unmap
<1>10. VaddrsInv'
    BY <1>1, <1>2, <1>5, <1>9, UnmapStep
<1>11. /\ t \in Seq(Mappings) /\ Len(t) = m
       /\ \A i \in 1 .. m : t[i] = held[i] /\ PagesTaken(t)[i] = T[i]
    BY <1>1, <1>2, HeldShrinks
<1>12. PoolInv(page_free(pages, page), PagesTaken(t), m, region[1], region[2])
    <2> DEFINE b == Block(page, held[n].order)
    <2>1. b \in BlockSet /\ b.index = page
        BY <1>3, Spans
    <2>2. T[n] = {b}
        BY <1>1, <1>2, <1>5, HeldIs
    <2>3. region[1] \in Nat
        BY <1>6, Constants
    <2> HIDE DEF b, T, page, t, n, m
    <2>4. T[m + 1] = {b} /\ PoolInv(pages, T, m + 1, region[1], region[2])
        BY <1>2, <1>6, <2>2
    <2>5. PoolInv(page_free(pages, page), T, m, region[1], region[2])
        BY <1>2, <2>1, <2>3, <2>4, PoolFrees
    <2>6. QED
        BY <1>2, <1>11, <2>5, PoolAgrees
<1> HIDE DEF t, page, P, x, T, n, m
<1>13. /\ kernel_vaddr' \in [P -> (0 .. VaddrsTo - 1) \cup {NoVaddr}]
       /\ kernel_vaddr_refcnt' \in [P -> Nat]
       /\ kernel_vaddr'[page] = NoVaddr /\ kernel_vaddr_refcnt'[page] = 0
       /\ \A p \in P : p # page => kernel_vaddr'[p] = kernel_vaddr[p]
                                   /\ kernel_vaddr_refcnt'[p] = kernel_vaddr_refcnt[p]
    BY <1>6, <1>7, <1>9
<1>14. ASSUME NEW k \in 1 .. m, t[k].page # Device
       PROVE  kernel_vaddr'[t[k].page] = t[k].addr /\ kernel_vaddr_refcnt'[t[k].page] = t[k].refs
    <2>1. t[k] = held[k] /\ k \in 1 .. n /\ k # n
        BY <1>2, <1>11
    <2>2. held[k].page # page /\ held[k].page \in P
        BY <1>7, <1>14, <2>1
    <2>3. QED
        BY <1>6, <1>13, <1>14, <2>1, <2>2
<1>15. ASSUME NEW p \in P, \A k \in 1 .. m : t[k].page # p
       PROVE  kernel_vaddr'[p] = NoVaddr /\ kernel_vaddr_refcnt'[p] = 0
    <2>1. CASE p = page
        BY <1>13, <2>1
    <2>2. CASE p # page
        <3>1. \A k \in 1 .. n : held[k].page # p
            BY <1>2, <1>11, <1>15, <2>2 DEF page
        <3>2. QED
            BY <1>6, <1>13, <2>2, <3>1
    <2>3. QED
        BY <2>1, <2>2
<1>16. PagesInv'
    <2>1. held' = t /\ Len(held') = m /\ region' = region
        BY <1>5, <1>11
    <2>2. PoolInv(pages', PagesTaken(held'), Len(held'), region'[1], region'[2])
        BY <1>5, <1>12, <2>1
    <2>3. \A k \in 1 .. Len(held') : held'[k].page # Device =>
            /\ kernel_vaddr'[held'[k].page] = held'[k].addr
            /\ kernel_vaddr_refcnt'[held'[k].page] = held'[k].refs
        BY <1>14, <2>1, Zenon
    <2>4. \A p \in P : (\A k \in 1 .. Len(held') : held'[k].page # p)
            => kernel_vaddr'[p] = NoVaddr /\ kernel_vaddr_refcnt'[p] = 0
        BY <1>15, <2>1, Zenon
    <2>5. P = 0 .. region'[2] - 1 /\ region' \in Region
        BY <1>6, <2>1 DEF P
    <2>6. QED
        BY <1>13, <2>2, <2>3, <2>4, <2>5, Zenon DEF PagesInv
<1>17. QED
    BY <1>5, <1>10, <1>11, <1>16 DEF IInv

\* A page and its mapping count the same references.
LEMMA RecountKeeps ==
    ASSUME IInv, NEW q \in 1 .. Len(held), NEW r \in Nat \ {0}, held[q].page # Device,
           held' = Counted(held, q, r),
           kernel_vaddr_refcnt' = [kernel_vaddr_refcnt EXCEPT ![held[q].page] = r],
           UNCHANGED <<region, pages, vaddrs, kernel_page_tables, kernel_vaddr>>
    PROVE  IInv'
<1> DEFINE n == Len(held)
           P == 0 .. region[2] - 1
           page == held[q].page
           t == held'
           T == PagesTaken(held)
<1>1. held \in Seq(Mappings) /\ PagesInv /\ VaddrsInv
    BY DEF IInv
<1>2. /\ region' = region /\ pages' = pages /\ vaddrs' = vaddrs
      /\ kernel_page_tables' = kernel_page_tables /\ kernel_vaddr' = kernel_vaddr
    OBVIOUS
<1>3. VaddrsInv'
    BY <1>1, <1>2, CountStep
<1>4. /\ region \in Region /\ PoolInv(pages, T, n, region[1], region[2])
      /\ kernel_vaddr \in [P -> (0 .. VaddrsTo - 1) \cup {NoVaddr}]
      /\ kernel_vaddr_refcnt \in [P -> Nat]
      /\ \A k \in 1 .. n : held[k].page # Device =>
            /\ kernel_vaddr[held[k].page] = held[k].addr
            /\ kernel_vaddr_refcnt[held[k].page] = held[k].refs
      /\ \A p \in P : (\A k \in 1 .. n : held[k].page # p)
            => kernel_vaddr[p] = NoVaddr /\ kernel_vaddr_refcnt[p] = 0
    BY <1>1 DEF PagesInv
<1>5. /\ page \in P /\ \A k \in 1 .. n : held[k].page = page => q = k
      /\ \A k \in 1 .. n : held[k].page # Device => held[k].page \in P
    <2>1. region[1] \in Nat /\ region[2] \in Nat /\ region[2] <= Device
        BY <1>4, Constants
    <2>2. \A i \in 1 .. n : held[i].page # Device =>
            /\ held[i].page \in P
            /\ \A j \in 1 .. n : held[j].page = held[i].page => i = j
        BY <1>1, <1>4, <2>1, PageFacts
    <2>3. QED
        BY <2>2
<1>6. n \in Nat
    BY <1>1, HeldIs
<1>7. /\ t \in Seq(Mappings) /\ Len(t) = n
      /\ \A i \in 1 .. n :
            /\ t[i].addr = held[i].addr /\ t[i].order = held[i].order /\ t[i].page = held[i].page
            /\ t[i].refs = IF i = q THEN r ELSE held[i].refs
            /\ PagesTaken(t)[i] = T[i]
    <2>1. held' \in Seq(Mappings) /\ Len(held') = Len(held)
        BY <1>1, HeldCounts
    <2>2. \A i \in 1 .. Len(held) :
            /\ held'[i].addr = held[i].addr /\ held'[i].order = held[i].order
            /\ held'[i].page = held[i].page
            /\ held'[i].refs = IF i = q THEN r ELSE held[i].refs
            /\ PagesTaken(held')[i] = PagesTaken(held)[i]
        BY <1>1, HeldCounts
    <2>3. QED
        BY <2>1, <2>2, Zenon
<1> HIDE DEF T, n, P, t
<1>8. PoolInv(pages, PagesTaken(t), n, region[1], region[2])
    BY <1>4, <1>6, <1>7, PoolAgrees
<1>9. /\ kernel_vaddr_refcnt' \in [P -> Nat] /\ kernel_vaddr_refcnt'[page] = r
      /\ \A p \in P : p # page => kernel_vaddr_refcnt'[p] = kernel_vaddr_refcnt[p]
    BY <1>4, <1>5
<1>10. ASSUME NEW k \in 1 .. n, t[k].page # Device
       PROVE  kernel_vaddr[t[k].page] = t[k].addr /\ kernel_vaddr_refcnt'[t[k].page] = t[k].refs
    <2>1. CASE k = q
        BY <1>4, <1>7, <1>9, <1>10, <2>1
    <2>2. CASE k # q
        <3>1. held[k].page # page /\ held[k].page \in P
            BY <1>5, <1>7, <1>10, <2>2
        <3>2. QED
            BY <1>4, <1>7, <1>9, <1>10, <2>2, <3>1
    <2>3. QED
        BY <2>1, <2>2
<1>11. ASSUME NEW p \in P, \A k \in 1 .. n : t[k].page # p
       PROVE  kernel_vaddr[p] = NoVaddr /\ kernel_vaddr_refcnt'[p] = 0
    <2>1. \A k \in 1 .. n : held[k].page # p
        BY <1>7, <1>11
    <2>2. p # page
        BY <2>1 DEF n
    <2>3. QED
        BY <1>4, <1>9, <2>1, <2>2
<1>12. PagesInv'
    <2>1. held' = t /\ Len(held') = n /\ region' = region /\ kernel_vaddr' = kernel_vaddr
        BY <1>2, <1>7 DEF t
    <2>2. PoolInv(pages', PagesTaken(held'), Len(held'), region'[1], region'[2])
        BY <1>2, <1>8, <2>1
    <2>3. \A k \in 1 .. Len(held') : held'[k].page # Device =>
            /\ kernel_vaddr'[held'[k].page] = held'[k].addr
            /\ kernel_vaddr_refcnt'[held'[k].page] = held'[k].refs
        BY <1>10, <2>1, Zenon
    <2>4. \A p \in P : (\A k \in 1 .. Len(held') : held'[k].page # p)
            => kernel_vaddr'[p] = NoVaddr /\ kernel_vaddr_refcnt'[p] = 0
        BY <1>11, <2>1, Zenon
    <2>5. P = 0 .. region'[2] - 1 /\ region' \in Region
        BY <1>4, <2>1 DEF P
    <2>6. kernel_vaddr' \in [P -> (0 .. VaddrsTo - 1) \cup {NoVaddr}]
        BY <1>4, <2>1
    <2>7. QED
        BY <1>9, <2>2, <2>3, <2>4, <2>5, <2>6, Zenon DEF PagesInv
<1>13. QED
    BY <1>3, <1>7, <1>12 DEF IInv, t

LEMMA RefcntIs ==
    ASSUME IInv, NEW q \in DOMAIN held, held[q].page # Device
    PROVE  /\ q \in 1 .. Len(held) /\ held[q].refs \in Nat \ {0}
           /\ kernel_vaddr_refcnt[held[q].page] = held[q].refs
           /\ held[q].page \in DOMAIN kernel_vaddr_refcnt
<1>1. held \in Seq(Mappings) /\ PagesInv
    BY DEF IInv
<1>2. q \in 1 .. Len(held) /\ held[q].refs \in Nat \ {0}
    BY <1>1, HeldIs
<1>3. held[q].page \in 0 .. region[2] - 1
    <2>1. /\ region[1] \in Nat /\ region[2] \in Nat /\ region[2] <= Device
          /\ PoolInv(pages, PagesTaken(held), Len(held), region[1], region[2])
        BY <1>1, Constants DEF PagesInv
    <2>2. QED
        BY <1>1, <1>2, <2>1, PageFacts
<1>4. QED
    BY <1>1, <1>2, <1>3 DEF PagesInv

LEMMA MapKeeps ==
    ASSUME IInv, NEW q \in DOMAIN held, Map(q)
    PROVE  IInv'
<1> DEFINE r == held[q].refs + 1
           page == held[q].page
<1>1. page # Device
    BY DEF Map
<1>2. /\ q \in 1 .. Len(held) /\ held[q].refs \in Nat \ {0}
      /\ kernel_vaddr_refcnt[page] = held[q].refs
      /\ page \in DOMAIN kernel_vaddr_refcnt
    BY <1>1, RefcntIs
<1>3. r \in Nat \ {0}
    BY <1>2
<1>4. held' = Counted(held, q, r)
    BY DEF Map, Counted
<1>5. UNCHANGED <<region, pages, vaddrs, kernel_page_tables, kernel_vaddr>>
    BY DEF Map, page_map_again
<1>6. kernel_vaddr_refcnt' = [kernel_vaddr_refcnt EXCEPT ![page] = @ + 1]
    BY DEF Map, page_map_again
<1>7. kernel_vaddr_refcnt' = [kernel_vaddr_refcnt EXCEPT ![page] = r]
    BY <1>2, <1>6
<1> HIDE DEF r
<1>8. QED
    BY <1>1, <1>2, <1>3, <1>4, <1>5, <1>7, RecountKeeps

LEMMA UnmapKeeps ==
    ASSUME IInv, NEW q \in DOMAIN held, Unmap(q)
    PROVE  IInv'
<1> DEFINE r == held[q].refs - 1
           page == held[q].page
<1>1. page # Device /\ held[q].refs > 1
    BY DEF Unmap
<1>2. /\ q \in 1 .. Len(held) /\ held[q].refs \in Nat \ {0}
      /\ kernel_vaddr_refcnt[page] = held[q].refs
      /\ page \in DOMAIN kernel_vaddr_refcnt
    BY <1>1, RefcntIs
<1>3. r \in Nat \ {0}
    BY <1>1, <1>2
<1>4. held' = Counted(held, q, r)
    BY DEF Unmap, Counted
<1>5. kernel_vaddr_refcnt' = [kernel_vaddr_refcnt EXCEPT ![page] = @ - 1]
    BY DEF Unmap, page_unmap
<1>6. kernel_vaddr_refcnt' = [kernel_vaddr_refcnt EXCEPT ![page] = r]
    BY <1>2, <1>5
<1> HIDE DEF r
<1>7. kernel_vaddr_refcnt'[page] # 0
    BY <1>2, <1>3, <1>6
<1>8. UNCHANGED <<region, pages, vaddrs, kernel_page_tables, kernel_vaddr>>
    BY <1>7 DEF Unmap, page_unmap
<1>9. QED
    BY <1>1, <1>2, <1>3, <1>4, <1>6, <1>8, RecountKeeps

\* The mapping of a device takes no page.
LEMMA MapDeviceKeeps ==
    ASSUME IInv, NEW o \in Order, MapDevice(o)
    PROVE  IInv'
<1> DEFINE x == Taken(vaddrs, o)
           n == Len(held)
           P == 0 .. region[2] - 1
           e == Mapping(x, o, Device)
           t == Append(held, e)
<1>1. held \in Seq(Mappings) /\ PagesInv /\ VaddrsInv
    BY DEF IInv
<1>2. /\ Available(vaddrs, o) # {} /\ map_phaddr_in_kernel(Device, o) /\ held' = t
      /\ region' = region /\ pages' = pages
      /\ kernel_vaddr' = kernel_vaddr /\ kernel_vaddr_refcnt' = kernel_vaddr_refcnt
    BY DEF MapDevice
<1>3. Device \in Nat /\ n \in Nat
    BY <1>1, Constants, HeldIs
<1>4. e \in Mappings /\ VaddrsInv'
    BY <1>1, <1>2, <1>3, MapStep
<1>5. e.page = Device
    BY DEF Mapping
<1>6. /\ region \in Region /\ PoolInv(pages, PagesTaken(held), n, region[1], region[2])
      /\ kernel_vaddr \in [P -> (0 .. VaddrsTo - 1) \cup {NoVaddr}]
      /\ kernel_vaddr_refcnt \in [P -> Nat]
      /\ \A k \in 1 .. n : held[k].page # Device =>
            /\ kernel_vaddr[held[k].page] = held[k].addr
            /\ kernel_vaddr_refcnt[held[k].page] = held[k].refs
      /\ \A p \in P : (\A k \in 1 .. n : held[k].page # p)
            => kernel_vaddr[p] = NoVaddr /\ kernel_vaddr_refcnt[p] = 0
    BY <1>1 DEF PagesInv
<1> HIDE DEF x, e
<1>7. /\ t \in Seq(Mappings) /\ Len(t) = n + 1 /\ t[n + 1] = e
      /\ \A k \in 1 .. n : t[k] = held[k] /\ PagesTaken(t)[k] = PagesTaken(held)[k]
    BY <1>1, <1>4, HeldGrows
<1> HIDE DEF t, n, P
<1>8. /\ \A k \in 1 .. n + 1 : k \in 1 .. n \/ k = n + 1
      /\ \A k \in 1 .. n : k \in 1 .. n + 1
    BY <1>3
<1>9. PoolInv(pages, PagesTaken(t), n + 1, region[1], region[2])
    <2>1. n + 1 \in 1 .. Len(t)
        BY <1>3, <1>7
    <2>2. PagesTaken(t)[n + 1] = {}
        BY <1>5, <1>7, <2>1, HeldIs
    <2>3. PoolInv(pages, PagesTaken(t), n, region[1], region[2])
        BY <1>3, <1>6, <1>7, PoolAgrees
    <2>4. QED
        BY <1>3, <2>2, <2>3, PoolSkips
<1>10. ASSUME NEW k \in 1 .. n + 1, t[k].page # Device
       PROVE  kernel_vaddr[t[k].page] = t[k].addr /\ kernel_vaddr_refcnt[t[k].page] = t[k].refs
    BY <1>5, <1>6, <1>7, <1>8, <1>10
<1>11. ASSUME NEW p \in P, \A k \in 1 .. n + 1 : t[k].page # p
       PROVE  kernel_vaddr[p] = NoVaddr /\ kernel_vaddr_refcnt[p] = 0
    <2>1. \A k \in 1 .. n : held[k].page # p
        BY <1>7, <1>8, <1>11
    <2>2. QED
        BY <1>6, <2>1
<1>12. PagesInv'
    <2>1. held' = t /\ Len(held') = n + 1
        BY <1>2, <1>7
    <2>2. PoolInv(pages', PagesTaken(held'), Len(held'), region'[1], region'[2])
        BY <1>2, <1>9, <2>1
    <2>3. \A k \in 1 .. Len(held') : held'[k].page # Device =>
            /\ kernel_vaddr'[held'[k].page] = held'[k].addr
            /\ kernel_vaddr_refcnt'[held'[k].page] = held'[k].refs
        BY <1>2, <1>10, <2>1, Zenon
    <2>4. \A p \in P : (\A k \in 1 .. Len(held') : held'[k].page # p)
            => kernel_vaddr'[p] = NoVaddr /\ kernel_vaddr_refcnt'[p] = 0
        BY <1>2, <1>11, <2>1, Zenon
    <2>5. P = 0 .. region'[2] - 1 /\ region' \in Region
        BY <1>2, <1>6 DEF P
    <2>6. /\ kernel_vaddr' \in [P -> (0 .. VaddrsTo - 1) \cup {NoVaddr}]
          /\ kernel_vaddr_refcnt' \in [P -> Nat]
        BY <1>2, <1>6
    <2>7. QED
        BY <2>2, <2>3, <2>4, <2>5, <2>6, Zenon DEF PagesInv
<1>13. QED
    BY <1>2, <1>4, <1>7, <1>12 DEF IInv

LEMMA UnmapDeviceKeeps ==
    ASSUME ~AnyOrder, IInv, NEW q \in DOMAIN held, UnmapDevice(q)
    PROVE  IInv'
<1> DEFINE n == Len(held)
           m == n - 1
           P == 0 .. region[2] - 1
           t == RemoveAt(held, n)
           T == PagesTaken(held)
<1>1. held \in Seq(Mappings) /\ PagesInv /\ VaddrsInv
    BY DEF IInv
<1>2. /\ n \in Nat /\ m \in Nat /\ n = m + 1 /\ n \in 1 .. n /\ n # 0
      /\ \A k \in 1 .. m : k \in 1 .. n /\ k # n
      /\ \A k \in 1 .. n : k \in 1 .. m \/ k = n
      /\ q = n
    <2>1. n \in Nat /\ DOMAIN held = 1 .. n
        BY <1>1, HeldIs
    <2>2. q = n
        BY DEF UnmapDevice, MayFree
    <2> HIDE DEF n
    <2>3. QED
        BY <2>1, <2>2
<1>3. /\ held[n].page = Device /\ unmap_phaddr_in_kernel(held[n].addr) /\ held' = t
      /\ region' = region /\ pages' = pages
      /\ kernel_vaddr' = kernel_vaddr /\ kernel_vaddr_refcnt' = kernel_vaddr_refcnt
    BY <1>2 DEF UnmapDevice
<1>4. VaddrsInv'
    BY <1>1, <1>2, <1>3, UnmapStep
<1>5. /\ region \in Region /\ PoolInv(pages, T, n, region[1], region[2])
      /\ kernel_vaddr \in [P -> (0 .. VaddrsTo - 1) \cup {NoVaddr}]
      /\ kernel_vaddr_refcnt \in [P -> Nat]
      /\ \A k \in 1 .. n : held[k].page # Device =>
            /\ kernel_vaddr[held[k].page] = held[k].addr
            /\ kernel_vaddr_refcnt[held[k].page] = held[k].refs
      /\ \A p \in P : (\A k \in 1 .. n : held[k].page # p)
            => kernel_vaddr[p] = NoVaddr /\ kernel_vaddr_refcnt[p] = 0
    BY <1>1 DEF PagesInv
<1>6. /\ t \in Seq(Mappings) /\ Len(t) = m
      /\ \A i \in 1 .. m : t[i] = held[i] /\ PagesTaken(t)[i] = T[i]
    BY <1>1, <1>2, HeldShrinks
<1>7. T[n] = {}
    BY <1>1, <1>2, <1>3, HeldIs
<1>8. \A p \in P : p # Device
    <2>1. region[2] \in Nat /\ region[2] <= Device /\ Device \in Nat
        BY <1>5, Constants
    <2>2. QED
        BY <2>1
<1> HIDE DEF t, T, n, m, P
<1>9. PoolInv(pages, PagesTaken(t), m, region[1], region[2])
    <2>1. T[m + 1] = {} /\ PoolInv(pages, T, m + 1, region[1], region[2])
        BY <1>2, <1>5, <1>7
    <2>2. PoolInv(pages, T, m, region[1], region[2])
        BY <1>2, <2>1, PoolSkips
    <2>3. QED
        BY <1>2, <1>6, <2>2, PoolAgrees, ZenonT(30)
<1>10. ASSUME NEW k \in 1 .. m, t[k].page # Device
       PROVE  kernel_vaddr[t[k].page] = t[k].addr /\ kernel_vaddr_refcnt[t[k].page] = t[k].refs
    BY <1>2, <1>5, <1>6, <1>10
<1>11. ASSUME NEW p \in P, \A k \in 1 .. m : t[k].page # p
       PROVE  kernel_vaddr[p] = NoVaddr /\ kernel_vaddr_refcnt[p] = 0
    <2>1. \A k \in 1 .. n : held[k].page # p
        BY <1>2, <1>3, <1>6, <1>8, <1>11
    <2>2. QED
        BY <1>5, <2>1
<1>12. PagesInv'
    <2>1. held' = t /\ Len(held') = m
        BY <1>3, <1>6
    <2>2. PoolInv(pages', PagesTaken(held'), Len(held'), region'[1], region'[2])
        BY <1>3, <1>9, <2>1
    <2>3. \A k \in 1 .. Len(held') : held'[k].page # Device =>
            /\ kernel_vaddr'[held'[k].page] = held'[k].addr
            /\ kernel_vaddr_refcnt'[held'[k].page] = held'[k].refs
        BY <1>3, <1>10, <2>1, Zenon
    <2>4. \A p \in P : (\A k \in 1 .. Len(held') : held'[k].page # p)
            => kernel_vaddr'[p] = NoVaddr /\ kernel_vaddr_refcnt'[p] = 0
        BY <1>3, <1>11, <2>1, Zenon
    <2>5. P = 0 .. region'[2] - 1 /\ region' \in Region
        BY <1>3, <1>5 DEF P
    <2>6. /\ kernel_vaddr' \in [P -> (0 .. VaddrsTo - 1) \cup {NoVaddr}]
          /\ kernel_vaddr_refcnt' \in [P -> Nat]
        BY <1>3, <1>5
    <2>7. QED
        BY <2>2, <2>3, <2>4, <2>5, <2>6, Zenon DEF PagesInv
<1>13. QED
    BY <1>3, <1>4, <1>6, <1>12 DEF IInv

-----------------------------------------------------------------------------
LEMMA InitSound ==
    ASSUME RegionsUnmerged, Init
    PROVE  IInv
<1> DEFINE P == 0 .. region[2] - 1
<1>1. /\ region \in Region /\ held = <<>>
      /\ pages = NewPool(region[1], region[2])
      /\ vaddrs = NewPool(VaddrsFrom, VaddrsTo)
      /\ kernel_page_tables = [v \in VaddrsFrom .. VaddrsTo - 1 |-> Unmapped]
    BY DEF Init
<1>2. /\ held \in Seq(Mappings) /\ Len(held) = 0
      /\ \A k : k \notin 1 .. Len(held)
    <2>1. Len(held) = 0
        BY <1>1
    <2>2. held \in Seq(Mappings)
        BY <1>1
    <2>3. QED
        BY <2>1, <2>2
<1>3. PoolInv(pages, PagesTaken(held), Len(held), region[1], region[2])
    <2> DEFINE from == region[1]
               to == region[2]
    <2>1. to \in Nat /\ from \in 0 .. to
        BY <1>1, Constants
    <2>2. Unmerged(FreeBlocks(NewPool(from, to)))
        BY <1>1 DEF RegionsUnmerged
    <2> HIDE DEF from, to
    <2>3. PoolInv(NewPool(from, to), PagesTaken(held), 0, from, to)
        BY <2>1, <2>2, PoolStarts
    <2>4. QED
        BY <1>1, <1>2, <2>3 DEF from, to
<1>4. PoolInv(vaddrs, VaddrsTaken(held), Len(held), VaddrsFrom, VaddrsTo)
    <2>1. VaddrsTo \in Nat /\ VaddrsFrom \in 0 .. VaddrsTo /\ VaddrsTo % 2^(Limit - 1) = 0
        BY Constants
    <2>2. Unmerged(FreeBlocks(NewPool(VaddrsFrom, VaddrsTo)))
        BY <2>1, NewPoolSound
    <2>3. PoolInv(NewPool(VaddrsFrom, VaddrsTo), VaddrsTaken(held), 0, VaddrsFrom, VaddrsTo)
        BY <2>1, <2>2, PoolStarts
    <2>4. QED
        BY <1>1, <1>2, <2>3
<1>5. VaddrsInv
    BY <1>1, <1>2, <1>4, Zenon DEF VaddrsInv
<1>6. kernel_vaddr = [p \in P |-> NoVaddr] /\ kernel_vaddr_refcnt = [p \in P |-> 0]
    <2>1. Index(pages) = P
        BY <1>1 DEF Index, NewPool
    <2>2. QED
        BY <2>1 DEF Init
<1>7. /\ kernel_vaddr \in [P -> (0 .. VaddrsTo - 1) \cup {NoVaddr}]
      /\ kernel_vaddr_refcnt \in [P -> Nat]
      /\ \A p \in P : kernel_vaddr[p] = NoVaddr /\ kernel_vaddr_refcnt[p] = 0
    <2> HIDE DEF P
    <2>1. QED
        BY <1>6
<1>8. PagesInv
    BY <1>1, <1>2, <1>3, <1>7, Zenon DEF PagesInv
<1>9. QED
    BY <1>2, <1>5, <1>8 DEF IInv

LEMMA NextKeeps ==
    ASSUME ~AnyOrder, IInv, [Next]_memVars
    PROVE  IInv'
<1>1. CASE UNCHANGED memVars
    <2>1. /\ region' = region /\ pages' = pages /\ vaddrs' = vaddrs /\ held' = held
          /\ kernel_page_tables' = kernel_page_tables
          /\ kernel_vaddr' = kernel_vaddr /\ kernel_vaddr_refcnt' = kernel_vaddr_refcnt
        BY <1>1 DEF memVars, mappingVars
    <2>2. QED
        BY <2>1, Zenon DEF IInv, PagesInv, VaddrsInv
<1>2. CASE \E o \in Order : KernelPageAllocate(o) \/ KernelPageAllocateFails(o) \/ MapDevice(o)
    BY <1>2, AllocateKeeps, AllocateFailsKeeps, MapDeviceKeeps, Zenon
<1>3. CASE \E k \in DOMAIN held : Map(k) \/ Unmap(k) \/ KernelPageFree(k) \/ UnmapDevice(k)
    BY <1>3, MapKeeps, UnmapKeeps, FreeKeeps, UnmapDeviceKeeps, Zenon
<1>4. QED
    BY <1>1, <1>2, <1>3, Zenon DEF Next

LEMMA Induction ==
    ASSUME ~AnyOrder, RegionsUnmerged
    PROVE  Spec => []IInv
<1>1. Init => IInv
    BY InitSound
<1>2. IInv /\ [Next]_memVars => IInv'
    BY NextKeeps
<1>3. QED
    BY <1>1, <1>2, PTL DEF Spec
-----------------------------------------------------------------------------
(* What it means for the properties.                                       *)

\* The blocks that were taken are the blocks that are held.
LEMMA TakenAreHeld ==
    ASSUME held \in Seq(Mappings)
    PROVE  /\ TakenBy(PagesTaken(held), Len(held)) = PagesHeld
           /\ TakenBy(VaddrsTaken(held), Len(held)) = VaddrsHeld
<1> DEFINE n == Len(held)
<1>1. /\ n \in Nat /\ DOMAIN held = 1 .. n
      /\ \A i \in 1 .. n :
            /\ VaddrsTaken(held)[i] = {Block(held[i].addr, held[i].order)}
            /\ held[i].page # Device => PagesTaken(held)[i] = {Block(held[i].page, held[i].order)}
            /\ held[i].page = Device => PagesTaken(held)[i] = {}
    BY HeldIs
<1> HIDE DEF n
<1>2. Held = {held[i] : i \in 1 .. n}
    BY <1>1, Zenon DEF Held, ToSet
<1>3. \A b : b \in TakenBy(PagesTaken(held), n)
            <=> \E i \in 1 .. n : held[i].page # Device /\ b = Block(held[i].page, held[i].order)
    <2>1. \A b : b \in TakenBy(PagesTaken(held), n) <=> \E i \in 1 .. n : b \in PagesTaken(held)[i]
        BY DEF TakenBy
    <2>2. \A i \in 1 .. n : \A b : b \in PagesTaken(held)[i]
                <=> held[i].page # Device /\ b = Block(held[i].page, held[i].order)
        BY <1>1
    <2>3. QED
        BY <2>1, <2>2, Zenon
<1>4. \A b : b \in PagesHeld
            <=> \E i \in 1 .. n : held[i].page # Device /\ b = Block(held[i].page, held[i].order)
    BY <1>2, Zenon DEF PagesHeld
<1>5. \A b : b \in TakenBy(VaddrsTaken(held), n)
            <=> \E i \in 1 .. n : b = Block(held[i].addr, held[i].order)
    <2>1. \A b : b \in TakenBy(VaddrsTaken(held), n) <=> \E i \in 1 .. n : b \in VaddrsTaken(held)[i]
        BY DEF TakenBy
    <2>2. \A i \in 1 .. n : \A b : b \in VaddrsTaken(held)[i]
                <=> b = Block(held[i].addr, held[i].order)
        BY <1>1
    <2>3. QED
        BY <2>1, <2>2, Zenon
<1>6. \A b : b \in VaddrsHeld <=> \E i \in 1 .. n : b = Block(held[i].addr, held[i].order)
    BY <1>2, Zenon DEF VaddrsHeld
<1>7. TakenBy(PagesTaken(held), n) = PagesHeld
    BY <1>3, <1>4, Zenon
<1>8. TakenBy(VaddrsTaken(held), n) = VaddrsHeld
    BY <1>5, <1>6, Zenon
<1>9. QED
    BY <1>7, <1>8 DEF n

LEMMA SoundTables ==
    ASSUME IInv
    PROVE  TablesExact /\ PagesKnowTheirMapping
<1> DEFINE n == Len(held)
           P == 0 .. region[2] - 1
<1>1. held \in Seq(Mappings) /\ PagesInv /\ VaddrsInv
    BY DEF IInv
<1>2. Held = {held[i] : i \in 1 .. n}
    <2>1. DOMAIN held = 1 .. n
        BY <1>1, HeldIs
    <2>2. QED
        BY <2>1, Zenon DEF Held, ToSet
<1>3. /\ kernel_page_tables \in [VaddrsFrom .. VaddrsTo - 1 -> Nat \cup {Unmapped}]
      /\ \A k \in 1 .. n, v \in Nat : v \in AddrsOf(held[k]) =>
            kernel_page_tables[v] = held[k].page + (v - held[k].addr)
      /\ \A v \in VaddrsFrom .. VaddrsTo - 1 :
            (\A k \in 1 .. n : v \notin AddrsOf(held[k])) => kernel_page_tables[v] = Unmapped
    BY <1>1 DEF VaddrsInv
<1>4. \A k \in 1 .. n : AddrsOf(held[k]) = Span(held[k].addr, held[k].order)
    <2>1. ASSUME NEW k \in 1 .. n
          PROVE  AddrsOf(held[k]) = Span(held[k].addr, held[k].order)
        <3>1. held[k].addr \in Nat /\ held[k].order \in Order
            BY <1>1, HeldIs
        <3>2. QED
            BY <3>1, Spans DEF AddrsOf, SpanOf
    <2>2. QED
        BY <2>1
<1>5. \A v \in DOMAIN kernel_page_tables : v \in VaddrsFrom .. VaddrsTo - 1 /\ v \in Nat
    <2>1. DOMAIN kernel_page_tables = VaddrsFrom .. VaddrsTo - 1
        BY <1>3, Zenon
    <2>2. \A v \in VaddrsFrom .. VaddrsTo - 1 : v \in Nat
        BY Constants
    <2>3. QED
        BY <2>1, <2>2, Zenon
<1>6. TablesExact
    <2>1. ASSUME NEW v \in DOMAIN kernel_page_tables, NEW h \in Held, v \in Span(h.addr, h.order)
          PROVE  kernel_page_tables[v] = h.page + (v - h.addr)
        <3>1. PICK k \in 1 .. n : h = held[k]
            BY <1>2, Zenon
        <3>2. QED
            BY <1>3, <1>4, <1>5, <2>1, <3>1, Zenon
    <2>2. ASSUME NEW v \in DOMAIN kernel_page_tables,
                 ~ \E h \in Held : v \in Span(h.addr, h.order)
          PROVE  kernel_page_tables[v] = Unmapped
        <3>1. \A k \in 1 .. n : v \notin AddrsOf(held[k])
            BY <1>2, <1>4, <2>2, Zenon
        <3>2. QED
            BY <1>3, <1>5, <3>1, Zenon
    <2>3. QED
        BY <2>1, <2>2, Zenon DEF TablesExact
<1>7. PagesKnowTheirMapping
    <2>1. /\ \A k \in 1 .. n : held[k].page # Device =>
                /\ kernel_vaddr[held[k].page] = held[k].addr
                /\ kernel_vaddr_refcnt[held[k].page] = held[k].refs
          /\ \A p \in P : (\A k \in 1 .. n : held[k].page # p)
                => kernel_vaddr[p] = NoVaddr /\ kernel_vaddr_refcnt[p] = 0
        BY <1>1 DEF PagesInv
    <2>2. Index(pages) = P
        BY <1>1 DEF Index, PagesInv, PoolInv
    <2>3. \A p \in P : p # Device
        <3>1. region[2] \in Nat /\ region[2] <= Device /\ Device \in Nat
            BY <1>1, Constants DEF PagesInv
        <3>2. QED
            BY <3>1
    <2>4. ASSUME NEW p \in P, NEW h \in Held, h.page = p
          PROVE  kernel_vaddr[p] = h.addr /\ kernel_vaddr_refcnt[p] = h.refs
        <3>1. PICK k \in 1 .. n : h = held[k]
            BY <1>2, Zenon
        <3>2. QED
            BY <2>1, <2>3, <2>4, <3>1, Zenon
    <2>5. ASSUME NEW p \in P, ~ \E h \in Held : h.page = p
          PROVE  kernel_vaddr[p] = NoVaddr /\ kernel_vaddr_refcnt[p] = 0
        <3>1. \A k \in 1 .. n : held[k].page # p
            BY <1>2, <2>5, Zenon
        <3>2. QED
            BY <2>1, <3>1, Zenon
    <2>6. QED
        BY <2>2, <2>4, <2>5, Zenon DEF PagesKnowTheirMapping
<1>8. QED
    BY <1>6, <1>7

LEMMA SoundTypes ==
    ASSUME IInv
    PROVE  TypeOK
<1>1. held \in Seq(Mappings) /\ PagesInv /\ VaddrsInv
    BY DEF IInv
<1>2. PoolTypeOK(pages) /\ pages.count = region[2] /\ PoolTypeOK(vaddrs) /\ vaddrs.count = VaddrsTo
    BY <1>1 DEF PagesInv, VaddrsInv, PoolInv, PoolLists
<1>3. Index(pages) = 0 .. region[2] - 1 /\ Index(vaddrs) = 0 .. VaddrsTo - 1
    BY <1>2 DEF Index
<1>4. /\ region \in Region
      /\ kernel_vaddr \in [0 .. region[2] - 1 -> (0 .. VaddrsTo - 1) \cup {NoVaddr}]
      /\ kernel_vaddr_refcnt \in [0 .. region[2] - 1 -> Nat]
      /\ kernel_page_tables \in [VaddrsFrom .. VaddrsTo - 1 -> Nat \cup {Unmapped}]
    BY <1>1, Zenon DEF PagesInv, VaddrsInv
<1>5. QED
    BY <1>2, <1>3, <1>4, Zenon DEF TypeOK

\* As long as what is given back is the latest that was got, the page tables
\* map the addresses of the mappings that are held, each to its own page, and
\* no others; each page knows where it is mapped and by how many; and the
\* order of a page or an address is that of the block it was allocated with.
THEOREM MappingsStaySound ==
    ASSUME ~AnyOrder, RegionsUnmerged
    PROVE  Spec => []MappingsInvariant
<1>1. IInv => MappingsInvariant
    <2> HAVE IInv
    <2>1. TypeOK /\ TablesExact /\ PagesKnowTheirMapping
        BY SoundTypes, SoundTables
    <2>2. /\ OrdersKnown(pages, TakenBy(PagesTaken(held), Len(held)))
          /\ OrdersKnown(vaddrs, TakenBy(VaddrsTaken(held), Len(held)))
        BY DEF IInv, PagesInv, VaddrsInv, PoolInv
    <2>3. OrdersKnown(pages, PagesHeld) /\ OrdersKnown(vaddrs, VaddrsHeld)
        BY <2>2, TakenAreHeld DEF IInv
    <2>4. QED
        BY <2>1, <2>3, Zenon DEF MappingsInvariant, OrdersKnown, OrderIsAllocated
<1>2. QED
    BY <1>1, Induction, PTL

\* And of both pools nothing is lost or given twice: the blocks that are free
\* and the blocks that are held, each aligned to its size, are the memory
\* there was at boot.
THEOREM NothingIsLost ==
    ASSUME ~AnyOrder, RegionsUnmerged
    PROVE  Spec => []NothingLost
<1>1. IInv => NothingLost
    <2> HAVE IInv
    <2>1. held \in Seq(Mappings) /\ PagesInv /\ VaddrsInv
        BY DEF IInv
    <2>2. /\ Len(held) \in Nat
          /\ region[1] \in Nat /\ region[2] \in Nat /\ VaddrsFrom \in Nat /\ VaddrsTo \in Nat
        BY <2>1, HeldIs, Constants DEF PagesInv
    <2>3. /\ PoolInv(pages, PagesTaken(held), Len(held), region[1], region[2])
          /\ PoolInv(vaddrs, VaddrsTaken(held), Len(held), VaddrsFrom, VaddrsTo)
        BY <2>1 DEF PagesInv, VaddrsInv
    <2>4. PartitionOf(pages, TakenBy(PagesTaken(held), Len(held)), region[1], region[2])
        BY <2>2, <2>3, PoolTiles
    <2>5. PartitionOf(vaddrs, TakenBy(VaddrsTaken(held), Len(held)), VaddrsFrom, VaddrsTo)
        BY <2>2, <2>3, PoolTiles
    <2>6. QED
        BY <2>1, <2>4, <2>5, TakenAreHeld DEF NothingLost
<1>2. QED
    BY <1>1, Induction, PTL

\* When everything has been given back, the free blocks are those there were
\* at boot: memory does not fragment for good.
THEOREM MemoryIsRestored ==
    ASSUME ~AnyOrder, RegionsUnmerged
    PROVE  Spec => []Restored
<1>1. IInv => Restored
    <2> SUFFICES ASSUME IInv, held = <<>>
                 PROVE  /\ FreeBlocks(pages) = FreeBlocks(NewPool(region[1], region[2]))
                        /\ FreeBlocks(vaddrs) = FreeBlocks(NewPool(VaddrsFrom, VaddrsTo))
        BY DEF Restored
    <2>1. Len(held) = 0
        OBVIOUS
    <2>2. /\ PoolInv(pages, PagesTaken(held), 0, region[1], region[2])
          /\ PoolInv(vaddrs, VaddrsTaken(held), 0, VaddrsFrom, VaddrsTo)
        BY <2>1 DEF IInv, PagesInv, VaddrsInv
    <2>3. QED
        BY <2>2, PoolRestored
<1>2. QED
    BY <1>1, Induction, PTL
=============================================================================
