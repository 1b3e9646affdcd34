---------------------------- MODULE ListsTheorems ----------------------------
(* What the list operations return, for lists of any length; and, for the     *)
(* proofs about numbers, induction on a set of them and division.            *)
EXTENDS Lists, SequenceTheorems, WellFoundedInduction, TLAPS

\* A nonempty set of naturals has the least element that Min chooses: the
\* node at which a LIST_FOREACH breaks is well defined.
LEMMA MinIsLeast ==
    ASSUME NEW I \in SUBSET Nat, I # {}
    PROVE  Min(I) \in I /\ \A y \in I : Min(I) <= y
<1>1. PICK x \in I : \A y \in I : ~ (<<y, x>> \in OpToRel(<, Nat))
    BY NatLessThanWellFounded, WFMin, Zenon
<1>2. ASSUME NEW y \in I
      PROVE  x <= y
    <2>1. y < x => <<y, x>> \in OpToRel(<, Nat)
        BY DEF OpToRel
    <2>2. ~ (<<y, x>> \in OpToRel(<, Nat))
        BY <1>1, Zenon
    <2>3. ~ (y < x)
        BY <2>1, <2>2, Zenon
    <2>4. x \in Nat /\ y \in Nat
        OBVIOUS
    <2>5. QED
        BY <2>3, <2>4
<1>3. QED
    BY <1>2, Zenon DEF Min

\* Induction, for a set of naturals.
LEMMA StrongInduction ==
    ASSUME NEW S, \A n \in Nat : (\A k \in 0 .. n - 1 : k \in S) => n \in S
    PROVE  Nat \subseteq S
<1>1. SUFFICES ASSUME Nat \ S # {} PROVE FALSE
    OBVIOUS
<1> DEFINE bad == Nat \ S
           m == Min(bad)
<1>2. m \in bad /\ \A y \in bad : m <= y
    BY <1>1, MinIsLeast
<1> HIDE DEF m
<1>3. \A k \in 0 .. m - 1 : k \in S
    BY <1>2
<1>4. QED
    BY <1>2, <1>3

LEMMA StepInduction ==
    ASSUME NEW S, 0 \in S, \A n \in Nat : n \in S => n + 1 \in S
    PROVE  Nat \subseteq S
<1>1. ASSUME NEW n \in Nat, \A k \in 0 .. n - 1 : k \in S
      PROVE  n \in S
    <2>1. CASE n = 0
        BY <2>1
    <2>2. CASE n # 0
        <3>1. n - 1 \in Nat /\ n - 1 \in 0 .. n - 1 /\ (n - 1) + 1 = n
            BY <2>2
        <3>2. QED
            BY <1>1, <3>1
    <2>3. QED
        BY <2>1, <2>2
<1>2. QED
    BY <1>1, StrongInduction

\* A nonempty bounded set of naturals has the greatest element that Max
\* chooses.
LEMMA MaxIsGreatest ==
    ASSUME NEW n \in Nat, NEW I \in SUBSET (0 .. n), I # {}
    PROVE  Max(I) \in I /\ \A y \in I : y <= Max(I)
<1> DEFINE J == {n - y : y \in I}
           x == n - Min(J)
<1>1. J \in SUBSET Nat /\ J # {}
    <2>1. \A y \in I : n - y \in Nat
        OBVIOUS
    <2>2. PICK y \in I : TRUE
        OBVIOUS
    <2>3. QED
        BY <2>1, <2>2
<1>2. Min(J) \in J /\ \A y \in J : Min(J) <= y
    BY <1>1, MinIsLeast
<1>3. PICK z \in I : Min(J) = n - z
    BY <1>2
<1>4. \A y \in I : n - z <= n - y
    BY <1>2, <1>3
<1>5. z \in I /\ \A y \in I : y <= z
    BY <1>4
<1>6. QED
    BY <1>5, Zenon DEF Max

\* Division, and what a multiple is.
LEMMA DivMod ==
    ASSUME NEW m \in Nat \ {0}, NEW a \in Nat
    PROVE  /\ a = m * (a \div m) + (a % m)
           /\ a % m \in 0 .. m - 1 /\ a \div m \in Nat
OBVIOUS

LEMMA MultipleIffMod ==
    ASSUME NEW m \in Nat \ {0}, NEW a \in Nat
    PROVE  a % m = 0 <=> \E q \in Nat : a = m * q
<1>1. a % m = 0 => a = m * (a \div m) /\ a \div m \in Nat
    BY DivMod
<1>2. \A q \in Nat : (m * q) % m = 0
    OBVIOUS
<1>3. QED
    BY <1>1, <1>2

LEMMA DivOfMultiple ==
    ASSUME NEW m \in Nat \ {0}, NEW q \in Nat
    PROVE  (m * q) \div m = q /\ (m * q) % m = 0
OBVIOUS

\* Of two different multiples the greater is greater by as much at least.
LEMMA MultiplesApart ==
    ASSUME NEW m \in Nat \ {0}, NEW a \in Nat, NEW b \in Nat,
           a % m = 0, b % m = 0, a < b
    PROVE  a + m <= b
<1>1. PICK p \in Nat : a = m * p
    BY MultipleIffMod
<1>2. PICK q \in Nat : b = m * q
    BY MultipleIffMod
<1>3. p < q
    BY <1>1, <1>2
<1>4. m * p + m <= m * q
    BY <1>3
<1>5. QED
    BY <1>1, <1>2, <1>4

LEMMA MultiplesAdd ==
    ASSUME NEW m \in Nat \ {0}, NEW a \in Nat, NEW b \in Nat, a % m = 0, b % m = 0
    PROVE  (a + b) % m = 0
<1>1. PICK p \in Nat : a = m * p
    BY MultipleIffMod
<1>2. PICK q \in Nat : b = m * q
    BY MultipleIffMod
<1>3. a + b = m * (p + q) /\ p + q \in Nat
    BY <1>1, <1>2
<1>4. QED
    BY <1>3, DivOfMultiple

\* Powers of two up to the n-th, from what shifting by one bit does: the
\* provers know no more of x^y than that x^0 is 1.
Doubles(n) == \A o \in 0 .. n - 1 : 2^(o + 1) = 2 * 2^o

LEMMA PowersArePositive ==
    ASSUME NEW n \in Nat, Doubles(n)
    PROVE  \A o \in 0 .. n : 2^o \in Nat \ {0}
<1> DEFINE S == {o \in Nat : o <= n => 2^o \in Nat \ {0}}
<1>1. 0 \in S
    <2>1. 2^0 = 1
        OBVIOUS
    <2>2. QED
        BY <2>1
<1>2. ASSUME NEW o \in Nat, o \in S
      PROVE  o + 1 \in S
    <2>1. o + 1 <= n => 2^o \in Nat \ {0} /\ 2^(o + 1) = 2 * 2^o
        BY <1>2 DEF Doubles
    <2>2. QED
        BY <2>1
<1> HIDE DEF S
<1>3. Nat \subseteq S
    BY <1>1, <1>2, StepInduction
<1>4. QED
    BY <1>3 DEF S

\* A greater power is a multiple of a smaller one.
LEMMA PowersAreMultiples ==
    ASSUME NEW n \in Nat, Doubles(n), NEW o \in 0 .. n
    PROVE  \A p \in o .. n : \E k \in Nat \ {0} : 2^p = 2^o * k
<1> DEFINE S == {d \in Nat : o + d <= n => \E k \in Nat \ {0} : 2^(o + d) = 2^o * k}
<1>1. 2^o \in Nat \ {0}
    BY PowersArePositive
<1>2. 0 \in S
    <2>1. 2^(o + 0) = 2^o * 1
        BY <1>1
    <2>2. QED
        BY <2>1
<1>3. ASSUME NEW d \in Nat, d \in S
      PROVE  d + 1 \in S
    <2>1. SUFFICES ASSUME o + (d + 1) <= n
                   PROVE  \E k \in Nat \ {0} : 2^(o + (d + 1)) = 2^o * k
        OBVIOUS
    <2>2. /\ o + d \in 0 .. n - 1 /\ o + d <= n /\ o + (d + 1) = (o + d) + 1
        BY <2>1
    <2>3. PICK k \in Nat \ {0} : 2^(o + d) = 2^o * k
        BY <1>3, <2>2
    <2>4. 2^(o + (d + 1)) = 2 * 2^(o + d)
        BY <2>2 DEF Doubles
    <2>5. 2^(o + (d + 1)) = 2^o * (2 * k) /\ 2 * k \in Nat \ {0}
        BY <1>1, <2>3, <2>4
    <2>6. QED
        BY <2>5
<1> HIDE DEF S
<1>4. Nat \subseteq S
    BY <1>2, <1>3, StepInduction
<1>5. ASSUME NEW p \in o .. n
      PROVE  \E k \in Nat \ {0} : 2^p = 2^o * k
    <2>1. p - o \in S /\ o + (p - o) = p /\ p <= n
        BY <1>4
    <2>2. QED
        BY <2>1 DEF S
<1>6. QED
    BY <1>5

\* So what is aligned for a large block is aligned for a smaller one.
LEMMA AlignedForSmaller ==
    ASSUME NEW n \in Nat, Doubles(n), NEW p \in 0 .. n, NEW o \in 0 .. p,
           NEW i \in Nat, i % 2^p = 0
    PROVE  i % 2^o = 0
<1>1. 2^o \in Nat \ {0} /\ 2^p \in Nat \ {0}
    BY PowersArePositive
<1>2. PICK q \in Nat : i = 2^p * q
    BY <1>1, MultipleIffMod
<1>3. PICK k \in Nat \ {0} : 2^p = 2^o * k
    BY PowersAreMultiples
<1>4. i = 2^o * (k * q) /\ k * q \in Nat
    BY <1>1, <1>2, <1>3
<1>5. QED
    BY <1>1, <1>4, MultipleIffMod

\* And a greater power is at least twice a smaller one.
LEMMA PowersGrow ==
    ASSUME NEW n \in Nat, Doubles(n), NEW p \in 0 .. n, NEW o \in 0 .. n
    PROVE  o < p <=> 2 * 2^o <= 2^p
<1>1. \A a, b \in 0 .. n : a < b => 2 * 2^a <= 2^b
    <2>1. SUFFICES ASSUME NEW a \in 0 .. n, NEW b \in 0 .. n, a < b
                   PROVE  2 * 2^a <= 2^b
        OBVIOUS
    <2>2. a + 1 \in 0 .. n /\ b \in a + 1 .. n /\ a \in 0 .. n - 1
        BY <2>1
    <2>3. PICK k \in Nat \ {0} : 2^b = 2^(a + 1) * k
        BY <2>2, PowersAreMultiples
    <2>4. 2^(a + 1) = 2 * 2^a /\ 2^a \in Nat \ {0}
        BY <2>2, PowersArePositive DEF Doubles
    <2>5. QED
        BY <2>3, <2>4
<1>2. 2^o \in Nat \ {0} /\ 2^p \in Nat \ {0}
    BY PowersArePositive
<1>3. ASSUME ~(o < p)
      PROVE  2^p <= 2^o
    BY <1>1, <1>2, <1>3
<1>4. QED
    BY <1>1, <1>2, <1>3
-----------------------------------------------------------------------------
\* list_insert_before at position i: the elements in front of i stay, those
\* from i on move up by one.
LEMMA InsertProperties ==
    ASSUME NEW S, NEW s \in Seq(S), NEW e \in S, NEW i \in 1 .. Len(s) + 1
    PROVE  /\ list_insert_before(s, i, e) \in Seq(S)
           /\ Len(list_insert_before(s, i, e)) = Len(s) + 1
           /\ \A j \in 1 .. Len(s) + 1 :
                list_insert_before(s, i, e)[j] =
                    IF j < i THEN s[j] ELSE IF j = i THEN e ELSE s[j - 1]
<1> DEFINE front == SubSeq(s, 1, i - 1)
           back == SubSeq(s, i, Len(s))
<1>1. Len(s) \in Nat /\ \A k \in 1 .. Len(s) : s[k] \in S
    BY LenProperties, ElementOfSeq
<1>2. /\ front \in Seq(S)
      /\ Len(front) = i - 1
      /\ \A k \in 1 .. i - 1 : front[k] = s[k]
    BY <1>1, SubSeqProperties
<1>3. /\ back \in Seq(S)
      /\ Len(back) = Len(s) - i + 1
      /\ \A k \in 1 .. Len(s) - i + 1 : back[k] = s[i + k - 1]
    BY <1>1, SubSeqProperties
<1>4. <<e>> \in Seq(S) /\ Len(<<e>>) = 1 /\ <<e>>[1] = e
    OBVIOUS
<1> DEFINE left == front \o <<e>>
<1> HIDE DEF front, back
<1>5. /\ left \in Seq(S)
      /\ Len(left) = i
      /\ \A k \in 1 .. i : left[k] = IF k < i THEN s[k] ELSE e
    BY <1>1, <1>2, <1>4, ConcatProperties
<1> HIDE DEF left
<1>6. /\ left \o back \in Seq(S)
      /\ Len(left \o back) = Len(s) + 1
      /\ \A k \in 1 .. Len(s) + 1 :
            (left \o back)[k] = IF k <= i THEN left[k] ELSE back[k - i]
    <2>1. /\ left \o back \in Seq(S)
          /\ Len(left \o back) = Len(left) + Len(back)
          /\ \A k \in 1 .. Len(left) + Len(back) :
                (left \o back)[k] = IF k <= Len(left) THEN left[k]
                                    ELSE back[k - Len(left)]
        BY <1>3, <1>5, ConcatProperties
    <2>2. Len(left) + Len(back) = Len(s) + 1
        BY <1>1, <1>3, <1>5
    <2>3. QED
        BY <1>5, <2>1, <2>2
<1>7. list_insert_before(s, i, e) = left \o back
    BY DEF list_insert_before, InsertAt, left, front, back
<1>8. \A k \in 1 .. Len(s) + 1 : (left \o back)[k] =
            IF k < i THEN s[k] ELSE IF k = i THEN e ELSE s[k - 1]
    BY <1>1, <1>3, <1>5, <1>6
<1>9. QED
    BY <1>6, <1>7, <1>8

\* An insertion adds one element and keeps the list free of duplicates.
LEMMA InsertKeeps ==
    ASSUME NEW S, NEW s \in Seq(S), NEW e \in S, NEW i \in 1 .. Len(s) + 1
    PROVE  /\ ToSet(list_insert_before(s, i, e)) = ToSet(s) \cup {e}
           /\ NoDuplicates(s) /\ ~list_linked(s, e)
                => NoDuplicates(list_insert_before(s, i, e))
<1> DEFINE r == list_insert_before(s, i, e)
<1>1. /\ r \in Seq(S)
      /\ Len(r) = Len(s) + 1
      /\ \A j \in 1 .. Len(s) + 1 :
            r[j] = IF j < i THEN s[j] ELSE IF j = i THEN e ELSE s[j - 1]
    BY InsertProperties
<1>2. Len(s) \in Nat /\ DOMAIN s = 1 .. Len(s) /\ DOMAIN r = 1 .. Len(s) + 1
    BY <1>1, LenProperties
<1> HIDE DEF r
<1>3. ToSet(r) = ToSet(s) \cup {e}
    <2>1. ASSUME NEW x \in ToSet(r)
          PROVE  x \in ToSet(s) \cup {e}
        BY <2>1, <1>1, <1>2 DEF ToSet
    <2>2. e \in ToSet(r)
        <3>1. r[i] = e
            BY <1>1, <1>2
        <3>2. QED
            BY <3>1, <1>2 DEF ToSet
    <2>3. ASSUME NEW x \in ToSet(s)
          PROVE  x \in ToSet(r)
        <3>1. PICK k \in 1 .. Len(s) : x = s[k]
            BY <1>2 DEF ToSet
        <3>2. k < i => r[k] = x
            BY <3>1, <1>1, <1>2
        <3>3. ~(k < i) => r[k + 1] = x
            BY <3>1, <1>1, <1>2
        <3>4. QED
            BY <3>2, <3>3, <1>2 DEF ToSet
    <2>4. QED
        BY <2>1, <2>2, <2>3
<1>4. ASSUME NoDuplicates(s), ~list_linked(s, e)
      PROVE  NoDuplicates(r)
    <2>1. \A k \in 1 .. Len(s) : s[k] # e
        BY <1>4, <1>2 DEF list_linked, ToSet
    <2>2. SUFFICES ASSUME NEW j \in 1 .. Len(s) + 1, NEW k \in 1 .. Len(s) + 1,
                          r[j] = r[k]
                   PROVE  j = k
        BY <1>2 DEF NoDuplicates
    <2>3. /\ j < i => j \in 1 .. Len(s)
          /\ k < i => k \in 1 .. Len(s)
          /\ j > i => j - 1 \in 1 .. Len(s)
          /\ k > i => k - 1 \in 1 .. Len(s)
        BY <1>2
    <2>4. \A m, n \in 1 .. Len(s) : s[m] = s[n] => m = n
        BY <1>2, <1>4 DEF NoDuplicates
    <2>5. QED
        BY <1>1, <1>2, <2>1, <2>2, <2>3, <2>4
<1>5. QED
    BY <1>3, <1>4 DEF r

\* list_remove of a linked element closes the gap at its position.
LEMMA RemoveProperties ==
    ASSUME NEW S, NEW s \in Seq(S), NoDuplicates(s), NEW i \in 1 .. Len(s)
    PROVE  /\ list_remove(s, s[i]) \in Seq(S)
           /\ Len(list_remove(s, s[i])) = Len(s) - 1
           /\ \A j \in 1 .. Len(s) - 1 :
                list_remove(s, s[i])[j] = IF j < i THEN s[j] ELSE s[j + 1]
<1> DEFINE front == SubSeq(s, 1, i - 1)
           back == SubSeq(s, i + 1, Len(s))
           I == {k \in 1 .. Len(s) : s[k] = s[i]}
<1>1. Len(s) \in Nat /\ DOMAIN s = 1 .. Len(s) /\ \A k \in 1 .. Len(s) : s[k] \in S
    BY LenProperties, ElementOfSeq
<1>2. I = {i}
    BY <1>1 DEF NoDuplicates
<1>3. Min({i}) = i
    <2>1. {i} \in SUBSET Nat /\ {i} # {}
        BY <1>1
    <2>2. QED
        BY <2>1, MinIsLeast
<1>4. list_remove(s, s[i]) = RemoveAt(s, i)
    <2>1. SelectInSeq(s, LAMBDA v : v = s[i]) = i
        BY <1>2, <1>3 DEF SelectInSeq
    <2>2. QED
        BY <2>1 DEF list_remove, RemoveFirst
<1>5. RemoveAt(s, i) = front \o back
    BY DEF RemoveAt
<1>6. /\ front \in Seq(S)
      /\ Len(front) = i - 1
      /\ \A k \in 1 .. i - 1 : front[k] = s[k]
    BY <1>1, SubSeqProperties
<1>7. /\ back \in Seq(S)
      /\ Len(back) = Len(s) - i
      /\ \A k \in 1 .. Len(s) - i : back[k] = s[i + k]
    <2>1. i + 1 \in Int /\ \A k \in i + 1 .. Len(s) : s[k] \in S
        BY <1>1
    <2>2. /\ back \in Seq(S)
          /\ Len(back) = IF i + 1 <= Len(s) THEN Len(s) - (i + 1) + 1 ELSE 0
          /\ \A k \in 1 .. Len(s) - (i + 1) + 1 : back[k] = s[(i + 1) + k - 1]
        BY <1>1, <2>1, SubSeqProperties
    <2> HIDE DEF back
    <2>3. ASSUME NEW k \in 1 .. Len(s) - i
          PROVE  back[k] = s[i + k]
        <3>1. k \in 1 .. Len(s) - (i + 1) + 1 /\ (i + 1) + k - 1 = i + k
            BY <1>1
        <3>2. QED
            BY <2>2, <3>1
    <2>4. Len(back) = Len(s) - i
        <3>1. i \in Nat /\ Len(s) \in Nat /\ i <= Len(s)
            BY <1>1
        <3>2. QED
            BY <2>2, <3>1
    <2>5. QED
        BY <2>2, <2>3, <2>4
<1> HIDE DEF front, back
<1>8. /\ front \o back \in Seq(S)
      /\ Len(front \o back) = Len(s) - 1
      /\ \A k \in 1 .. Len(s) - 1 :
            (front \o back)[k] = IF k <= i - 1 THEN front[k] ELSE back[k - (i - 1)]
    <2>1. /\ front \o back \in Seq(S)
          /\ Len(front \o back) = Len(front) + Len(back)
          /\ \A k \in 1 .. Len(front) + Len(back) :
                (front \o back)[k] = IF k <= Len(front) THEN front[k]
                                     ELSE back[k - Len(front)]
        BY <1>6, <1>7, ConcatProperties
    <2>2. Len(front) + Len(back) = Len(s) - 1
        BY <1>1, <1>6, <1>7
    <2>3. QED
        BY <1>6, <2>1, <2>2
<1>9. \A k \in 1 .. Len(s) - 1 :
            (front \o back)[k] = IF k < i THEN s[k] ELSE s[k + 1]
    BY <1>1, <1>6, <1>7, <1>8
<1>10. QED
    BY <1>4, <1>5, <1>8, <1>9

\* A removal takes that element out and no other, and keeps the list free
\* of duplicates.
LEMMA RemoveKeeps ==
    ASSUME NEW S, NEW s \in Seq(S), NoDuplicates(s), NEW e
    PROVE  /\ list_remove(s, e) \in Seq(S)
           /\ ToSet(list_remove(s, e)) = ToSet(s) \ {e}
           /\ NoDuplicates(list_remove(s, e))
           /\ Len(list_remove(s, e)) =
                IF list_linked(s, e) THEN Len(s) - 1 ELSE Len(s)
<1>1. Len(s) \in Nat /\ DOMAIN s = 1 .. Len(s)
    BY LenProperties
<1>2. CASE ~list_linked(s, e)
    <2>1. list_remove(s, e) = s
        BY <1>1, <1>2 DEF list_linked, list_remove, RemoveFirst, ToSet
    <2>2. e \notin ToSet(s)
        BY <1>2 DEF list_linked
    <2>3. QED
        BY <1>2, <2>1, <2>2
<1>3. CASE list_linked(s, e)
    <2> DEFINE r == list_remove(s, e)
    <2>1. PICK i \in 1 .. Len(s) : s[i] = e
        BY <1>1, <1>3 DEF list_linked, ToSet
    <2>2. /\ r \in Seq(S)
          /\ Len(r) = Len(s) - 1
          /\ \A j \in 1 .. Len(s) - 1 : r[j] = IF j < i THEN s[j] ELSE s[j + 1]
        BY <2>1, RemoveProperties
    <2>3. DOMAIN r = 1 .. Len(s) - 1
        BY <2>2, LenProperties
    <2> HIDE DEF r
    <2>4. ASSUME NEW x \in ToSet(r)
          PROVE  x \in ToSet(s) \ {e}
        <3>1. PICK j \in 1 .. Len(s) - 1 : x = r[j]
            BY <2>3 DEF ToSet
        <3>2. PICK k \in 1 .. Len(s) : k # i /\ x = s[k]
            BY <1>1, <2>2, <3>1
        <3>3. x # e
            BY <1>1, <2>1, <3>2 DEF NoDuplicates
        <3>4. QED
            BY <1>1, <3>2, <3>3 DEF ToSet
    <2>5. ASSUME NEW x \in ToSet(s), x # e
          PROVE  x \in ToSet(r)
        <3>1. PICK k \in 1 .. Len(s) : x = s[k] /\ k # i
            BY <1>1, <2>1, <2>5 DEF ToSet
        <3>2. k < i => k \in 1 .. Len(s) - 1 /\ r[k] = x
            BY <1>1, <2>2, <3>1
        <3>3. k > i => k - 1 \in 1 .. Len(s) - 1 /\ r[k - 1] = x
            BY <1>1, <2>2, <3>1
        <3>4. QED
            BY <1>1, <2>3, <3>1, <3>2, <3>3 DEF ToSet
    <2>6. NoDuplicates(r)
        <3>1. SUFFICES ASSUME NEW j \in 1 .. Len(s) - 1, NEW k \in 1 .. Len(s) - 1,
                              r[j] = r[k]
                       PROVE  j = k
            BY <2>3 DEF NoDuplicates
        <3>2. /\ j \in 1 .. Len(s) /\ j + 1 \in 1 .. Len(s)
              /\ k \in 1 .. Len(s) /\ k + 1 \in 1 .. Len(s)
            BY <1>1
        <3>3. \A m, n \in 1 .. Len(s) : s[m] = s[n] => m = n
            BY <1>1 DEF NoDuplicates
        <3>4. QED
            BY <1>1, <2>2, <3>1, <3>2, <3>3
    <2>7. QED
        BY <1>3, <2>2, <2>4, <2>5, <2>6 DEF r
<1>4. QED
    BY <1>2, <1>3

\* What the recursive definition of list_remove_all says.
RemovesAll(f, s, S) ==
    /\ f[0] = <<>> /\ list_remove_all(s, S) = f[Len(s)]
    /\ \A i \in 1 .. Len(s) :
            f[i] = IF s[i] \in S THEN f[i - 1] ELSE Append(f[i - 1], s[i])

LEMMA RemoveAllExists ==
    ASSUME NEW T, NEW s \in Seq(T), NEW S
    PROVE  \E f \in [0 .. Len(s) -> Seq(T)] : RemovesAll(f, s, S)
<1> DEFINE n == Len(s)
           Step(f, i) == IF s[i] \in S THEN f[i - 1] ELSE Append(f[i - 1], s[i])
           Body(f) == [i \in 0 .. n |-> IF i = 0 THEN <<>> ELSE Step(f, i)]
           UpTo(k, f) == f[0] = <<>> /\ \A i \in 1 .. k : f[i] = Step(f, i)
           Reached == {k \in Nat : k <= n => \E f \in [0 .. n -> Seq(T)] : UpTo(k, f)}
<1>1. n \in Nat /\ \A i \in 1 .. n : s[i] \in T
    BY LenProperties, ElementOfSeq
<1> HIDE DEF n
<1>2. 0 \in Reached
    <2>1. [i \in 0 .. n |-> <<>>] \in [0 .. n -> Seq(T)]
        BY EmptySeq
    <2>2. UpTo(0, [i \in 0 .. n |-> <<>>])
        BY <1>1
    <2>3. QED
        BY <2>1, <2>2
<1>3. ASSUME NEW k \in Nat, k \in Reached
      PROVE  k + 1 \in Reached
    <2>1. SUFFICES ASSUME k + 1 <= n
                   PROVE  \E f \in [0 .. n -> Seq(T)] : UpTo(k + 1, f)
        OBVIOUS
    <2> HIDE DEF UpTo
    <2>2. PICK f \in [0 .. n -> Seq(T)] : UpTo(k, f)
        <3>1. k <= n
            BY <1>1, <2>1
        <3>2. QED
            BY <1>3, <3>1
    <2> USE DEF UpTo
    <2> DEFINE g == [f EXCEPT ![k + 1] = Step(f, k + 1)]
    <2>3. k + 1 \in 1 .. n /\ k \in 0 .. n /\ (k + 1) - 1 = k
        BY <1>1, <2>1
    <2>4. Step(f, k + 1) \in Seq(T)
        BY <1>1, <2>3, AppendProperties
    <2>5. g \in [0 .. n -> Seq(T)]
        BY <2>4
    <2>6. \A i \in 0 .. k : g[i] = f[i]
        BY <2>3
    <2>7. g[k + 1] = Step(f, k + 1)
        BY <1>1, <2>3
    <2> HIDE DEF g
    <2>8. Step(f, k + 1) = Step(g, k + 1)
        BY <2>3, <2>6
    <2>9. \A i \in 1 .. k : g[i] = Step(g, i)
        BY <2>2, <2>6
    <2>10. UpTo(k + 1, g)
        BY <2>2, <2>6, <2>7, <2>8, <2>9
    <2>11. QED
        BY <2>5, <2>10
<1>4. n \in Reached
    BY <1>1, <1>2, <1>3, StepInduction
<1>5. PICK f \in [0 .. n -> Seq(T)] : UpTo(n, f)
    BY <1>1, <1>4
<1>6. f = Body(f)
    <2>1. \A i \in 0 .. n : i = 0 \/ i \in 1 .. n
        BY <1>1
    <2>2. \A i \in 0 .. n : f[i] = IF i = 0 THEN <<>> ELSE Step(f, i)
        BY <1>5, <2>1
    <2> HIDE DEF Step
    <2>3. QED
        BY <2>2
<1> DEFINE c == CHOOSE g : g = Body(g)
<1>7. c = Body(c) /\ list_remove_all(s, S) = c[n]
    BY <1>6 DEF list_remove_all, n
<1> HIDE DEF c
<1>8. \A i \in 0 .. n : c[i] = IF i = 0 THEN <<>> ELSE Step(c, i)
    BY <1>7
<1>9. UpTo(n, c)
    BY <1>1, <1>8
<1>10. c \in [0 .. n -> Seq(T)]
    <2> DEFINE Typed == {k \in Nat : k <= n => c[k] \in Seq(T)}
    <2>1. 0 \in Typed
        BY <1>9, EmptySeq
    <2>2. ASSUME NEW k \in Nat, k \in Typed
          PROVE  k + 1 \in Typed
        <3>1. SUFFICES ASSUME k + 1 <= n PROVE c[k + 1] \in Seq(T)
            OBVIOUS
        <3>2. k + 1 \in 1 .. n /\ (k + 1) - 1 = k /\ c[k] \in Seq(T)
            BY <1>1, <2>2, <3>1
        <3>3. c[k + 1] = IF s[k + 1] \in S THEN c[k] ELSE Append(c[k], s[k + 1])
            BY <1>9, <3>2
        <3>4. QED
            BY <1>1, <3>2, <3>3, AppendProperties
    <2>3. Nat \subseteq Typed
        <3> HIDE DEF Typed
        <3>1. QED
            BY <2>1, <2>2, StepInduction
    <2>4. \A k \in 0 .. n : c[k] \in Seq(T)
        BY <1>1, <2>3
    <2>5. DOMAIN c = 0 .. n
        BY <1>7
    <2>6. c = [k \in 0 .. n |-> c[k]]
        BY <1>7
    <2>7. QED
        BY <2>4, <2>6
<1>11. QED
    BY <1>7, <1>9, <1>10 DEF n, RemovesAll

\* An element in front is one more.
LEMMA PrependKeeps ==
    ASSUME NEW T, NEW s \in Seq(T), NEW e \in T
    PROVE  /\ <<e>> \o s \in Seq(T)
           /\ ToSet(<<e>> \o s) = ToSet(s) \cup {e}
           /\ NoDuplicates(s) /\ ~list_linked(s, e) => NoDuplicates(<<e>> \o s)
<1> DEFINE n == Len(s)
           r == <<e>> \o s
<1>1. n \in Nat /\ DOMAIN s = 1 .. n
    BY LenProperties
<1>2. <<e>> \in Seq(T) /\ Len(<<e>>) = 1 /\ <<e>>[1] = e
    OBVIOUS
<1>3. /\ r \in Seq(T) /\ Len(r) = 1 + n
      /\ \A k \in 1 .. 1 + n : r[k] = IF k <= 1 THEN <<e>>[k] ELSE s[k - 1]
    BY <1>2, ConcatProperties
<1>4. DOMAIN r = 1 .. n + 1
    BY <1>1, <1>3, LenProperties
<1> HIDE DEF n, r
<1>5. r[1] = e /\ \A k \in 1 .. n : r[k + 1] = s[k]
    BY <1>1, <1>2, <1>3
<1>6. \A k \in 1 .. n + 1 : k = 1 \/ (k - 1 \in 1 .. n /\ r[k] = s[k - 1])
    BY <1>1, <1>3
<1>7. ToSet(r) = ToSet(s) \cup {e}
    <2>1. ASSUME NEW x \in ToSet(r)
          PROVE  x \in ToSet(s) \cup {e}
        <3>1. PICK k \in 1 .. n + 1 : x = r[k]
            BY <1>4 DEF ToSet
        <3>2. CASE k = 1
            BY <1>5, <3>1, <3>2
        <3>3. CASE k # 1
            <4>1. k - 1 \in DOMAIN s /\ x = s[k - 1]
                BY <1>1, <1>6, <3>1, <3>3
            <4>2. QED
                BY <4>1 DEF ToSet
        <3>4. QED
            BY <3>2, <3>3
    <2>2. e \in ToSet(r)
        BY <1>1, <1>4, <1>5 DEF ToSet
    <2>3. \A x \in ToSet(s) : x \in ToSet(r)
        BY <1>1, <1>4, <1>5 DEF ToSet
    <2>4. QED
        BY <2>1, <2>2, <2>3, Zenon
<1>8. ASSUME NoDuplicates(s), ~list_linked(s, e)
      PROVE  NoDuplicates(r)
    <2>1. \A k \in 1 .. n : s[k] # e
        BY <1>1, <1>8 DEF list_linked, ToSet
    <2>2. \A j, k \in 1 .. n : s[j] = s[k] => j = k
        BY <1>1, <1>8 DEF NoDuplicates
    <2>3. SUFFICES ASSUME NEW j \in 1 .. n + 1, NEW k \in 1 .. n + 1, r[j] = r[k]
                   PROVE  j = k
        BY <1>4 DEF NoDuplicates
    <2>4. QED
        BY <1>1, <1>5, <1>6, <2>1, <2>2, <2>3
<1>9. QED
    BY <1>3, <1>7, <1>8 DEF r

\* Without its first element a list is without that element.
LEMMA TailKeeps ==
    ASSUME NEW T, NEW s \in Seq(T), s # <<>>
    PROVE  /\ Head(s) \in ToSet(s) /\ Tail(s) \in Seq(T)
           /\ NoDuplicates(s) => NoDuplicates(Tail(s)) /\ ToSet(Tail(s)) = ToSet(s) \ {Head(s)}
<1> DEFINE n == Len(s)
           r == Tail(s)
<1>1. n \in Nat \ {0} /\ DOMAIN s = 1 .. n /\ Head(s) = s[1]
    BY EmptySeq, LenProperties
<1>2. r \in Seq(T) /\ Len(r) = n - 1 /\ \A k \in 1 .. n - 1 : r[k] = s[k + 1]
    BY HeadTailProperties
<1>3. DOMAIN r = 1 .. n - 1
    BY <1>2, LenProperties
<1> HIDE DEF n, r
<1>4. Head(s) \in ToSet(s)
    BY <1>1 DEF ToSet
<1>5. ASSUME NoDuplicates(s)
      PROVE  NoDuplicates(r) /\ ToSet(r) = ToSet(s) \ {s[1]}
    <2>1. \A j, k \in 1 .. n : s[j] = s[k] => j = k
        BY <1>1, <1>5 DEF NoDuplicates
    <2>2. NoDuplicates(r)
        <3>1. SUFFICES ASSUME NEW j \in 1 .. n - 1, NEW k \in 1 .. n - 1, r[j] = r[k]
                       PROVE  j = k
            BY <1>3 DEF NoDuplicates
        <3>2. s[j + 1] = s[k + 1] /\ j + 1 \in 1 .. n /\ k + 1 \in 1 .. n
            BY <1>1, <1>2, <3>1
        <3>3. j + 1 = k + 1
            BY <2>1, <3>2
        <3>4. QED
            BY <3>3
    <2>3. ASSUME NEW x \in ToSet(r)
          PROVE  x \in ToSet(s) \ {s[1]}
        <3>1. PICK k \in 1 .. n - 1 : x = r[k]
            BY <1>3 DEF ToSet
        <3>2. x = s[k + 1] /\ k + 1 \in 1 .. n /\ 1 \in 1 .. n /\ k + 1 # 1
            BY <1>1, <1>2, <3>1
        <3>3. x # s[1]
            BY <2>1, <3>2
        <3>4. QED
            BY <1>1, <3>2, <3>3 DEF ToSet
    <2>4. ASSUME NEW x \in ToSet(s), x # s[1]
          PROVE  x \in ToSet(r)
        <3>1. PICK k \in 1 .. n : x = s[k]
            BY <1>1 DEF ToSet
        <3> DEFINE j == k - 1
        <3>2. j \in 1 .. n - 1 /\ j + 1 = k
            BY <1>1, <2>4, <3>1
        <3> HIDE DEF j
        <3>3. r[j] = x
            BY <1>2, <3>1, <3>2
        <3>4. QED
            BY <1>3, <3>2, <3>3 DEF ToSet
    <2>5. ToSet(r) = ToSet(s) \ {s[1]}
        BY <2>3, <2>4
    <2>6. QED
        BY <2>2, <2>5
<1>6. QED
    BY <1>1, <1>2, <1>4, <1>5 DEF r

\* An element appended is one more.
LEMMA AppendKeeps ==
    ASSUME NEW T, NEW s \in Seq(T), NEW e \in T
    PROVE  /\ ToSet(Append(s, e)) = ToSet(s) \cup {e}
           /\ NoDuplicates(s) /\ e \notin ToSet(s) => NoDuplicates(Append(s, e))
<1> DEFINE r == Append(s, e)
<1>1. /\ r \in Seq(T) /\ Len(r) = Len(s) + 1 /\ r[Len(s) + 1] = e
      /\ \A i \in 1 .. Len(s) : r[i] = s[i]
    BY AppendProperties
<1> HIDE DEF r
<1>2. Len(s) \in Nat /\ DOMAIN s = 1 .. Len(s) /\ DOMAIN r = 1 .. Len(s) + 1
    BY <1>1, LenProperties
<1>3. \A i \in 1 .. Len(s) + 1 : i \in 1 .. Len(s) \/ i = Len(s) + 1
    BY <1>2
<1>4. ToSet(r) = ToSet(s) \cup {e}
    BY <1>1, <1>2, <1>3 DEF ToSet
<1>5. ASSUME NoDuplicates(s), e \notin ToSet(s)
      PROVE  NoDuplicates(r)
    <2>1. \A i \in 1 .. Len(s) : s[i] # e
        BY <1>2, <1>5 DEF ToSet
    <2>2. QED
        BY <1>1, <1>2, <1>3, <1>5, <2>1 DEF NoDuplicates
<1>6. QED
    BY <1>4, <1>5 DEF r

\* Those of the set leave the list, and no others.
LEMMA RemoveAllKeeps ==
    ASSUME NEW T, NEW s \in Seq(T), NEW S
    PROVE  /\ list_remove_all(s, S) \in Seq(T)
           /\ ToSet(list_remove_all(s, S)) = ToSet(s) \ S
           /\ NoDuplicates(s) => NoDuplicates(list_remove_all(s, S))
<1>0. PICK f \in [0 .. Len(s) -> Seq(T)] : RemovesAll(f, s, S)
    BY RemoveAllExists
<1> DEFINE n == Len(s)
<1>1. /\ f \in [0 .. n -> Seq(T)]
      /\ f[0] = <<>> /\ list_remove_all(s, S) = f[n]
      /\ \A i \in 1 .. n :
            f[i] = IF s[i] \in S THEN f[i - 1] ELSE Append(f[i - 1], s[i])
    BY <1>0 DEF RemovesAll
<1>2. n \in Nat /\ DOMAIN s = 1 .. n /\ \A i \in 1 .. n : s[i] \in T
    BY LenProperties, ElementOfSeq
<1> HIDE DEF n
<1> DEFINE First(k) == {s[i] : i \in 1 .. k}
           Kept == {k \in Nat : k <= n =>
                        /\ ToSet(f[k]) = First(k) \ S
                        /\ NoDuplicates(s) => NoDuplicates(f[k])}
<1>3. 0 \in Kept
    <2>1. DOMAIN <<>> = {} /\ First(0) = {}
        OBVIOUS
    <2>2. QED
        BY <1>1, <2>1 DEF ToSet, NoDuplicates
<1>4. ASSUME NEW k \in Nat, k \in Kept
      PROVE  k + 1 \in Kept
    <2>1. SUFFICES ASSUME k + 1 <= n
                   PROVE  /\ ToSet(f[k + 1]) = First(k + 1) \ S
                          /\ NoDuplicates(s) => NoDuplicates(f[k + 1])
        OBVIOUS
    <2>2. /\ k + 1 \in 1 .. n /\ (k + 1) - 1 = k /\ k <= n /\ k \in 0 .. n
          /\ \A i \in 1 .. k : i \in 1 .. n /\ i # k + 1
        BY <1>2, <2>1
    <2>3. ToSet(f[k]) = First(k) \ S /\ (NoDuplicates(s) => NoDuplicates(f[k]))
        BY <1>4, <2>2
    <2>4. First(k + 1) = First(k) \cup {s[k + 1]}
        <3>1. 1 .. k + 1 = 1 .. k \cup {k + 1}
            OBVIOUS
        <3>2. QED
            BY <3>1
    <2>5. NoDuplicates(s) => s[k + 1] \notin First(k)
        BY <1>2, <2>2 DEF NoDuplicates
    <2>6. f[k] \in Seq(T) /\ s[k + 1] \in T
        BY <1>1, <1>2, <2>2
    <2>7. f[k + 1] = IF s[k + 1] \in S THEN f[k] ELSE Append(f[k], s[k + 1])
        BY <1>1, <2>2
    <2> HIDE DEF First
    <2>8. CASE s[k + 1] \in S
        BY <2>3, <2>4, <2>7, <2>8
    <2>9. CASE s[k + 1] \notin S
        <3>1. /\ ToSet(f[k + 1]) = ToSet(f[k]) \cup {s[k + 1]}
              /\ NoDuplicates(f[k]) /\ s[k + 1] \notin ToSet(f[k]) => NoDuplicates(f[k + 1])
            BY <2>6, <2>7, <2>9, AppendKeeps
        <3>2. QED
            BY <2>3, <2>4, <2>5, <2>9, <3>1
    <2>10. QED
        BY <2>8, <2>9
<1>5. n \in Kept
    <2> HIDE DEF Kept
    <2>1. QED
        BY <1>2, <1>3, <1>4, StepInduction
<1>6. First(n) = ToSet(s)
    BY <1>2 DEF ToSet
<1>7. n \in 0 .. n
    BY <1>2
<1>8. QED
    BY <1>1, <1>2, <1>5, <1>6, <1>7

\* Inserting exchanges no two elements, and the new one comes behind those in
\* front of the place.
LEMMA InsertKeepsBefore ==
    ASSUME NEW S, NEW s \in Seq(S), NEW e \in S, NEW i \in 1 .. Len(s) + 1
    PROVE  /\ \A a, b : Before(s, a, b) => Before(list_insert_before(s, i, e), a, b)
           /\ \A j \in 1 .. Len(s) :
                j < i => Before(list_insert_before(s, i, e), s[j], e)
<1> DEFINE r == list_insert_before(s, i, e)
           up(j) == IF j < i THEN j ELSE j + 1
<1>1. Len(s) \in Nat /\ i \in Nat /\ DOMAIN s = 1 .. Len(s)
    BY LenProperties
<1>2. /\ r \in Seq(S) /\ Len(r) = Len(s) + 1
      /\ \A j \in 1 .. Len(s) + 1 :
            r[j] = IF j < i THEN s[j] ELSE IF j = i THEN e ELSE s[j - 1]
    <2>1. r \in Seq(S)
        BY InsertProperties
    <2>2. Len(r) = Len(s) + 1
        BY InsertProperties
    <2>3. \A j \in 1 .. Len(s) + 1 :
            r[j] = IF j < i THEN s[j] ELSE IF j = i THEN e ELSE s[j - 1]
        BY InsertProperties
    <2>4. QED
        BY <2>1, <2>2, <2>3
<1> HIDE DEF r
<1>3. DOMAIN r = 1 .. Len(s) + 1
    BY <1>2, LenProperties
<1>4. ASSUME NEW j \in 1 .. Len(s)
      PROVE  up(j) \in DOMAIN r /\ r[up(j)] = s[j]
    <2>1. CASE j < i
        <3>1. j \in 1 .. Len(s) + 1
            BY <1>1
        <3>2. QED
            BY <1>2, <1>3, <2>1, <3>1
    <2>2. CASE ~(j < i)
        <3>1. j + 1 \in 1 .. Len(s) + 1 /\ ~(j + 1 < i) /\ j + 1 # i /\ (j + 1) - 1 = j
            BY <1>1, <2>2
        <3>2. r[j + 1] = s[(j + 1) - 1]
            BY <1>2, <3>1
        <3>3. QED
            BY <1>3, <2>2, <3>1, <3>2
    <2>3. QED
        BY <2>1, <2>2
<1>5. \A j, k \in 1 .. Len(s) : j < k => up(j) < up(k)
    BY <1>1
<1>6. \A j \in 1 .. Len(s) : j < i => up(j) < i
    OBVIOUS
<1> HIDE DEF up
<1>7. \A a, b : Before(s, a, b) => Before(r, a, b)
    BY <1>1, <1>4, <1>5 DEF Before
<1>8. i \in DOMAIN r /\ r[i] = e
    BY <1>1, <1>2, <1>3
<1>9. \A j \in 1 .. Len(s) : j < i => Before(r, s[j], e)
    BY <1>4, <1>6, <1>8 DEF Before
<1>10. QED
    BY <1>7, <1>9 DEF r

\* Removing an element exchanges no two others.
LEMMA RemoveKeepsBefore ==
    ASSUME NEW S, NEW s \in Seq(S), NoDuplicates(s), NEW e,
           NEW a, NEW b, a # e, b # e, Before(s, a, b)
    PROVE  Before(list_remove(s, e), a, b)
<1>1. Len(s) \in Nat /\ DOMAIN s = 1 .. Len(s)
    BY LenProperties
<1>2. PICK i, j \in 1 .. Len(s) : i < j /\ s[i] = a /\ s[j] = b
    BY <1>1 DEF Before
<1>3. CASE ~list_linked(s, e)
    <2>1. list_remove(s, e) = s
        BY <1>1, <1>3 DEF list_linked, list_remove, RemoveFirst, ToSet
    <2>2. QED
        BY <2>1
<1>4. CASE list_linked(s, e)
    <2>1. PICK k \in 1 .. Len(s) : s[k] = e
        BY <1>1, <1>4 DEF list_linked, ToSet
    <2> DEFINE r == list_remove(s, s[k])
    <2>2. /\ r \in Seq(S) /\ Len(r) = Len(s) - 1
          /\ \A m \in 1 .. Len(s) - 1 : r[m] = IF m < k THEN s[m] ELSE s[m + 1]
        BY RemoveProperties
    <2> HIDE DEF r
    <2>3. DOMAIN r = 1 .. Len(s) - 1
        BY <2>2, LenProperties
    <2>4. i # k /\ j # k
        BY <1>2, <2>1
    <2>5. \A m \in 1 .. Len(s) : m # k =>
            /\ (IF m < k THEN m ELSE m - 1) \in 1 .. Len(s) - 1
            /\ r[IF m < k THEN m ELSE m - 1] = s[m]
        <3>1. SUFFICES ASSUME NEW m \in 1 .. Len(s), m # k
                       PROVE  /\ (IF m < k THEN m ELSE m - 1) \in 1 .. Len(s) - 1
                              /\ r[IF m < k THEN m ELSE m - 1] = s[m]
            OBVIOUS
        <3>2. CASE m < k
            <4>1. m \in 1 .. Len(s) - 1
                BY <1>1, <3>1, <3>2
            <4>2. QED
                BY <2>2, <3>2, <4>1
        <3>3. CASE ~(m < k)
            <4>1. m - 1 \in 1 .. Len(s) - 1 /\ ~(m - 1 < k) /\ (m - 1) + 1 = m
                BY <1>1, <3>1, <3>3
            <4>2. r[m - 1] = s[(m - 1) + 1]
                BY <2>2, <4>1
            <4>3. QED
                BY <3>3, <4>1, <4>2
        <3>4. QED
            BY <3>2, <3>3
    <2>6. (IF i < k THEN i ELSE i - 1) < (IF j < k THEN j ELSE j - 1)
        BY <1>1, <1>2, <2>4
    <2>7. Before(r, a, b)
        BY <1>2, <2>3, <2>4, <2>5, <2>6 DEF Before
    <2>8. QED
        BY <2>1, <2>7 DEF r
<1>5. QED
    BY <1>3, <1>4
=============================================================================
