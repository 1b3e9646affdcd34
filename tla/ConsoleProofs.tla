---------------------------- MODULE ConsoleProofs ----------------------------
(***************************************************************************)
(* Proofs about Console, for a screen and a buffer of any size, and any    *)
(* calls of kprintf that the compiler lets pass.                           *)
(***************************************************************************)
EXTENDS Console, ListsTheorems

-----------------------------------------------------------------------------
(* memmove, for any number of bytes from anywhere to anywhere.             *)

CopyStep(dst, src, bytes, piece) == CopyPiece(bytes, dst, src, piece)
Copying == INSTANCE FoldTheorems WITH Op <- CopyStep

\* Where each of the pieces ends.
Cut(lead, n, k) ==
    LET words == (n - lead) \div 4 IN
    IF k <= lead THEN k
    ELSE IF k <= lead + words THEN lead + 4 * (k - lead)
    ELSE lead + 4 * words + (k - lead - words)

NumberOfPieces(lead, n) == lead + ((n - lead) \div 4) + ((n - lead) % 4)

\* The pieces follow each other from the first byte to the last.
LEMMA PiecesAre ==
    ASSUME NEW n \in Nat, NEW lead \in 0 .. n
    PROVE  /\ NumberOfPieces(lead, n) \in Nat
           /\ DOMAIN Pieces(lead, n) = 1 .. NumberOfPieces(lead, n)
           /\ Pieces(lead, n) = [k \in 1 .. NumberOfPieces(lead, n) |-> Pieces(lead, n)[k]]
           /\ \A k \in 0 .. NumberOfPieces(lead, n) : Cut(lead, n, k) \in 0 .. n
           /\ Cut(lead, n, 0) = 0 /\ Cut(lead, n, NumberOfPieces(lead, n)) = n
           /\ \A k \in 1 .. NumberOfPieces(lead, n) :
                /\ Cut(lead, n, k - 1) <= Cut(lead, n, k)
                /\ Pieces(lead, n)[k] =
                    <<Cut(lead, n, k - 1), Cut(lead, n, k) - Cut(lead, n, k - 1)>>
<1> DEFINE words == (n - lead) \div 4
           rest == (n - lead) % 4
           done == lead + 4 * words
           all == NumberOfPieces(lead, n)
<1>1. /\ words \in Nat /\ rest \in 0 .. 3 /\ n - lead = 4 * words + rest
      /\ all = lead + words + rest
    <2>1. n - lead \in Nat /\ 4 \in Nat \ {0}
        OBVIOUS
    <2>2. n - lead = 4 * words + rest /\ rest \in 0 .. 4 - 1 /\ words \in Nat
        BY <2>1
    <2>3. QED
        BY <2>2 DEF NumberOfPieces
<1> DEFINE a == [k \in 1 .. lead - 0 |-> <<0 + k - 1, 1>>]
           b == [k \in 1 .. words |-> <<lead + 4 * (k - 1), 4>>]
           c == [k \in 1 .. n - done |-> <<done + k - 1, 1>>]
<1>2. Pieces(lead, n) = a \o b \o c
    BY DEF Pieces
<1>3. done \in 0 .. n /\ n - done = rest
    BY <1>1
<1> HIDE DEF words, rest, done
<1>4. /\ a \in Seq(Int \X Int) /\ Len(a) = lead
      /\ b \in Seq(Int \X Int) /\ Len(b) = words
      /\ c \in Seq(Int \X Int) /\ Len(c) = rest
    BY <1>1, <1>3
<1>5. /\ \A k \in 1 .. lead : a[k] = <<k - 1, 1>>
      /\ \A k \in 1 .. words : b[k] = <<lead + 4 * (k - 1), 4>>
      /\ \A k \in 1 .. rest : c[k] = <<done + k - 1, 1>>
    BY <1>1, <1>3
<1> DEFINE p == a \o b
           q == p \o c
<1> HIDE DEF a, b, c
<1>6. /\ p \in Seq(Int \X Int) /\ Len(p) = lead + words
      /\ \A k \in 1 .. lead + words : p[k] = IF k <= lead THEN a[k] ELSE b[k - lead]
    BY <1>4, ConcatProperties
<1> HIDE DEF p
<1>7. /\ q \in Seq(Int \X Int) /\ Len(q) = all
      /\ \A k \in 1 .. all : q[k] = IF k <= lead + words THEN p[k] ELSE c[k - (lead + words)]
    <2>1. /\ q \in Seq(Int \X Int) /\ Len(q) = Len(p) + Len(c)
          /\ \A k \in 1 .. Len(p) + Len(c) : q[k] = IF k <= Len(p) THEN p[k] ELSE c[k - Len(p)]
        <3>1. p \in Seq(Int \X Int) /\ c \in Seq(Int \X Int)
            BY <1>4, <1>6
        <3>2. QED
            BY <3>1, ConcatProperties
    <2>2. Len(p) + Len(c) = all
        BY <1>1, <1>4, <1>6
    <2>3. QED
        BY <1>6, <2>1, <2>2
<1> HIDE DEF q
<1>8. /\ all \in Nat /\ DOMAIN q = 1 .. all /\ q = Pieces(lead, n)
      /\ q = [k \in 1 .. all |-> q[k]]
    <2>1. all \in Nat /\ DOMAIN q = 1 .. all /\ q = [k \in 1 .. all |-> q[k]]
        BY <1>1, <1>7
    <2>2. q = Pieces(lead, n)
        BY <1>2, Zenon DEF q, p
    <2>3. QED
        BY <2>1, <2>2
<1> DEFINE cut(k) == IF k <= lead THEN k
                     ELSE IF k <= lead + words THEN lead + 4 * (k - lead)
                     ELSE lead + 4 * words + (k - lead - words)
<1>9. \A k \in 0 .. all : Cut(lead, n, k) = cut(k)
    BY Zenon DEF Cut, words
<1>10. /\ \A k \in 0 .. all : cut(k) \in 0 .. n
       /\ cut(0) = 0 /\ cut(all) = n
    <2>1. ASSUME NEW k \in 0 .. all
          PROVE  cut(k) \in 0 .. n
        BY <1>1
    <2>2. cut(0) = 0 /\ cut(all) = n
        BY <1>1
    <2>3. QED
        BY <2>1, <2>2
<1>11. ASSUME NEW k \in 1 .. all
       PROVE  cut(k - 1) <= cut(k) /\ q[k] = <<cut(k - 1), cut(k) - cut(k - 1)>>
    <2>1. CASE k <= lead
        <3>1. k \in 1 .. lead /\ k \in 1 .. lead + words /\ k <= lead + words
            BY <1>1, <2>1
        <3>2. q[k] = a[k] /\ a[k] = <<k - 1, 1>>
            BY <1>5, <1>6, <1>7, <2>1, <3>1
        <3>3. cut(k - 1) = k - 1 /\ cut(k) = k
            BY <2>1, <3>1
        <3>4. QED
            BY <3>2, <3>3
    <2>2. CASE k > lead /\ k <= lead + words
        <3>1. /\ k - lead \in 1 .. words /\ k \in 1 .. lead + words
              /\ ~(k <= lead) /\ k <= lead + words
            BY <1>1, <2>2
        <3>2. q[k] = b[k - lead] /\ b[k - lead] = <<lead + 4 * ((k - lead) - 1), 4>>
            BY <1>5, <1>6, <1>7, <3>1
        <3>3. cut(k - 1) = lead + 4 * ((k - lead) - 1) /\ cut(k) = lead + 4 * (k - lead)
            BY <1>1, <2>2
        <3>4. cut(k) - cut(k - 1) = 4 /\ cut(k - 1) <= cut(k)
            BY <1>1, <3>3
        <3>5. QED
            BY <3>2, <3>3, <3>4
    <2>3. CASE k > lead + words
        <3>1. k - (lead + words) \in 1 .. rest /\ ~(k <= lead + words)
            BY <1>1, <2>3
        <3>2. /\ q[k] = c[k - (lead + words)]
              /\ c[k - (lead + words)] = <<done + (k - (lead + words)) - 1, 1>>
            BY <1>1, <1>5, <1>7, <3>1
        <3>3. /\ cut(k - 1) = done + (k - (lead + words)) - 1
              /\ cut(k) = done + (k - (lead + words))
            BY <1>1, <2>3 DEF done
        <3>4. cut(k) - cut(k - 1) = 1 /\ cut(k - 1) <= cut(k)
            BY <1>1, <1>3, <3>3
        <3>5. QED
            BY <3>2, <3>3, <3>4
    <2>4. QED
        BY <1>1, <2>1, <2>2, <2>3
<1> HIDE DEF cut, all
<1>12. QED
    <2>1. \A k \in 1 .. all : k \in 0 .. all /\ k - 1 \in 0 .. all
        BY <1>8
    <2>2. 0 \in 0 .. all /\ all \in 0 .. all
        BY <1>8
    <2>3. QED
        BY <1>8, <1>9, <1>10, <1>11, <2>1, <2>2, Zenon DEF all


\* The bytes from .. to - 1 behind dst are what those behind src were.
Moved(bytes, dst, src, from, to) ==
    [b \in DOMAIN bytes |-> IF b - dst \in from .. to - 1 THEN bytes[b - dst + src] ELSE bytes[b]]

\* l bytes behind o can be read, and are none of those from .. to - 1.
Intact(bytes, dst, src, from, to, o, l) ==
    \A i \in o .. o + l - 1 : src + i \in DOMAIN bytes /\ i + (src - dst) \notin from .. to - 1

\* One piece more, in front of or behind what was moved, which it does not read.
PieceCopied(bytes, dst, src, o, l) == CopyPiece(bytes, dst, src, <<o, l>>)

LEMMA OnePiece ==
    ASSUME NEW bytes, DOMAIN bytes \subseteq Int, NEW dst \in Int, NEW src \in Int,
           NEW from \in Int, NEW to \in Int, NEW o \in Int, NEW l \in Nat, from <= to,
           Intact(bytes, dst, src, from, to, o, l),
           NEW low, NEW high, low .. high - 1 = (from .. to - 1) \cup (o .. o + l - 1)
    PROVE  PieceCopied(Moved(bytes, dst, src, from, to), dst, src, o, l)
                = Moved(bytes, dst, src, low, high)
<1> DEFINE D == DOMAIN bytes
           m == Moved(bytes, dst, src, from, to)
           c == PieceCopied(m, dst, src, o, l)
<1>1. /\ DOMAIN m = D
      /\ \A b \in D : m[b] = IF b - dst \in from .. to - 1 THEN bytes[b - dst + src] ELSE bytes[b]
    BY Zenon DEF Moved
<1>2. c = [b \in D |-> IF b - dst \in o .. o + l - 1 THEN m[b - dst + src] ELSE m[b]]
    BY <1>1 DEF PieceCopied, CopyPiece
<1> HIDE DEF m, c, D
<1>3. ASSUME NEW b \in D, b - dst \in o .. o + l - 1
      PROVE  m[b - dst + src] = bytes[b - dst + src]
    <2> DEFINE i == b - dst
    <2>1. b \in Int /\ i \in Int
        BY <1>3 DEF D
    <2>2. i \in o .. o + l - 1 /\ b - dst + src = src + i /\ (src + i) - dst = i + (src - dst)
        BY <1>3, <2>1
    <2> HIDE DEF i
    <2>3. src + i \in D /\ (src + i) - dst \notin from .. to - 1
        BY <2>2 DEF D, Intact
    <2>4. QED
        BY <1>1, <2>2, <2>3
<1>4. \A b \in D : c[b] = IF b - dst \in o .. o + l - 1 \/ b - dst \in from .. to - 1
                          THEN bytes[b - dst + src] ELSE bytes[b]
    BY <1>1, <1>2, <1>3
<1>5. \A b \in D : (b - dst \in o .. o + l - 1 \/ b - dst \in from .. to - 1)
                        <=> b - dst \in low .. high - 1
    BY Zenon
<1>6. c = [b \in D |-> IF b - dst \in low .. high - 1 THEN bytes[b - dst + src] ELSE bytes[b]]
    BY <1>2, <1>4, <1>5
<1>7. QED
    BY <1>6, Zenon DEF Moved, D, c, m

LEMMA PieceBehind ==
    ASSUME NEW bytes, DOMAIN bytes \subseteq Int, NEW dst \in Int, NEW src \in Int,
           NEW from \in Int, NEW to \in Int, NEW l \in Nat, from <= to,
           Intact(bytes, dst, src, from, to, to, l)
    PROVE  PieceCopied(Moved(bytes, dst, src, from, to), dst, src, to, l)
                = Moved(bytes, dst, src, from, to + l)
<1>1. from .. (to + l) - 1 = (from .. to - 1) \cup (to .. to + l - 1) /\ to + l \in Int
    OBVIOUS
<1>2. QED
    BY <1>1, OnePiece

LEMMA PieceBefore ==
    ASSUME NEW bytes, DOMAIN bytes \subseteq Int, NEW dst \in Int, NEW src \in Int,
           NEW from \in Int, NEW to \in Int, NEW o \in Int, NEW l \in Nat, from <= to, o + l = from,
           Intact(bytes, dst, src, from, to, o, l)
    PROVE  PieceCopied(Moved(bytes, dst, src, from, to), dst, src, o, l)
                = Moved(bytes, dst, src, o, to)
<1>1. o .. to - 1 = (from .. to - 1) \cup (o .. o + l - 1)
    OBVIOUS
<1>2. QED
    BY <1>1, OnePiece

AreBytes(bytes) == DOMAIN bytes \subseteq Int /\ bytes = [b \in DOMAIN bytes |-> bytes[b]]

LEMMA NothingMoved ==
    ASSUME NEW bytes, AreBytes(bytes),
           NEW dst \in Int, NEW src \in Int, NEW from \in Int
    PROVE  Moved(bytes, dst, src, from, from) = bytes
<1>1. \A b \in DOMAIN bytes : b - dst \notin from .. from - 1
    BY DEF AreBytes
<1>2. Moved(bytes, dst, src, from, from) = [b \in DOMAIN bytes |-> bytes[b]]
    BY <1>1 DEF Moved
<1>3. QED
    BY <1>2, Zenon DEF AreBytes

\* From the beginning, which is what memmove does unless the destination is
\* among the bytes to move, behind their beginning.
LEMMA ForwardMoves ==
    ASSUME NEW bytes, AreBytes(bytes),
           NEW dst \in Int, NEW src \in Int, NEW n \in Nat,
           \A i \in 0 .. n - 1 : src + i \in DOMAIN bytes,
           ~(src < dst /\ dst <= src + n - 1)
    PROVE  Copying!Loop(dst, src, bytes, ForwardPieces(dst, n)) = Moved(bytes, dst, src, 0, n)
<1> DEFINE lead == IF n <= 8 THEN n ELSE (-dst) % 4
           pieces == Pieces(lead, n)
           all == NumberOfPieces(lead, n)
           cut(k) == Cut(lead, n, k)
           value == [k \in 0 .. all |-> Moved(bytes, dst, src, 0, cut(k))]
<1>1. lead \in 0 .. n /\ ForwardPieces(dst, n) = pieces
    BY DEF ForwardPieces
<1> HIDE DEF lead
<1>2. /\ all \in Nat
      /\ DOMAIN pieces = 1 .. all
      /\ \A k \in 0 .. all : cut(k) \in 0 .. n
      /\ cut(0) = 0 /\ cut(all) = n
      /\ \A k \in 1 .. all : cut(k - 1) <= cut(k) /\ pieces[k] = <<cut(k - 1), cut(k) - cut(k - 1)>>
    BY <1>1, PiecesAre
<1>3. Copying!IsSequence(pieces, all)
    <2>1. pieces = [k \in 1 .. all |-> pieces[k]]
        BY <1>1, PiecesAre
    <2>2. QED
        BY <1>2, <2>1 DEF Copying!IsSequence
<1> HIDE DEF pieces, all, cut
<1>4. value[0] = bytes
    <2>1. Moved(bytes, dst, src, 0, 0) = bytes
        BY NothingMoved
    <2>2. QED
        BY <1>2, <2>1
<1>5. ASSUME NEW k \in 1 .. all
      PROVE  value[k] = CopyStep(dst, src, value[k - 1], pieces[k])
    <2> DEFINE o == cut(k - 1)
               l == cut(k) - cut(k - 1)
    <2>1. k - 1 \in 0 .. all /\ k \in 0 .. all
        BY <1>2
    <2>2. /\ o \in 0 .. n /\ l \in Nat /\ o + l = cut(k) /\ o + l <= n
          /\ pieces[k] = <<o, l>>
        BY <1>2, <2>1
    <2>3. value[k - 1] = Moved(bytes, dst, src, 0, o) /\ value[k] = Moved(bytes, dst, src, 0, o + l)
        BY <2>1, <2>2
    <2> HIDE DEF o, l
    <2>4. Intact(bytes, dst, src, 0, o, o, l)
        BY <2>2 DEF Intact
    <2>5. PieceCopied(Moved(bytes, dst, src, 0, o), dst, src, o, l) = Moved(bytes, dst, src, 0, o + l)
        <3> DEFINE first == 0
        <3>1. first \in Int /\ o \in Int /\ first <= o /\ DOMAIN bytes \subseteq Int
            BY <2>2 DEF AreBytes
        <3>2. Intact(bytes, dst, src, first, o, o, l)
            BY <2>4
        <3> HIDE DEF first
        <3>3. PieceCopied(Moved(bytes, dst, src, first, o), dst, src, o, l) =
                Moved(bytes, dst, src, first, o + l)
            BY <2>2, <3>1, <3>2, PieceBehind
        <3>4. QED
            BY <3>3 DEF first
    <2>6. QED
        BY <2>2, <2>3, <2>5 DEF CopyStep, PieceCopied
<1> HIDE DEF value
<1>6. Copying!Loop(dst, src, bytes, pieces) = value[all]
    <2>1. \A k \in 1 .. all : value[k] = CopyStep(dst, src, value[k - 1], pieces[k])
        BY <1>5, Zenon
    <2>2. Copying!Follows(value, dst, src, bytes, pieces, all)
        BY <1>4, <2>1, Zenon DEF Copying!Follows
    <2>3. all \in Nat
        BY <1>2
    <2>4. QED
        BY <1>3, <2>2, <2>3, Copying!LoopFollows
<1>7. value[all] = Moved(bytes, dst, src, 0, n)
    BY <1>2 DEF value
<1>8. QED
    BY <1>1, <1>6, <1>7

\* From the end, otherwise.
LEMMA BackwardMoves ==
    ASSUME NEW bytes, AreBytes(bytes),
           NEW dst \in Int, NEW src \in Int, NEW n \in Nat,
           \A i \in 0 .. n - 1 : src + i \in DOMAIN bytes,
           src < dst
    PROVE  Copying!Loop(dst, src, bytes, BackwardPieces(dst, n)) = Moved(bytes, dst, src, 0, n)
<1> DEFINE lead == IF n <= 8 THEN n ELSE (dst + n) % 4
           front == Pieces(lead, n)
           pieces == BackwardPieces(dst, n)
           all == NumberOfPieces(lead, n)
           cut(k) == Cut(lead, n, k)
           value == [k \in 0 .. all |-> Moved(bytes, dst, src, n - cut(k), n)]
<1>1. /\ lead \in 0 .. n
      /\ pieces = [k \in DOMAIN front |-> <<n - front[k][1] - front[k][2], front[k][2]>>]
    BY DEF BackwardPieces
<1> HIDE DEF lead
<1>2. /\ all \in Nat
      /\ DOMAIN front = 1 .. all
      /\ \A k \in 0 .. all : cut(k) \in 0 .. n
      /\ cut(0) = 0 /\ cut(all) = n
      /\ \A k \in 1 .. all : cut(k - 1) <= cut(k) /\ front[k] = <<cut(k - 1), cut(k) - cut(k - 1)>>
    BY <1>1, PiecesAre
<1>3. Copying!IsSequence(pieces, all)
    BY <1>1, <1>2 DEF Copying!IsSequence
<1> HIDE DEF all, cut, front
<1>4. value[0] = bytes
    <2>1. Moved(bytes, dst, src, n, n) = bytes
        BY NothingMoved
    <2>2. QED
        BY <1>2, <2>1
<1>5. ASSUME NEW k \in 1 .. all
      PROVE  value[k] = CopyStep(dst, src, value[k - 1], pieces[k])
    <2> DEFINE o == n - cut(k)
               l == cut(k) - cut(k - 1)
               from == n - cut(k - 1)
    <2>1. k - 1 \in 0 .. all /\ k \in 0 .. all
        BY <1>2
    <2>2. /\ o \in 0 .. n /\ l \in Nat /\ o + l = from /\ from \in 0 .. n
          /\ n - cut(k - 1) - l = o
        BY <1>2, <2>1
    <2>3. front[k] = <<cut(k - 1), l>>
        BY <1>2
    <2>4. pieces[k] = <<o, l>>
        BY <1>1, <1>2, <2>2, <2>3
    <2>5. value[k - 1] = Moved(bytes, dst, src, from, n) /\ value[k] = Moved(bytes, dst, src, o, n)
        BY <2>1, <2>2
    <2> HIDE DEF o, l, from
    <2>6. Intact(bytes, dst, src, from, n, o, l)
        BY <2>2 DEF Intact
    <2>7. PieceCopied(Moved(bytes, dst, src, from, n), dst, src, o, l) = Moved(bytes, dst, src, o, n)
        <3>1. from \in Int /\ n \in Int /\ o \in Int /\ from <= n
                /\ DOMAIN bytes \subseteq Int
            BY <2>2 DEF AreBytes
        <3>2. QED
            BY <2>2, <2>6, <3>1, PieceBefore
    <2>8. QED
        BY <2>4, <2>5, <2>7 DEF CopyStep, PieceCopied
<1> HIDE DEF value, pieces
<1>6. Copying!Loop(dst, src, bytes, pieces) = value[all]
    <2>1. \A k \in 1 .. all : value[k] = CopyStep(dst, src, value[k - 1], pieces[k])
        BY <1>5, Zenon
    <2>2. Copying!Follows(value, dst, src, bytes, pieces, all)
        BY <1>4, <2>1, Zenon DEF Copying!Follows
    <2>3. all \in Nat
        BY <1>2
    <2>4. QED
        BY <1>3, <2>2, <2>3, Copying!LoopFollows
<1>7. value[all] = Moved(bytes, dst, src, 0, n)
    BY <1>2 DEF value
<1>8. QED
    BY <1>6, <1>7 DEF pieces

\* memmove, of any number of bytes that are there, between any two places
\* that may overlap: afterwards the destination has what the source had, and
\* all else is what it was.
THEOREM MemmoveMoves ==
    ASSUME NEW bytes, AreBytes(bytes),
           NEW dst \in Int, NEW src \in Int, NEW n \in Nat,
           \A i \in 0 .. n - 1 : src + i \in DOMAIN bytes
    PROVE  memmove(bytes, dst, src, n) =
                [b \in DOMAIN bytes |-> IF b - dst \in 0 .. n - 1 THEN bytes[b - dst + src] ELSE bytes[b]]
<1> DEFINE pieces == IF src < dst /\ dst <= src + n - 1
                     THEN BackwardPieces(dst, n) ELSE ForwardPieces(dst, n)
<1>1. memmove(bytes, dst, src, n) = Copying!Loop(dst, src, bytes, pieces)
    BY Zenon DEF memmove, Copying!Loop, CopyStep, FoldLeft, Copying!FoldLeft,
          MapThenFoldSet, Copying!MapThenFoldSet, Max, Copying!Max
<1>2. Copying!Loop(dst, src, bytes, pieces) = Moved(bytes, dst, src, 0, n)
    <2>1. CASE src < dst /\ dst <= src + n - 1
        BY <2>1, BackwardMoves
    <2>2. CASE ~(src < dst /\ dst <= src + n - 1)
        BY <2>2, ForwardMoves
    <2>3. QED
        BY <2>1, <2>2, Zenon
<1>3. QED
    BY <1>1, <1>2, Zenon DEF Moved

-----------------------------------------------------------------------------
(* The pieces of text that vbprintf writes. *)

\* All that a text may consist of.  The provers do not know that the
\* characters the code writes are strings.
Written == {"a", "b", "c", "d", "e", "f", "A", "B", "C", "D", "E", "F", "x", "X",
            "-", "+", " ", "(", "n", "i", "l", ")", "0", Newline}
Char == STRING \cup ToSet(DecimalDigits) \cup Written

Characters == Seq(Char)
Argument == [num : Int, str : Characters]
Arguments == Seq(Argument)
Texts(room) == {text \in Characters : Len(text) <= room}

LEMMA MinIs ==
    ASSUME NEW a \in Nat, NEW b \in Nat
    PROVE  Min({a, b}) = IF a <= b THEN a ELSE b
<1> DEFINE S == {a, b}
<1>1. S \in SUBSET Nat /\ S # {}
    OBVIOUS
<1>2. Min(S) \in S /\ \A y \in S : Min(S) <= y
    BY <1>1, MinIsLeast
<1>3. QED
    BY <1>2

LEMMA MaxOfZero ==
    ASSUME NEW a \in Int
    PROVE  Max({0, a}) = IF a <= 0 THEN 0 ELSE a
<1> DEFINE S == {0, a}
           IsMax(x) == x \in S /\ \A y \in S : x >= y
<1>1. \E x : IsMax(x)
    <2>1. IsMax(IF a <= 0 THEN 0 ELSE a)
        OBVIOUS
    <2>2. QED
        BY <2>1, Zenon
<1>2. Max(S) = CHOOSE x : IsMax(x)
    BY Zenon DEF Max
<1>3. IsMax(Max(S))
    <2> HIDE DEF IsMax
    <2>1. QED
        BY <1>1, <1>2, Zenon
<1>4. QED
    BY <1>3

LEMMA RepeatIs ==
    ASSUME NEW char \in Char, NEW n \in Nat
    PROVE  Repeat(char, n) \in Characters /\ Len(Repeat(char, n)) = n
<1> DEFINE s == [k \in 1 .. n |-> char]
<1>1. s \in [1 .. n -> Char]
    OBVIOUS
<1> HIDE DEF s
<1>2. s \in Seq(Char) /\ Len(s) = n
    <2>1. s \in Seq(Char)
        BY <1>1, SeqDef
    <2>2. DOMAIN s = 1 .. n /\ Len(s) \in Nat /\ DOMAIN s = 1 .. Len(s)
        BY <1>1, <2>1
    <2>3. QED
        BY <2>1, <2>2
<1>3. QED
    BY <1>2, Zenon DEF Repeat, Characters, s

LEMMA FitsIs ==
    ASSUME NEW text \in Characters, NEW room \in Nat
    PROVE  Fits(text, room) \in Texts(room)
<1> DEFINE n == Min({Len(text), room})
<1>1. Len(text) \in Nat
    BY DEF Characters
<1>2. n \in 0 .. Len(text) /\ n <= room
    BY <1>1, MinIs
<1> HIDE DEF n
<1>3. SubSeq(text, 1, n) \in Characters /\ Len(SubSeq(text, 1, n)) = n
    BY <1>1, <1>2 DEF Characters
<1>4. QED
    BY <1>2, <1>3, Zenon DEF Fits, Texts, n

LEMMA Joined ==
    ASSUME NEW a \in Characters, NEW b \in Characters
    PROVE  a \o b \in Characters /\ Len(a \o b) = Len(a) + Len(b)
BY ConcatProperties DEF Characters

\* The widths of the types, and what a conversion to one of them gives.
LEMMA PowersPositive ==
    \A k \in 0 .. Bits.longlong : 2^k \in Nat \ {0}
<1>1. Bits.longlong \in Nat
    BY BprintfAssumption
<1>2. Doubles(Bits.longlong)
    BY BitsDouble, Zenon DEF Doubles
<1>3. QED
    BY <1>1, <1>2, PowersArePositive, Zenon

Types == {"char", "short", "long", "longlong"}

LEMMA Converted ==
    ASSUME NEW n \in Int, NEW type \in Types
    PROVE  Unsigned(n, type) \in Nat /\ Signed(n, type) \in Int
<1>1. Bits[type] \in Nat \ {0} /\ Bits[type] <= Bits.longlong /\ Bits.longlong \in Nat
    BY BprintfAssumption DEF Types
<1>2. Bits[type] \in 0 .. Bits.longlong /\ Bits[type] - 1 \in 0 .. Bits.longlong
    BY <1>1
<1>3. 2^Bits[type] \in Nat \ {0} /\ 2^(Bits[type] - 1) \in Nat \ {0}
    BY <1>2, PowersPositive, Zenon
<1>4. Unsigned(n, type) \in Nat
    <2> DEFINE m == 2^Bits[type]
    <2> HIDE DEF m
    <2>1. m \in Nat \ {0}
        BY <1>3, Zenon DEF m
    <2>2. n % m \in 0 .. m - 1
        BY <2>1
    <2>3. QED
        BY <2>1, <2>2 DEF Unsigned, m
<1>5. QED
    <2> DEFINE m == 2^Bits[type]
               h == 2^(Bits[type] - 1)
               u == Unsigned(n, type)
    <2> HIDE DEF m, h, u
    <2>1. m \in Nat /\ h \in Nat /\ u \in Nat
        BY <1>3, <1>4 DEF m, h, u
    <2>2. Signed(n, type) = IF u < h THEN u ELSE u - m
        BY Zenon DEF Signed, m, h, u
    <2>3. QED
        BY <1>4, <2>1, <2>2

LEMMA Sized ==
    ASSUME NEW n \in Int
    PROVE  Size(n) \in Nat
BY Converted DEF Size, Types

-----------------------------------------------------------------------------
(* The digits of a number. *)

LEMMA WrittenAre == \A c \in Written : c \in Char
BY DEF Char

LEMMA Alphabets ==
    /\ DecimalDigits \in Characters /\ Len(DecimalDigits) = 10
    /\ LowerDigits \in Characters /\ Len(LowerDigits) = 16
    /\ UpperDigits \in Characters /\ Len(UpperDigits) = 16
<1>1. DecimalDigits \in Characters /\ Len(DecimalDigits) = 10
    <2>1. /\ DOMAIN DecimalDigits = 1 .. 10 /\ Len(DecimalDigits) = 10
          /\ DecimalDigits = [k \in 1 .. 10 |-> DecimalDigits[k]]
        BY DEF DecimalDigits
    <2>2. \A k \in 1 .. 10 : DecimalDigits[k] \in Char
        BY <2>1, Zenon DEF Char, ToSet
    <2>3. DecimalDigits \in [1 .. 10 -> Char]
        BY <2>1, <2>2, Zenon
    <2>4. DecimalDigits \in Seq(Char)
        BY <2>3, SeqDef
    <2>5. QED
        BY <2>1, <2>4 DEF Characters
<1> DEFINE lower == <<"a", "b", "c", "d", "e", "f">>
           upper == <<"A", "B", "C", "D", "E", "F">>
<1>2. lower \in Seq(Char) /\ Len(lower) = 6
    <2>1. "a" \in Char /\ "b" \in Char /\ "c" \in Char /\ "d" \in Char /\ "e" \in Char /\ "f" \in Char
        BY WrittenAre DEF Written
    <2>2. QED
        BY <2>1
<1>3. upper \in Seq(Char) /\ Len(upper) = 6
    <2>1. "A" \in Char /\ "B" \in Char /\ "C" \in Char /\ "D" \in Char /\ "E" \in Char /\ "F" \in Char
        BY WrittenAre DEF Written
    <2>2. QED
        BY <2>1
<1>4. LowerDigits = DecimalDigits \o lower /\ UpperDigits = DecimalDigits \o upper
    BY DEF LowerDigits, UpperDigits
<1> HIDE DEF lower, upper
<1>5. LowerDigits \in Characters /\ Len(LowerDigits) = 16
    <2>1. lower \in Characters
        BY <1>2 DEF Characters
    <2>2. /\ DecimalDigits \o lower \in Characters
          /\ Len(DecimalDigits \o lower) = Len(DecimalDigits) + Len(lower)
        BY <1>1, <2>1, Joined
    <2>3. QED
        BY <1>1, <1>2, <1>4, <2>2
<1>6. UpperDigits \in Characters /\ Len(UpperDigits) = 16
    <2>1. upper \in Characters
        BY <1>3 DEF Characters
    <2>2. /\ DecimalDigits \o upper \in Characters
          /\ Len(DecimalDigits \o upper) = Len(DecimalDigits) + Len(upper)
        BY <1>1, <2>1, Joined
    <2>3. QED
        BY <1>1, <1>3, <1>4, <2>2
<1>7. QED
    BY <1>1, <1>5, <1>6

LEMMA LessDivided ==
    ASSUME NEW n \in Nat, NEW base \in Nat, base > 1, ~(n < base)
    PROVE  n \div base \in 0 .. n - 1
<1> DEFINE q == n \div base
           d == base - 2
<1>1. n = base * q + (n % base) /\ n % base \in 0 .. base - 1 /\ q \in Nat
    <2>1. base \in Nat \ {0}
        OBVIOUS
    <2>2. QED
        BY <2>1, DivMod
<1> HIDE DEF q
<1>2. q >= 1
    BY <1>1
<1>3. d \in Nat /\ base = 2 + d
    OBVIOUS
<1> HIDE DEF d
<1>4. d * q \in Nat /\ (2 + d) * q = 2 * q + d * q
    BY <1>1, <1>3
<1>5. base * q >= 2 * q
    BY <1>1, <1>3, <1>4
<1>6. q < n
    BY <1>1, <1>2, <1>5
<1>7. QED
    BY <1>1, <1>6 DEF q

\* The loop that divides, for the numbers up to m.
Dividing(g, m, base, chars) ==
    g = [n \in 0 .. m |->
            IF n < base THEN <<chars[n + 1]>> ELSE Append(g[n \div base], chars[(n % base) + 1])]

LEMMA DividingExists ==
    ASSUME NEW base \in Nat, base > 1, NEW chars, NEW m \in Nat
    PROVE  \E g : Dividing(g, m, base, chars)
<1> DEFINE N == {k \in Nat : \E g : Dividing(g, k, base, chars)}
<1>1. 0 \in N
    <2> DEFINE g == [n \in 0 .. 0 |-> <<chars[n + 1]>>]
               other == [n \in 0 .. 0 |->
                    IF n < base THEN <<chars[n + 1]>> ELSE Append(g[n \div base], chars[(n % base) + 1])]
    <2>1. \A n \in 0 .. 0 : n < base
        OBVIOUS
    <2>2. g = other
        BY <2>1, Zenon
    <2> HIDE DEF g
    <2>3. Dividing(g, 0, base, chars)
        BY <2>2, Zenon DEF Dividing
    <2>4. 0 \in Nat
        OBVIOUS
    <2>5. QED
        BY <2>3, <2>4, Zenon
<1>2. ASSUME NEW k \in Nat, k \in N
      PROVE  k + 1 \in N
    <2>1. PICK g : Dividing(g, k, base, chars)
        BY <1>2, Zenon
    <2> DEFINE m1 == k + 1
               last == IF m1 < base THEN <<chars[m1 + 1]>>
                       ELSE Append(g[m1 \div base], chars[(m1 % base) + 1])
               h == [n \in 0 .. m1 |-> IF n = m1 THEN last ELSE g[n]]
               other == [n \in 0 .. m1 |->
                    IF n < base THEN <<chars[n + 1]>> ELSE Append(h[n \div base], chars[(n % base) + 1])]
    <2>2. ASSUME NEW n \in 0 .. m1, ~(n < base)
          PROVE  n \div base \in 0 .. k /\ n \div base \in 0 .. m1 /\ n \div base # m1
        <3>1. n \in Nat
            OBVIOUS
        <3>2. n \div base \in 0 .. n - 1
            BY <2>2, <3>1, LessDivided
        <3>3. QED
            BY <3>1, <3>2
    <2>3. ASSUME NEW n \in 0 .. m1, ~(n < base)
          PROVE  h[n \div base] = g[n \div base]
        BY <2>2, <2>3, Zenon
    <2>4. ASSUME NEW n \in 0 .. m1, n # m1
          PROVE  g[n] = IF n < base THEN <<chars[n + 1]>>
                        ELSE Append(g[n \div base], chars[(n % base) + 1])
        <3>1. n \in 0 .. k
            BY <2>4
        <3>2. QED
            BY <2>1, <3>1, Zenon DEF Dividing
    <2>5. ASSUME NEW n \in 0 .. m1
          PROVE  h[n] = IF n < base THEN <<chars[n + 1]>>
                        ELSE Append(h[n \div base], chars[(n % base) + 1])
        <3>1. CASE n = m1
            BY <2>3, <3>1, Zenon
        <3>2. CASE n # m1
            BY <2>3, <2>4, <3>2, Zenon
        <3>3. QED
            BY <3>1, <3>2, Zenon
    <2>6. h = other
        BY <2>5, Zenon
    <2> HIDE DEF h
    <2>7. Dividing(h, m1, base, chars)
        BY <2>6, Zenon DEF Dividing
    <2>8. m1 \in Nat
        OBVIOUS
    <2>9. QED
        BY <2>7, <2>8, Zenon
<1> HIDE DEF N
<1>3. Nat \subseteq N
    BY <1>1, <1>2, StepInduction
<1>4. QED
    BY <1>3, Zenon DEF N

LEMMA DigitsAre ==
    ASSUME NEW num \in Nat, NEW base \in Nat, base > 1, NEW chars \in Characters, Len(chars) >= base
    PROVE  DigitsOf(num, base, chars) \in Characters
<1> DEFINE from == CHOOSE g : Dividing(g, num, base, chars)
<1>1. DigitsOf(num, base, chars) = from[num]
    BY Zenon DEF DigitsOf, Dividing
<1>2. Dividing(from, num, base, chars)
    <2>1. \E g : Dividing(g, num, base, chars)
        BY DividingExists
    <2>2. QED
        BY <2>1, Zenon
<1> HIDE DEF from
<1> DEFINE N == {n \in Nat : n <= num => from[n] \in Characters}
<1>3. ASSUME NEW n \in Nat, \A k \in 0 .. n - 1 : k \in N
      PROVE  n \in N
    <2>1. SUFFICES ASSUME n <= num
                   PROVE  from[n] \in Characters
        OBVIOUS
    <2>2. n \in 0 .. num
        BY <2>1
    <2>3. from[n] = IF n < base THEN <<chars[n + 1]>> ELSE Append(from[n \div base], chars[(n % base) + 1])
        BY <1>2, <2>2, Zenon DEF Dividing
    <2>4. CASE n < base
        <3>1. chars[n + 1] \in Char
            BY <2>4 DEF Characters
        <3>2. <<chars[n + 1]>> \in Characters
            BY <3>1 DEF Characters
        <3>3. QED
            BY <2>3, <2>4, <3>2, Zenon
    <2>5. CASE ~(n < base)
        <3> DEFINE q == n \div base
                   r == n % base
        <3>1. n = base * q + r /\ r \in 0 .. base - 1 /\ q \in Nat
            <4>1. base \in Nat \ {0}
                OBVIOUS
            <4>2. QED
                BY <4>1, DivMod
        <3>2. from[n] = Append(from[q], chars[r + 1])
            BY <2>3, <2>5, Zenon
        <3> HIDE DEF q, r
        <3>5. q \in 0 .. n - 1 /\ q <= num
            <4>1. q \in 0 .. n - 1
                BY <2>5, LessDivided DEF q
            <4>2. QED
                BY <2>1, <4>1
        <3>6. from[q] \in Characters
            BY <1>3, <3>5
        <3>7. chars[r + 1] \in Char
            BY <3>1 DEF Characters
        <3>8. QED
            BY <3>2, <3>6, <3>7 DEF Characters
    <2>6. QED
        BY <2>4, <2>5, Zenon
<1> HIDE DEF N
<1>4. Nat \subseteq N
    BY <1>3, StrongInduction
<1>5. num \in N /\ num <= num
    BY <1>4
<1>6. QED
    BY <1>1, <1>5, Zenon DEF N

-----------------------------------------------------------------------------
(* A field is a text that fits into the room there is. *)

\* The lengths of the texts the code writes out.
LEMMA Literals ==
    /\ <<>> \in Characters
    /\ <<"-">> \in Characters /\ <<"+">> \in Characters /\ <<" ">> \in Characters
    /\ <<"0">> \in Characters /\ <<"0", "x">> \in Characters /\ <<"0", "X">> \in Characters
    /\ <<"(", "n", "i", "l", ")">> \in Characters
<1> DEFINE minus == "-"
           plus == "+"
           blank == " "
           zero == "0"
           x == "x"
           X == "X"
           open == "("
           close == ")"
           n == "n"
           i == "i"
           l == "l"
<1>1. /\ minus \in Char /\ plus \in Char /\ blank \in Char /\ zero \in Char
      /\ x \in Char /\ X \in Char
      /\ open \in Char /\ n \in Char /\ i \in Char /\ l \in Char /\ close \in Char
    BY WrittenAre, Zenon DEF Written
<1> HIDE DEF minus, plus, blank, zero, x, X, open, close, n, i, l
<1>2. <<>> \in Seq(Char)
    OBVIOUS
<1>3. <<minus>> \in Seq(Char) /\ <<plus>> \in Seq(Char) /\ <<blank>> \in Seq(Char) /\ <<zero>> \in Seq(Char)
    BY <1>1
<1>4. <<zero, x>> \in Seq(Char) /\ <<zero, X>> \in Seq(Char)
    BY <1>1
<1>5. <<open, n, i, l, close>> \in Seq(Char)
    BY <1>1
<1>6. QED
    BY <1>2, <1>3, <1>4, <1>5, Zenon DEF Characters, minus, plus, blank, zero, x, X, open, close, n, i, l

IsConversionSpec(spec) ==
    spec.length \in Types /\ spec.min_width \in Int /\ spec.precision \in Int

IsNumber(n) == n.prefix \in Characters /\ n.digits \in Characters

NumberLetters == {"d", "i", "u", "o", "x", "X", "p"}

LEMMA DigitsOrNoneAre ==
    ASSUME NEW spec, NEW num \in Nat, NEW base \in Nat, base > 1,
           NEW chars \in Characters, Len(chars) >= base
    PROVE  DigitsOrNone(spec, num, base, chars) \in Characters
<1>1. DigitsOf(num, base, chars) \in Characters
    BY DigitsAre
<1>2. <<>> \in Characters
    BY Literals
<1>3. QED
    BY <1>1, <1>2, Zenon DEF DigitsOrNone

LEMMA SignedNumberIs ==
    ASSUME NEW spec, IsConversionSpec(spec), NEW arg, arg.num \in Int
    PROVE  IsNumber(SignedNumber(spec, arg))
<1> DEFINE num == Signed(arg.num, spec.length)
           size == IF num < 0 THEN -num ELSE num
           sign == CASE num < 0 -> <<"-">>
                     [] num >= 0 /\ "+" \in spec.flags -> <<"+">>
                     [] num >= 0 /\ "+" \notin spec.flags /\ " " \in spec.flags -> <<" ">>
                     [] OTHER -> <<>>
           digits == DigitsOrNone(spec, size, 10, DecimalDigits)
<1>1. num \in Int
    BY Converted DEF IsConversionSpec
<1>2. SignedNumber(spec, arg) = [prefix |-> sign, digits |-> digits]
    BY DEF SignedNumber
<1> HIDE DEF num
<1>3. size \in Nat
    BY <1>1
<1> HIDE DEF size
<1>4. digits \in Characters
    <2>1. 10 \in Nat /\ 10 > 1 /\ Len(DecimalDigits) >= 10
        BY Alphabets
    <2>2. DecimalDigits \in Characters
        BY Alphabets
    <2>3. QED
        BY <1>3, <2>1, <2>2, DigitsOrNoneAre
<1>5. sign \in Characters
    BY <1>1, Literals
<1> HIDE DEF sign, digits
<1>6. QED
    BY <1>2, <1>4, <1>5 DEF IsNumber

LEMMA UnsignedNumberIs ==
    ASSUME NEW spec, IsConversionSpec(spec), NEW arg, arg.num \in Int, NEW base \in Nat, base > 1,
           NEW chars \in Characters, Len(chars) >= base, NEW prefix \in Characters
    PROVE  IsNumber(UnsignedNumber(spec, arg, base, chars, prefix))
<1> DEFINE num == Unsigned(arg.num, spec.length)
           alternative == /\ "#" \in spec.flags
                          /\ num = 0 => spec.length = "longlong" /\ HasPrecision(spec)
           digits == DigitsOrNone(spec, num, base, chars)
<1>1. num \in Nat
    BY Converted DEF IsConversionSpec
<1>2. UnsignedNumber(spec, arg, base, chars, prefix)
            = [prefix |-> IF alternative THEN prefix ELSE <<>>, digits |-> digits]
    BY DEF UnsignedNumber
<1> HIDE DEF num, alternative
<1>3. digits \in Characters
    BY <1>1, DigitsOrNoneAre
<1> HIDE DEF digits
<1>4. <<>> \in Characters
    BY Literals
<1>5. QED
    BY <1>2, <1>3, <1>4 DEF IsNumber

LEMMA PointerIs ==
    ASSUME NEW num \in Nat
    PROVE  IsNumber(Pointer(num))
<1>1. 16 \in Nat /\ 16 > 1 /\ Len(LowerDigits) >= 16 /\ LowerDigits \in Characters
    BY Alphabets
<1>2. DigitsOf(num, 16, LowerDigits) \in Characters
    BY <1>1, DigitsAre
<1>3. QED
    BY <1>2, Literals DEF Pointer, IsNumber

LEMMA NumberIs ==
    ASSUME NEW spec, IsConversionSpec(spec), spec.letter \in NumberLetters, NEW arg, arg.num \in Int
    PROVE  IsNumber(Number(spec, arg))
<1>1. /\ 8 \in Nat /\ 8 > 1 /\ 10 \in Nat /\ 10 > 1 /\ 16 \in Nat /\ 16 > 1
      /\ Len(DecimalDigits) >= 10 /\ Len(DecimalDigits) >= 8
      /\ Len(LowerDigits) >= 16 /\ Len(UpperDigits) >= 16
    BY Alphabets
<1>2. DecimalDigits \in Characters /\ LowerDigits \in Characters /\ UpperDigits \in Characters
    BY Alphabets
<1>3. IsNumber(SignedNumber(spec, arg))
    BY SignedNumberIs
<1>4. /\ IsNumber(UnsignedNumber(spec, arg, 10, DecimalDigits, <<>>))
      /\ IsNumber(UnsignedNumber(spec, arg, 8, DecimalDigits, <<"0">>))
    BY <1>1, <1>2, Literals, UnsignedNumberIs
<1>5. /\ IsNumber(UnsignedNumber(spec, arg, 16, LowerDigits, <<"0", "x">>))
      /\ IsNumber(UnsignedNumber(spec, arg, 16, UpperDigits, <<"0", "X">>))
    BY <1>1, <1>2, Literals, UnsignedNumberIs
<1>6. IsNumber(Pointer(Unsigned(arg.num, "long")))
    <2>1. Unsigned(arg.num, "long") \in Nat
        BY Converted DEF Types
    <2>2. QED
        BY <2>1, PointerIs
<1>7. QED
    BY <1>3, <1>4, <1>5, <1>6 DEF Number, NumberLetters

LEMMA WidthsAre ==
    ASSUME NEW spec, IsConversionSpec(spec), NEW n, IsNumber(n), NEW room \in Nat
    PROVE  /\ precision_count(spec, n) \in Nat /\ total_width(spec, n) \in Nat
           /\ Zeros(spec, n, room) \in Characters
           /\ \A char \in Char : Padding(char, spec, n, room) \in Characters
<1>1. Len(n.digits) \in Nat /\ Len(n.prefix) \in Nat
    BY DEF IsNumber, Characters
<1>2. precision_count(spec, n) \in Nat
    <2>1. 0 - Len(n.digits) \in Int
        BY <1>1
    <2>2. Size(0 - Len(n.digits)) \in Nat
        BY <2>1, Sized
    <2>3. 0 \in Nat
        OBVIOUS
    <2>4. QED
        BY <2>2, <2>3, Zenon DEF precision_count
<1>3. total_width(spec, n) \in Nat
    <2>1. Len(n.digits) + precision_count(spec, n) + Len(n.prefix) \in Int
        BY <1>1, <1>2
    <2>2. QED
        BY <2>1, Sized, Zenon DEF total_width
<1>4. " " \in Char /\ "0" \in Char
    BY WrittenAre DEF Written
<1>5. Zeros(spec, n, room) \in Characters
    <2>1. Min({precision_count(spec, n), room}) \in Nat
        BY <1>2, MinIs
    <2>2. QED
        BY <1>4, <2>1, RepeatIs DEF Zeros
<1>6. ASSUME NEW char \in Char
      PROVE  Padding(char, spec, n, room) \in Characters
    <2> DEFINE w == spec.min_width - total_width(spec, n)
    <2>1. w \in Int
        <3>1. spec.min_width \in Int
            BY DEF IsConversionSpec
        <3>2. QED
            BY <1>3, <3>1
    <2>2. Padding(char, spec, n, room) = Repeat(char, Min({Max({0, w}), room}))
        BY DEF Padding
    <2> HIDE DEF w
    <2>3. Max({0, w}) \in Nat
        <3>1. Max({0, w}) = IF w <= 0 THEN 0 ELSE w
            BY <2>1, MaxOfZero
        <3>2. (IF w <= 0 THEN 0 ELSE w) \in Nat
            BY <2>1
        <3>3. QED
            BY <3>1, <3>2, Zenon
    <2>4. Min({Max({0, w}), room}) \in Nat
        BY <2>3, MinIs
    <2>5. QED
        BY <2>2, <2>4, RepeatIs
<1>7. QED
    BY <1>2, <1>3, <1>5, <1>6

LEMMA NumberFieldIs ==
    ASSUME NEW spec, IsConversionSpec(spec), NEW n, IsNumber(n), NEW room \in Nat
    PROVE  NumberField(spec, n, room) \in Texts(room)
<1> DEFINE number == n.prefix \o Zeros(spec, n, room) \o n.digits
           behind == Padding(" ", spec, n, room)
           char == IF HasPrecision(spec) \/ ~ZeroPadded(spec, n) THEN " " ELSE "0"
           before == Padding(char, spec, n, room)
<1>1. n.prefix \in Characters /\ Zeros(spec, n, room) \in Characters /\ n.digits \in Characters
    BY WidthsAre DEF IsNumber
<1>2. number \in Characters
    <2>1. n.prefix \o Zeros(spec, n, room) \in Characters
        BY <1>1, Joined
    <2>2. QED
        BY <1>1, <2>1, Joined
<1>3. char \in Char /\ " " \in Char
    BY WrittenAre, Zenon DEF Written
<1>4. NumberField(spec, n, room) =
        IF spec.min_width <= total_width(spec, n) \/ "-" \in spec.flags
        THEN Fits(number \o behind, room) ELSE Fits(before \o number, room)
    BY Zenon DEF NumberField
<1>5. behind \in Characters /\ before \in Characters
    <2> DEFINE blank == " "
    <2> HIDE DEF char, blank
    <2>1. blank \in Char
        BY <1>3 DEF blank
    <2>2. Padding(blank, spec, n, room) \in Characters /\ before \in Characters
        BY <1>3, <2>1, WidthsAre
    <2>3. QED
        BY <2>2, Zenon DEF blank
<1> HIDE DEF number, behind, before, char
<1>6. number \o behind \in Characters /\ before \o number \in Characters
    BY <1>2, <1>5, Joined
<1>7. Fits(number \o behind, room) \in Texts(room) /\ Fits(before \o number, room) \in Texts(room)
    BY <1>6, FitsIs
<1>8. QED
    BY <1>4, <1>7, Zenon

LEMMA TextFieldIs ==
    ASSUME NEW spec, IsConversionSpec(spec), NEW text \in Characters, NEW room \in Nat
    PROVE  TextField(spec, text, room) \in Texts(room)
<1> DEFINE wide == spec.min_width - Len(text)
           w == Repeat(" ", Min({Max({0, wide}), room}))
<1>1. wide \in Int
    BY DEF IsConversionSpec, Characters
<1>2. TextField(spec, text, room) =
        Fits(IF "-" \in spec.flags THEN text \o w ELSE w \o text, room)
    BY DEF TextField
<1> HIDE DEF wide
<1>3. w \in Characters
    <2>1. Max({0, wide}) \in Nat
        BY <1>1, MaxOfZero
    <2>2. Min({Max({0, wide}), room}) \in Nat
        BY <2>1, MinIs
    <2>3. " " \in Char
        BY WrittenAre DEF Written
    <2>4. QED
        BY <2>2, <2>3, RepeatIs
<1> HIDE DEF w
<1>4. text \o w \in Characters /\ w \o text \in Characters
    BY <1>3, Joined
<1>5. QED
    BY <1>2, <1>4, FitsIs

LEMMA FieldIs ==
    ASSUME NEW spec, IsConversionSpec(spec), NEW args \in Arguments, NEW room \in Nat,
           TakesArgument(spec) => args # <<>>
    PROVE  Field(spec, args, room) \in Texts(room)
<1>1. CASE spec.letter \in NumberLetters
    <2>1. args # <<>>
        BY <1>1, Zenon DEF TakesArgument, NumberLetters
    <2>2. Head(args) \in Argument
        BY <2>1 DEF Arguments
    <2>3. Head(args).num \in Int
        BY <2>2 DEF Argument
    <2>4. IsNumber(Number(spec, Head(args)))
        BY <1>1, <2>3, NumberIs
    <2>5. NumberField(spec, Number(spec, Head(args)), room) \in Texts(room)
        BY <2>4, NumberFieldIs
    <2>6. QED
        BY <1>1, <2>5 DEF Field, NumberLetters
<1>2. CASE spec.letter \in {"c", "s"}
    <2>1. args # <<>>
        BY <1>2, Zenon DEF TakesArgument
    <2>2. Head(args) \in Argument
        BY <2>1 DEF Arguments
    <2>3. Head(args).str \in Characters
        BY <2>2 DEF Argument
    <2>4. TextField(spec, Head(args).str, room) \in Texts(room)
        BY <2>3, TextFieldIs
    <2>5. QED
        BY <1>2, <2>4 DEF Field
<1>3. CASE spec.letter \notin NumberLetters /\ spec.letter \notin {"c", "s"}
    <2>1. Field(spec, args, room) = <<>>
        BY <1>3 DEF Field, NumberLetters
    <2>2. <<>> \in Characters
        BY Literals
    <2>3. Len(<<>>) <= room
        OBVIOUS
    <2>4. QED
        BY <2>1, <2>2, <2>3 DEF Texts
<1>4. QED
    BY <1>1, <1>2, <1>3, Zenon

-----------------------------------------------------------------------------
(* A conversion that the compiler has checked is parsed to its end. *)

LEMMA EndOfRunIs ==
    ASSUME NEW format, NEW place \in Nat, NEW end \in place .. Len(format), Len(format) \in Nat,
           NEW chars, format[end] \notin chars
    PROVE  /\ EndOfRun(format, place, chars) \in place .. end
           /\ format[EndOfRun(format, place, chars)] \notin chars
           /\ \A i \in place .. EndOfRun(format, place, chars) - 1 : format[i] \in chars
<1> DEFINE K == {k \in place .. Len(format) : format[k] \notin chars}
<1>1. K \in SUBSET Nat /\ end \in K
    OBVIOUS
<1>2. Min(K) \in K /\ \A k \in K : Min(K) <= k
    <2> HIDE DEF K
    <2>1. K \in SUBSET Nat /\ K # {}
        BY <1>1
    <2>2. QED
        BY <2>1, MinIsLeast
<1>3. EndOfRun(format, place, chars) = Min(K)
    BY DEF EndOfRun
<1> DEFINE e == Min(K)
<1>4. e \in place .. Len(format) /\ format[e] \notin chars /\ e <= end
    BY <1>1, <1>2
<1>5. ASSUME NEW i \in place .. e - 1
      PROVE  format[i] \in chars
    <2> HIDE DEF e
    <2>1. i \in place .. Len(format) /\ ~(e <= i)
        BY <1>4
    <2>2. i \notin K
        BY <1>2, <2>1, Zenon DEF e
    <2>3. QED
        BY <2>1, <2>2
<1>6. QED
    BY <1>3, <1>4, <1>5

\* The number that digits stand for.
NumeralStep(x, y, v, char) == Size(10 * v + DigitValue(char))
Reading == INSTANCE FoldTheorems WITH Op <- NumeralStep

LEMMA DigitValueIs ==
    ASSUME NEW char \in ToSet(DecimalDigits)
    PROVE  DigitValue(char) \in Int
<1>1. DOMAIN DecimalDigits = 1 .. 10
    BY DEF DecimalDigits
<1>2. \E k \in DOMAIN DecimalDigits : DecimalDigits[k] = char
    BY Zenon DEF ToSet
<1>3. (CHOOSE k \in DOMAIN DecimalDigits : DecimalDigits[k] = char) \in DOMAIN DecimalDigits
    BY <1>2, Zenon
<1> DEFINE k == CHOOSE j \in DOMAIN DecimalDigits : DecimalDigits[j] = char
<1>4. DigitValue(char) = k - 1
    BY Zenon DEF DigitValue
<1>5. k \in 1 .. 10
    BY <1>1, <1>3
<1> HIDE DEF k
<1>6. QED
    BY <1>4, <1>5

LEMMA ReadingIs ==
    ASSUME NEW s \in Characters, \A i \in 1 .. Len(s) : s[i] \in ToSet(DecimalDigits)
    PROVE  FoldLeft(LAMBDA v, char : Size(10 * v + DigitValue(char)), 0, s) \in Int
<1>1. FoldLeft(LAMBDA v, char : Size(10 * v + DigitValue(char)), 0, s) = Reading!Loop(0, 0, 0, s)
    BY Zenon DEF Reading!Loop, NumeralStep, FoldLeft, Reading!FoldLeft,
          MapThenFoldSet, Reading!MapThenFoldSet, Max, Reading!Max
<1>2. Reading!IsSequence(s, Len(s)) /\ Len(s) \in Nat
    BY DEF Reading!IsSequence, Characters
<1>3. ASSUME NEW v \in Int, NEW k \in 1 .. Len(s)
      PROVE  NumeralStep(0, 0, v, s[k]) \in Int
    <2>1. DigitValue(s[k]) \in Int
        BY DigitValueIs
    <2>2. 10 * v + DigitValue(s[k]) \in Int
        BY <2>1
    <2>3. Size(10 * v + DigitValue(s[k])) \in Nat
        BY <2>2, Sized
    <2>4. QED
        BY <2>3 DEF NumeralStep
<1>4. \A v \in Int, k \in 1 .. Len(s) : NumeralStep(0, 0, v, s[k]) \in Int
    BY <1>3
<1>5. 0 \in Int
    OBVIOUS
<1>6. Reading!Loop(0, 0, 0, s) \in Int
    BY <1>2, <1>4, <1>5, Reading!LoopStays
<1>7. QED
    BY <1>1, <1>6, Zenon

LEMMA NumeralIs ==
    ASSUME NEW format \in Characters, NEW place \in Nat \ {0}, NEW end \in place .. Len(format),
           NEW args \in Arguments,
           format[end] \notin ToSet(DecimalDigits), format[end] # "*",
           format[place] = "*" => args # <<>>
    PROVE  /\ Numeral(format, place, args).value \in Int
           /\ Numeral(format, place, args).at \in place .. end
           /\ Numeral(format, place, args).args \in Arguments
<1> DEFINE star == "*"
           e == EndOfRun(format, place, ToSet(DecimalDigits))
           digits == SubSeq(format, place, e - 1)
           value == FoldLeft(LAMBDA v, char : Size(10 * v + DigitValue(char)), 0, digits)
<1>1. Numeral(format, place, args) =
        IF format[place] = star
        THEN [value |-> Head(args).num, at |-> place + 1, args |-> Tail(args)]
        ELSE [value |-> value, at |-> e, args |-> args]
    BY Zenon DEF Numeral
<1>2. format[end] # star /\ (format[place] = star => args # <<>>)
    OBVIOUS
<1> HIDE DEF star
<1>3. Len(format) \in Nat /\ place \in Nat
    BY DEF Characters
<1>4. e \in place .. end /\ \A i \in place .. e - 1 : format[i] \in ToSet(DecimalDigits)
    BY <1>3, EndOfRunIs
<1> HIDE DEF e
<1>5. digits \in Characters /\ \A i \in 1 .. Len(digits) : digits[i] \in ToSet(DecimalDigits)
    <2>1. place \in 1 .. Len(format) + 1 /\ e - 1 \in place - 1 .. Len(format)
        BY <1>3, <1>4
    <2>2. /\ digits \in Seq(Char) /\ Len(digits) = (e - 1) - place + 1
          /\ \A i \in 1 .. (e - 1) - place + 1 : digits[i] = format[place + i - 1]
        BY <2>1, SMTT(30) DEF Characters
    <2> HIDE DEF digits
    <2>3. \A i \in 1 .. Len(digits) : place + i - 1 \in place .. e - 1 /\ digits[i] = format[place + i - 1]
        BY <1>3, <1>4, <2>2
    <2>4. \A i \in 1 .. Len(digits) : digits[i] \in ToSet(DecimalDigits)
        BY <1>4, <2>3, Zenon
    <2>5. QED
        BY <2>2, <2>4 DEF Characters
<1> HIDE DEF digits
<1>6. value \in Int
    BY <1>5, ReadingIs
<1> HIDE DEF value
<1>7. CASE format[place] = star
    <2>1. args # <<>> /\ place # end
        BY <1>2, <1>7
    <2>2. Head(args) \in Argument /\ Tail(args) \in Arguments
        BY <2>1 DEF Arguments
    <2>3. Head(args).num \in Int
        BY <2>2 DEF Argument
    <2>4. place + 1 \in place .. end
        BY <2>1
    <2>5. Numeral(format, place, args) = [value |-> Head(args).num, at |-> place + 1, args |-> Tail(args)]
        BY <1>1, <1>7
    <2>6. QED
        BY <2>2, <2>3, <2>4, <2>5
<1>8. CASE format[place] # star
    <2>1. Numeral(format, place, args) = [value |-> value, at |-> e, args |-> args]
        BY <1>1, <1>8
    <2>2. QED
        BY <1>4, <1>6, <2>1
<1>9. QED
    BY <1>7, <1>8

\* Where a conversion ends: with a letter that nothing else in it may be.
Inner == Flags \cup ToSet(DecimalDigits) \cup {"*", ".", "h", "l"}

LEMMA PrecisionIs ==
    ASSUME NEW format \in Characters, NEW place \in Nat \ {0}, NEW end \in place .. Len(format),
           NEW args \in Arguments, format[end] \notin Inner,
           (format[place] = "." /\ format[place + 1] = "*") => args # <<>>
    PROVE  /\ Precision(format, place, args).value \in Int
           /\ Precision(format, place, args).at \in place .. end
           /\ Precision(format, place, args).args \in Arguments
<1> DEFINE point == "."
<1>1. format[end] \notin ToSet(DecimalDigits) /\ format[end] # "*" /\ format[end] # point
    BY Zenon DEF Inner
<1>2. Precision(format, place, args) =
        IF format[place] = point THEN Numeral(format, place + 1, args)
        ELSE [value |-> NoPrecision, at |-> place, args |-> args]
    BY Zenon DEF Precision
<1>3. format[place] = point /\ format[place + 1] = "*" => args # <<>>
    OBVIOUS
<1> HIDE DEF point
<1>4. CASE format[place] = point
    <2>1. place # end
        BY <1>1, <1>4, Zenon
    <2>2. place + 1 \in Nat \ {0} /\ end \in place + 1 .. Len(format)
        BY <2>1
    <2>3. format[place + 1] = "*" => args # <<>>
        BY <1>3, <1>4, Zenon
    <2>4. /\ Numeral(format, place + 1, args).value \in Int
          /\ Numeral(format, place + 1, args).at \in place + 1 .. end
          /\ Numeral(format, place + 1, args).args \in Arguments
        BY <1>1, <2>2, <2>3, NumeralIs
    <2>5. Precision(format, place, args) = Numeral(format, place + 1, args)
        BY <1>2, <1>4
    <2>6. QED
        BY <2>4, <2>5
<1>5. CASE format[place] # point
    <2>1. Precision(format, place, args) = [value |-> NoPrecision, at |-> place, args |-> args]
        BY <1>2, <1>5
    <2>2. NoPrecision \in Int
        BY DEF NoPrecision
    <2>3. QED
        BY <2>1, <2>2
<1>6. QED
    BY <1>4, <1>5

LEMMA LengthEndIs ==
    ASSUME NEW format \in Characters, NEW place \in Nat \ {0}, NEW end \in place .. Len(format),
           format[end] \notin Inner
    PROVE  LengthEnd(format, place) \in place .. end
<1>1. format[end] \notin {"h", "l"}
    BY Zenon DEF Inner
<1>2. CASE format[place] \notin {"h", "l"}
    BY <1>2 DEF LengthEnd
<1>3. CASE format[place] \in {"h", "l"} /\ format[place + 1] = format[place]
    <2>1. place # end /\ place + 1 # end
        BY <1>1, <1>3, Zenon
    <2>2. LengthEnd(format, place) = place + 2
        BY <1>3 DEF LengthEnd
    <2>3. QED
        BY <2>1, <2>2
<1>4. CASE format[place] \in {"h", "l"} /\ format[place + 1] # format[place]
    <2>1. place # end
        BY <1>1, <1>4, Zenon
    <2>2. LengthEnd(format, place) = place + 1
        BY <1>4 DEF LengthEnd
    <2>3. QED
        BY <2>1, <2>2
<1>5. QED
    BY <1>2, <1>3, <1>4

LEMMA LengthOfIs ==
    ASSUME NEW modifier
    PROVE  LengthOf(modifier) \in Types
BY Zenon DEF LengthOf, Types

LEMMA ParseIs ==
    ASSUME NEW format \in Characters, NEW place \in Nat \ {0}, NEW args \in Arguments,
           Checked(format, place, args)
    PROVE  /\ IsConversionSpec(Parse(format, place, args))
           /\ Parse(format, place, args).at \in Nat \ {0}
           /\ Parse(format, place, args).args \in Arguments
           /\ TakesArgument(Parse(format, place, args)) => Parse(format, place, args).args # <<>>
<1> DEFINE f == EndOfRun(format, place, Flags)
           width == Numeral(format, f, args)
           precision == Precision(format, width.at, width.args)
           letter == LengthEnd(format, precision.at)
           spec == Parse(format, place, args)
           length == LengthOf(SubSeq(format, precision.at, letter - 1))
           flags == ToSet(SubSeq(format, place, f - 1)) \cup IF width.value < 0 THEN {"-"} ELSE {}
<1>1. /\ \E k \in place .. Len(format) : format[k] \notin Inner
      /\ format[f] = "*" => args # <<>>
      /\ (format[width.at] = "." /\ format[width.at + 1] = "*") => width.args # <<>>
      /\ TakesArgument(spec) => spec.args # <<>>
    BY Zenon DEF Checked, Inner
<1>2. spec = [letter |-> format[letter], length |-> length, flags |-> flags,
              min_width |-> IF width.value < 0 THEN -width.value ELSE width.value,
              precision |-> IF precision.at = width.at THEN NoPrecision ELSE Size(precision.value),
              at |-> letter + 1, args |-> precision.args]
    BY Zenon DEF Parse
<1> HIDE DEF f, width, precision, letter, spec, length, flags
<1>3. PICK end \in place .. Len(format) : format[end] \notin Inner
    BY <1>1, Zenon
<1>4. Len(format) \in Nat /\ place \in Nat
    BY DEF Characters
<1>5. format[end] \notin Flags /\ format[end] \notin ToSet(DecimalDigits) /\ format[end] # "*"
    BY <1>3, Zenon DEF Inner
<1>6. f \in place .. end
    BY <1>4, <1>5, EndOfRunIs DEF f
<1>7. f \in Nat \ {0} /\ end \in f .. Len(format)
    BY <1>6
<1>8. width.value \in Int /\ width.at \in f .. end /\ width.args \in Arguments
    BY <1>1, <1>5, <1>7, NumeralIs DEF width
<1>9. width.at \in Nat \ {0} /\ end \in width.at .. Len(format)
    BY <1>7, <1>8
<1>10. precision.value \in Int /\ precision.at \in width.at .. end /\ precision.args \in Arguments
    BY <1>1, <1>3, <1>8, <1>9, PrecisionIs DEF precision
<1>11. precision.at \in Nat \ {0} /\ end \in precision.at .. Len(format)
    BY <1>9, <1>10
<1>12. letter \in precision.at .. end
    BY <1>3, <1>11, LengthEndIs DEF letter
<1>13. IsConversionSpec(spec)
    <2>1. length \in Types
        BY LengthOfIs DEF length
    <2>2. Size(precision.value) \in Int /\ NoPrecision \in Int
        <3>1. Size(precision.value) \in Nat
            BY <1>10, Sized
        <3>2. QED
            BY <3>1 DEF NoPrecision
    <2>3. spec.length = length
        BY <1>2
    <2>4. spec.min_width = IF width.value < 0 THEN -width.value ELSE width.value
        BY <1>2
    <2>5. spec.precision = IF precision.at = width.at THEN NoPrecision ELSE Size(precision.value)
        BY <1>2
    <2>6. spec.min_width \in Int
        BY <1>8, <2>4
    <2>7. spec.precision \in Int
        BY <2>2, <2>5
    <2>8. QED
        BY <2>1, <2>3, <2>6, <2>7 DEF IsConversionSpec
<1>14. spec.at \in Nat \ {0} /\ spec.args \in Arguments
    BY <1>2, <1>10, <1>11, <1>12
<1>15. QED
    BY <1>1, <1>13, <1>14 DEF spec

-----------------------------------------------------------------------------
(* The loop of vbprintf and what the compiler has checked of the format    *)
(* and the arguments go through the conversions side by side.              *)

State == [at : Nat \ {0}, args : Arguments, text : Characters]
CheckState == [at : Nat \ {0}, args : Arguments, ok : BOOLEAN]

IterateStep(format, max, state, k) == Iterate(state, format, max)
Printing == INSTANCE FoldTheorems WITH Op <- IterateStep

CheckStep(format, y, state, k) == Check(state, format)
Checking == INSTANCE FoldTheorems WITH Op <- CheckStep

\* How far a character that is copied takes both of them.
Width(format, place) == IF format[place] = "%" THEN 2 ELSE 1

Ends(format, place) == place = Len(format) /\ format[place] = "%"

LEMMA CheckIs ==
    ASSUME NEW format \in Characters, NEW state \in CheckState
    PROVE  LET spec == Parse(format, state.at + 1, state.args) IN
           Check(state, format) =
                IF ~state.ok \/ state.at > Len(format) THEN state
                ELSE IF Ends(format, state.at) THEN [state EXCEPT !.ok = FALSE]
                ELSE IF IsConversion(format, state.at)
                THEN IF Checked(format, state.at + 1, state.args)
                     THEN [at |-> spec.at, args |-> ArgumentsAfter(spec), ok |-> TRUE]
                     ELSE [state EXCEPT !.ok = FALSE]
                ELSE [state EXCEPT !.at = state.at + Width(format, state.at)]
<1> DEFINE place == state.at
           ok == state.ok
           over == place > Len(format)
           ends == Ends(format, place)
           converts == IsConversion(format, place)
           checked == Checked(format, place + 1, state.args)
           fails == [state EXCEPT !.ok = FALSE]
           spec == Parse(format, place + 1, state.args)
           after == [at |-> spec.at, args |-> ArgumentsAfter(spec), ok |-> TRUE]
           copied == [state EXCEPT !.at = state.at + Width(format, state.at)]
           within == place <= Len(format)
<1>1. Check(state, format) =
        CASE ~ok \/ over -> state
          [] ok /\ within /\ ends -> fails
          [] ok /\ within /\ ~ends /\ converts -> IF checked THEN after ELSE fails
          [] OTHER -> copied
    BY Zenon DEF Check, Ends, Width
<1>2. over <=> ~within
    BY DEF CheckState, Characters
<1> HIDE DEF place, ok, over, ends, converts, checked, fails, spec, after, copied, within
<1>3. Check(state, format) =
        IF ~ok \/ over THEN state
        ELSE IF ends THEN fails
        ELSE IF converts THEN IF checked THEN after ELSE fails ELSE copied
    <2>1. CASE ~ok \/ over
        BY <1>1, <1>2, <2>1, Zenon
    <2>2. CASE ok /\ ~over /\ ends
        BY <1>1, <1>2, <2>2, Zenon
    <2>3. CASE ok /\ ~over /\ ~ends /\ converts
        BY <1>1, <1>2, <2>3, Zenon
    <2>4. CASE ok /\ ~over /\ ~ends /\ ~converts
        BY <1>1, <1>2, <2>4, Zenon
    <2>5. QED
        BY <2>1, <2>2, <2>3, <2>4, Zenon
<1>4. QED
    BY <1>3, Zenon DEF place, ok, over, ends, converts, checked, fails, spec, after, copied

LEMMA IterateIs ==
    ASSUME NEW format \in Characters, NEW max \in Nat, NEW state \in State, Len(state.text) <= max
    PROVE  Iterate(state, format, max) =
                IF state.at > Len(format) \/ Len(state.text) = max THEN state
                ELSE IF IsConversion(format, state.at)
                THEN Convert(state, Parse(format, state.at + 1, state.args), max)
                ELSE [at |-> state.at + Width(format, state.at), args |-> state.args,
                      text |-> Append(state.text, format[state.at])]
<1> DEFINE place == state.at
           over == place > Len(format)
           within == place <= Len(format)
           full == Len(state.text) = max
           open == Len(state.text) < max
           converts == IsConversion(format, place)
           converted == Convert(state, Parse(format, state.at + 1, state.args), max)
           copied == Copied(state, format)
<1>1. Iterate(state, format, max) =
        CASE over \/ full -> state
          [] within /\ open /\ converts -> converted
          [] OTHER -> copied
    BY Zenon DEF Iterate
<1>2. (over <=> ~within) /\ (full <=> ~open)
    BY DEF State, Characters
<1>3. copied = [at |-> state.at + Width(format, state.at), args |-> state.args,
                text |-> Append(state.text, format[state.at])]
    <2>1. copied = [state EXCEPT !.text = Append(state.text, format[state.at]),
                                 !.at = state.at + Width(format, state.at)]
        BY Zenon DEF Copied, Width
    <2> HIDE DEF copied
    <2>2. QED
        BY <2>1 DEF State
<1> HIDE DEF place, over, within, full, open, converts, converted, copied
<1>4. Iterate(state, format, max) =
        IF over \/ full THEN state ELSE IF converts THEN converted ELSE copied
    <2>1. CASE over \/ full
        BY <1>1, <1>2, <2>1, Zenon
    <2>2. CASE ~over /\ ~full /\ converts
        BY <1>1, <1>2, <2>2, Zenon
    <2>3. CASE ~over /\ ~full /\ ~converts
        BY <1>1, <1>2, <2>3, Zenon
    <2>4. QED
        BY <2>1, <2>2, <2>3, Zenon
<1>5. QED
    BY <1>3, <1>4, Zenon DEF place, over, full, converts, converted

\* What is left of the format and the arguments after a conversion.
LEMMA AfterConversion ==
    ASSUME NEW format \in Characters, NEW place \in Nat \ {0}, NEW args \in Arguments,
           Checked(format, place + 1, args)
    PROVE  /\ IsConversionSpec(Parse(format, place + 1, args))
           /\ Parse(format, place + 1, args).at \in Nat \ {0}
           /\ Parse(format, place + 1, args).args \in Arguments
           /\ TakesArgument(Parse(format, place + 1, args)) => Parse(format, place + 1, args).args # <<>>
           /\ ArgumentsAfter(Parse(format, place + 1, args)) \in Arguments
<1> DEFINE spec == Parse(format, place + 1, args)
<1>1. place + 1 \in Nat \ {0}
    OBVIOUS
<1>2. /\ IsConversionSpec(spec) /\ spec.at \in Nat \ {0} /\ spec.args \in Arguments
      /\ TakesArgument(spec) => spec.args # <<>>
    BY <1>1, ParseIs
<1> HIDE DEF spec
<1>3. ArgumentsAfter(spec) \in Arguments
    <2>1. CASE TakesArgument(spec)
        <3>1. Tail(spec.args) \in Arguments
            BY <1>2, <2>1 DEF Arguments
        <3>2. QED
            BY <2>1, <3>1 DEF ArgumentsAfter
    <2>2. CASE ~TakesArgument(spec)
        BY <1>2, <2>2 DEF ArgumentsAfter
    <2>3. QED
        BY <2>1, <2>2
<1>4. QED
    BY <1>2, <1>3 DEF spec

Lockstep(state, check, max) ==
    /\ state \in State /\ check \in CheckState
    /\ Len(state.text) <= max
    /\ Len(state.text) # max => state.at = check.at /\ state.args = check.args

LEMMA LockstepKept ==
    ASSUME NEW format \in Characters, NEW max \in Nat, NEW state, NEW check, Lockstep(state, check, max),
           check.ok, Check(check, format).ok
    PROVE  Lockstep(Iterate(state, format, max), Check(check, format), max)
<1> DEFINE next == Iterate(state, format, max)
           checked == Check(check, format)
           spec == Parse(format, check.at + 1, check.args)
           width == Width(format, check.at)
<1>1. /\ state \in State /\ check \in CheckState /\ Len(state.text) <= max
      /\ Len(format) \in Nat /\ Len(state.text) \in Nat
      /\ check.at \in Nat \ {0} /\ check.args \in Arguments
      /\ state.text \in Characters
    BY DEF Lockstep, State, CheckState, Characters
<1>2. width \in Nat
    BY Zenon, 1 \in Nat, 2 \in Nat DEF Width
<1> HIDE DEF width
<1>3. CASE check.at > Len(format)
    <2>1. checked = check
        BY <1>1, <1>3, CheckIs, Zenon
    <2>2. next = state
        <3>1. CASE Len(state.text) = max
            BY <1>1, <3>1, IterateIs, Zenon
        <3>2. CASE Len(state.text) # max
            <4>1. state.at = check.at
                BY <3>2, Zenon DEF Lockstep
            <4>2. QED
                BY <1>1, <1>3, <4>1, IterateIs, Zenon
        <3>3. QED
            BY <3>1, <3>2, Zenon
    <2>3. QED
        BY <2>1, <2>2, Zenon
<1>4. CASE ~(check.at > Len(format))
    <2>1. ~[check EXCEPT !.ok = FALSE].ok
        BY <1>1 DEF CheckState
    <2>2. ~Ends(format, check.at)
        BY <1>1, <1>4, <2>1, CheckIs, Zenon
    <2>3. CASE IsConversion(format, check.at)
        <3>1. /\ Checked(format, check.at + 1, check.args)
              /\ checked = [at |-> spec.at, args |-> ArgumentsAfter(spec), ok |-> TRUE]
            BY <1>1, <1>4, <2>1, <2>2, <2>3, CheckIs, Zenon
        <3>2. /\ IsConversionSpec(spec) /\ spec.at \in Nat \ {0} /\ spec.args \in Arguments
              /\ TakesArgument(spec) => spec.args # <<>>
              /\ ArgumentsAfter(spec) \in Arguments
            BY <1>1, <3>1, AfterConversion
        <3>3. checked \in CheckState /\ checked.at = spec.at /\ checked.args = ArgumentsAfter(spec)
            BY <3>1, <3>2 DEF CheckState
        <3>4. CASE Len(state.text) = max
            <4>1. next = state
                BY <1>1, <3>4, IterateIs, Zenon
            <4>2. QED
                BY <1>1, <3>3, <3>4, <4>1, Zenon DEF Lockstep
        <3>5. CASE Len(state.text) # max
            <4> DEFINE field == Field(spec, spec.args, max - Len(state.text))
            <4>1. state.at = check.at /\ state.args = check.args
                BY <3>5, Zenon DEF Lockstep
            <4>2. next = Convert(state, spec, max)
                <5>1. ~(state.at > Len(format) \/ Len(state.text) = max)
                    BY <1>4, <3>5, <4>1, Zenon
                <5>2. IsConversion(format, state.at)
                    BY <2>3, <4>1, Zenon
                <5>3. next = Convert(state, Parse(format, state.at + 1, state.args), max)
                    BY <1>1, <5>1, <5>2, IterateIs, Zenon
                <5>4. QED
                    BY <4>1, <5>3, Zenon
            <4>3. next = [at |-> spec.at, args |-> ArgumentsAfter(spec), text |-> state.text \o field]
                BY <4>2, Zenon DEF Convert
            <4>4. max - Len(state.text) \in Nat
                BY <1>1
            <4>5. field \in Texts(max - Len(state.text))
                BY <3>2, <4>4, FieldIs
            <4> HIDE DEF field
            <4>6. field \in Characters /\ Len(field) <= max - Len(state.text) /\ Len(field) \in Nat
                BY <4>5 DEF Texts, Characters
            <4>7. state.text \o field \in Characters /\ Len(state.text \o field) = Len(state.text) + Len(field)
                BY <1>1, <4>6, Joined
            <4>8. Len(state.text \o field) <= max
                BY <1>1, <4>6, <4>7
            <4> HIDE DEF next, checked, spec
            <4>9. /\ next \in State /\ next.at = checked.at /\ next.args = checked.args
                  /\ Len(next.text) <= max
                BY <3>2, <3>3, <4>3, <4>7, <4>8 DEF State
            <4>10. QED
                BY <3>3, <4>9, Zenon DEF Lockstep, next, checked
        <3>6. QED
            BY <3>4, <3>5, Zenon
    <2>4. CASE ~IsConversion(format, check.at)
        <3>1. checked = [check EXCEPT !.at = check.at + width]
            BY <1>1, <1>4, <2>2, <2>4, CheckIs, Zenon DEF width
        <3>2. check.at + width \in Nat \ {0}
            BY <1>1, <1>2
        <3>3. checked \in CheckState /\ checked.at = check.at + width /\ checked.args = check.args
            BY <1>1, <3>1, <3>2 DEF CheckState
        <3>4. CASE Len(state.text) = max
            <4>1. next = state
                BY <1>1, <3>4, IterateIs, Zenon
            <4>2. QED
                BY <1>1, <3>3, <3>4, <4>1, Zenon DEF Lockstep
        <3>5. CASE Len(state.text) # max
            <4>1. state.at = check.at /\ state.args = check.args
                BY <3>5, Zenon DEF Lockstep
            <4>2. next = [at |-> check.at + width, args |-> check.args,
                          text |-> Append(state.text, format[check.at])]
                <5>1. ~(state.at > Len(format) \/ Len(state.text) = max)
                    BY <1>4, <3>5, <4>1, Zenon
                <5>2. ~IsConversion(format, state.at)
                    BY <2>4, <4>1, Zenon
                <5>3. next = [at |-> state.at + Width(format, state.at), args |-> state.args,
                              text |-> Append(state.text, format[state.at])]
                    BY <1>1, <5>1, <5>2, IterateIs, Zenon
                <5>4. QED
                    BY <4>1, <5>3, Zenon DEF width
            <4>3. format[check.at] \in Char
                BY <1>1, <1>4 DEF Characters
            <4>4. /\ Append(state.text, format[check.at]) \in Characters
                  /\ Len(Append(state.text, format[check.at])) <= max
                BY <1>1, <3>5, <4>3 DEF Characters
            <4> HIDE DEF next, checked
            <4>5. /\ next \in State /\ next.at = checked.at /\ next.args = checked.args
                  /\ Len(next.text) <= max
                BY <1>1, <3>2, <3>3, <4>2, <4>4 DEF State
            <4>6. QED
                BY <3>3, <4>5, Zenon DEF Lockstep, next, checked
        <3>6. QED
            BY <3>4, <3>5, Zenon
    <2>5. QED
        BY <2>3, <2>4, Zenon
<1>5. QED
    BY <1>3, <1>4, Zenon

\* A format that the compiler has let pass is let pass at each conversion.
LEMMA CheckNeverRecovers ==
    ASSUME NEW format, NEW state, Check(state, format).ok
    PROVE  state.ok
<1>1. SUFFICES ASSUME ~state.ok
               PROVE  Check(state, format) = state
    BY Zenon
<1> DEFINE over == state.at > Len(format)
           second == state.ok /\ state.at <= Len(format) /\ (state.at = Len(format) /\ format[state.at] = "%")
           third == /\ state.ok /\ state.at <= Len(format) /\ ~(state.at = Len(format) /\ format[state.at] = "%")
                    /\ IsConversion(format, state.at)
<1>2. ~second /\ ~third /\ (~state.ok \/ over)
    BY <1>1, Zenon
<1>3. QED
    BY <1>1, <1>2, Zenon DEF Check

\* What vbprintf writes fits into the buffer, whatever the conversions and
\* wherever the buffer ends.
THEOREM VbprintfFits ==
    ASSUME NEW max \in Nat, NEW format \in Characters, NEW args \in Arguments,
           WellFormed(format, args)
    PROVE  vbprintf(max, format, args) \in Texts(max)
<1> DEFINE n == Len(format)
           steps == [k \in DOMAIN format |-> k]
           first == [at |-> 1, args |-> args, text |-> <<>>]
           firstCheck == [at |-> 1, args |-> args, ok |-> TRUE]
<1>1. n \in Nat /\ DOMAIN format = 1 .. n
    BY DEF Characters
<1>2. Printing!IsSequence(steps, n) /\ Checking!IsSequence(steps, n)
    <2>1. DOMAIN steps = 1 .. n /\ steps = [i \in 1 .. n |-> steps[i]]
        BY <1>1
    <2>2. QED
        BY <2>1, Zenon DEF Printing!IsSequence, Checking!IsSequence
<1>3. vbprintf(max, format, args) = Printing!Loop(format, max, first, steps).text
    BY Zenon DEF vbprintf, Printing!Loop, IterateStep, FoldLeft, Printing!FoldLeft,
          MapThenFoldSet, Printing!MapThenFoldSet, Max, Printing!Max
<1>4. Checking!Loop(format, max, firstCheck, steps).ok
    BY Zenon DEF WellFormed, Checking!Loop, CheckStep, FoldLeft, Checking!FoldLeft,
          MapThenFoldSet, Checking!MapThenFoldSet, Max, Checking!Max
<1> HIDE DEF n, steps
<1>5. PICK texts : Printing!Runs(texts, format, max, first, steps, n)
    <2>1. \E run : Printing!Runs(run, format, max, first, steps, n)
        BY <1>1, <1>2, Printing!LoopRuns
    <2>2. QED
        BY <2>1, Zenon
<1>6. PICK checks : Checking!Runs(checks, format, max, firstCheck, steps, n)
    <2>1. \E run : Checking!Runs(run, format, max, firstCheck, steps, n)
        BY <1>1, <1>2, Checking!LoopRuns
    <2>2. QED
        BY <2>1, Zenon
<1>7. /\ texts[0] = first /\ checks[0] = firstCheck
      /\ texts[n] = Printing!Loop(format, max, first, steps)
      /\ checks[n] = Checking!Loop(format, max, firstCheck, steps)
      /\ \A k \in 1 .. n : /\ texts[k] = Iterate(texts[k - 1], format, max)
                           /\ checks[k] = Check(checks[k - 1], format)
    BY <1>5, <1>6, Zenon DEF Printing!Runs, Checking!Runs, IterateStep, CheckStep
<1> HIDE DEF first, firstCheck
<1>8. \A k \in 0 .. n : checks[k].ok
    <2> DEFINE N == {j \in Nat : j <= n => checks[n - j].ok}
    <2>1. 0 \in N
        <3>1. n - 0 = n
            BY <1>1
        <3>2. checks[n - 0].ok
            BY <1>4, <1>7, <3>1, Zenon
        <3>3. QED
            BY <3>2
    <2>2. ASSUME NEW j \in Nat, j \in N
          PROVE  j + 1 \in N
        <3>1. SUFFICES ASSUME j + 1 <= n
                       PROVE  checks[n - (j + 1)].ok
            OBVIOUS
        <3>2. n - j \in 1 .. n /\ (n - j) - 1 = n - (j + 1) /\ j <= n
            BY <1>1, <3>1
        <3>3. checks[n - j].ok
            BY <2>2, <3>2
        <3>4. checks[n - j] = Check(checks[n - (j + 1)], format)
            BY <1>7, <3>2, Zenon
        <3>5. QED
            BY <3>3, <3>4, CheckNeverRecovers, Zenon
    <2> HIDE DEF N
    <2>3. Nat \subseteq N
        BY <2>1, <2>2, StepInduction
    <2>4. ASSUME NEW k \in 0 .. n
          PROVE  checks[k].ok
        <3>1. n - k \in Nat /\ n - k <= n /\ n - (n - k) = k
            BY <1>1
        <3>2. n - k \in N
            BY <2>3, <3>1
        <3>3. QED
            BY <3>1, <3>2, Zenon DEF N
    <2>5. QED
        BY <2>4
<1>9. Lockstep(texts[0], checks[0], max)
    <2>1. first \in State /\ firstCheck \in CheckState
        <3>1. <<>> \in Characters
            BY Literals
        <3>2. QED
            BY <3>1 DEF first, firstCheck, State, CheckState
    <2>2. first.at = firstCheck.at /\ first.args = firstCheck.args /\ Len(first.text) = 0
        BY DEF first, firstCheck
    <2>3. QED
        BY <1>7, <2>1, <2>2 DEF Lockstep
<1> DEFINE N == {k \in Nat : k <= n => Lockstep(texts[k], checks[k], max)}
<1>10. 0 \in N
    BY <1>9
<1>11. ASSUME NEW k \in Nat, k \in N
       PROVE  k + 1 \in N
    <2>1. SUFFICES ASSUME k + 1 <= n
                   PROVE  Lockstep(texts[k + 1], checks[k + 1], max)
        OBVIOUS
    <2>2. k + 1 \in 1 .. n /\ (k + 1) - 1 = k /\ k <= n /\ k \in 0 .. n /\ k + 1 \in 0 .. n
        BY <1>1, <2>1
    <2>3. Lockstep(texts[k], checks[k], max)
        BY <1>11, <2>2
    <2>4. texts[k + 1] = Iterate(texts[k], format, max) /\ checks[k + 1] = Check(checks[k], format)
        BY <1>7, <2>2, Zenon
    <2>5. checks[k].ok /\ Check(checks[k], format).ok
        BY <1>8, <2>2, <2>4, Zenon
    <2>6. QED
        BY <2>3, <2>4, <2>5, LockstepKept, Zenon
<1> HIDE DEF N
<1>12. Nat \subseteq N
    BY <1>10, <1>11, StepInduction
<1>13. Lockstep(texts[n], checks[n], max)
    <2>1. n \in N /\ n <= n
        BY <1>1, <1>12
    <2>2. QED
        BY <2>1, Zenon DEF N
<1>14. QED
    BY <1>3, <1>7, <1>13 DEF Lockstep, State, Texts

-----------------------------------------------------------------------------
(* The cells of the screen, which are numbered row by row. *)

Cell(row, column) == (row - 1) * VGA_COLUMNS + column - 1

LEMMA QuotientIs ==
    ASSUME NEW c \in Nat \ {0}, NEW q \in Nat, NEW r \in 0 .. c - 1
    PROVE  (q * c + r) \div c = q /\ (q * c + r) % c = r
<1> DEFINE a == q * c + r
           p == a \div c
           m == a % c
<1>1. a \in Nat
    OBVIOUS
<1>2. a = c * p + m /\ m \in 0 .. c - 1 /\ p \in Nat
    <2> HIDE DEF a
    <2>1. QED
        BY <1>1, DivMod
<1>3. q * c \in Nat /\ c * p \in Nat /\ q * c + r = c * p + m
    BY <1>2
<1> HIDE DEF a, p, m
<1>4. ~(p < q)
    <2>1. SUFFICES ASSUME p < q
                   PROVE  FALSE
        OBVIOUS
    <2> DEFINE d == q - p - 1
    <2>2. d \in Nat /\ q = p + 1 + d
        BY <1>2, <2>1
    <2> HIDE DEF d
    <2>3. q * c = p * c + c + d * c /\ d * c \in Nat /\ p * c = c * p
        BY <1>2, <2>2
    <2>4. QED
        BY <1>2, <1>3, <2>3
<1>5. ~(q < p)
    <2>1. SUFFICES ASSUME q < p
                   PROVE  FALSE
        OBVIOUS
    <2> DEFINE d == p - q - 1
    <2>2. d \in Nat /\ p = q + 1 + d
        BY <1>2, <2>1
    <2> HIDE DEF d
    <2>3. c * p = q * c + c + d * c /\ d * c \in Nat
        BY <1>2, <2>2
    <2>4. QED
        BY <1>2, <1>3, <2>3
<1>6. p = q
    BY <1>2, <1>4, <1>5
<1>7. m = r
    <2>1. c * p = q * c
        BY <1>6
    <2>2. QED
        BY <1>2, <1>3, <2>1
<1>8. QED
    BY <1>6, <1>7 DEF p, m, a

LEMMA CellsAre ==
    /\ VGA_COLUMNS \in Nat \ {0} /\ VGA_ROWS \in Nat \ {0} /\ VGA_CELLS \in Nat
    /\ VGA_CELLS - VGA_COLUMNS \in Nat /\ VGA_CELLS <= 65536
    /\ VGA_CELLS = (VGA_ROWS - 1) * VGA_COLUMNS + VGA_COLUMNS
<1>1. VGA_COLUMNS \in Nat \ {0} /\ VGA_ROWS \in Nat \ {0} /\ VGA_CELLS <= 65536
    BY ConsoleAssumption
<1>2. VGA_CELLS \in Nat /\ VGA_CELLS = (VGA_ROWS - 1) * VGA_COLUMNS + VGA_COLUMNS
    BY <1>1 DEF VGA_CELLS
<1>3. (VGA_ROWS - 1) * VGA_COLUMNS \in Nat
    <2>1. VGA_ROWS - 1 \in Nat
        BY <1>1
    <2>2. QED
        BY <1>1, <2>1
<1>4. QED
    BY <1>1, <1>2, <1>3

LEMMA CellIs ==
    ASSUME NEW row \in 1 .. VGA_ROWS, NEW column \in 1 .. VGA_COLUMNS
    PROVE  /\ Cell(row, column) \in 0 .. VGA_CELLS - 1
           /\ Cell(row, column) \div VGA_COLUMNS = row - 1
           /\ Cell(row, column) % VGA_COLUMNS = column - 1
           /\ row < VGA_ROWS => /\ row + 1 \in 1 .. VGA_ROWS
                                /\ Cell(row, column) + VGA_COLUMNS = Cell(row + 1, column)
                                /\ Cell(row, column) < VGA_CELLS - VGA_COLUMNS
           /\ row = VGA_ROWS => Cell(row, column) >= VGA_CELLS - VGA_COLUMNS
<1> DEFINE C == VGA_COLUMNS
           R == VGA_ROWS
           N == VGA_CELLS
           q == row - 1
           r == column - 1
           d == R - row
<1>1. C \in Nat \ {0} /\ R \in Nat \ {0} /\ N \in Nat /\ N = (R - 1) * C + C
    BY CellsAre
<1>2. q \in Nat /\ r \in 0 .. C - 1 /\ d \in Nat /\ R - 1 = q + d
    BY <1>1
<1>3. Cell(row, column) = q * C + r
    BY <1>1, <1>2 DEF Cell
<1>4. (q * C + r) \div C = q /\ (q * C + r) % C = r
    BY <1>1, <1>2, QuotientIs
<1>5. q * C \in Nat /\ d * C \in Nat /\ N = q * C + d * C + C
    <2> HIDE DEF C, R, N, q, d
    <2>1. (q + d) * C = q * C + d * C /\ q * C \in Nat /\ d * C \in Nat
        BY <1>1, <1>2
    <2>2. QED
        BY <1>1, <1>2, <2>1
<1>6. row < R => d * C >= C
    <2>1. SUFFICES ASSUME row < R
                   PROVE  d * C >= C
        OBVIOUS
    <2> DEFINE e == d - 1
    <2>2. e \in Nat /\ d = e + 1
        BY <1>1, <2>1
    <2> HIDE DEF e, d, C
    <2>3. d * C = e * C + C /\ e * C \in Nat
        BY <1>1, <2>2
    <2>4. QED
        BY <1>1, <2>3
<1>7. row < R => Cell(row + 1, column) = q * C + C + r
    <2>1. Cell(row + 1, column) = (q + 1) * C + r
        BY <1>1 DEF Cell
    <2>2. (q + 1) * C = q * C + C
        <3> HIDE DEF q, C
        <3>1. QED
            BY <1>1, <1>2
    <2>3. QED
        BY <2>1, <2>2
<1>8. row = R => d * C = 0
    <2>1. SUFFICES ASSUME row = R
                   PROVE  d * C = 0
        OBVIOUS
    <2>2. d = 0
        BY <1>1, <2>1
    <2> HIDE DEF d, C
    <2>3. QED
        BY <1>1, <2>2
<1> DEFINE a == q * C
           b == d * C
<1> HIDE DEF a, b
<1>9. /\ Cell(row, column) = a + r /\ a \in Nat /\ b \in Nat /\ N = a + b + C
      /\ row < R => b >= C /\ Cell(row + 1, column) = a + C + r
      /\ row = R => b = 0
    BY <1>3, <1>5, <1>6, <1>7, <1>8 DEF a, b
<1>10. a + r \in 0 .. N - 1
    BY <1>1, <1>2, <1>9
<1>11. row < R => row + 1 \in 1 .. R /\ (a + r) + C = a + C + r /\ a + r < N - C
    BY <1>1, <1>2, <1>9
<1>12. row = R => a + r >= N - C
    BY <1>1, <1>2, <1>9
<1> HIDE DEF C, R, N, q, r, d
<1>13. QED
    BY <1>3, <1>4, <1>9, <1>10, <1>11, <1>12 DEF C, R, N, q, r, d

-----------------------------------------------------------------------------
(* What happens to the memory of the screen. *)

IsMemory(m) == DOMAIN m = 0 .. 2 * VGA_CELLS - 1 /\ m = [b \in DOMAIN m |-> m[b]]

Colored(m) == \A cell \in 0 .. VGA_CELLS - 1 : m[CharacterOf(cell) + 1] = White

Scrolled(m) ==
    BlankLastRow(memmove(m, 0, 2 * VGA_COLUMNS, 2 * (VGA_CELLS - VGA_COLUMNS)))

LEMMA PutIs ==
    ASSUME NEW m, IsMemory(m), NEW cell \in 0 .. VGA_CELLS - 1, NEW char
    PROVE  /\ IsMemory(Put(m, cell, char))
           /\ Colored(m) => Colored(Put(m, cell, char))
           /\ \A other \in 0 .. VGA_CELLS - 1 :
                Put(m, cell, char)[CharacterOf(other)] =
                    IF other = cell THEN char ELSE m[CharacterOf(other)]
<1> DEFINE p == Put(m, cell, char)
<1>1. p = [b \in DOMAIN m |-> IF b = 2 * cell THEN char ELSE m[b]]
    BY DEF Put, CharacterOf, IsMemory
<1>2. VGA_CELLS \in Nat /\ DOMAIN m = 0 .. 2 * VGA_CELLS - 1
    BY CellsAre DEF IsMemory
<1> HIDE DEF p
<1>3. IsMemory(p)
    BY <1>1, <1>2 DEF IsMemory
<1>4. ASSUME Colored(m)
      PROVE  Colored(p)
    <2>1. SUFFICES ASSUME NEW other \in 0 .. VGA_CELLS - 1
                   PROVE  p[CharacterOf(other) + 1] = White
        BY Zenon DEF Colored
    <2>2. 2 * other + 1 \in DOMAIN m /\ 2 * other + 1 # 2 * cell
        BY <1>2
    <2>3. p[2 * other + 1] = m[2 * other + 1]
        BY <1>1, <2>2
    <2>4. m[CharacterOf(other) + 1] = White
        BY <1>4 DEF Colored
    <2>5. QED
        BY <2>3, <2>4 DEF CharacterOf
<1>5. ASSUME NEW other \in 0 .. VGA_CELLS - 1
      PROVE  p[CharacterOf(other)] = IF other = cell THEN char ELSE m[CharacterOf(other)]
    <2>1. 2 * other \in DOMAIN m /\ (2 * other = 2 * cell <=> other = cell)
        BY <1>2
    <2>2. QED
        BY <1>1, <2>1 DEF CharacterOf
<1>6. QED
    BY <1>3, <1>4, <1>5 DEF p

\* Scrolling moves every row but the first up by one and leaves a blank row.
LEMMA ScrolledIs ==
    ASSUME NEW m, IsMemory(m)
    PROVE  /\ IsMemory(Scrolled(m))
           /\ Colored(m) => Colored(Scrolled(m))
           /\ \A row \in 1 .. VGA_ROWS, column \in 1 .. VGA_COLUMNS :
                Scrolled(m)[CharacterOf(Cell(row, column))] =
                    IF row < VGA_ROWS THEN m[CharacterOf(Cell(row + 1, column))] ELSE Blank
<1> DEFINE C == VGA_COLUMNS
           N == VGA_CELLS
           n == 2 * (N - C)
           moved == memmove(m, 0, 2 * C, n)
           s == Scrolled(m)
           last(b) == \E cell \in LastRow : b = CharacterOf(cell)
<1>1. C \in Nat \ {0} /\ N \in Nat /\ N - C \in Nat
    BY CellsAre
<1>2. DOMAIN m = 0 .. 2 * N - 1
    BY DEF IsMemory
<1> HIDE DEF C, N
<1>3. moved = [b \in DOMAIN m |-> IF b - 0 \in 0 .. n - 1 THEN m[b - 0 + 2 * C] ELSE m[b]]
    <2> DEFINE src == 2 * C
    <2>1. src \in Int /\ n \in Nat /\ 0 \in Int
        BY <1>1
    <2>2. \A i \in 0 .. n - 1 : src + i \in DOMAIN m
        BY <1>1, <1>2
    <2>3. AreBytes(m)
        BY <1>2 DEF AreBytes, IsMemory
    <2> HIDE DEF n, src
    <2>4. memmove(m, 0, src, n) =
            [b \in DOMAIN m |-> IF b - 0 \in 0 .. n - 1 THEN m[b - 0 + src] ELSE m[b]]
        BY <2>1, <2>2, <2>3, MemmoveMoves
    <2>5. QED
        BY <2>4 DEF src
<1> HIDE DEF moved
<1>4. DOMAIN moved = DOMAIN m
    BY <1>3
<1>5. s = [b \in DOMAIN m |-> IF last(b) THEN Blank ELSE moved[b]]
    BY <1>4, Zenon DEF Scrolled, BlankLastRow, moved, n, C, N
<1>6. \A cell \in LastRow : cell \in N - C .. N - 1
    BY DEF LastRow, N, C
<1>7. \A b \in Int : b \notin {2 * cell : cell \in N - C .. N - 1} => ~last(b)
    BY <1>6 DEF CharacterOf
<1> HIDE DEF s, last
<1>8. IsMemory(s)
    BY <1>2, <1>5 DEF IsMemory, N
<1>9. ASSUME Colored(m)
      PROVE  Colored(s)
    <2>1. SUFFICES ASSUME NEW cell \in 0 .. N - 1
                   PROVE  s[CharacterOf(cell) + 1] = White
        BY Zenon DEF Colored, N
    <2> DEFINE b == 2 * cell + 1
    <2>2. b \in DOMAIN m /\ b \in Int /\ b \notin {2 * k : k \in N - C .. N - 1}
        BY <1>1, <1>2
    <2>3. s[b] = moved[b]
        BY <1>5, <1>7, <2>2
    <2>4. moved[b] = IF b \in 0 .. n - 1 THEN m[b + 2 * C] ELSE m[b]
        BY <1>1, <1>3, <2>2
    <2>5. m[b] = White
        BY <1>9 DEF Colored, CharacterOf, N
    <2>6. CASE b \in 0 .. n - 1
        <3>1. cell + C \in 0 .. N - 1 /\ b + 2 * C = 2 * (cell + C) + 1
            BY <1>1, <2>6
        <3>2. m[2 * (cell + C) + 1] = White
            BY <1>9, <3>1 DEF Colored, CharacterOf, N
        <3>3. QED
            BY <2>3, <2>4, <2>6, <3>1, <3>2 DEF CharacterOf
    <2>7. CASE b \notin 0 .. n - 1
        BY <2>3, <2>4, <2>5, <2>7 DEF CharacterOf
    <2>8. QED
        BY <2>6, <2>7
<1>10. ASSUME NEW row \in 1 .. VGA_ROWS, NEW column \in 1 .. VGA_COLUMNS
       PROVE  s[CharacterOf(Cell(row, column))] =
                IF row < VGA_ROWS THEN m[CharacterOf(Cell(row + 1, column))] ELSE Blank
    <2> DEFINE cell == Cell(row, column)
    <2>1. /\ cell \in 0 .. N - 1
          /\ row < VGA_ROWS => cell + C = Cell(row + 1, column) /\ cell < N - C
          /\ row = VGA_ROWS => cell >= N - C
        BY CellIs DEF N, C
    <2>2. VGA_ROWS \in Nat
        BY CellsAre
    <2> HIDE DEF cell
    <2>3. 2 * cell \in DOMAIN m
        BY <1>1, <1>2, <2>1
    <2>4. CASE row < VGA_ROWS
        <3>1. 2 * cell \in Int /\ 2 * cell \notin {2 * k : k \in N - C .. N - 1}
            BY <1>1, <2>1, <2>4
        <3>2. s[2 * cell] = moved[2 * cell]
            BY <1>5, <1>7, <2>3, <3>1
        <3>3. 2 * cell \in 0 .. n - 1 /\ 2 * cell - 0 = 2 * cell /\ 2 * cell + 2 * C = 2 * (cell + C)
            BY <1>1, <2>1, <2>4
        <3>4. moved[2 * cell] = m[2 * (cell + C)]
            BY <1>3, <2>3, <3>3
        <3>5. s[2 * cell] = m[2 * Cell(row + 1, column)]
            BY <2>1, <2>4, <3>2, <3>4
        <3>6. QED
            BY <2>4, <3>5 DEF CharacterOf, cell
    <2>5. CASE ~(row < VGA_ROWS)
        <3>1. row = VGA_ROWS
            BY <2>2, <2>5
        <3>2. cell \in LastRow
            BY <1>1, <2>1, <3>1 DEF LastRow, N, C
        <3>3. last(2 * cell)
            BY <3>2 DEF last, CharacterOf
        <3>4. s[2 * cell] = Blank
            BY <1>5, <2>3, <3>3, Zenon
        <3>5. QED
            BY <2>5, <3>4 DEF CharacterOf, cell
    <2>6. QED
        BY <2>4, <2>5
<1>11. QED
    BY <1>8, <1>9, <1>10 DEF s

-----------------------------------------------------------------------------
(* The screen and the terminal without an end. *)

Row == [1 .. VGA_COLUMNS -> Char]
Rows == {rows \in Seq(Row) : rows # <<>>}

\* The rows of the terminal that are above the screen.
Above(n) == IF n <= VGA_ROWS THEN 0 ELSE n - VGA_ROWS

ShowsRows(rows, m) ==
    \A row \in 1 .. VGA_ROWS, column \in 1 .. VGA_COLUMNS :
        m[CharacterOf(Cell(row, column))] =
            IF Above(Len(rows)) + row <= Len(rows) THEN rows[Above(Len(rows)) + row][column] ELSE Blank

CursorOf(rows, column) == (Len(rows) - Above(Len(rows)) - 1) * VGA_COLUMNS + column

LEMMA RowsAre ==
    ASSUME NEW rows \in Rows
    PROVE  /\ Len(rows) \in Nat \ {0} /\ Above(Len(rows)) \in Nat
           /\ Len(rows) - Above(Len(rows)) \in 1 .. VGA_ROWS
           /\ DOMAIN rows = 1 .. Len(rows) /\ \A k \in 1 .. Len(rows) : rows[k] \in Row
<1>1. rows \in Seq(Row) /\ Len(rows) \in Nat \ {0}
    BY EmptySeq DEF Rows
<1>2. DOMAIN rows = 1 .. Len(rows) /\ \A k \in 1 .. Len(rows) : rows[k] \in Row
    BY <1>1
<1>3. VGA_ROWS \in Nat \ {0}
    BY CellsAre
<1>4. QED
    BY <1>1, <1>2, <1>3 DEF Above

LEMMA BlankRowIs ==
    /\ BlankRow \in Row /\ Blank \in Char
    /\ \A column \in 1 .. VGA_COLUMNS : BlankRow[column] = Blank
<1>1. Blank \in Char
    BY WrittenAre, Zenon DEF Written, Blank
<1>2. BlankRow = [column \in 1 .. VGA_COLUMNS |-> Blank]
    BY DEF BlankRow
<1>3. QED
    BY <1>1, <1>2 DEF Row

\* One row more: on a screen that is full, all rows move up.
LEMMA NewRowShown ==
    ASSUME NEW rows \in Rows, NEW m, IsMemory(m), ShowsRows(rows, m)
    PROVE  /\ Append(rows, BlankRow) \in Rows
           /\ ShowsRows(Append(rows, BlankRow),
                        IF Len(rows) - Above(Len(rows)) = VGA_ROWS THEN Scrolled(m) ELSE m)
           /\ CursorOf(Append(rows, BlankRow), 0) =
                IF Len(rows) - Above(Len(rows)) = VGA_ROWS
                THEN CursorOf(rows, 0) ELSE CursorOf(rows, 0) + VGA_COLUMNS
<1> DEFINE n == Len(rows)
           more == Append(rows, BlankRow)
           above == Above(n)
           R == VGA_ROWS
           C == VGA_COLUMNS
           full == n - above = R
<1>1. /\ n \in Nat \ {0} /\ above \in Nat /\ n - above \in 1 .. R
      /\ \A k \in 1 .. n : rows[k] \in Row
    BY RowsAre
<1>2. R \in Nat \ {0} /\ C \in Nat \ {0}
    BY CellsAre
<1>3. rows \in Seq(Row) /\ BlankRow \in Row
    BY BlankRowIs DEF Rows
<1>4. /\ more \in Seq(Row) /\ Len(more) = n + 1 /\ more[n + 1] = BlankRow
      /\ \A k \in 1 .. n : more[k] = rows[k]
    BY <1>3, AppendProperties
<1> HIDE DEF more
<1>5. more \in Rows
    <2>1. more # <<>>
        BY <1>1, <1>4
    <2>2. QED
        BY <1>4, <2>1 DEF Rows
<1>6. Above(n + 1) = IF full THEN above + 1 ELSE above
    BY <1>1, <1>2 DEF Above
<1>7. full => above + R = n
    BY <1>1, <1>2
<1>8. ~full => above + R > n /\ above = 0
    BY <1>1, <1>2 DEF Above
<1> HIDE DEF n, above, R, C, full
<1>9. \A row \in 1 .. R, column \in 1 .. C :
        m[CharacterOf(Cell(row, column))] =
            IF above + row <= n THEN rows[above + row][column] ELSE Blank
    BY Zenon DEF ShowsRows, n, above, R, C
<1>10. CASE full
    <2> DEFINE s == Scrolled(m)
    <2>1. \A row \in 1 .. R, column \in 1 .. C :
            s[CharacterOf(Cell(row, column))] =
                IF row < R THEN m[CharacterOf(Cell(row + 1, column))] ELSE Blank
        BY ScrolledIs DEF R, C
    <2> HIDE DEF s
    <2>2. ASSUME NEW row \in 1 .. R, NEW column \in 1 .. C
          PROVE  s[CharacterOf(Cell(row, column))] =
                    IF (above + 1) + row <= n + 1 THEN more[(above + 1) + row][column] ELSE Blank
        <3>1. (above + 1) + row <= n + 1 /\ (above + 1) + row \in 1 .. n + 1
            BY <1>1, <1>2, <1>7, <1>10
        <3>2. CASE row < R
            <4>1. row + 1 \in 1 .. R /\ above + (row + 1) <= n /\ above + (row + 1) \in 1 .. n
                BY <1>1, <1>2, <1>7, <1>10, <3>2
            <4>2. m[CharacterOf(Cell(row + 1, column))] = rows[above + (row + 1)][column]
                BY <1>9, <4>1
            <4>3. (above + 1) + row = above + (row + 1)
                BY <1>1
            <4>4. more[(above + 1) + row] = rows[above + (row + 1)]
                BY <1>4, <4>1, <4>3
            <4>5. s[CharacterOf(Cell(row, column))] = m[CharacterOf(Cell(row + 1, column))]
                BY <2>1, <3>2
            <4>6. QED
                BY <3>1, <4>2, <4>4, <4>5
        <3>3. CASE ~(row < R)
            <4>1. row = R /\ (above + 1) + row = n + 1
                BY <1>1, <1>2, <1>7, <1>10, <3>3
            <4>2. s[CharacterOf(Cell(row, column))] = Blank
                BY <2>1, <3>3
            <4>3. BlankRow[column] = Blank
                BY BlankRowIs DEF C
            <4>4. QED
                BY <1>4, <3>1, <4>1, <4>2, <4>3
        <3>4. QED
            BY <3>2, <3>3
    <2>3. ShowsRows(more, s)
        BY <1>4, <1>6, <1>10, <2>2 DEF ShowsRows, R, C
    <2>4. CursorOf(more, 0) = CursorOf(rows, 0)
        <3>1. (n + 1) - (above + 1) - 1 = n - above - 1
            BY <1>1
        <3>2. CursorOf(more, 0) = ((n + 1) - (above + 1) - 1) * C + 0
            BY <1>4, <1>6, <1>10 DEF CursorOf, C
        <3>3. CursorOf(rows, 0) = (n - above - 1) * C + 0
            BY DEF CursorOf, C, n, above
        <3>4. QED
            BY <3>1, <3>2, <3>3
    <2>5. QED
        BY <1>5, <1>10, <2>3, <2>4 DEF full, n, above, R, more, s
<1>11. CASE ~full
    <2>1. ASSUME NEW row \in 1 .. R, NEW column \in 1 .. C
          PROVE  m[CharacterOf(Cell(row, column))] =
                    IF above + row <= n + 1 THEN more[above + row][column] ELSE Blank
        <3>1. CASE above + row <= n
            <4>1. above + row \in 1 .. n /\ above + row <= n + 1
                BY <1>1, <3>1
            <4>2. more[above + row] = rows[above + row]
                BY <1>4, <4>1
            <4>3. QED
                BY <1>9, <3>1, <4>1, <4>2
        <3>2. CASE ~(above + row <= n)
            <4>1. m[CharacterOf(Cell(row, column))] = Blank
                BY <1>9, <3>2
            <4>2. BlankRow[column] = Blank
                BY BlankRowIs DEF C
            <4>3. above + row <= n + 1 => above + row = n + 1
                BY <1>1, <3>2
            <4>4. QED
                BY <1>4, <4>1, <4>2, <4>3
        <3>3. QED
            BY <3>1, <3>2
    <2>2. ShowsRows(more, m)
        BY <1>4, <1>6, <1>11, <2>1 DEF ShowsRows, R, C
    <2>3. CursorOf(more, 0) = CursorOf(rows, 0) + C
        <3> DEFINE d == n - above - 1
        <3>1. d \in Nat /\ (n + 1) - above - 1 = d + 1
            BY <1>1
        <3>2. CursorOf(more, 0) = ((n + 1) - above - 1) * C + 0
            BY <1>4, <1>6, <1>11 DEF CursorOf, C
        <3>3. CursorOf(rows, 0) = d * C + 0
            BY DEF CursorOf, C, n, above
        <3> HIDE DEF d
        <3>4. (d + 1) * C + 0 = (d * C + 0) + C
            BY <1>2, <3>1
        <3>5. QED
            BY <3>1, <3>2, <3>3, <3>4
    <2>4. QED
        BY <1>5, <1>11, <2>2, <2>3 DEF full, n, above, R, C, more
<1>12. QED
    BY <1>10, <1>11

\* A character in the last row that the terminal has.
LEMMA CharacterShown ==
    ASSUME NEW rows \in Rows, NEW m, IsMemory(m), ShowsRows(rows, m),
           NEW column \in 1 .. VGA_COLUMNS, NEW char \in Char
    PROVE  /\ [rows EXCEPT ![Len(rows)][column] = char] \in Rows
           /\ Len([rows EXCEPT ![Len(rows)][column] = char]) = Len(rows)
           /\ CursorOf(rows, column - 1) \in 0 .. VGA_CELLS - 1
           /\ ShowsRows([rows EXCEPT ![Len(rows)][column] = char],
                        Put(m, CursorOf(rows, column - 1), char))
<1> DEFINE n == Len(rows)
           above == Above(n)
           R == VGA_ROWS
           C == VGA_COLUMNS
           row0 == [rows[n] EXCEPT ![column] = char]
           other == [rows EXCEPT ![n][column] = char]
           cell == CursorOf(rows, column - 1)
           p == Put(m, cell, char)
           k == n - above
<1>1. /\ n \in Nat \ {0} /\ above \in Nat /\ k \in 1 .. R
      /\ DOMAIN rows = 1 .. n /\ \A i \in 1 .. n : rows[i] \in Row
    BY RowsAre
<1>2. R \in Nat \ {0} /\ C \in Nat \ {0}
    BY CellsAre
<1>3. row0 \in Row /\ \A c \in 1 .. C : row0[c] = IF c = column THEN char ELSE rows[n][c]
    <2> DEFINE r == rows[n]
    <2>1. r \in [1 .. C -> Char]
        BY <1>1 DEF Row
    <2> HIDE DEF r
    <2>2. DOMAIN r = 1 .. C /\ [r EXCEPT ![column] = char] \in [1 .. C -> Char]
        BY <2>1
    <2>3. \A c \in 1 .. C : [r EXCEPT ![column] = char][c] = IF c = column THEN char ELSE r[c]
        BY <2>2
    <2>4. QED
        BY <2>2, <2>3 DEF Row, r
<1>4. other = [rows EXCEPT ![n] = row0]
    BY Zenon
<1> HIDE DEF row0, other
<1>5. /\ other \in Rows /\ Len(other) = n
      /\ \A i \in 1 .. n : other[i] = IF i = n THEN row0 ELSE rows[i]
    <2>1. rows \in Seq(Row) /\ n \in 1 .. Len(rows)
        BY <1>1 DEF Rows
    <2>2. /\ other \in Seq(Row) /\ Len(other) = Len(rows)
          /\ \A i \in 1 .. Len(rows) : other[i] = IF i = n THEN row0 ELSE rows[i]
        BY <1>3, <1>4, <2>1, ExceptSeq
    <2>3. other # <<>>
        BY <1>1, <2>2
    <2>4. QED
        BY <2>2, <2>3 DEF Rows
<1>6. cell = Cell(k, column)
    BY <1>1, <1>2 DEF CursorOf, Cell
<1>7. cell \in 0 .. VGA_CELLS - 1
    BY <1>1, <1>6, CellIs
<1> HIDE DEF n, above, R, C, cell, k
<1>10. \A o \in 0 .. VGA_CELLS - 1 :
        p[CharacterOf(o)] = IF o = cell THEN char ELSE m[CharacterOf(o)]
    BY <1>7, PutIs
<1> HIDE DEF p
<1>8. \A row \in 1 .. R, c \in 1 .. C :
        m[CharacterOf(Cell(row, c))] = IF above + row <= n THEN rows[above + row][c] ELSE Blank
    BY Zenon DEF ShowsRows, n, above, R, C
<1>9. ASSUME NEW row \in 1 .. R, NEW c \in 1 .. C
      PROVE  p[CharacterOf(Cell(row, c))] =
                IF above + row <= n THEN other[above + row][c] ELSE Blank
    <2>1. Cell(row, c) \in 0 .. VGA_CELLS - 1
        BY CellIs DEF R, C
    <2>2. p[CharacterOf(Cell(row, c))] =
            IF Cell(row, c) = cell THEN char ELSE m[CharacterOf(Cell(row, c))]
        BY <1>10, <2>1
    <2>3. Cell(row, c) = cell <=> row = k /\ c = column
        <3>1. SUFFICES ASSUME Cell(row, c) = Cell(k, column)
                       PROVE  row = k /\ c = column
            BY <1>6
        <3>2. Cell(row, c) \div C = row - 1 /\ Cell(row, c) % C = c - 1
            BY CellIs DEF R, C
        <3>3. Cell(k, column) \div C = k - 1 /\ Cell(k, column) % C = column - 1
            BY <1>1, CellIs DEF R, C
        <3>4. row - 1 = k - 1 /\ c - 1 = column - 1
            BY <3>1, <3>2, <3>3
        <3>5. QED
            BY <1>1, <1>2, <3>4 DEF C
    <2>4. above + row <= n => above + row \in 1 .. n /\ (above + row = n <=> row = k)
        BY <1>1, <1>2 DEF k
    <2>5. CASE above + row <= n
        <3>1. other[above + row] = IF row = k THEN row0 ELSE rows[above + row]
            BY <1>5, <2>4, <2>5
        <3>2. m[CharacterOf(Cell(row, c))] = rows[above + row][c]
            BY <1>8, <2>5
        <3>3. row = k => rows[above + row] = rows[n]
            BY <2>4, <2>5
        <3>4. QED
            BY <1>3, <2>2, <2>3, <2>5, <3>1, <3>2, <3>3
    <2>6. CASE ~(above + row <= n)
        <3>1. row # k
            BY <1>1, <2>6 DEF k
        <3>2. m[CharacterOf(Cell(row, c))] = Blank
            BY <1>8, <2>6
        <3>3. QED
            BY <2>2, <2>3, <2>6, <3>1, <3>2
    <2>7. QED
        BY <2>5, <2>6
<1>11. ShowsRows(other, p)
    BY <1>5, <1>9 DEF ShowsRows, above, R, C
<1>12. QED
    BY <1>5, <1>7, <1>11 DEF other, p, cell, n

\* A terminal, and a screen that shows it.
Terminals == [rows : Rows, column : 0 .. VGA_COLUMNS - 1]

Shows(terminal, m, c) ==
    /\ terminal \in Terminals /\ IsMemory(m)
    /\ ShowsRows(terminal.rows, m)
    /\ c = CursorOf(terminal.rows, terminal.column)

LEMMA CursorIs ==
    ASSUME NEW rows \in Rows, NEW column \in 0 .. VGA_COLUMNS - 1
    PROVE  LET c == CursorOf(rows, column) IN
           /\ c \in 0 .. VGA_CELLS - 1 /\ c % VGA_COLUMNS = column
           /\ c - column = CursorOf(rows, 0)
           /\ (c \div VGA_COLUMNS + 1) * VGA_COLUMNS = CursorOf(rows, 0) + VGA_COLUMNS
           /\ CursorOf(rows, 0) + VGA_COLUMNS >= VGA_CELLS
                <=> Len(rows) - Above(Len(rows)) = VGA_ROWS
<1> DEFINE C == VGA_COLUMNS
           N == VGA_CELLS
           k == Len(rows) - Above(Len(rows))
           d == k - 1
<1>1. C \in Nat \ {0} /\ N \in Nat /\ VGA_ROWS \in Nat \ {0}
    BY CellsAre
<1>2. k \in 1 .. VGA_ROWS
    BY RowsAre
<1>3. d \in Nat /\ k = d + 1
    BY <1>1, <1>2
<1>4. \A c : CursorOf(rows, c) = d * C + c
    BY DEF CursorOf
<1>5. \A c \in 1 .. C : Cell(k, c) = d * C + (c - 1)
    BY DEF Cell
<1>6. column + 1 \in 1 .. C /\ 1 \in 1 .. C /\ (column + 1) - 1 = column /\ 1 - 1 = 0
    BY <1>1
<1>7. /\ Cell(k, column + 1) \in 0 .. N - 1
      /\ Cell(k, column + 1) \div C = k - 1 /\ Cell(k, column + 1) % C = column
    BY <1>2, <1>6, CellIs
<1>8. /\ k < VGA_ROWS => Cell(k, 1) < N - C
      /\ k = VGA_ROWS => Cell(k, 1) >= N - C
    BY <1>2, <1>6, CellIs
<1> HIDE DEF C, N, d, k
<1>9. d * C \in Nat /\ (d + 1) * C = d * C + C
    BY <1>1, <1>3
<1> DEFINE a == d * C
<1>10. a \in Nat /\ CursorOf(rows, column) = a + column /\ CursorOf(rows, 0) = a
    <2>1. CursorOf(rows, 0) = a + 0
        BY <1>4
    <2> HIDE DEF a
    <2>2. a \in Nat
        BY <1>9 DEF a
    <2>3. QED
        BY <1>4, <2>1, <2>2 DEF a
<1>11. Cell(k, column + 1) = a + column /\ Cell(k, 1) = a + 0
    BY <1>5, <1>6
<1>12. (d + 1) * C = a + C
    BY <1>9
<1> HIDE DEF a
<1>13. a + C >= N <=> k = VGA_ROWS
    BY <1>1, <1>2, <1>8, <1>10, <1>11
<1>14. (a + column) \div C + 1 = d + 1
    BY <1>3, <1>7, <1>11
<1>15. a + column \in 0 .. N - 1 /\ (a + column) % C = column /\ (a + column) - column = a
    BY <1>6, <1>7, <1>10, <1>11
<1>16. QED
    BY <1>10, <1>12, <1>13, <1>14, <1>15 DEF C, N, k

\* What vga_write_byte makes of the memory and the cursor that it has typed.
AfterScroll(m, c) ==
    IF c >= VGA_CELLS THEN [memory |-> Scrolled(m), cursor |-> c - VGA_COLUMNS]
                      ELSE [memory |-> m, cursor |-> c]

\* The cursor behind a row that is complete.
LEMMA RowEnds ==
    ASSUME NEW rows \in Rows, NEW m, IsMemory(m), ShowsRows(rows, m),
           NEW c, c = CursorOf(rows, 0) + VGA_COLUMNS, NEW column, NEW t,
           t = [rows |-> rows, column |-> column]
    PROVE  Shows(NewRow(t), AfterScroll(m, c).memory, AfterScroll(m, c).cursor)
<1> DEFINE more == Append(rows, BlankRow)
           full == Len(rows) - Above(Len(rows)) = VGA_ROWS
           C == VGA_COLUMNS
<1>1. /\ more \in Rows
      /\ ShowsRows(more, IF full THEN Scrolled(m) ELSE m)
      /\ CursorOf(more, 0) = IF full THEN CursorOf(rows, 0) ELSE CursorOf(rows, 0) + C
    BY NewRowShown, Zenon
<1>2. C \in Nat \ {0}
    BY CellsAre
<1>3. CursorOf(rows, 0) \in 0 .. VGA_CELLS - 1 /\ (c >= VGA_CELLS <=> full)
    <2>1. 0 \in 0 .. C - 1
        BY <1>2
    <2>2. QED
        BY <2>1, CursorIs
<1>4. NewRow(t) = [rows |-> more, column |-> 0]
    BY DEF NewRow
<1>5. IsMemory(Scrolled(m))
    BY ScrolledIs
<1> HIDE DEF more, full
<1>6. [rows |-> more, column |-> 0] \in Terminals
    BY <1>1, <1>2 DEF Terminals
<1>7. CASE full
    <2>1. AfterScroll(m, c) = [memory |-> Scrolled(m), cursor |-> c - C]
        BY <1>3, <1>7, Zenon DEF AfterScroll
    <2>2. c - C = CursorOf(rows, 0)
        BY <1>2, <1>3
    <2>3. QED
        BY <1>1, <1>4, <1>5, <1>6, <1>7, <2>1, <2>2 DEF Shows
<1>8. CASE ~full
    <2>1. AfterScroll(m, c) = [memory |-> m, cursor |-> c]
        BY <1>3, <1>8, Zenon DEF AfterScroll
    <2>2. QED
        BY <1>1, <1>4, <1>6, <1>8, <2>1 DEF Shows
<1>9. QED
    BY <1>7, <1>8

\* The screen goes on to show what the terminal shows, a character later.
LEMMA TypedShows ==
    ASSUME NEW t, Shows(t, memory, cursor), NEW b \in Char
    PROVE  Shows(Show(t, b), AfterScroll(Typed(b).memory, Typed(b).cursor).memory,
                 AfterScroll(Typed(b).memory, Typed(b).cursor).cursor)
<1> DEFINE rows == t.rows
           column == t.column
           C == VGA_COLUMNS
           n == Len(rows)
           start == CursorOf(rows, 0)
           result(typed) == AfterScroll(typed.memory, typed.cursor)
           Is(u, typed) == Shows(u, result(typed).memory, result(typed).cursor)
           with(c, char) == [rows EXCEPT ![n][c] = char]
<1>1. /\ rows \in Rows /\ column \in 0 .. C - 1 /\ t = [rows |-> rows, column |-> column]
      /\ IsMemory(memory) /\ ShowsRows(rows, memory) /\ cursor = CursorOf(rows, column)
    BY DEF Shows, Terminals
<1>2. C \in Nat \ {0} /\ VGA_CELLS \in Nat
    BY CellsAre
<1>3. /\ cursor \in 0 .. VGA_CELLS - 1 /\ cursor % C = column /\ cursor - column = start
      /\ (cursor \div C + 1) * C = start + C
    BY <1>1, CursorIs
<1>4. \A c \in Int : CursorOf(rows, c) = start + c
    <2> DEFINE d == n - Above(n) - 1
    <2>1. n - Above(n) \in Int
        BY <1>1, RowsAre
    <2>2. d \in Int
        BY <2>1
    <2>3. \A c : CursorOf(rows, c) = d * C + c
        BY DEF CursorOf
    <2> HIDE DEF d, C
    <2>4. start = d * C + 0
        BY <2>3
    <2>5. d * C \in Int
        BY <1>2, <2>2
    <2>6. QED
        BY <2>3, <2>4, <2>5
<1>5. Blank \in Char
    BY BlankRowIs
<1>6. \A m : \A c \in 0 .. VGA_CELLS - 1 : AfterScroll(m, c) = [memory |-> m, cursor |-> c]
    BY <1>2 DEF AfterScroll
<1>7. Newline # Return /\ Newline # Backspace /\ Return # Backspace
    BY DEF Newline, Return, Backspace
<1> HIDE DEF rows, column, C, n, start, result, Is, with
<1>8. CASE b = Newline
    <2> DEFINE typed == [memory |-> memory, cursor |-> start + C]
    <2>1. Typed(b) = typed
        BY <1>3, <1>7, <1>8 DEF Typed, C
    <2>2. Show(t, b) = NewRow(t)
        BY <1>7, <1>8 DEF Show
    <2>3. Shows(NewRow(t), AfterScroll(memory, start + C).memory, AfterScroll(memory, start + C).cursor)
        BY <1>1, RowEnds, Zenon DEF start, C
    <2>4. QED
        BY <2>1, <2>2, <2>3 DEF Is, result
<1>9. CASE b # Newline /\ b = Return
    <2> DEFINE u == [t EXCEPT !.column = 0]
    <2>1. Typed(b) = [memory |-> memory, cursor |-> start]
        BY <1>3, <1>7, <1>9 DEF Typed, C
    <2>2. Show(t, b) = u
        BY <1>7, <1>9 DEF Show
    <2>3. u = [rows |-> rows, column |-> 0] /\ 0 \in 0 .. C - 1
        BY <1>1, <1>2
    <2>4. start \in 0 .. VGA_CELLS - 1
        BY <1>1, <2>3, CursorIs DEF start, C
    <2>5. AfterScroll(memory, start) = [memory |-> memory, cursor |-> start]
        BY <1>6, <2>4
    <2>6. Shows(u, memory, start)
        BY <1>1, <2>3 DEF Shows, Terminals, start, C
    <2>7. QED
        BY <2>1, <2>2, <2>5, <2>6 DEF Is, result
<1>10. CASE b # Newline /\ b # Return /\ b = Backspace /\ column = 0
    <2>1. Typed(b) = [memory |-> memory, cursor |-> cursor]
        BY <1>3, <1>7, <1>10 DEF Typed, C
    <2>2. Show(t, b) = t
        BY <1>7, <1>10 DEF Show, column
    <2>3. cursor \in 0 .. VGA_CELLS - 1
        BY <1>3
    <2>4. AfterScroll(memory, cursor) = [memory |-> memory, cursor |-> cursor]
        BY <1>6, <2>3
    <2>5. QED
        BY <2>1, <2>2, <2>4 DEF Is, result
<1>11. CASE b # Newline /\ b # Return /\ b = Backspace /\ column # 0
    <2> DEFINE m == Put(memory, cursor - 1, Blank)
               u == [rows |-> with(column, Blank), column |-> column - 1]
    <2>1. Typed(b) = [memory |-> m, cursor |-> cursor - 1]
        BY <1>3, <1>7, <1>11 DEF Typed, C
    <2>2. Show(t, b) = u
        BY <1>7, <1>11 DEF Show, column, rows, n, with
    <2>3. column \in 1 .. C /\ column - 1 \in 0 .. C - 1
        BY <1>1, <1>2, <1>11
    <2>4. CursorOf(rows, column - 1) = cursor - 1
        BY <1>1, <1>2, <1>3, <1>4
    <2>5. /\ with(column, Blank) \in Rows /\ Len(with(column, Blank)) = n
          /\ cursor - 1 \in 0 .. VGA_CELLS - 1
          /\ ShowsRows(with(column, Blank), m)
        BY <1>1, <1>5, <2>3, <2>4, CharacterShown DEF with, n, C
    <2>6. IsMemory(m)
        BY <1>1, <2>5, PutIs
    <2>7. CursorOf(with(column, Blank), column - 1) = cursor - 1
        BY <2>4, <2>5, Zenon DEF CursorOf, n
    <2>8. AfterScroll(m, cursor - 1) = [memory |-> m, cursor |-> cursor - 1]
        BY <1>6, <2>5
    <2> HIDE DEF m
    <2>9. Shows(u, m, cursor - 1)
        BY <2>3, <2>5, <2>6, <2>7 DEF Shows, Terminals, C, m
    <2>10. QED
        BY <2>1, <2>2, <2>8, <2>9 DEF Is, result
<1>12. CASE b # Newline /\ b # Return /\ b # Backspace
    <2> DEFINE m == Put(memory, cursor, b)
               more == with(column + 1, b)
               u == [rows |-> more, column |-> column + 1]
    <2>1. Typed(b) = [memory |-> m, cursor |-> cursor + 1]
        BY <1>12 DEF Typed
    <2>2. Show(t, b) = IF column + 1 = C THEN NewRow(u) ELSE u
        BY <1>12 DEF Show, column, rows, n, with, C
    <2>3. column + 1 \in 1 .. C /\ (column + 1) - 1 = column
        BY <1>1, <1>2
    <2>4. /\ more \in Rows /\ Len(more) = n /\ ShowsRows(more, m)
        BY <1>1, <2>3, CharacterShown DEF with, n, C
    <2>5. IsMemory(m)
        BY <1>1, <1>3, PutIs
    <2>6. CursorOf(more, 0) = start /\ CursorOf(more, column + 1) = start + (column + 1)
        <3>1. \A c : CursorOf(more, c) = CursorOf(rows, c)
            BY <2>4, Zenon DEF CursorOf, n
        <3>2. column + 1 \in Int
            BY <2>3
        <3>3. QED
            BY <1>4, <3>1, <3>2 DEF start
    <2>7. cursor + 1 = start + (column + 1) /\ start \in Int
        BY <1>1, <1>2, <1>3
    <2> HIDE DEF m, more
    <2>8. CASE column + 1 = C
        <3>1. cursor + 1 = CursorOf(more, 0) + C
            BY <2>6, <2>7, <2>8
        <3>2. Shows(NewRow(u), AfterScroll(m, cursor + 1).memory, AfterScroll(m, cursor + 1).cursor)
            BY <2>4, <2>5, <3>1, RowEnds, Zenon DEF C
        <3>3. QED
            BY <2>1, <2>2, <2>8, <3>2 DEF Is, result
    <2>9. CASE column + 1 # C
        <3>1. column + 1 \in 0 .. C - 1
            BY <1>2, <2>3, <2>9
        <3>2. cursor + 1 = CursorOf(more, column + 1)
            BY <2>6, <2>7
        <3>3. cursor + 1 \in 0 .. VGA_CELLS - 1
            <4>1. CursorOf(more, column + 1) \in 0 .. VGA_CELLS - 1
                BY <2>4, <3>1, CursorIs DEF C
            <4>2. QED
                BY <3>2, <4>1
        <3>4. AfterScroll(m, cursor + 1) = [memory |-> m, cursor |-> cursor + 1]
            BY <1>6, <3>3
        <3>5. Shows(u, m, cursor + 1)
            BY <2>4, <2>5, <3>1, <3>2 DEF Shows, Terminals, C
        <3>6. QED
            BY <2>1, <2>2, <2>9, <3>4, <3>5 DEF Is, result
    <2>10. QED
        BY <2>8, <2>9
<1>13. QED
    BY <1>8, <1>9, <1>10, <1>11, <1>12

-----------------------------------------------------------------------------
(* The screen shows the terminal, character by character. *)

ShowStep(x, y, terminal, char) == Show(terminal, char)

Showing == INSTANCE FoldTheorems WITH Op <- ShowStep

FirstTerminal == [rows |-> <<BlankRow>>, column |-> 0]

LEMMA TerminalIs == \A chars : Terminal(chars) = Showing!Loop(0, 0, FirstTerminal, chars)
BY Zenon DEF Terminal, Showing!Loop, ShowStep, FirstTerminal, FoldLeft, Showing!FoldLeft,
    MapThenFoldSet, Showing!MapThenFoldSet, Max, Showing!Max

LEMMA TerminalSteps ==
    /\ Terminal(<<>>) = FirstTerminal
    /\ \A done \in Characters : \A b : Terminal(Append(done, b)) = Show(Terminal(done), b)
<1>1. Terminal(<<>>) = FirstTerminal
    BY TerminalIs, Showing!LoopOverNone, Zenon
<1>2. ASSUME NEW done \in Characters, NEW b
      PROVE  Terminal(Append(done, b)) = Show(Terminal(done), b)
    <2>1. done \in Seq(Char)
        BY DEF Characters
    <2>2. Showing!Loop(0, 0, FirstTerminal, Append(done, b)) =
            ShowStep(0, 0, Showing!Loop(0, 0, FirstTerminal, done), b)
        BY <2>1, Showing!LoopOverAppended
    <2>3. QED
        BY <2>2, TerminalIs, Zenon DEF ShowStep
<1>3. QED
    BY <1>1, <1>2

\* The memory keeps its color when a character is typed.
LEMMA TypedColored ==
    ASSUME IsMemory(memory), Colored(memory), cursor \in 0 .. VGA_CELLS - 1, NEW b
    PROVE  LET typed == Typed(b) IN
           /\ IsMemory(typed.memory) /\ Colored(typed.memory)
           /\ Colored(AfterScroll(typed.memory, typed.cursor).memory)
<1> DEFINE typed == Typed(b)
<1>1. VGA_COLUMNS \in Nat \ {0} /\ VGA_CELLS \in Nat
    BY CellsAre
<1>2. Newline # Return /\ Newline # Backspace /\ Return # Backspace
    BY DEF Newline, Return, Backspace
<1>3. cursor % VGA_COLUMNS \in 0 .. VGA_COLUMNS - 1 /\ cursor % VGA_COLUMNS <= cursor
    BY <1>1
<1>4. /\ IsMemory(Put(memory, cursor, b)) /\ Colored(Put(memory, cursor, b))
      /\ cursor % VGA_COLUMNS # 0
            => /\ IsMemory(Put(memory, cursor - 1, Blank))
               /\ Colored(Put(memory, cursor - 1, Blank))
    <2>1. cursor % VGA_COLUMNS # 0 => cursor - 1 \in 0 .. VGA_CELLS - 1
        BY <1>1, <1>3
    <2>2. QED
        BY <2>1, PutIs
<1>5. \/ typed.memory = memory \/ typed.memory = Put(memory, cursor, b)
      \/ cursor % VGA_COLUMNS # 0 /\ typed.memory = Put(memory, cursor - 1, Blank)
    <2>1. CASE b = Newline \/ b = Return \/ (b = Backspace /\ cursor % VGA_COLUMNS = 0)
        BY <1>2, <2>1 DEF Typed
    <2>2. CASE b = Backspace /\ cursor % VGA_COLUMNS # 0
        BY <1>2, <2>2 DEF Typed
    <2>3. CASE b # Newline /\ b # Return /\ b # Backspace
        BY <2>3 DEF Typed
    <2>4. QED
        BY <2>1, <2>2, <2>3
<1> HIDE DEF typed
<1>6. IsMemory(typed.memory) /\ Colored(typed.memory)
    BY <1>4, <1>5
<1>7. Colored(Scrolled(typed.memory))
    BY <1>6, ScrolledIs
<1>8. AfterScroll(typed.memory, typed.cursor).memory \in {typed.memory, Scrolled(typed.memory)}
    BY DEF AfterScroll
<1>9. QED
    BY <1>6, <1>7, <1>8 DEF typed

LEMMA RegisterHoldsCursor ==
    ASSUME NEW c \in 0 .. VGA_CELLS - 1
    PROVE  c % 65536 = c
<1>1. VGA_CELLS \in Nat /\ VGA_CELLS <= 65536
    BY CellsAre
<1>2. c \in Nat /\ c < 65536
    BY <1>1
<1>3. QED
    BY <1>2

\* vga_write_byte shows one character more, and tells the hardware where the
\* next one goes.
LEMMA WriteShows ==
    ASSUME NEW done \in Characters, Shows(Terminal(done), memory, cursor), Colored(memory),
           NEW b \in Char, vga_write_byte(b)
    PROVE  /\ Append(done, b) \in Characters
           /\ Shows(Terminal(Append(done, b)), memory', cursor')
           /\ Colored(memory') /\ cursor_register' = cursor'
<1> DEFINE typed == Typed(b)
           after == AfterScroll(typed.memory, typed.cursor)
           t == Terminal(Append(done, b))
<1>1. memory' = after.memory /\ cursor' = after.cursor
    <2>1. /\ memory' = IF typed.cursor >= VGA_CELLS THEN Scrolled(typed.memory) ELSE typed.memory
          /\ cursor' = IF typed.cursor >= VGA_CELLS THEN typed.cursor - VGA_COLUMNS ELSE typed.cursor
        BY DEF vga_write_byte, Scrolled
    <2> HIDE DEF typed
    <2>2. QED
        BY <2>1 DEF AfterScroll
<1>2. Shows(t, memory', cursor')
    <2>1. Shows(Show(Terminal(done), b), after.memory, after.cursor)
        BY TypedShows
    <2>2. t = Show(Terminal(done), b)
        BY TerminalSteps
    <2>3. QED
        BY <1>1, <2>1, <2>2
<1>3. cursor \in 0 .. VGA_CELLS - 1 /\ IsMemory(memory)
    BY CursorIs DEF Shows, Terminals
<1>4. Colored(memory')
    BY <1>1, <1>3, TypedColored
<1>5. cursor' \in 0 .. VGA_CELLS - 1
    BY <1>2, CursorIs DEF Shows, Terminals
<1>6. cursor_register' = cursor'
    <2> DEFINE c == cursor'
    <2>1. cursor_register' = c % 65536
        BY DEF vga_write_byte, vga_sync_cursor_position
    <2>2. c \in 0 .. VGA_CELLS - 1
        BY <1>5
    <2> HIDE DEF c, after, typed, t
    <2>3. c % 65536 = c
        BY <2>2, RegisterHoldsCursor
    <2>4. QED
        BY <2>1, <2>3 DEF c
<1>7. Append(done, b) \in Characters
    BY AppendProperties DEF Characters
<1>8. QED
    BY <1>2, <1>4, <1>6, <1>7

\* The screen that VgaConstructor leaves.
LEMMA FirstShown ==
    ASSUME NEW m, m = [byte \in 0 .. 2 * VGA_CELLS - 1 |-> IF byte % 2 = 0 THEN Blank ELSE White]
    PROVE  Shows(Terminal(<<>>), m, 0) /\ Colored(m)
<1> DEFINE N == VGA_CELLS
           C == VGA_COLUMNS
           rows == <<BlankRow>>
<1>1. N \in Nat /\ C \in Nat \ {0} /\ VGA_ROWS \in Nat \ {0}
    BY CellsAre
<1>2. IsMemory(m)
    BY DEF IsMemory
<1>3. BlankRow \in Row /\ \A c \in 1 .. C : BlankRow[c] = Blank
    BY BlankRowIs
<1>4. rows \in Rows /\ Len(rows) = 1 /\ rows[1] = BlankRow
    BY <1>3 DEF Rows
<1> HIDE DEF N, C, rows
<1>5. ASSUME NEW cell \in 0 .. N - 1
      PROVE  m[2 * cell] = Blank /\ m[2 * cell + 1] = White
    <2>1. 2 * cell \in 0 .. 2 * N - 1 /\ 2 * cell + 1 \in 0 .. 2 * N - 1
        BY <1>1
    <2>2. (2 * cell) % 2 = 0 /\ (2 * cell + 1) % 2 = 1
        BY <1>1
    <2>3. QED
        BY <2>1, <2>2 DEF N
<1>6. Colored(m)
    BY <1>5 DEF Colored, CharacterOf, N
<1>7. Above(1) = 0
    BY <1>1 DEF Above
<1>8. ShowsRows(rows, m)
    <2>1. SUFFICES ASSUME NEW row \in 1 .. VGA_ROWS, NEW column \in 1 .. C
                   PROVE  m[CharacterOf(Cell(row, column))] =
                            IF 0 + row <= 1 THEN rows[0 + row][column] ELSE Blank
        BY <1>4, <1>7 DEF ShowsRows, C
    <2>2. m[CharacterOf(Cell(row, column))] = Blank
        BY <1>5, CellIs DEF CharacterOf, N, C
    <2>3. 0 + row <= 1 => 0 + row = 1
        BY <1>1
    <2>4. QED
        BY <1>3, <1>4, <2>2, <2>3
<1>9. CursorOf(rows, 0) = 0
    <2>1. CursorOf(rows, 0) = (1 - 0 - 1) * C + 0
        BY <1>4, <1>7 DEF CursorOf, C
    <2>2. QED
        BY <1>1, <2>1
<1>10. Terminal(<<>>) = [rows |-> rows, column |-> 0]
    BY TerminalSteps DEF FirstTerminal, rows
<1>11. 0 \in 0 .. VGA_COLUMNS - 1
    BY <1>1 DEF C
<1>12. [rows |-> rows, column |-> 0] \in Terminals
    BY <1>4, <1>11 DEF Terminals
<1>13. QED
    BY <1>2, <1>6, <1>8, <1>9, <1>10, <1>12 DEF Shows

-----------------------------------------------------------------------------
(* The inductive invariant. *)

Files == {"vga", "serial"}

SafeCalls == {call \in Calls : WellFormed(call.format, call.args)}

\* A file is registered by its constructor, once; the screen always is.
FilesRegistered ==
    /\ constructors \subseteq Files /\ com_port \in BOOLEAN
    /\ backends \in Seq(Files) /\ NoDuplicates(backends)
    /\ ToSet(backends) \cap constructors = {}
    /\ "vga" \in constructors \/ "vga" \in ToSet(backends)

IsEnd(s, t) == Len(s) <= Len(t) /\ \A k \in 1 .. Len(s) : s[k] = t[k + (Len(t) - Len(s))]

\* The message in the buffer, and the place that has been reached in it.
MessageHeld ==
    /\ calls \in Seq(SafeCalls)
    /\ todo \in Seq(Files) /\ NoDuplicates(todo) /\ IsEnd(todo, backends)
    /\ message.buffer \in Texts(MAX_LENGTH)
    /\ message = NoMessage
        \/ (message.buffer # <<>> /\ message.buffer[Len(message.buffer)] = Newline)
    /\ IF todo = <<>> THEN at = 1 ELSE at \in 1 .. Len(message.buffer)

\* The port has what is missing on its line.
LineKept ==
    /\ holding \in Characters /\ line \in Characters /\ printed \in [Files -> Characters]
    /\ line \o holding \o Unwritten("serial") = printed["serial"]

\* The screen shows what it was given, all that was printed but for the rest.
ScreenKept ==
    IF "vga" \in constructors
    THEN IsMemory(memory) /\ cursor = 0 /\ printed["vga"] = <<>>
    ELSE /\ Colored(memory) /\ cursor_register = cursor
         /\ \E done \in Characters : /\ printed["vga"] = done \o Unwritten("vga")
                                     /\ Shows(Terminal(done), memory, cursor)

Sound == FilesRegistered /\ MessageHeld /\ LineKept /\ ScreenKept

LEMMA UnwrittenIs ==
    \A file : Unwritten(file) =
        IF file \notin ToSet(todo) THEN <<>>
        ELSE IF file = Head(todo) THEN SubSeq(message.buffer, at, Len(message.buffer))
        ELSE message.buffer
BY DEF Unwritten

LEMMA NothingUnwritten ==
    ASSUME todo = <<>>
    PROVE  \A file : Unwritten(file) = <<>>
<1>1. ToSet(todo) = {}
    BY DEF ToSet
<1>2. QED
    BY <1>1, UnwrittenIs, Zenon

LEMMA Nothing == <<>> \in Characters /\ \A s \in Characters : s \o <<>> = s /\ <<>> \o s = s
BY EmptySeq, ConcatEmptySeq DEF Characters

LEMMA InitSound == Init => Sound
<1> SUFFICES ASSUME Init PROVE Sound
    OBVIOUS
<1>1. todo = <<>> /\ backends = <<>> /\ at = 1 /\ message = NoMessage
    BY DEF Init
<1>2. FilesRegistered
    <2>1. ToSet(backends) = {} /\ backends \in Seq(Files) /\ NoDuplicates(backends)
        BY <1>1, EmptySeq DEF ToSet, NoDuplicates
    <2>2. constructors = Files /\ com_port \in BOOLEAN
        BY DEF Init, Files
    <2>3. QED
        BY <2>1, <2>2 DEF FilesRegistered, Files
<1>3. MessageHeld
    <2>1. todo \in Seq(Files) /\ NoDuplicates(todo) /\ IsEnd(todo, backends)
        BY <1>1, EmptySeq DEF NoDuplicates, IsEnd
    <2>2. message.buffer \in Texts(MAX_LENGTH)
        <3>1. message.buffer = <<>> /\ Len(<<>>) = 0 /\ MAX_LENGTH \in Nat
            BY <1>1, EmptySeq, ConsoleAssumption DEF NoMessage
        <3>2. QED
            BY <3>1, Nothing DEF Texts
    <2>3. calls \in Seq(SafeCalls)
        <3>1. calls \in Seq(Calls) /\ \A k \in DOMAIN calls : WellFormed(calls[k].format, calls[k].args)
            BY ScriptsAssumption, Zenon DEF Init
        <3>2. \A k \in DOMAIN calls : calls[k] \in SafeCalls
            <4>1. \A k \in DOMAIN calls : calls[k] \in Calls
                BY <3>1
            <4>2. QED
                BY <3>1, <4>1, Zenon DEF SafeCalls
        <3> HIDE DEF Calls, SafeCalls
        <3>3. QED
            BY <3>1, <3>2
    <2>4. QED
        BY <1>1, <2>1, <2>2, <2>3 DEF MessageHeld
<1>4. Unwritten("vga") = <<>> /\ Unwritten("serial") = <<>>
    BY <1>1, NothingUnwritten
<1>5. holding = <<>> /\ line = <<>> /\ printed = [file \in Files |-> <<>>]
    BY DEF Init, Files
<1>6. LineKept
    BY <1>4, <1>5, Nothing DEF LineKept, Files
<1>7. ScreenKept
    <2>1. "vga" \in constructors /\ printed["vga"] = <<>> /\ cursor = 0
        BY <1>5 DEF Init, Files
    <2>2. IsMemory(memory)
        BY DEF Init, IsMemory
    <2>3. QED
        BY <2>1, <2>2, Zenon DEF ScreenKept
<1>8. QED
    BY <1>2, <1>3, <1>6, <1>7 DEF Sound

LEMMA LineStays ==
    ASSUME LineKept, UNCHANGED <<holding, line, printed, todo, message, at>>
    PROVE  LineKept'
BY DEF LineKept, Unwritten

LEMMA ScreenStays ==
    ASSUME ScreenKept, UNCHANGED <<memory, cursor, cursor_register, printed, todo, message, at>>,
           "vga" \in constructors' <=> "vga" \in constructors
    PROVE  ScreenKept'
<1>1. Unwritten("vga")' = Unwritten("vga")
    BY DEF Unwritten
<1>2. QED
    BY <1>1 DEF ScreenKept

\* A constructor registers its file, while no message is being written.
LEMMA RegisterKeeps ==
    ASSUME FilesRegistered, NEW file \in Files, file \in constructors,
           constructors' = constructors \ {file}, com_port' = com_port,
           \/ backends' = Append(backends, file)
           \/ backends' = backends /\ file # "vga"
    PROVE  FilesRegistered'
<1>1. file \notin ToSet(backends) /\ backends \in Seq(Files) /\ NoDuplicates(backends)
    BY DEF FilesRegistered
<1>2. CASE backends' = Append(backends, file)
    <2>1. ToSet(backends') = ToSet(backends) \cup {file} /\ NoDuplicates(backends')
        BY <1>1, <1>2, AppendKeeps
    <2>2. backends' \in Seq(Files)
        BY <1>1, <1>2, AppendProperties
    <2>3. QED
        BY <2>1, <2>2 DEF FilesRegistered
<1>3. CASE backends' = backends /\ file # "vga"
    BY <1>1, <1>3 DEF FilesRegistered
<1>4. QED
    BY <1>2, <1>3

LEMMA EmptyEnd ==
    ASSUME todo = <<>>, NEW s \in Seq(Files)
    PROVE  IsEnd(todo, s)
BY EmptySeq DEF IsEnd

LEMMA HeldBetween ==
    ASSUME MessageHeld, todo = <<>>, backends' \in Seq(Files),
           UNCHANGED <<calls, todo, message, at>>
    PROVE  MessageHeld'
<1>1. IsEnd(todo, backends')
    BY EmptyEnd
<1>2. QED
    BY <1>1 DEF MessageHeld

LEMMA VgaConstructorSound == Sound /\ VgaConstructor => Sound'
<1> SUFFICES ASSUME Sound, VgaConstructor PROVE Sound'
    OBVIOUS
<1>1. FilesRegistered /\ MessageHeld /\ LineKept /\ ScreenKept
    BY DEF Sound
<1>2. /\ "vga" \in constructors /\ todo = <<>> /\ constructors' = constructors \ {"vga"}
      /\ backends' = Append(backends, "vga") /\ cursor' = cursor
      /\ memory' = [byte \in DOMAIN memory |-> IF byte % 2 = 0 THEN Blank ELSE White]
      /\ UNCHANGED <<calls, com_port, message, todo, at, holding, line, printed>>
    BY DEF VgaConstructor, portVars
<1>3. FilesRegistered'
    BY <1>1, <1>2, RegisterKeeps DEF Files
<1>4. MessageHeld'
    BY <1>1, <1>2, <1>3, HeldBetween DEF FilesRegistered
<1>5. LineKept'
    BY <1>1, <1>2, LineStays
<1>6. ScreenKept'
    <2>1. cursor = 0 /\ printed["vga"] = <<>> /\ DOMAIN memory = 0 .. 2 * VGA_CELLS - 1
        BY <1>1, <1>2 DEF ScreenKept, IsMemory
    <2>2. Shows(Terminal(<<>>), memory', 0) /\ Colored(memory')
        BY <1>2, <2>1, FirstShown
    <2>3. Unwritten("vga")' = <<>>
        <3>1. Unwritten("vga") = <<>>
            BY <1>2, NothingUnwritten
        <3>2. QED
            BY <1>2, <3>1 DEF Unwritten
    <2>4. cursor_register' = cursor'
        <3>1. cursor_register' = cursor' % 65536 /\ cursor' = 0
            BY <1>2, <2>1 DEF VgaConstructor, vga_sync_cursor_position
        <3>2. QED
            BY <3>1
    <2>5. "vga" \notin constructors'
        BY <1>2
    <2>6. printed'["vga"] = <<>> \o Unwritten("vga")'
        BY <1>2, <2>1, <2>3, Nothing
    <2>7. cursor' = 0
        BY <1>2, <2>1
    <2>8. \E done \in Characters : /\ printed'["vga"] = done \o Unwritten("vga")'
                                   /\ Shows(Terminal(done), memory', cursor')
        BY <2>2, <2>6, <2>7, Nothing
    <2>9. QED
        BY <2>2, <2>4, <2>5, <2>8 DEF ScreenKept
<1>7. QED
    BY <1>3, <1>4, <1>5, <1>6 DEF Sound

LEMMA SerialConstructorSound == Sound /\ SerialConstructor => Sound'
<1> SUFFICES ASSUME Sound, SerialConstructor PROVE Sound'
    OBVIOUS
<1>1. FilesRegistered /\ MessageHeld /\ LineKept /\ ScreenKept
    BY DEF Sound
<1>2. /\ "serial" \in constructors /\ todo = <<>> /\ constructors' = constructors \ {"serial"}
      /\ backends' = IF com_port THEN Append(backends, "serial") ELSE backends
      /\ UNCHANGED <<calls, com_port, message, todo, at, holding, line, printed>>
      /\ UNCHANGED <<memory, cursor, cursor_register>>
    BY DEF SerialConstructor, portVars, screenVars
<1>3. FilesRegistered'
    BY <1>1, <1>2, RegisterKeeps DEF Files
<1>4. MessageHeld'
    BY <1>1, <1>2, <1>3, HeldBetween DEF FilesRegistered
<1>5. LineKept'
    BY <1>1, <1>2, LineStays
<1>6. ScreenKept'
    BY <1>1, <1>2, ScreenStays
<1>7. QED
    BY <1>3, <1>4, <1>5, <1>6 DEF Sound

LEMMA PortSendsSound == Sound /\ PortSends => Sound'
<1> SUFFICES ASSUME Sound, PortSends PROVE Sound'
    OBVIOUS
<1>1. FilesRegistered /\ MessageHeld /\ LineKept /\ ScreenKept
    BY DEF Sound
<1>2. /\ line' = line \o holding /\ holding' = <<>>
      /\ UNCHANGED <<calls, constructors, com_port, backends, message, todo, at, printed>>
      /\ UNCHANGED <<memory, cursor, cursor_register>>
    BY DEF PortSends, screenVars
<1>3. FilesRegistered' /\ MessageHeld'
    BY <1>1, <1>2 DEF FilesRegistered, MessageHeld
<1>4. LineKept'
    <2>1. line' \in Characters /\ line' \o holding' = line \o holding
        BY <1>1, <1>2, Joined, Nothing DEF LineKept
    <2>2. Unwritten("serial")' = Unwritten("serial")
        BY <1>2 DEF Unwritten
    <2>3. QED
        BY <1>1, <1>2, <2>1, <2>2, Nothing DEF LineKept
<1>5. ScreenKept'
    BY <1>1, <1>2, ScreenStays
<1>6. QED
    BY <1>3, <1>4, <1>5 DEF Sound

\* A message fills its buffer at most, and ends its line there.
LEMMA TerminatedFits ==
    ASSUME NEW text \in Texts(MAX_LENGTH)
    PROVE  /\ Terminated(text) \in Texts(MAX_LENGTH) /\ Terminated(text) # <<>>
           /\ Terminated(text)[Len(Terminated(text))] = Newline
<1>1. text \in Seq(Char) /\ Len(text) <= MAX_LENGTH /\ MAX_LENGTH \in Nat \ {0}
    BY ConsoleAssumption DEF Texts, Characters
<1>2. Newline \in Char
    BY WrittenAre, Zenon DEF Written
<1>3. CASE Len(text) < MAX_LENGTH
    <2> DEFINE more == Append(text, Newline)
    <2>1. /\ more \in Seq(Char) /\ more # <<>> /\ Len(more) = Len(text) + 1
          /\ more[Len(text) + 1] = Newline
        BY <1>1, <1>2, AppendProperties
    <2>2. Terminated(text) = more
        BY <1>3, Zenon DEF Terminated
    <2> HIDE DEF more
    <2>3. Len(more) <= MAX_LENGTH
        BY <1>1, <1>3, <2>1
    <2>4. QED
        BY <2>1, <2>2, <2>3 DEF Texts, Characters
<1>4. CASE ~(Len(text) < MAX_LENGTH)
    <2> DEFINE full == [text EXCEPT ![MAX_LENGTH] = Newline]
    <2>1. Len(text) = MAX_LENGTH
        BY <1>1, <1>4
    <2>2. MAX_LENGTH \in 1 .. Len(text)
        BY <1>1, <2>1
    <2>3. full \in Seq(Char) /\ Len(full) = MAX_LENGTH /\ full[MAX_LENGTH] = Newline
        BY <1>1, <1>2, <2>1, <2>2, ExceptSeq
    <2>4. Terminated(text) = full
        BY <1>4, Zenon DEF Terminated
    <2> HIDE DEF full
    <2>5. full # <<>>
        BY <1>1, <2>3, EmptySeq
    <2>6. QED
        BY <1>1, <2>3, <2>4, <2>5 DEF Texts, Characters
<1>5. QED
    BY <1>3, <1>4

\* The calls that the compiler lets pass are those VbprintfFits is about.
LEMMA CallPrints ==
    ASSUME NEW call \in SafeCalls
    PROVE  vbprintf(MAX_LENGTH, call.format, call.args) \in Texts(MAX_LENGTH)
<1>1. STRING \subseteq Char
    BY DEF Char
<1>2. \A s \in Seq(STRING) : s \in Characters
    BY <1>1, SeqMonotonic, Zenon DEF Characters
<1> DEFINE Given == [num : Int, str : Seq(STRING)]
           Strings == Seq(STRING)
<1>3. Given \subseteq Argument
    <2>1. \A s \in Strings : s \in Characters
        BY <1>2
    <2> HIDE DEF Strings
    <2>2. [num : Int, str : Strings] \subseteq Argument
        BY <2>1 DEF Argument
    <2>3. QED
        BY <2>2, Zenon DEF Strings
<1> HIDE DEF Given, Strings
<1>4. \A args \in Seq(Given) : args \in Arguments
    BY <1>3, SeqMonotonic, Zenon DEF Arguments
<1>5. call \in [format : Strings, args : Seq(Given), buffer : {<<>>}]
    BY Zenon DEF SafeCalls, Calls, Given, Strings
<1>6. call.format \in Strings /\ call.args \in Seq(Given)
    BY <1>5
<1>7. WellFormed(call.format, call.args)
    BY Zenon DEF SafeCalls
<1>8. MAX_LENGTH \in Nat
    BY ConsoleAssumption
<1>9. call.format \in Characters /\ call.args \in Arguments
    BY <1>2, <1>4, <1>6, Zenon DEF Strings
<1>10. QED
    BY <1>7, <1>8, <1>9, VbprintfFits, Zenon

LEMMA KprintfSound == Sound /\ Kprintf => Sound'
<1> SUFFICES ASSUME Sound, Kprintf PROVE Sound'
    OBVIOUS
<1>1. FilesRegistered /\ MessageHeld /\ LineKept /\ ScreenKept
    BY DEF Sound
<1>2. /\ calls # <<>> /\ todo = <<>> /\ calls' = Tail(calls)
      /\ UNCHANGED <<constructors, com_port, backends, at, memory, cursor, cursor_register, holding, line>>
    BY DEF Kprintf, screenVars, portVars
<1>3. FilesRegistered'
    BY <1>1, <1>2 DEF FilesRegistered
<1>4. Head(calls) \in SafeCalls /\ calls' \in Seq(SafeCalls) /\ at = 1
    BY <1>1, <1>2, HeadTailProperties DEF MessageHeld
<1>5. CASE backends = <<>>
    <2>1. UNCHANGED <<message, todo, printed>>
        BY <1>5 DEF Kprintf
    <2>2. MessageHeld'
        BY <1>1, <1>2, <1>4, <2>1 DEF MessageHeld
    <2>3. LineKept'
        BY <1>1, <1>2, <2>1, LineStays
    <2>4. ScreenKept'
        BY <1>1, <1>2, <2>1, ScreenStays
    <2>5. QED
        BY <1>3, <2>2, <2>3, <2>4 DEF Sound
<1>6. CASE backends # <<>>
    <2> DEFINE text == vbprintf(MAX_LENGTH, Head(calls).format, Head(calls).args)
               b == message'.buffer
    <2>1. /\ message' = [Head(calls) EXCEPT !.buffer = Terminated(text)]
          /\ todo' = backends
          /\ printed' = [file \in DOMAIN printed |->
                IF file \in ToSet(backends) THEN printed[file] \o b ELSE printed[file]]
        BY <1>6 DEF Kprintf
    <2>2. b = Terminated(text)
        <3>1. Head(calls) \in Calls
            BY <1>4, Zenon DEF SafeCalls
        <3> DEFINE Formats == Seq(STRING)
                   Given == Seq([num : Int, str : Seq(STRING)])
                   call == Head(calls)
        <3>2. call \in [format : Formats, args : Given, buffer : {<<>>}]
            BY <3>1, Zenon DEF Calls
        <3> HIDE DEF Formats, Given, call, text
        <3>3. message' = [call EXCEPT !.buffer = Terminated(text)]
            BY <2>1, Zenon DEF call
        <3>4. QED
            BY <3>2, <3>3
    <2>3. text \in Texts(MAX_LENGTH)
        BY <1>4, CallPrints
    <2> HIDE DEF text
    <2>4. b \in Texts(MAX_LENGTH) /\ b # <<>> /\ b[Len(b)] = Newline
        BY <2>2, <2>3, TerminatedFits
    <2>5. b \in Characters /\ 1 \in 1 .. Len(b) /\ SubSeq(b, 1, Len(b)) = b
        BY <2>4, EmptySeq, SubSeqFull DEF Texts, Characters
    <2>6. MessageHeld'
        <3>1. backends \in Seq(Files) /\ NoDuplicates(backends)
            BY <1>1 DEF FilesRegistered
        <3>2. IsEnd(backends, backends)
            BY <3>1 DEF IsEnd
        <3>3. todo' # <<>> /\ at' = 1
            BY <1>2, <1>4, <1>6, <2>1
        <3>4. QED
            BY <1>2, <1>4, <2>1, <2>4, <2>5, <3>1, <3>2, <3>3 DEF MessageHeld
    <2>7. \A file : Unwritten(file) = <<>>
        BY <1>2, NothingUnwritten
    <2>8. \A file : Unwritten(file)' = IF file \in ToSet(backends) THEN b ELSE <<>>
        <3>1. \A file : Unwritten(file)' =
                IF file \notin ToSet(todo') THEN <<>>
                ELSE IF file = Head(todo') THEN SubSeq(b, at', Len(b)) ELSE b
            BY DEF Unwritten
        <3>2. SubSeq(b, at', Len(b)) = b
            BY <1>2, <1>4, <2>5
        <3>3. QED
            BY <2>1, <3>1, <3>2
    <2>9. /\ printed \in [Files -> Characters]
          /\ \A file \in Files : printed'[file] = printed[file] \o Unwritten(file)'
          /\ printed' \in [Files -> Characters]
        <3>1. printed \in [Files -> Characters]
            BY <1>1 DEF LineKept
        <3>2. \A file \in Files :
                printed'[file] = IF file \in ToSet(backends) THEN printed[file] \o b ELSE printed[file]
            BY <2>1, <3>1
        <3>3. \A file \in Files : printed[file] \o b \in Characters
            BY <2>5, <3>1, Joined
        <3>4. printed' \in [Files -> Characters]
            BY <2>1, <3>1, <3>3
        <3>5. \A file \in Files : printed[file] \o <<>> = printed[file]
            BY <3>1, Nothing
        <3>6. QED
            BY <2>8, <3>1, <3>2, <3>4, <3>5
    <2>10. LineKept'
        <3>1. line \o holding = printed["serial"]
            <4>1. line \o holding \in Characters
                BY <1>1, Joined DEF LineKept
            <4>2. QED
                BY <1>1, <2>7, <4>1, Nothing DEF LineKept
        <3>2. QED
            BY <1>1, <1>2, <2>9, <3>1 DEF LineKept, Files
    <2>11. ScreenKept'
        <3>1. CASE "vga" \in constructors
            <4>1. "vga" \notin ToSet(backends) /\ printed["vga"] = <<>>
                BY <1>1, <3>1 DEF FilesRegistered, ScreenKept
            <4>2. printed'["vga"] = <<>>
                BY <2>8, <2>9, <4>1, Nothing DEF Files
            <4>3. QED
                BY <1>1, <1>2, <3>1, <4>2 DEF ScreenKept
        <3>2. CASE "vga" \notin constructors
            <4>1. PICK done \in Characters : /\ printed["vga"] = done \o Unwritten("vga")
                                             /\ Shows(Terminal(done), memory, cursor)
                BY <1>1, <3>2 DEF ScreenKept
            <4>2. printed["vga"] = done
                BY <2>7, <4>1, Nothing
            <4>3. printed'["vga"] = done \o Unwritten("vga")'
                BY <2>9, <4>2 DEF Files
            <4>4. QED
                BY <1>1, <1>2, <3>2, <4>1, <4>3 DEF ScreenKept
        <3>3. QED
            BY <3>1, <3>2
    <2>12. QED
        BY <1>3, <2>6, <2>10, <2>11 DEF Sound
<1>7. QED
    BY <1>5, <1>6

\* One byte less is missing from the file that gets it, and nothing changes
\* for the other.
LEMMA OneLess ==
    ASSUME MessageHeld, todo # <<>>, message' = message,
           LET last == at = Len(message.buffer) IN
            /\ todo' = IF last THEN Tail(todo) ELSE todo
            /\ at' = IF last THEN 1 ELSE at + 1,
           NEW f, f = Head(todo)
    PROVE  /\ message.buffer[at] \in Char
           /\ Unwritten(f)' \in Characters
           /\ Unwritten(f) = <<message.buffer[at]>> \o Unwritten(f)'
           /\ \A g : g # f => Unwritten(g)' = Unwritten(g)
<1> DEFINE b == message.buffer
           n == Len(b)
<1>1. b \in Seq(Char) /\ n \in Nat /\ at \in 1 .. n
    BY DEF MessageHeld, Texts, Characters
<1>2. /\ todo \in Seq(Files) /\ f \in ToSet(todo)
      /\ ToSet(Tail(todo)) = ToSet(todo) \ {f}
    BY TailKeeps DEF MessageHeld
<1>3. /\ b' = b
      /\ at = n => todo' = Tail(todo) /\ at' = 1
      /\ at # n => todo' = todo /\ at' = at + 1
    OBVIOUS
<1>4. b[at] \in Char
    BY <1>1
<1>5. SubSeq(b, at, n) = <<b[at]>> \o SubSeq(b, at + 1, n)
    BY <1>1, SubSeqRecursiveFirst
<1>6. SubSeq(b, 1, n) = b
    BY <1>1, SubSeqFull
<1>7. SubSeq(b, at + 1, n) \in Seq(Char)
    <2>1. at + 1 \in Int /\ n \in Int /\ \A i \in at + 1 .. n : b[i] \in Char
        BY <1>1
    <2>2. QED
        BY <2>1, SubSeqProperties
<1>8. at = n => SubSeq(b, at + 1, n) = <<>>
    <2>1. SUFFICES ASSUME at = n PROVE SubSeq(b, at + 1, n) = <<>>
        OBVIOUS
    <2>2. at + 1 \in Int /\ n \in Int /\ n < at + 1
        BY <1>1, <2>1
    <2>3. QED
        BY <2>2, SubSeqEmpty
<1> HIDE DEF b, n
<1>9. /\ \A g : Unwritten(g) =
                IF g \notin ToSet(todo) THEN <<>>
                ELSE IF g = f THEN SubSeq(b, at, n) ELSE b
      /\ \A g : Unwritten(g)' =
                IF g \notin ToSet(todo') THEN <<>>
                ELSE IF g = Head(todo') THEN SubSeq(b', at', Len(b')) ELSE b'
    BY DEF Unwritten, b, n
<1>10. Unwritten(f) = SubSeq(b, at, n)
    BY <1>2, <1>9
<1>11. Unwritten(f)' = SubSeq(b, at + 1, n)
    <2>1. CASE at = n
        BY <1>2, <1>3, <1>8, <1>9, <2>1
    <2>2. CASE at # n
        <3>1. Len(b') = n
            BY <1>3 DEF n
        <3>2. QED
            BY <1>2, <1>3, <1>9, <2>2, <3>1
    <2>3. QED
        BY <2>1, <2>2
<1>12. ASSUME NEW g, g # f
       PROVE  Unwritten(g)' = Unwritten(g)
    <2>1. Len(b') = n
        BY <1>3 DEF n
    <2>2. CASE at = n
        <3>1. g \in ToSet(todo') <=> g \in ToSet(todo)
            BY <1>2, <1>3, <1>12, <2>2
        <3>2. SubSeq(b', at', Len(b')) = b
            BY <1>3, <1>6, <2>1, <2>2
        <3>3. QED
            BY <1>3, <1>9, <1>12, <3>1, <3>2
    <2>3. CASE at # n
        BY <1>3, <1>9, <1>12, <2>3
    <2>4. QED
        BY <2>2, <2>3
<1>13. QED
    BY <1>4, <1>5, <1>7, <1>10, <1>11, <1>12 DEF b, Characters

\* The files that are left are the last ones, again.
LEMMA EndOfEnd ==
    ASSUME NEW s \in Seq(Files), s # <<>>, NEW t \in Seq(Files), IsEnd(s, t)
    PROVE  IsEnd(Tail(s), t)
<1>1. /\ Len(Tail(s)) = Len(s) - 1 /\ Len(s) \in Nat \ {0} /\ Len(t) \in Nat
      /\ \A i \in 1 .. Len(Tail(s)) : Tail(s)[i] = s[i + 1]
    BY HeadTailProperties, EmptySeq
<1>2. Len(s) <= Len(t) /\ \A k \in 1 .. Len(s) : s[k] = t[k + (Len(t) - Len(s))]
    BY DEF IsEnd
<1>3. ASSUME NEW k \in 1 .. Len(s) - 1
      PROVE  Tail(s)[k] = t[k + (Len(t) - (Len(s) - 1))]
    <2>1. k + 1 \in 1 .. Len(s) /\ (k + 1) + (Len(t) - Len(s)) = k + (Len(t) - (Len(s) - 1))
        BY <1>1
    <2>2. QED
        BY <1>1, <1>2, <2>1
<1>4. QED
    BY <1>1, <1>2, <1>3 DEF IsEnd

LEMMA WriteByteSound == Sound /\ WriteByte => Sound'
<1> SUFFICES ASSUME Sound, WriteByte PROVE Sound'
    OBVIOUS
<1>1. PICK f : f = Head(todo)
    OBVIOUS
<1>2. PICK b : b = message.buffer[at]
    OBVIOUS
<1>3. FilesRegistered /\ MessageHeld /\ LineKept /\ ScreenKept
    BY DEF Sound
<1>4. /\ todo # <<>>
      /\ \/ f = "vga" /\ vga_write_byte(b)
         \/ f = "serial" /\ serial_write_byte(b)
      /\ UNCHANGED <<calls, constructors, com_port, backends, message, printed>>
    BY <1>1, <1>2 DEF WriteByte
<1>5. LET last == at = Len(message.buffer) IN
        /\ todo' = IF last THEN Tail(todo) ELSE todo
        /\ at' = IF last THEN 1 ELSE at + 1
    BY DEF WriteByte
<1>6. FilesRegistered'
    BY <1>3, <1>4 DEF FilesRegistered
<1>7. MessageHeld'
    <2>1. /\ todo \in Seq(Files) /\ NoDuplicates(todo) /\ IsEnd(todo, backends)
          /\ at \in 1 .. Len(message.buffer) /\ backends \in Seq(Files)
        BY <1>3, <1>4 DEF MessageHeld, FilesRegistered
    <2>2. Tail(todo) \in Seq(Files) /\ NoDuplicates(Tail(todo)) /\ IsEnd(Tail(todo), backends)
        BY <1>4, <2>1, TailKeeps, EndOfEnd
    <2>3. message.buffer \in Characters /\ Len(message.buffer) \in Nat
        BY <1>3 DEF MessageHeld, Texts, Characters
    <2>4. todo' \in Seq(Files) /\ NoDuplicates(todo') /\ IsEnd(todo', backends)
        BY <1>5, <2>1, <2>2
    <2>5. IF todo' = <<>> THEN at' = 1 ELSE at' \in 1 .. Len(message.buffer)
        <3>1. CASE at = Len(message.buffer)
            BY <1>5, <2>1, <3>1
        <3>2. CASE at # Len(message.buffer)
            BY <1>4, <1>5, <2>1, <2>3, <3>2
        <3>3. QED
            BY <3>1, <3>2
    <2>6. QED
        BY <1>3, <1>4, <2>4, <2>5 DEF MessageHeld
<1>8. /\ b \in Char /\ Unwritten(f)' \in Characters
      /\ Unwritten(f) = <<b>> \o Unwritten(f)'
      /\ \A g : g # f => Unwritten(g)' = Unwritten(g)
    BY <1>1, <1>3, <1>4, <1>5, <1>2, OneLess
<1>9. <<b>> \in Characters
    BY <1>8 DEF Characters
<1>10. ASSUME NEW s \in Characters
      PROVE  s \o Unwritten(f) = (s \o <<b>>) \o Unwritten(f)'
    <2>1. PICK u : u = Unwritten(f)'
        OBVIOUS
    <2>2. (s \o <<b>>) \o u = s \o (<<b>> \o u)
        BY <1>8, <1>9, <2>1, ConcatAssociative DEF Characters
    <2>3. QED
        BY <1>8, <2>1, <2>2
<1>11. f \in ToSet(backends)
    <2>1. /\ todo \in Seq(Files) /\ IsEnd(todo, backends) /\ backends \in Seq(Files)
        BY <1>3 DEF MessageHeld, FilesRegistered
    <2>2. Len(todo) \in Nat \ {0} /\ Len(backends) \in Nat /\ f = todo[1]
        BY <1>1, <1>4, <2>1, EmptySeq
    <2>3. f = backends[1 + (Len(backends) - Len(todo))] /\ Len(todo) <= Len(backends)
        BY <2>1, <2>2 DEF IsEnd
    <2>4. 1 + (Len(backends) - Len(todo)) \in DOMAIN backends
        BY <2>1, <2>2, <2>3
    <2>5. QED
        BY <2>3, <2>4 DEF ToSet
<1>12. CASE f = "vga" /\ vga_write_byte(b)
    <2>1. UNCHANGED <<holding, line>>
        BY <1>12 DEF vga_write_byte, portVars
    <2>2. Unwritten("serial")' = Unwritten("serial")
        BY <1>8, <1>12
    <2>3. LineKept'
        BY <1>3, <1>4, <2>1, <2>2 DEF LineKept
    <2>4. "vga" \notin constructors
        BY <1>3, <1>11, <1>12 DEF FilesRegistered
    <2>5. PICK done \in Characters : /\ printed["vga"] = done \o Unwritten("vga")
                                     /\ Shows(Terminal(done), memory, cursor)
        BY <1>3, <2>4 DEF ScreenKept
    <2>6. /\ Append(done, b) \in Characters
          /\ Shows(Terminal(Append(done, b)), memory', cursor')
          /\ Colored(memory') /\ cursor_register' = cursor'
        BY <1>3, <1>8, <1>12, <2>4, <2>5, WriteShows DEF ScreenKept
    <2>7. Append(done, b) = done \o <<b>>
        BY <1>8, AppendIsConcat DEF Characters
    <2>8. printed'["vga"] = Append(done, b) \o Unwritten("vga")'
        BY <1>4, <1>10, <1>12, <2>5, <2>7
    <2>9. ScreenKept'
        BY <1>4, <2>4, <2>6, <2>8 DEF ScreenKept
    <2>10. QED
        BY <1>6, <1>7, <2>3, <2>9 DEF Sound
<1>13. CASE f = "serial" /\ serial_write_byte(b)
    <2>1. holding = <<>> /\ holding' = <<b>> /\ UNCHANGED <<line, memory, cursor, cursor_register>>
        BY <1>13 DEF serial_write_byte, screenVars
    <2>2. line \in Characters /\ line \o holding = line
        BY <1>3, <2>1, Nothing DEF LineKept
    <2>3. line \o Unwritten("serial") = printed["serial"]
        BY <1>3, <2>2 DEF LineKept
    <2>4. (line \o <<b>>) \o Unwritten("serial")' = printed["serial"]
        BY <1>10, <1>13, <2>2, <2>3
    <2>5. LineKept'
        BY <1>3, <1>4, <1>9, <2>1, <2>4 DEF LineKept
    <2>6. Unwritten("vga")' = Unwritten("vga")
        BY <1>8, <1>13
    <2>7. ScreenKept'
        BY <1>3, <1>4, <2>1, <2>6 DEF ScreenKept
    <2>8. QED
        BY <1>6, <1>7, <2>5, <2>7 DEF Sound
<1>14. QED
    BY <1>4, <1>12, <1>13

-----------------------------------------------------------------------------
(* The theorems. *)

LEMMA NextSound == Sound /\ [Next]_vars => Sound'
<1> SUFFICES ASSUME Sound, [Next]_vars PROVE Sound'
    OBVIOUS
<1>1. CASE VgaConstructor
    BY <1>1, VgaConstructorSound
<1>2. CASE SerialConstructor
    BY <1>2, SerialConstructorSound
<1>3. CASE Kprintf
    BY <1>3, KprintfSound
<1>4. CASE WriteByte
    BY <1>4, WriteByteSound
<1>5. CASE PortSends
    BY <1>5, PortSendsSound
<1>6. CASE UNCHANGED vars
    <2>1. UNCHANGED <<calls, constructors, com_port, backends, message, todo, at, printed>>
        BY <1>6 DEF vars
    <2>2. UNCHANGED <<memory, cursor, cursor_register, holding, line>>
        BY <1>6 DEF vars
    <2>3. FilesRegistered /\ MessageHeld /\ LineKept /\ ScreenKept
        BY DEF Sound
    <2>4. FilesRegistered' /\ MessageHeld'
        BY <2>1, <2>3 DEF FilesRegistered, MessageHeld
    <2>5. LineKept' /\ ScreenKept'
        BY <2>1, <2>2, <2>3, LineStays, ScreenStays
    <2>6. QED
        BY <2>4, <2>5 DEF Sound
<1>7. QED
    BY <1>1, <1>2, <1>3, <1>4, <1>5, <1>6 DEF Next

\* The inductive invariant holds in every state: what was registered, the
\* message and the place in it, the serial line and the screen go together.
THEOREM AlwaysSound == Spec => []Sound
<1>1. Init => Sound
    BY InitSound
<1>2. Sound /\ [Next]_vars => Sound'
    BY NextSound
<1>3. QED
    BY <1>1, <1>2, PTL DEF Spec

\* The message in the buffer of kprintf is at most MAX_LENGTH characters and
\* ends its line, whatever was printed: vbprintf stops in time at every place
\* where a conversion may be cut off, and the newline replaces a character
\* when there is no room left.
THEOREM MessageFitsBuffer == Spec => []FitsBuffer
<1>1. Sound => FitsBuffer
    BY DEF Sound, MessageHeld, Texts, FitsBuffer, Last
<1>2. QED
    BY <1>1, AlwaysSound, PTL

LEMMA SuffixOfBackends ==
    ASSUME NEW s \in Seq(Files), NEW t \in Seq(Files), IsEnd(s, t)
    PROVE  IsSuffix(s, t)
<1> DEFINE a == Reverse(s)
           b == Reverse(t)
           n == Len(s)
           m == Len(t)
<1>1. /\ n \in Nat /\ m \in Nat /\ n <= m
      /\ DOMAIN s = 1 .. n /\ DOMAIN t = 1 .. m
      /\ \A k \in 1 .. n : s[k] = t[k + (m - n)] /\ s[k] \in Files
      /\ \A k \in 1 .. m : t[k] \in Files
    BY DEF IsEnd
<1>2. /\ a = [i \in 1 .. n |-> s[(n - i) + 1]]
      /\ b = [i \in 1 .. m |-> t[(m - i) + 1]]
    BY DEF Reverse
<1> HIDE DEF a, b, n, m
<1>3. /\ \A i \in 1 .. n : (n - i) + 1 \in 1 .. n /\ ((n - i) + 1) + (m - n) = (m - i) + 1
      /\ \A i \in 1 .. m : (m - i) + 1 \in 1 .. m
    BY <1>1
<1>4. a \in [1 .. n -> Files] /\ b \in [1 .. m -> Files]
    BY <1>1, <1>2, <1>3
<1>5. a \in Seq(Files) /\ b \in Seq(Files) /\ Len(a) = n /\ Len(b) = m
    BY <1>1, <1>4
<1>6. \A i \in 1 .. n : a[i] = b[i]
    <2>1. SUFFICES ASSUME NEW i \in 1 .. n PROVE a[i] = b[i]
        OBVIOUS
    <2>2. a[i] = s[(n - i) + 1] /\ i \in 1 .. m
        BY <1>1, <1>2
    <2>3. b[i] = t[(m - i) + 1]
        BY <1>2, <2>2
    <2>4. s[(n - i) + 1] = t[((n - i) + 1) + (m - n)]
        BY <1>1, <1>3
    <2>5. QED
        BY <1>3, <2>2, <2>3, <2>4
<1>7. SubSeq(a, 1, n) = a
    BY <1>5, SubSeqFull
<1>8. SubSeq(b, 1, n) = a
    <2> DEFINE c == SubSeq(b, 1, n)
    <2>1. 1 \in Int /\ n \in Int /\ \A i \in 1 .. n : b[i] \in Files
        BY <1>1, <1>4
    <2>2. /\ c \in Seq(Files) /\ Len(c) = IF 1 <= n THEN n - 1 + 1 ELSE 0
          /\ \A i \in 1 .. n - 1 + 1 : c[i] = b[1 + i - 1]
        BY <2>1, SubSeqProperties
    <2> HIDE DEF c
    <2>3. Len(c) = n /\ \A i \in 1 .. n : c[i] = b[i]
        BY <1>1, <2>2
    <2>4. c = a
        BY <1>5, <1>6, <2>2, <2>3, SeqEqual
    <2>5. QED
        BY <2>4 DEF c
<1>9. IsPrefix(a, b)
    BY <1>1, <1>5, <1>7, <1>8 DEF IsPrefix
<1>10. QED
    BY <1>9 DEF IsSuffix, a, b

\* The structures of the drivers are sound, nothing is lost on the serial line,
\* and the screen keeps its color and its cursor.
THEOREM ConsoleIsSound == Spec => []ConsoleInvariant
<1>1. Sound => ConsoleInvariant
    <2> SUFFICES ASSUME Sound PROVE ConsoleInvariant
        OBVIOUS
    <2>1. FilesRegistered /\ MessageHeld /\ LineKept /\ ScreenKept
        BY DEF Sound
    <2>2. /\ constructors \subseteq {"vga", "serial"} /\ com_port \in BOOLEAN
          /\ ToSet(backends) \subseteq {"vga", "serial"} /\ IsInjective(backends)
        BY <2>1 DEF FilesRegistered, Files, NoDuplicates, IsInjective, ToSet
    <2>3. IsSuffix(todo, backends)
        BY <2>1, SuffixOfBackends DEF FilesRegistered, MessageHeld
    <2>4. at \in 1 .. Len(message.buffer) + 1
        <3>1. Len(message.buffer) \in Nat
            BY <2>1 DEF MessageHeld, Texts, Characters
        <3>2. IF todo = <<>> THEN at = 1 ELSE at \in 1 .. Len(message.buffer)
            BY <2>1 DEF MessageHeld
        <3>3. QED
            BY <3>1, <3>2
    <2>5. cursor \in 0 .. VGA_CELLS - 1 /\ IsMemory(memory)
        <3>1. CASE "vga" \in constructors
            <4>1. VGA_CELLS - 1 \in Nat
                BY CellsAre
            <4>2. QED
                BY <2>1, <3>1, <4>1 DEF ScreenKept
        <3>2. CASE "vga" \notin constructors
            <4>1. PICK done \in Characters : Shows(Terminal(done), memory, cursor)
                BY <2>1, <3>2 DEF ScreenKept
            <4>2. QED
                BY <4>1, CursorIs DEF Shows, Terminals
        <3>3. QED
            BY <3>1, <3>2
    <2>6. TypeOK
        BY <2>2, <2>3, <2>4, <2>5 DEF TypeOK, IsMemory
    <2>7. NothingLost
        BY <2>1 DEF LineKept, NothingLost
    <2>8. ScreenSound
        BY <2>1 DEF ScreenKept, ScreenSound, Colored
    <2>9. QED
        BY <2>6, <2>7, <2>8 DEF ConsoleInvariant
<1>2. QED
    BY <1>1, AlwaysSound, PTL

\* Between two messages the screen shows the last rows of all that was
\* printed, and the cursor where the next character goes: over scrolling, lines
\* that wrap, returns and backspaces.
THEOREM ScreenIsTail == Spec => []ScreenShowsTail
<1>1. Sound => ScreenShowsTail
    <2> DEFINE t == Terminal(printed["vga"])
               n == Len(t.rows)
    <2>1. SUFFICES ASSUME Sound, "vga" \in ToSet(backends), todo = <<>>
                   PROVE  LET above == Max({0, n - VGA_ROWS}) IN
                          /\ \A row \in 1 .. VGA_ROWS, column \in 1 .. VGA_COLUMNS :
                                memory[CharacterOf((row - 1) * VGA_COLUMNS + column - 1)] =
                                    IF above + row <= n THEN t.rows[above + row][column] ELSE Blank
                          /\ cursor = (n - above - 1) * VGA_COLUMNS + t.column
        BY DEF ScreenShowsTail
    <2>2. FilesRegistered /\ ScreenKept
        BY <2>1 DEF Sound
    <2>3. "vga" \notin constructors
        BY <2>1, <2>2 DEF FilesRegistered
    <2>4. PICK done \in Characters : /\ printed["vga"] = done \o Unwritten("vga")
                                     /\ Shows(Terminal(done), memory, cursor)
        BY <2>2, <2>3 DEF ScreenKept
    <2>5. printed["vga"] = done
        BY <2>1, <2>4, NothingUnwritten, Nothing
    <2>6. Shows(t, memory, cursor)
        BY <2>4, <2>5
    <2> HIDE DEF t
    <2>7. t.rows \in Rows /\ ShowsRows(t.rows, memory) /\ cursor = CursorOf(t.rows, t.column)
        BY <2>6 DEF Shows, Terminals
    <2>8. n \in Nat /\ VGA_ROWS \in Nat
        BY <2>7, RowsAre, CellsAre
    <2>9. Max({0, n - VGA_ROWS}) = Above(n)
        BY <2>8, MaxOfZero DEF Above
    <2>10. \A row \in 1 .. VGA_ROWS, column \in 1 .. VGA_COLUMNS :
            Cell(row, column) = (row - 1) * VGA_COLUMNS + column - 1
        BY CellsAre DEF Cell
    <2>11. QED
        BY <2>7, <2>9, <2>10 DEF ShowsRows, CursorOf
<1>2. QED
    BY <1>1, AlwaysSound, PTL
=============================================================================
