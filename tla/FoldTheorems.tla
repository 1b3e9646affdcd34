---------------------------- MODULE FoldTheorems -----------------------------
(***************************************************************************)
(* What a fold over a sequence computes, for any operator Op of two        *)
(* parameters, the value so far and an element.  A module of proofs takes  *)
(* an instance of this one for each fold it is about.                      *)
(***************************************************************************)
EXTENDS ListsTheorems

CONSTANT Op(_, _, _, _)

\* The loop of Op over a sequence.
Loop(x, y, base, s) == FoldLeft(LAMBDA value, e : Op(x, y, value, e), base, s)

\* What the loop has for a set of positions of s, the last of them last.
Iterated(g, x, y, base, s, I) ==
    g = [S \in SUBSET I |->
            IF S = {} THEN base ELSE Op(x, y, g[S \ {Max(S)}], s[Max(S)])]

LEMMA LoopIs ==
    ASSUME NEW x, NEW y, NEW base, NEW s
    PROVE  Loop(x, y, base, s) = (CHOOSE g : Iterated(g, x, y, base, s, DOMAIN s))[DOMAIN s]
BY Zenon DEF Loop, FoldLeft, MapThenFoldSet, Iterated

\* There is such a function for the first n positions.
LEMMA IteratedExists ==
    ASSUME NEW x, NEW y, NEW base, NEW s, NEW n \in Nat
    PROVE  \E g : Iterated(g, x, y, base, s, 1 .. n)
<1> DEFINE N == {m \in Nat : \E g : Iterated(g, x, y, base, s, 1 .. m)}
<1>1. 0 \in N
    <2> DEFINE g == [S \in SUBSET (1 .. 0) |-> base]
    <2>1. SUBSET (1 .. 0) = {{}}
        <3>1. 1 .. 0 = {}
            OBVIOUS
        <3>2. QED
            BY <3>1, Zenon
    <2>2. Iterated(g, x, y, base, s, 1 .. 0)
        BY <2>1, Zenon DEF Iterated
    <2>3. QED
        BY <2>2, Zenon
<1>2. ASSUME NEW m \in Nat, m \in N
      PROVE  m + 1 \in N
    <2>1. PICK g : Iterated(g, x, y, base, s, 1 .. m)
        BY <1>2, Zenon
    <2> DEFINE k == m + 1
               h == [S \in SUBSET (1 .. k) |->
                        IF k \in S THEN Op(x, y, g[S \ {k}], s[k]) ELSE g[S]]
               other == [S \in SUBSET (1 .. k) |->
                        IF S = {} THEN base ELSE Op(x, y, h[S \ {Max(S)}], s[Max(S)])]
    <2>2. ASSUME NEW S \in SUBSET (1 .. k)
          PROVE  h[S] = IF S = {} THEN base ELSE Op(x, y, h[S \ {Max(S)}], s[Max(S)])
        <3>1. CASE S = {}
            <4>1. {} \in SUBSET (1 .. m) /\ k \notin S
                BY <3>1, Zenon
            <4>2. g[{}] = base
                BY <2>1, <4>1, Zenon DEF Iterated
            <4>3. QED
                BY <3>1, <4>1, <4>2, Zenon
        <3>2. CASE k \in S
            <4>1. S \in SUBSET (0 .. k) /\ S # {} /\ k \in Nat
                BY <3>2
            <4>2. Max(S) \in S /\ \A e \in S : e <= Max(S)
                BY <4>1, MaxIsGreatest
            <4>3. Max(S) \in 1 .. k /\ k <= Max(S)
                BY <3>2, <4>2
            <4>4. Max(S) = k
                BY <4>3
            <4>5. S \ {k} \in SUBSET (1 .. k) /\ k \notin S \ {k}
                OBVIOUS
            <4>6. h[S \ {k}] = g[S \ {k}]
                BY <4>5, Zenon
            <4>7. h[S] = Op(x, y, g[S \ {k}], s[k])
                BY <3>2, Zenon
            <4>8. QED
                BY <4>1, <4>4, <4>6, <4>7, Zenon
        <3>3. CASE k \notin S /\ S # {}
            <4>1. S \in SUBSET (0 .. k) /\ S # {} /\ k \in Nat
                BY <3>3
            <4>2. Max(S) \in S
                BY <4>1, MaxIsGreatest
            <4>3. S \in SUBSET (1 .. m)
                BY <3>3
            <4>4. S \ {Max(S)} \in SUBSET (1 .. k) /\ k \notin S \ {Max(S)}
                BY <3>3, Zenon
            <4>5. h[S \ {Max(S)}] = g[S \ {Max(S)}] /\ h[S] = g[S]
                BY <3>3, <4>4, Zenon
            <4>6. g[S] = Op(x, y, g[S \ {Max(S)}], s[Max(S)])
                BY <2>1, <3>3, <4>3, Zenon DEF Iterated
            <4>7. QED
                BY <3>3, <4>5, <4>6, Zenon
        <3>4. QED
            BY <3>1, <3>2, <3>3, Zenon
    <2>3. h = other
        BY <2>2, Zenon
    <2> HIDE DEF h
    <2>4. Iterated(h, x, y, base, s, 1 .. k)
        BY <2>3, Zenon DEF Iterated
    <2>5. k \in Nat
        OBVIOUS
    <2>6. QED
        BY <2>4, <2>5, Zenon
<1> HIDE DEF N
<1>3. Nat \subseteq N
    BY <1>1, <1>2, StepInduction
<1>4. QED
    BY <1>3, Zenon DEF N

\* Two such functions agree where the sequences do.
LEMMA IteratedAgrees ==
    ASSUME NEW x, NEW y, NEW base, NEW s, NEW t, NEW n \in Nat, NEW k \in Nat, n <= k,
           \A i \in 1 .. n : s[i] = t[i],
           NEW g, Iterated(g, x, y, base, s, 1 .. n),
           NEW h, Iterated(h, x, y, base, t, 1 .. k)
    PROVE  g[1 .. n] = h[1 .. n]
<1> DEFINE N == {m \in Nat : m <= n => \A S \in SUBSET (1 .. m) : g[S] = h[S]}
<1>1. ASSUME NEW S \in SUBSET (1 .. n)
      PROVE  /\ g[S] = IF S = {} THEN base ELSE Op(x, y, g[S \ {Max(S)}], s[Max(S)])
             /\ h[S] = IF S = {} THEN base ELSE Op(x, y, h[S \ {Max(S)}], t[Max(S)])
    <2>1. S \in SUBSET (1 .. k)
        OBVIOUS
    <2>2. QED
        BY <2>1, Zenon DEF Iterated
<1>2. 0 \in N
    <2>1. ASSUME NEW S \in SUBSET (1 .. 0)
          PROVE  S = {}
        OBVIOUS
    <2>2. {} \in SUBSET (1 .. n)
        OBVIOUS
    <2>3. g[{}] = h[{}]
        BY <1>1, <2>2, Zenon
    <2>4. QED
        BY <2>1, <2>3, Zenon
<1>3. ASSUME NEW m \in Nat, m \in N
      PROVE  m + 1 \in N
    <2>1. ASSUME m + 1 <= n, NEW S \in SUBSET (1 .. m + 1), S # {}
          PROVE  g[S] = h[S]
        <3>1. S \in SUBSET (0 .. m + 1) /\ S \in SUBSET (1 .. n) /\ m + 1 \in Nat
            BY <2>1
        <3>2. Max(S) \in S /\ \A e \in S : e <= Max(S)
            BY <2>1, <3>1, MaxIsGreatest
        <3>3. \A e \in S \ {Max(S)} : e \in 1 .. m
            <4>1. ASSUME NEW e \in S, NEW top \in S, e <= top, e # top
                  PROVE  e \in 1 .. m
                BY <4>1
            <4>2. QED
                BY <3>2, <4>1
        <3>4. g[S \ {Max(S)}] = h[S \ {Max(S)}]
            BY <1>3, <2>1, <3>3
        <3>5. s[Max(S)] = t[Max(S)]
            BY <3>1, <3>2, Zenon
        <3>6. QED
            BY <1>1, <2>1, <3>1, <3>4, <3>5, Zenon
    <2>2. ASSUME m + 1 <= n
          PROVE  g[{}] = h[{}]
        BY <1>1, Zenon
    <2>3. m + 1 \in Nat
        OBVIOUS
    <2>4. QED
        BY <2>1, <2>2, <2>3, Zenon
<1> HIDE DEF N
<1>4. Nat \subseteq N
    BY <1>2, <1>3, StepInduction
<1>5. n \in N /\ n <= n /\ 1 .. n \in SUBSET (1 .. n)
    BY <1>4
<1>6. QED
    BY <1>5, Zenon DEF N

\* The loop over no element.
LEMMA LoopOverNone ==
    ASSUME NEW x, NEW y, NEW base
    PROVE  Loop(x, y, base, <<>>) = base
<1>1. DOMAIN <<>> = 1 .. 0 /\ 1 .. 0 = {}
    OBVIOUS
<1> DEFINE g == CHOOSE f : Iterated(f, x, y, base, <<>>, 1 .. 0)
<1>2. \E f : Iterated(f, x, y, base, <<>>, 1 .. 0)
    BY IteratedExists
<1>3. Iterated(g, x, y, base, <<>>, 1 .. 0)
    BY <1>2, Zenon
<1> HIDE DEF g
<1>4. g[{}] = base
    <2>1. {} \in SUBSET (1 .. 0)
        OBVIOUS
    <2>2. QED
        BY <1>3, <2>1, Zenon DEF Iterated
<1>5. Loop(x, y, base, <<>>) = g[1 .. 0]
    BY <1>1, LoopIs, Zenon DEF g
<1>6. QED
    BY <1>1, <1>4, <1>5, Zenon

\* The last iteration.
LEMMA LoopLast ==
    ASSUME NEW x, NEW y, NEW base, NEW s, NEW n \in Nat, DOMAIN s = 1 .. n + 1,
           NEW r, DOMAIN r = 1 .. n, \A i \in 1 .. n : r[i] = s[i]
    PROVE  Loop(x, y, base, s) = Op(x, y, Loop(x, y, base, r), s[n + 1])
<1> DEFINE g == CHOOSE f : Iterated(f, x, y, base, r, 1 .. n)
           h == CHOOSE f : Iterated(f, x, y, base, s, 1 .. n + 1)
<1>1. Iterated(g, x, y, base, r, 1 .. n)
    <2>1. \E f : Iterated(f, x, y, base, r, 1 .. n)
        BY IteratedExists
    <2>2. QED
        BY <2>1, Zenon
<1>2. Iterated(h, x, y, base, s, 1 .. n + 1)
    <2>1. n + 1 \in Nat
        OBVIOUS
    <2>2. \E f : Iterated(f, x, y, base, s, 1 .. n + 1)
        BY <2>1, IteratedExists
    <2>3. QED
        BY <2>2, Zenon
<1>3. Loop(x, y, base, r) = g[1 .. n] /\ Loop(x, y, base, s) = h[1 .. n + 1]
    BY LoopIs, Zenon
<1> HIDE DEF g, h
<1>4. g[1 .. n] = h[1 .. n]
    BY <1>1, <1>2, IteratedAgrees
<1> DEFINE S == 1 .. n + 1
<1>5. Max(S) = n + 1 /\ S # {} /\ S \ {n + 1} = 1 .. n
    <2>1. S \in SUBSET (0 .. n + 1) /\ S # {} /\ n + 1 \in Nat /\ n + 1 \in S
        OBVIOUS
    <2>2. Max(S) \in S /\ \A e \in S : e <= Max(S)
        BY <2>1, MaxIsGreatest
    <2>3. Max(S) = n + 1
        BY <2>1, <2>2
    <2>4. QED
        BY <2>1, <2>3
<1>6. h[S] = Op(x, y, h[S \ {Max(S)}], s[Max(S)])
    <2>1. S \in SUBSET (1 .. n + 1)
        OBVIOUS
    <2>2. QED
        BY <1>2, <1>5, <2>1, Zenon DEF Iterated
<1>7. QED
    BY <1>3, <1>4, <1>5, <1>6, Zenon

\* One more element is one more iteration, the last one.
LEMMA LoopOverAppended ==
    ASSUME NEW x, NEW y, NEW base, NEW V, NEW s \in Seq(V), NEW e
    PROVE  Loop(x, y, base, Append(s, e)) = Op(x, y, Loop(x, y, base, s), e)
<1> DEFINE t == Append(s, e)
<1>1. /\ Len(s) \in Nat /\ DOMAIN s = 1 .. Len(s) /\ DOMAIN t = 1 .. Len(s) + 1
      /\ \A i \in 1 .. Len(s) : s[i] = t[i]
      /\ t[Len(s) + 1] = e
    OBVIOUS
<1> HIDE DEF t
<1>2. Loop(x, y, base, t) = Op(x, y, Loop(x, y, base, s), t[Len(s) + 1])
    BY <1>1, LoopLast
<1>3. QED
    BY <1>1, <1>2, Zenon DEF t

\* A sequence of n elements.
IsSequence(s, n) == DOMAIN s = 1 .. n /\ s = [i \in 1 .. n |-> s[i]]

\* The values the loop goes through, from the base to the result.
Runs(run, x, y, base, s, n) ==
    /\ DOMAIN run = 0 .. n /\ run[0] = base
    /\ \A k \in 1 .. n : run[k] = Op(x, y, run[k - 1], s[k])
    /\ run[n] = Loop(x, y, base, s)

LEMMA LoopRuns ==
    ASSUME NEW x, NEW y, NEW base, NEW n \in Nat, NEW s, IsSequence(s, n)
    PROVE  \E run : Runs(run, x, y, base, s, n)
<1> DEFINE first(k) == [i \in 1 .. k |-> s[i]]
           run == [k \in 0 .. n |-> Loop(x, y, base, first(k))]
<1>1. run[0] = base
    <2>1. first(0) = <<>>
        OBVIOUS
    <2>2. 0 \in 0 .. n
        OBVIOUS
    <2>3. run[0] = Loop(x, y, base, first(0))
        BY <2>2, Zenon
    <2>4. QED
        BY <2>1, <2>3, LoopOverNone, Zenon
<1>2. ASSUME NEW k \in 1 .. n
      PROVE  run[k] = Op(x, y, run[k - 1], s[k])
    <2>1. k - 1 \in Nat /\ (k - 1) + 1 = k /\ k \in 0 .. n /\ k - 1 \in 0 .. n
        OBVIOUS
    <2>2. /\ DOMAIN first(k) = 1 .. (k - 1) + 1
          /\ DOMAIN first(k - 1) = 1 .. k - 1
          /\ \A i \in 1 .. k - 1 : first(k - 1)[i] = first(k)[i]
          /\ first(k)[(k - 1) + 1] = s[k]
        OBVIOUS
    <2> HIDE DEF first
    <2>3. Loop(x, y, base, first(k)) = Op(x, y, Loop(x, y, base, first(k - 1)), first(k)[(k - 1) + 1])
        BY <2>1, <2>2, LoopLast
    <2>4. QED
        BY <2>1, <2>2, <2>3, Zenon
<1>3. run[n] = Loop(x, y, base, s)
    <2>1. n \in 0 .. n
        OBVIOUS
    <2>2. QED
        BY <2>1, Zenon DEF IsSequence
<1>4. DOMAIN run = 0 .. n
    BY Zenon
<1> HIDE DEF run
<1>5. Runs(run, x, y, base, s, n)
    BY <1>1, <1>2, <1>3, <1>4, Zenon DEF Runs
<1>6. QED
    BY <1>5, Zenon

Follows(value, x, y, base, s, n) ==
    value[0] = base /\ \A k \in 1 .. n : value[k] = Op(x, y, value[k - 1], s[k])

\* What follows the loop step by step ends as the loop does.
LEMMA LoopFollows ==
    ASSUME NEW x, NEW y, NEW base, NEW n \in Nat, NEW s, IsSequence(s, n),
           NEW value, Follows(value, x, y, base, s, n)
    PROVE  Loop(x, y, base, s) = value[n]
<1> USE DEF Follows
<1>1. PICK run : Runs(run, x, y, base, s, n)
    <2>1. \E run : Runs(run, x, y, base, s, n)
        BY LoopRuns
    <2>2. QED
        BY <2>1, Zenon
<1> DEFINE N == {k \in Nat : k <= n => run[k] = value[k]}
<1>2. 0 \in N
    <2>1. 0 \in Nat /\ run[0] = value[0]
        BY <1>1, Zenon DEF Runs
    <2>2. QED
        BY <2>1, Zenon
<1>3. ASSUME NEW k \in Nat, k \in N
      PROVE  k + 1 \in N
    <2>1. SUFFICES ASSUME k + 1 <= n
                   PROVE  run[k + 1] = value[k + 1]
        OBVIOUS
    <2>2. k + 1 \in 1 .. n /\ (k + 1) - 1 = k /\ k <= n
        BY <2>1
    <2>3. run[k] = value[k]
        BY <1>3, <2>2
    <2>4. QED
        BY <1>1, <2>2, <2>3, Zenon DEF Runs
<1> HIDE DEF N
<1>4. Nat \subseteq N
    BY <1>2, <1>3, StepInduction
<1>5. n \in N /\ n <= n
    BY <1>4
<1>6. QED
    BY <1>1, <1>5, Zenon DEF N, Runs

\* What the loop never leaves.
LEMMA LoopStays ==
    ASSUME NEW x, NEW y, NEW base, NEW n \in Nat, NEW s, IsSequence(s, n), NEW S, base \in S,
           \A value \in S, k \in 1 .. n : Op(x, y, value, s[k]) \in S
    PROVE  Loop(x, y, base, s) \in S
<1>1. PICK run : Runs(run, x, y, base, s, n)
    <2>1. \E run : Runs(run, x, y, base, s, n)
        BY LoopRuns
    <2>2. QED
        BY <2>1, Zenon
<1> DEFINE N == {k \in Nat : k <= n => run[k] \in S}
<1>2. 0 \in N
    <2>1. 0 \in Nat /\ run[0] \in S
        BY <1>1, Zenon DEF Runs
    <2>2. QED
        BY <2>1, Zenon
<1>3. ASSUME NEW k \in Nat, k \in N
      PROVE  k + 1 \in N
    <2>1. SUFFICES ASSUME k + 1 <= n
                   PROVE  run[k + 1] \in S
        OBVIOUS
    <2>2. k + 1 \in 1 .. n /\ (k + 1) - 1 = k /\ k <= n
        BY <2>1
    <2>3. run[k] \in S
        BY <1>3, <2>2
    <2>4. run[k + 1] = Op(x, y, run[k], s[k + 1])
        BY <1>1, <2>2, Zenon DEF Runs
    <2>5. QED
        BY <2>2, <2>3, <2>4, Zenon
<1> HIDE DEF N
<1>4. Nat \subseteq N
    BY <1>2, <1>3, StepInduction
<1>5. n \in N /\ n <= n
    BY <1>4
<1>6. QED
    BY <1>1, <1>5, Zenon DEF N, Runs
=============================================================================
