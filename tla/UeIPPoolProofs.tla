---------------------------- MODULE UeIPPoolProofs ----------------------------
(***************************************************************************)
(* The lists of segments of UeIPPool hold exactly the free addresses, for  *)
(* every range and any number of sessions, and the pools implement         *)
(* AddressPool.                                                            *)
(***************************************************************************)
EXTENDS UeIPPool, FiniteSetTheorems, SequenceTheorems, WellFoundedInduction, TLAPS

\* The segments with their values; a list holds no value twice.
Seg == {g \in [first : Int, last : Int] : g.first <= g.last}
Vals(g) == g.first .. g.last
Apart(segs) == \A i, j \in 1 .. Len(segs) : i # j => Vals(segs[i]) \cap Vals(segs[j]) = {}

\* w comes before v in the order in which Allocate hands the values out.
Precedes(segs, w, v) ==
    \E i, j \in 1 .. Len(segs) :
        w \in Vals(segs[i]) /\ v \in Vals(segs[j]) /\ (i < j \/ (i = j /\ w < v))

\* The addresses the pools can assign, with the pool they belong to.
Given == {[value |-> v, static |-> TRUE] : v \in Static}
           \cup {[value |-> v, static |-> FALSE] : v \in Dynamic}

SoundPool(p, a, b) ==
    /\ p \in [first : All, last : All, segs : Seq(Seg), remain : Int]
    /\ p.first = a /\ p.last = b
    /\ Apart(p.segs)
    /\ p.remain = Cardinality(Values(p.segs))

Pools == SoundPool(stat, StaticFirst, StaticLast) /\ SoundPool(dyn, Network, Broadcast)

\* What is free is in the pool it came from.
FreeInPools ==
    /\ Values(stat.segs) = Static \ Held(TRUE)
    /\ Values(dyn.segs) = Dynamic \ Held(FALSE)

\* A session has an address of one of the pools, and no other session has it.
Owners ==
    /\ addr \in [Sessions -> Given \cup {NoAddress}]
    /\ asked \in [Sessions -> All \cup {None}]
    /\ \A s, t \in Sessions : addr[s] = addr[t] /\ addr[s] # NoAddress => s = t
    /\ old \subseteq Given
    /\ \A s \in Sessions : addr[s] \notin old

\* What was in the head when v was released is handed out before v.
Queued ==
    /\ ahead \in [All -> SUBSET All]
    /\ \A v \in All : \A w \in ahead[v] : Precedes(stat.segs, w, v) \/ Precedes(dyn.segs, w, v)

IInv == Pools /\ FreeInPools /\ Owners /\ Queued
-----------------------------------------------------------------------------
(* Lists of segments.                                                      *)

\* The list without segments.
LEMMA NoSegment ==
    /\ <<>> \in Seq(Seg) /\ Values(<<>>) = {} /\ Apart(<<>>)
    /\ \A w, v : ~Precedes(<<>>, w, v)
BY DEF Values, Apart, Precedes

\* A list of one segment.
LEMMA OneSegment ==
    ASSUME NEW g \in Seg
    PROVE  /\ <<g>> \in Seq(Seg) /\ Values(<<g>>) = Vals(g) /\ Apart(<<g>>)
           /\ \A w, v : Precedes(<<g>>, w, v) <=> w \in Vals(g) /\ v \in Vals(g) /\ w < v
<1>1. <<g>> \in Seq(Seg) /\ Len(<<g>>) = 1 /\ <<g>>[1] = g /\ DOMAIN <<g>> = {1}
    OBVIOUS
<1> DEFINE c == <<g>>
<1> HIDE DEF c
<1>2. 1 .. Len(c) = {1} /\ c[1] = g /\ DOMAIN c = {1}
    BY <1>1 DEF c
<1>3. Values(c) = Vals(g) /\ Apart(c)
    BY <1>2 DEF Values, Vals, Apart
<1>4. \A w, v : Precedes(c, w, v) <=> w \in Vals(g) /\ v \in Vals(g) /\ w < v
    BY <1>2 DEF Precedes
<1> QED BY <1>1, <1>3, <1>4 DEF c

\* The values of a list are those of its segments.
LEMMA ValuesOf ==
    ASSUME NEW A \in Seq(Seg), NEW v
    PROVE  v \in Values(A) <=> \E i \in 1 .. Len(A) : v \in Vals(A[i])
<1>1. DOMAIN A = 1 .. Len(A)
    OBVIOUS
<1> QED BY <1>1 DEF Values, Vals

\* The list c is the list A followed by the list B.
Joined(c, A, B) ==
    /\ c \in Seq(Seg)
    /\ Values(c) = Values(A) \cup Values(B)
    /\ Apart(c) <=> Apart(A) /\ Apart(B) /\ Values(A) \cap Values(B) = {}
    /\ \A w, v : Precedes(c, w, v) <=>
          \/ Precedes(A, w, v)
          \/ Precedes(B, w, v)
          \/ w \in Values(A) /\ v \in Values(B)

LEMMA Concat ==
    ASSUME NEW A \in Seq(Seg), NEW B \in Seq(Seg)
    PROVE  Joined(A \o B, A, B)
<1>1. Len(A) \in Nat /\ Len(B) \in Nat
    OBVIOUS
<1> DEFINE c == A \o B
<1>2. /\ c \in Seq(Seg) /\ Len(c) = Len(A) + Len(B)
      /\ \A i \in 1 .. Len(A) : c[i] = A[i] /\ i \in 1 .. Len(c)
      /\ \A i \in 1 .. Len(c) : i > Len(A) => c[i] = B[i - Len(A)] /\ i - Len(A) \in 1 .. Len(B)
    BY <1>1
<1>3. \A i \in 1 .. Len(B) : c[Len(A) + i] = B[i] /\ Len(A) + i \in 1 .. Len(c)
    BY <1>1
<1> HIDE DEF c
<1>4. \A v : v \in Values(c) <=> \E i \in 1 .. Len(c) : v \in Vals(c[i])
    BY <1>2, ValuesOf
<1>5. \A v : v \in Values(A) <=> \E i \in 1 .. Len(A) : v \in Vals(A[i])
    BY ValuesOf
<1>6. \A v : v \in Values(B) <=> \E i \in 1 .. Len(B) : v \in Vals(B[i])
    BY ValuesOf
<1>7. \A i \in 1 .. Len(c) : i \in 1 .. Len(A) \/ i > Len(A)
    BY <1>1, <1>2
<1>8. Values(c) = Values(A) \cup Values(B)
    <2>1. ASSUME NEW v \in Values(c) PROVE v \in Values(A) \cup Values(B)
        <3>1. PICK i \in 1 .. Len(c) : v \in Vals(c[i])
            BY <1>4
        <3>2. CASE i \in 1 .. Len(A)
            BY <3>1, <3>2, <1>2, <1>5
        <3>3. CASE i > Len(A)
            BY <3>1, <3>3, <1>2, <1>6
        <3> QED BY <3>2, <3>3, <1>7
    <2>2. ASSUME NEW v \in Values(A) PROVE v \in Values(c)
        BY <1>2, <1>4, <1>5
    <2>3. ASSUME NEW v \in Values(B) PROVE v \in Values(c)
        <3>1. PICK i \in 1 .. Len(B) : v \in Vals(B[i])
            BY <1>6
        <3>2. v \in Vals(c[Len(A) + i]) /\ Len(A) + i \in 1 .. Len(c)
            BY <3>1, <1>3
        <3> QED BY <3>2, <1>4
    <2> QED BY <2>1, <2>2, <2>3
<1>9. ASSUME Apart(c) PROVE Apart(A) /\ Apart(B) /\ Values(A) \cap Values(B) = {}
    <2>1. Apart(A)
        BY <1>9, <1>2 DEF Apart
    <2>2. Apart(B)
        <3> SUFFICES ASSUME NEW i \in 1 .. Len(B), NEW j \in 1 .. Len(B), i # j
                     PROVE  Vals(B[i]) \cap Vals(B[j]) = {}
            BY DEF Apart
        <3>1. Len(A) + i # Len(A) + j
            BY <1>1
        <3>2. Vals(c[Len(A) + i]) \cap Vals(c[Len(A) + j]) = {}
            BY <3>1, <1>3, <1>9 DEF Apart
        <3> QED BY <3>2, <1>3
    <2>3. ASSUME NEW v \in Values(A), v \in Values(B) PROVE FALSE
        <3>1. PICK i \in 1 .. Len(A) : v \in Vals(A[i])
            BY <1>5
        <3>2. PICK j \in 1 .. Len(B) : v \in Vals(B[j])
            BY <1>6, <2>3
        <3>3. i # Len(A) + j
            BY <1>1
        <3>4. Vals(c[i]) \cap Vals(c[Len(A) + j]) = {}
            BY <3>3, <1>2, <1>3, <1>9 DEF Apart
        <3> QED BY <3>1, <3>2, <3>4, <1>2, <1>3
    <2> QED BY <2>1, <2>2, <2>3
<1>10. ASSUME Apart(A), Apart(B), Values(A) \cap Values(B) = {} PROVE Apart(c)
    <2> SUFFICES ASSUME NEW i \in 1 .. Len(c), NEW j \in 1 .. Len(c), i # j, NEW v,
                        v \in Vals(c[i]), v \in Vals(c[j])
                 PROVE  FALSE
        BY DEF Apart
    <2>1. CASE i \in 1 .. Len(A) /\ j \in 1 .. Len(A)
        BY <2>1, <1>2, <1>10 DEF Apart
    <2>2. CASE i > Len(A) /\ j > Len(A)
        <3>1. i - Len(A) # j - Len(A)
            BY <1>1, <1>2
        <3> QED BY <3>1, <2>2, <1>2, <1>10 DEF Apart
    <2>3. CASE i \in 1 .. Len(A) /\ j > Len(A)
        BY <2>3, <1>2, <1>5, <1>6, <1>10
    <2>4. CASE j \in 1 .. Len(A) /\ i > Len(A)
        BY <2>4, <1>2, <1>5, <1>6, <1>10
    <2> QED BY <2>1, <2>2, <2>3, <2>4, <1>7
<1>11. ASSUME NEW w, NEW v, Precedes(c, w, v)
       PROVE  \/ Precedes(A, w, v) \/ Precedes(B, w, v)
              \/ w \in Values(A) /\ v \in Values(B)
    <2>1. PICK i \in 1 .. Len(c), j \in 1 .. Len(c) :
              w \in Vals(c[i]) /\ v \in Vals(c[j]) /\ (i < j \/ (i = j /\ w < v))
        BY <1>11 DEF Precedes
    <2>2. CASE i \in 1 .. Len(A) /\ j \in 1 .. Len(A)
        BY <2>1, <2>2, <1>2 DEF Precedes
    <2>3. CASE i > Len(A) /\ j > Len(A)
        <3>1. i - Len(A) < j - Len(A) \/ (i - Len(A) = j - Len(A) /\ w < v)
            BY <2>1, <1>1, <1>2
        <3> QED BY <3>1, <2>1, <2>3, <1>2 DEF Precedes
    <2>4. CASE i \in 1 .. Len(A) /\ j > Len(A)
        BY <2>1, <2>4, <1>2, <1>5, <1>6
    <2>5. ~(j \in 1 .. Len(A) /\ i > Len(A))
        BY <2>1, <1>1, <1>2
    <2> QED BY <2>2, <2>3, <2>4, <2>5, <1>7
<1>12. ASSUME NEW w, NEW v, Precedes(A, w, v) PROVE Precedes(c, w, v)
    BY <1>12, <1>2 DEF Precedes
<1>13. ASSUME NEW w, NEW v, Precedes(B, w, v) PROVE Precedes(c, w, v)
    <2>1. PICK i \in 1 .. Len(B), j \in 1 .. Len(B) :
              w \in Vals(B[i]) /\ v \in Vals(B[j]) /\ (i < j \/ (i = j /\ w < v))
        BY <1>13 DEF Precedes
    <2>2. Len(A) + i < Len(A) + j \/ (Len(A) + i = Len(A) + j /\ w < v)
        BY <2>1, <1>1
    <2> QED BY <2>1, <2>2, <1>3 DEF Precedes
<1>14. ASSUME NEW w \in Values(A), NEW v \in Values(B) PROVE Precedes(c, w, v)
    <2>1. PICK i \in 1 .. Len(A) : w \in Vals(A[i])
        BY <1>5
    <2>2. PICK j \in 1 .. Len(B) : v \in Vals(B[j])
        BY <1>6
    <2>3. i < Len(A) + j
        BY <1>1
    <2> QED BY <2>1, <2>2, <2>3, <1>2, <1>3 DEF Precedes
<1> QED BY <1>2, <1>8, <1>9, <1>10, <1>11, <1>12, <1>13, <1>14 DEF c, Joined

\* Concatenation is associative.
LEMMA Associative ==
    ASSUME NEW A \in Seq(Seg), NEW B \in Seq(Seg), NEW C \in Seq(Seg)
    PROVE  (A \o B) \o C = A \o (B \o C)
BY ConcatAssociative, SMTT(60)

\* A list around its segment i.
LEMMA Around ==
    ASSUME NEW A \in Seq(Seg), NEW i \in 1 .. Len(A)
    PROVE  /\ SubSeq(A, 1, i - 1) \in Seq(Seg) /\ SubSeq(A, i + 1, Len(A)) \in Seq(Seg)
           /\ A[i] \in Seg
           /\ SubSeq(A, i, Len(A)) = <<A[i]>> \o SubSeq(A, i + 1, Len(A))
           /\ A = (SubSeq(A, 1, i - 1) \o <<A[i]>>) \o SubSeq(A, i + 1, Len(A))
<1>1. Len(A) \in Nat /\ i \in Nat /\ i >= 1 /\ i <= Len(A) /\ A[i] \in Seg
    OBVIOUS
<1>2. \A k \in 1 .. Len(A) : A[k] \in Seg
    OBVIOUS
<1> DEFINE L == SubSeq(A, 1, i - 1)
           R == SubSeq(A, i + 1, Len(A))
<1>3. L \in Seq(Seg)
    <2>1. i - 1 \in Int /\ \A k \in 1 .. i - 1 : A[k] \in Seg
        BY <1>1, <1>2
    <2> QED BY <2>1, SubSeqProperties
<1>4. R \in Seq(Seg)
    <2>1. i + 1 \in Int /\ Len(A) \in Int /\ \A k \in i + 1 .. Len(A) : A[k] \in Seg
        BY <1>1, <1>2
    <2> QED BY <2>1, SubSeqProperties
<1>5. SubSeq(A, i, Len(A)) = <<A[i]>> \o R
    <2>1. i \in 1 .. Len(A) /\ Len(A) \in i .. Len(A)
        BY <1>1
    <2> QED BY <2>1, SubSeqRecursiveFirst
<1>6. SubSeq(A, 1, i - 1) \o SubSeq(A, i, Len(A)) = SubSeq(A, 1, Len(A))
    <2>1. 1 \in 1 .. Len(A) + 1 /\ i - 1 \in 1 - 1 .. Len(A) /\ Len(A) \in i - 1 .. Len(A)
        BY <1>1
    <2>2. (i - 1) + 1 = i
        BY <1>1
    <2> QED BY <2>1, <2>2, ConcatAdjacentSubSeq
<1>7. SubSeq(A, 1, Len(A)) = A
    BY SubSeqFull
<1>8. <<A[i]>> \in Seq(Seg)
    BY <1>1
<1> HIDE DEF L, R
<1>9. (L \o <<A[i]>>) \o R = L \o (<<A[i]>> \o R)
    BY <1>3, <1>4, <1>8, Associative, Zenon
<1> QED BY <1>1, <1>3, <1>4, <1>5, <1>6, <1>7, <1>9 DEF L, R
\* Other segments N in the place of the segments M, between L and R.
Spliced(c, d, L, M, N, R) ==
    /\ d \in Seq(Seg) /\ Apart(d)
    /\ Values(c) = (Values(L) \cup Values(M)) \cup Values(R)
    /\ Values(d) = (Values(L) \cup Values(N)) \cup Values(R)
    /\ \A w, v : /\ Precedes(c, w, v)
                 /\ w \in Values(M) => w \in Values(N)
                 /\ v \in Values(M) => v \in Values(N)
                 /\ Precedes(M, w, v) => Precedes(N, w, v)
                 => Precedes(d, w, v)
    /\ \A w, v : Precedes(N, w, v) => Precedes(d, w, v)
    /\ \A w \in Values(L), v \in Values(N) : Precedes(d, w, v)

\* The parts of a list have no value in common.
LEMMA PartsApart ==
    ASSUME NEW L \in Seq(Seg), NEW M \in Seq(Seg), NEW R \in Seq(Seg), Apart((L \o M) \o R)
    PROVE  /\ Values((L \o M) \o R) = (Values(L) \cup Values(M)) \cup Values(R)
           /\ Values(M) \cap (Values(L) \cup Values(R)) = {} /\ Apart(L) /\ Apart(R)
           /\ Values(L) \cap Values(R) = {}
<1> DEFINE C == L \o M
<1>1. Joined(C, L, M)
    BY Concat
<1> HIDE DEF C
<1>2. Joined(C \o R, C, R)
    BY <1>1, Concat DEF Joined
<1>3. Apart(C \o R)
    BY DEF C
<1>4. /\ Apart(C) /\ Apart(R) /\ Apart(L)
      /\ Values(C) \cap Values(R) = {} /\ Values(L) \cap Values(M) = {}
    BY <1>1, <1>2, <1>3 DEF Joined
<1>5. Values(C) = Values(L) \cup Values(M) /\ Values(C \o R) = Values(C) \cup Values(R)
    BY <1>1, <1>2 DEF Joined
<1> QED BY <1>4, <1>5 DEF C

LEMMA Splice ==
    ASSUME NEW L \in Seq(Seg), NEW M \in Seq(Seg), NEW N \in Seq(Seg), NEW R \in Seq(Seg),
           Apart((L \o M) \o R), Apart(N), Values(N) \cap (Values(L) \cup Values(R)) = {}
    PROVE  Spliced((L \o M) \o R, (L \o N) \o R, L, M, N, R)
<1> DEFINE C == L \o M
           D == L \o N
<1>1. Joined(C, L, M)
    BY Concat
<1>2. Joined(D, L, N)
    BY Concat
<1> HIDE DEF C, D
<1>3. Joined(C \o R, C, R)
    BY <1>1, Concat DEF Joined
<1>4. Joined(D \o R, D, R)
    BY <1>2, Concat DEF Joined
<1>5. Apart(L) /\ Apart(R) /\ Values(L) \cap Values(R) = {}
    BY PartsApart
<1>6. Values(C) = Values(L) \cup Values(M) /\ Values(D) = Values(L) \cup Values(N)
    BY <1>1, <1>2 DEF Joined
<1>7. Apart(D \o R)
    <2>1. Apart(D)
        BY <1>2, <1>5 DEF Joined
    <2>2. Values(D) \cap Values(R) = {}
        BY <1>5, <1>6
    <2> QED BY <2>1, <2>2, <1>4, <1>5 DEF Joined
<1>8. /\ \A w, v : Precedes(N, w, v) => Precedes(D \o R, w, v)
      /\ \A w \in Values(L), v \in Values(N) : Precedes(D \o R, w, v)
    BY <1>2, <1>4 DEF Joined
<1>9. ASSUME NEW w, NEW v, Precedes(C \o R, w, v), w \in Values(M) => w \in Values(N),
             v \in Values(M) => v \in Values(N), Precedes(M, w, v) => Precedes(N, w, v)
      PROVE  Precedes(D \o R, w, v)
    <2>1. CASE Precedes(C, w, v)
        <3>1. Precedes(D, w, v)
            BY <2>1, <1>1, <1>2, <1>9 DEF Joined
        <3> QED BY <3>1, <1>4 DEF Joined
    <2>2. CASE Precedes(R, w, v)
        BY <2>2, <1>4 DEF Joined
    <2>3. CASE w \in Values(C) /\ v \in Values(R)
        BY <2>3, <1>4, <1>6, <1>9 DEF Joined
    <2> QED BY <2>1, <2>2, <2>3, <1>3, <1>9 DEF Joined
<1>10. /\ D \o R \in Seq(Seg)
       /\ Values(C \o R) = (Values(L) \cup Values(M)) \cup Values(R)
       /\ Values(D \o R) = (Values(L) \cup Values(N)) \cup Values(R)
    BY <1>3, <1>4, <1>6 DEF Joined
<1> QED BY <1>7, <1>8, <1>9, <1>10 DEF C, D, Spliced

\* What is left of a segment holds its other values in their order.
LEMMA MinusFacts ==
    ASSUME NEW g \in Seg, NEW a \in Int, NEW b \in Int, a <= b
    PROVE  /\ Minus(g, a, b) \in Seq(Seg)
           /\ Values(Minus(g, a, b)) = Vals(g) \ (a .. b)
           /\ Apart(Minus(g, a, b))
           /\ \A w, v \in Vals(g) \ (a .. b) : w < v => Precedes(Minus(g, a, b), w, v)
<1>1. g.first \in Int /\ g.last \in Int /\ g.first <= g.last
    BY DEF Seg
<1>2. ASSUME NEW c \in Int, NEW d \in Int
      PROVE  /\ Piece(c, d) \in Seq(Seg) /\ Values(Piece(c, d)) = c .. d /\ Apart(Piece(c, d))
             /\ \A w, v : Precedes(Piece(c, d), w, v) <=> w \in c .. d /\ v \in c .. d /\ w < v
    <2>1. CASE c <= d
        <3>1. Segment(c, d) \in Seg /\ Vals(Segment(c, d)) = c .. d
            BY <2>1 DEF Segment, Seg, Vals
        <3>2. Piece(c, d) = <<Segment(c, d)>>
            BY <2>1 DEF Piece
        <3> QED BY <3>1, <3>2, OneSegment
    <2>2. CASE ~(c <= d)
        <3>1. Piece(c, d) = <<>> /\ c .. d = {}
            BY <2>2 DEF Piece
        <3> QED BY <3>1, NoSegment
    <2> QED BY <2>1, <2>2
<1>3. CASE b < g.first \/ g.last < a
    <2>1. Minus(g, a, b) = <<g>> /\ Vals(g) = Vals(g) \ (a .. b)
        BY <1>1, <1>3 DEF Minus, Vals
    <2> QED BY <2>1, OneSegment
<1>4. CASE ~(b < g.first \/ g.last < a)
    <2> DEFINE P == Piece(g.first, a - 1)
               Q == Piece(b + 1, g.last)
    <2>1. Minus(g, a, b) = P \o Q
        BY <1>4 DEF Minus
    <2>2. /\ P \in Seq(Seg) /\ Values(P) = g.first .. a - 1 /\ Apart(P)
          /\ \A w, v : Precedes(P, w, v) <=> w \in g.first .. a - 1 /\ v \in g.first .. a - 1 /\ w < v
        <3>1. a - 1 \in Int
            OBVIOUS
        <3> QED BY <1>1, <1>2, <3>1
    <2>3. /\ Q \in Seq(Seg) /\ Values(Q) = b + 1 .. g.last /\ Apart(Q)
          /\ \A w, v : Precedes(Q, w, v) <=> w \in b + 1 .. g.last /\ v \in b + 1 .. g.last /\ w < v
        <3>1. b + 1 \in Int
            OBVIOUS
        <3> QED BY <1>1, <1>2, <3>1
    <2> HIDE DEF P, Q
    <2>4. Values(P) \cap Values(Q) = {} /\ Values(P) \cup Values(Q) = Vals(g) \ (a .. b)
        BY <1>1, <1>4, <2>2, <2>3 DEF Vals
    <2>5. Joined(P \o Q, P, Q)
        BY <2>2, <2>3, Concat
    <2>6. ASSUME NEW w \in Vals(g) \ (a .. b), NEW v \in Vals(g) \ (a .. b), w < v
          PROVE  Precedes(P \o Q, w, v)
        <3>1. w \in Values(P) \cup Values(Q) /\ v \in Values(P) \cup Values(Q)
            BY <2>4
        <3>2. ~(w \in Values(Q) /\ v \in Values(P))
            BY <2>2, <2>3, <2>6, <1>1
        <3>3. CASE w \in Values(P) /\ v \in Values(P)
            <4>1. Precedes(P, w, v)
                BY <3>3, <2>2, <2>6
            <4> QED BY <4>1, <2>5 DEF Joined
        <3>4. CASE w \in Values(Q) /\ v \in Values(Q)
            <4>1. Precedes(Q, w, v)
                BY <3>4, <2>3, <2>6
            <4> QED BY <4>1, <2>5 DEF Joined
        <3>5. CASE w \in Values(P) /\ v \in Values(Q)
            BY <3>5, <2>5 DEF Joined
        <3> QED BY <3>1, <3>2, <3>3, <3>4, <3>5
    <2>7. P \o Q \in Seq(Seg) /\ Values(P \o Q) = Values(P) \cup Values(Q) /\ Apart(P \o Q)
        BY <2>2, <2>3, <2>4, <2>5 DEF Joined
    <2> QED BY <2>1, <2>4, <2>6, <2>7
<1> QED BY <1>3, <1>4

\* The list n is the list A without its value v.
KeepsOthers(A, n, v) == \A w, u : w # v /\ u # v /\ Precedes(A, w, u) => Precedes(n, w, u)
Removed(A, n, v) ==
    /\ n \in Seq(Seg) /\ Apart(n) /\ Values(n) = Values(A) \ {v} /\ v \in Values(A)
    /\ KeepsOthers(A, n, v)

\* A value is taken out of the segment i.
LEMMA Taken ==
    ASSUME NEW A \in Seq(Seg), Apart(A), NEW i \in 1 .. Len(A), NEW v \in Vals(A[i]),
           NEW n, n = (SubSeq(A, 1, i - 1) \o Minus(A[i], v, v)) \o SubSeq(A, i + 1, Len(A))
    PROVE  Removed(A, n, v)
<1> DEFINE L == SubSeq(A, 1, i - 1)
           R == SubSeq(A, i + 1, Len(A))
           M == <<A[i]>>
           N == Minus(A[i], v, v)
<1>1. L \in Seq(Seg) /\ R \in Seq(Seg) /\ A[i] \in Seg /\ A = (L \o M) \o R
    BY Around
<1>2. M \in Seq(Seg) /\ Values(M) = Vals(A[i])
      /\ \A w, u : Precedes(M, w, u) <=> w \in Vals(A[i]) /\ u \in Vals(A[i]) /\ w < u
    BY <1>1, OneSegment
<1>3. v \in Int /\ v .. v = {v}
    <2>1. A[i].first \in Int /\ A[i].last \in Int
        BY <1>1 DEF Seg
    <2> QED BY <2>1 DEF Vals
<1>4. /\ N \in Seq(Seg) /\ Values(N) = Vals(A[i]) \ {v} /\ Apart(N)
      /\ \A w, u \in Vals(A[i]) \ {v} : w < u => Precedes(N, w, u)
    <2>1. /\ N \in Seq(Seg) /\ Values(N) = Vals(A[i]) \ (v .. v) /\ Apart(N)
          /\ \A w, u \in Vals(A[i]) \ (v .. v) : w < u => Precedes(N, w, u)
        <3> HIDE DEF L, R, M
        <3>1. v <= v
            BY <1>3
        <3>2. A[i] \in Seg /\ v \in Int
            BY <1>1, <1>3, Zenon
        <3> QED BY <3>1, <3>2, MinusFacts
    <2> QED BY <2>1, <1>3
<1>5. n = (L \o N) \o R
    OBVIOUS
<1> HIDE DEF L, R, M, N
<1>6. /\ Values(M) \cap (Values(L) \cup Values(R)) = {}
      /\ Values(A) = (Values(L) \cup Values(M)) \cup Values(R)
    BY <1>1, <1>2, PartsApart
<1>7. Apart((L \o M) \o R) /\ Values(N) \cap (Values(L) \cup Values(R)) = {}
    BY <1>1, <1>2, <1>4, <1>6
<1>8. Spliced(A, n, L, M, N, R)
    <2>1. Spliced((L \o M) \o R, (L \o N) \o R, L, M, N, R)
        BY <1>1, <1>2, <1>4, <1>7, Splice
    <2> QED BY <2>1, <1>1, <1>5
<1>9. n \in Seq(Seg) /\ Apart(n) /\ Values(n) = (Values(L) \cup Values(N)) \cup Values(R)
    BY <1>8 DEF Spliced
<1>10. Values(n) = Values(A) \ {v} /\ v \in Values(A)
    BY <1>2, <1>4, <1>6, <1>9
<1>11. ASSUME NEW w, NEW u, w # v, u # v, Precedes(A, w, u) PROVE Precedes(n, w, u)
    <2>1. (w \in Values(M) => w \in Values(N)) /\ (u \in Values(M) => u \in Values(N))
        BY <1>2, <1>4, <1>11
    <2>2. Precedes(M, w, u) => Precedes(N, w, u)
        BY <1>2, <1>4, <1>11
    <2> QED BY <1>8, <1>11, <2>1, <2>2 DEF Spliced
<1> QED BY <1>9, <1>10, <1>11 DEF Removed, KeepsOthers
\* What is in order in the list A is so in n.
Keeps(A, n) == \A w, u : Precedes(A, w, u) => Precedes(n, w, u)

\* The values S come before v in the list n.
Behind(n, S, v) == \A w \in S : Precedes(n, w, v)

\* The list n is the list A with the value v.
Added(A, n, v) == n \in Seq(Seg) /\ Apart(n) /\ Values(n) = Values(A) \cup {v} /\ Keeps(A, n)

\* N holds the values of M and v: in the place of M it makes the list A the list n.
Adds(L, M, N, R, A, n, v) ==
    /\ L \in Seq(Seg) /\ M \in Seq(Seg) /\ N \in Seq(Seg) /\ R \in Seq(Seg)
    /\ A = (L \o M) \o R /\ n = (L \o N) \o R
    /\ Apart(A) /\ Apart(N) /\ v \notin Values(A)
    /\ Values(N) = Values(M) \cup {v} /\ Keeps(M, N)

LEMMA SpliceAdds ==
    ASSUME NEW L, NEW M, NEW N, NEW R, NEW A, NEW n, NEW v, Adds(L, M, N, R, A, n, v)
    PROVE  Added(A, n, v) /\ Behind(n, Values(L), v) /\ Keeps(N, n)
<1> USE DEF Adds
<1>1. /\ Values(A) = (Values(L) \cup Values(M)) \cup Values(R)
      /\ Values(M) \cap (Values(L) \cup Values(R)) = {}
    BY PartsApart
<1>2. Values(N) \cap (Values(L) \cup Values(R)) = {}
    BY <1>1
<1>3. Spliced(A, n, L, M, N, R)
    BY <1>2, Splice
<1>4. /\ n \in Seq(Seg) /\ Apart(n) /\ Values(n) = (Values(L) \cup Values(N)) \cup Values(R)
      /\ \A w, u : Precedes(N, w, u) => Precedes(n, w, u)
      /\ \A w \in Values(L), u \in Values(N) : Precedes(n, w, u)
    BY <1>3 DEF Spliced
<1>5. ASSUME NEW w, NEW u, Precedes(A, w, u) PROVE Precedes(n, w, u)
    BY <1>3, <1>5 DEF Spliced, Keeps
<1> QED BY <1>1, <1>4, <1>5 DEF Added, Keeps, Behind

\* A segment of one value.
LEMMA Single ==
    ASSUME NEW v \in Int
    PROVE  Segment(v, v) \in Seg /\ Vals(Segment(v, v)) = {v}
BY DEF Segment, Seg, Vals

\* A value in a new segment, in front of the segment i.
LEMMA InsertAdds ==
    ASSUME NEW A \in Seq(Seg), Apart(A), NEW i \in 1 .. Len(A), NEW v \in Int, v \notin Values(A)
    PROVE  /\ Added(A, InsertAt(A, i, Segment(v, v)), v)
           /\ Behind(InsertAt(A, i, Segment(v, v)), Values(SubSeq(A, 1, i - 1)), v)
<1> DEFINE L == SubSeq(A, 1, i - 1)
           S == SubSeq(A, i, Len(A))
           T == SubSeq(A, i + 1, Len(A))
           N == <<Segment(v, v)>>
<1>1. L \in Seq(Seg) /\ T \in Seq(Seg) /\ <<A[i]>> \in Seq(Seg)
      /\ S = <<A[i]>> \o T /\ A = (L \o <<A[i]>>) \o T
    BY Around, OneSegment
<1>2. N \in Seq(Seg) /\ Values(N) = {v} /\ Apart(N)
    BY Single, OneSegment
<1>3. InsertAt(A, i, Segment(v, v)) = (L \o N) \o S
    BY DEF InsertAt
<1> HIDE DEF L, S, T, N
<1>4. S \in Seq(Seg) /\ A = (L \o <<>>) \o S
    <2>1. S \in Seq(Seg)
        BY <1>1, Concat DEF Joined
    <2>2. (L \o <<A[i]>>) \o T = L \o (<<A[i]>> \o T)
        BY <1>1, Associative, Zenon
    <2>3. L \o <<>> = L
        BY <1>1, ConcatEmptySeq
    <2> QED BY <2>1, <2>2, <2>3, <1>1
<1>5. /\ Values(N) = Values(<<>>) \cup {v} /\ <<>> \in Seq(Seg)
      /\ Keeps(<<>>, N)
    BY <1>2, NoSegment DEF Keeps
<1> DEFINE n == InsertAt(A, i, Segment(v, v))
<1> HIDE DEF n
<1>6. n = (L \o N) \o S
    BY <1>3 DEF n
<1>7. Added(A, n, v) /\ Behind(n, Values(L), v)
    <2>1. Adds(L, <<>>, N, S, A, n, v)
        BY <1>1, <1>2, <1>4, <1>5, <1>6 DEF Adds
    <2> QED BY <2>1, SpliceAdds
<1> QED BY <1>7 DEF n, L

\* A value in a new segment at the end.
LEMMA AppendAdds ==
    ASSUME NEW A \in Seq(Seg), Apart(A), NEW v \in Int, v \notin Values(A)
    PROVE  /\ Added(A, Append(A, Segment(v, v)), v)
           /\ Behind(Append(A, Segment(v, v)), Values(A), v)
<1> DEFINE N == <<Segment(v, v)>>
           n == Append(A, Segment(v, v))
<1>1. N \in Seq(Seg) /\ Values(N) = {v} /\ Apart(N)
    BY Single, OneSegment
<1>2. n = A \o N
    BY Single
<1> HIDE DEF N, n
<1>3. A = (A \o <<>>) \o <<>> /\ n = (A \o N) \o <<>>
    <2>1. A \o <<>> = A
        BY ConcatEmptySeq
    <2>2. A \o N \in Seq(Seg)
        BY <1>1, Concat DEF Joined
    <2>3. (A \o N) \o <<>> = A \o N
        BY <2>2, ConcatEmptySeq
    <2> QED BY <2>1, <2>3, <1>2
<1>4. /\ Values(N) = Values(<<>>) \cup {v} /\ <<>> \in Seq(Seg)
      /\ Keeps(<<>>, N)
    BY <1>1, NoSegment DEF Keeps
<1>5. Added(A, n, v) /\ Behind(n, Values(A), v)
    <2>1. Adds(A, <<>>, N, <<>>, A, n, v)
        BY <1>1, <1>3, <1>4 DEF Adds
    <2> QED BY <2>1, SpliceAdds
<1> QED BY <1>5 DEF n
\* Another segment in the place of the segment i.
LEMMA Replaced ==
    ASSUME NEW A \in Seq(Seg), NEW i \in 1 .. Len(A), NEW e \in Seg, NEW E, E = [A EXCEPT ![i] = e]
    PROVE  /\ E = (SubSeq(A, 1, i - 1) \o <<e>>) \o SubSeq(A, i + 1, Len(A))
           /\ i < Len(A) => RemoveAt(E, i + 1) =
                              (SubSeq(A, 1, i - 1) \o <<e>>) \o SubSeq(A, i + 2, Len(A))
<1>1. Len(A) \in Nat /\ i \in Nat /\ i >= 1 /\ i <= Len(A) /\ \A k \in 1 .. Len(A) : A[k] \in Seg
    OBVIOUS
<1>2. E \in Seq(Seg) /\ Len(E) = Len(A) /\ E[i] = e /\ \A k \in 1 .. Len(A) : k # i => E[k] = A[k]
    BY ExceptSeq
<1>3. ASSUME NEW m \in 1 .. Len(A) + 1, NEW k \in 0 .. Len(A), i \notin m .. k
      PROVE  SubSeq(E, m, k) = SubSeq(A, m, k)
    <2>1. /\ m \in Int /\ k \in Int
          /\ \A j \in m .. k : j \in 1 .. Len(A) /\ E[j] = A[j] /\ A[j] \in Seg
        BY <1>1, <1>2, <1>3
    <2>2. /\ SubSeq(A, m, k) \in Seq(Seg)
          /\ Len(SubSeq(A, m, k)) = IF m <= k THEN k - m + 1 ELSE 0
          /\ \A j \in 1 .. k - m + 1 : SubSeq(A, m, k)[j] = A[m + j - 1]
        BY <2>1, SubSeqProperties
    <2>3. /\ SubSeq(E, m, k) \in Seq(Seg)
          /\ Len(SubSeq(E, m, k)) = IF m <= k THEN k - m + 1 ELSE 0
          /\ \A j \in 1 .. k - m + 1 : SubSeq(E, m, k)[j] = E[m + j - 1]
        <3>1. \A j \in m .. k : E[j] \in Seg
            BY <2>1
        <3> QED BY <3>1, <2>1, SubSeqProperties
    <2> DEFINE x == SubSeq(A, m, k)
               y == SubSeq(E, m, k)
    <2> HIDE DEF x, y
    <2>4. Len(x) = Len(y)
        BY <2>2, <2>3 DEF x, y
    <2>5. ASSUME NEW j \in 1 .. Len(y) PROVE y[j] = x[j]
        <3>1. j \in 1 .. k - m + 1
            BY <2>1, <2>3 DEF y
        <3>2. m + j - 1 \in m .. k
            BY <2>1, <3>1
        <3>3. y[j] = E[m + j - 1] /\ x[j] = A[m + j - 1]
            BY <3>1, <2>2, <2>3 DEF x, y
        <3> QED BY <3>2, <3>3, <2>1
    <2>6. y = x
        BY <2>2, <2>3, <2>4, <2>5, SeqEqual DEF x, y
    <2> QED BY <2>6 DEF x, y
<1>4. SubSeq(E, 1, i - 1) = SubSeq(A, 1, i - 1)
    <2>1. 1 \in 1 .. Len(A) + 1 /\ i - 1 \in 0 .. Len(A) /\ i \notin 1 .. i - 1
        BY <1>1
    <2> QED BY <2>1, <1>3
<1>5. SubSeq(E, i + 1, Len(A)) = SubSeq(A, i + 1, Len(A))
    <2>1. i + 1 \in 1 .. Len(A) + 1 /\ Len(A) \in 0 .. Len(A) /\ i \notin i + 1 .. Len(A)
        BY <1>1
    <2> QED BY <2>1, <1>3
<1>6. E = (SubSeq(E, 1, i - 1) \o <<E[i]>>) \o SubSeq(E, i + 1, Len(E))
    BY <1>2, Around
<1>7. ASSUME i < Len(A)
      PROVE  RemoveAt(E, i + 1) = (SubSeq(A, 1, i - 1) \o <<e>>) \o SubSeq(A, i + 2, Len(A))
    <2>1. SubSeq(E, i + 2, Len(A)) = SubSeq(A, i + 2, Len(A))
        <3>1. i + 2 \in 1 .. Len(A) + 1 /\ Len(A) \in 0 .. Len(A) /\ i \notin i + 2 .. Len(A)
            BY <1>1, <1>7
        <3> QED BY <3>1, <1>3
    <2>2. SubSeq(E, 1, i) = SubSeq(E, 1, i - 1) \o <<E[i]>>
        <3>1. 1 \in 1 .. Len(E) /\ i \in 1 .. Len(E)
            BY <1>1, <1>2
        <3> QED BY <3>1, <1>2, SubSeqRecursiveSecond
    <2>3. (i + 1) - 1 = i /\ (i + 1) + 1 = i + 2
        BY <1>1
    <2>4. RemoveAt(E, i + 1) = SubSeq(E, 1, i) \o SubSeq(E, i + 2, Len(E))
        BY <2>3 DEF RemoveAt
    <2> QED BY <2>1, <2>2, <2>4, <1>2, <1>4
<1> QED BY <1>2, <1>4, <1>5, <1>6, <1>7

\* The segment i with one more value.
LEMMA GrowAdds ==
    ASSUME NEW A \in Seq(Seg), Apart(A), NEW i \in 1 .. Len(A), NEW v \in Int, v \notin Values(A),
           NEW e \in Seg, Vals(e) = Vals(A[i]) \cup {v}, NEW n, n = [A EXCEPT ![i] = e]
    PROVE  /\ Added(A, n, v) /\ Behind(n, Values(SubSeq(A, 1, i - 1)), v)
           /\ \A w \in Vals(e) : w < v => Precedes(n, w, v)
<1> DEFINE L == SubSeq(A, 1, i - 1)
           R == SubSeq(A, i + 1, Len(A))
           M == <<A[i]>>
           N == <<e>>
<1>1. L \in Seq(Seg) /\ R \in Seq(Seg) /\ A[i] \in Seg /\ A = (L \o M) \o R
    BY Around
<1>2. n = (L \o N) \o R
    BY Replaced
<1>3. /\ M \in Seq(Seg) /\ Values(M) = Vals(A[i])
      /\ \A w, u : Precedes(M, w, u) <=> w \in Vals(A[i]) /\ u \in Vals(A[i]) /\ w < u
    BY <1>1, OneSegment
<1>4. /\ N \in Seq(Seg) /\ Values(N) = Vals(e) /\ Apart(N)
      /\ \A w, u : Precedes(N, w, u) <=> w \in Vals(e) /\ u \in Vals(e) /\ w < u
    BY OneSegment
<1> HIDE DEF L, R, M, N
<1>5. Keeps(M, N) /\ Values(N) = Values(M) \cup {v}
    BY <1>3, <1>4 DEF Keeps
<1>6. Added(A, n, v) /\ Behind(n, Values(L), v) /\ Keeps(N, n)
    <2>1. M \in Seq(Seg) /\ N \in Seq(Seg) /\ Apart(N)
        BY <1>3, <1>4
    <2>2. Adds(L, M, N, R, A, n, v)
        BY <2>1, <1>1, <1>2, <1>5 DEF Adds
    <2> QED BY <2>2, SpliceAdds
<1>7. \A w \in Vals(e) : w < v => Precedes(n, w, v)
    BY <1>4, <1>6 DEF Keeps
<1> QED BY <1>6, <1>7 DEF L
\* Where a value lies.
LEMMA Positions ==
    ASSUME NEW g \in Seg, NEW v \in Int
    PROVE  /\ Position(g, v) = "before" <=> v < g.first - 1
           /\ Position(g, v) = "adjacentToTheFront" <=> v = g.first - 1
           /\ Position(g, v) = "within" <=> v \in Vals(g)
           /\ Position(g, v) = "adjacentToTheBack" <=> v = g.last + 1
           /\ Position(g, v) = "after" <=> v > g.last + 1
<1>1. g.first \in Int /\ g.last \in Int /\ g.first <= g.last
    BY DEF Seg
<1>2. CASE v < g.first - 1
    BY <1>1, <1>2 DEF Position, Vals
<1>3. CASE v = g.first - 1
    BY <1>1, <1>3 DEF Position, Vals
<1>4. CASE v \in g.first .. g.last
    BY <1>1, <1>4 DEF Position, Vals
<1>5. CASE v = g.last + 1
    BY <1>1, <1>5 DEF Position, Vals
<1>6. CASE v > g.last + 1
    BY <1>1, <1>6 DEF Position, Vals
<1> QED BY <1>1, <1>2, <1>3, <1>4, <1>5, <1>6

\* Four lists in a row.
LEMMA ConcatFour ==
    ASSUME NEW L \in Seq(Seg), NEW M \in Seq(Seg), NEW N \in Seq(Seg), NEW R \in Seq(Seg)
    PROVE  (L \o M) \o (N \o R) = (L \o (M \o N)) \o R
<1>1. PICK P \in Seq(Seg) : P = L \o M
    BY ConcatProperties
<1>2. (P \o N) \o R = P \o (N \o R)
    BY <1>1, Associative, Zenon
<1>3. (L \o M) \o N = L \o (M \o N)
    BY Associative, SMTT(60)
<1> QED BY <1>1, <1>2, <1>3, Zenon

\* extendLast adds the value behind the segment i, and may join it with the next.
LEMMA ExtendAdds ==
    ASSUME NEW A \in Seq(Seg), Apart(A), NEW i \in 1 .. Len(A), NEW v \in Int, v \notin Values(A),
           v = A[i].last + 1
    PROVE  /\ Added(A, ExtendLast(A, i), v)
           /\ Behind(ExtendLast(A, i), Values(SubSeq(A, 1, i - 1)) \cup Vals(A[i]), v)
<1>1. Len(A) \in Nat /\ A[i] \in Seg /\ A[i] \in [first : Int, last : Int] /\ A[i].first <= A[i].last
    BY DEF Seg
<1> DEFINE n == ExtendLast(A, i)
<1>2. CASE ~(i < Len(A) /\ A[i].last + 2 = A[i + 1].first)
    <2> DEFINE e == [A[i] EXCEPT !.last = A[i].last + 1]
    <2>1. e \in Seg /\ Vals(e) = Vals(A[i]) \cup {v}
        BY <1>1 DEF Seg, Vals
    <2>2. n = [A EXCEPT ![i] = e]
        BY <1>1, <1>2 DEF ExtendLast
    <2>3. \A w \in Vals(A[i]) : w \in Vals(e) /\ w < v
        BY <1>1, <2>1 DEF Vals
    <2> HIDE DEF e, n
    <2>4. /\ Added(A, n, v) /\ Behind(n, Values(SubSeq(A, 1, i - 1)), v)
          /\ \A w \in Vals(e) : w < v => Precedes(n, w, v)
        BY <2>1, <2>2, GrowAdds
    <2>5. Behind(n, Values(SubSeq(A, 1, i - 1)) \cup Vals(A[i]), v)
        BY <2>3, <2>4 DEF Behind
    <2> QED BY <2>4, <2>5 DEF n
<1>3. CASE i < Len(A) /\ A[i].last + 2 = A[i + 1].first
    <2>1. /\ i + 1 \in 1 .. Len(A) /\ A[i + 1] \in Seg
          /\ A[i + 1] \in [first : Int, last : Int] /\ A[i + 1].first <= A[i + 1].last
        <3>1. i + 1 \in 1 .. Len(A)
            BY <1>1, <1>3
        <3>2. A[i + 1] \in Seg
            BY <3>1
        <3> QED BY <3>1, <3>2 DEF Seg
    <2> DEFINE e == [A[i] EXCEPT !.last = A[i + 1].last]
               L == SubSeq(A, 1, i - 1)
               M1 == <<A[i]>>
               M2 == <<A[i + 1]>>
               M == M1 \o M2
               N == <<e>>
               R == SubSeq(A, i + 2, Len(A))
               T == SubSeq(A, i + 1, Len(A))
    <2>2. e \in Seg /\ Vals(e) = (Vals(A[i]) \cup Vals(A[i + 1])) \cup {v}
        <3>1. e \in [first : Int, last : Int] /\ e.first = A[i].first /\ e.last = A[i + 1].last
            BY <1>1, <2>1
        <3> HIDE DEF e
        <3>2. \A a, b, c, d \in Int : a <= b /\ b + 2 = c /\ c <= d =>
                 a .. d = ((a .. b) \cup (c .. d)) \cup {b + 1} /\ a <= d
            OBVIOUS
        <3>3. PICK a, b, c, d \in Int : /\ a = A[i].first /\ b = A[i].last
                                        /\ c = A[i + 1].first /\ d = A[i + 1].last
            BY <1>1, <2>1
        <3>4. a <= b /\ b + 2 = c /\ c <= d /\ v = b + 1
            BY <3>3, <1>1, <1>3, <2>1
        <3>5. a .. d = ((a .. b) \cup (c .. d)) \cup {b + 1} /\ a <= d
            BY <3>2, <3>4
        <3> QED BY <3>1, <3>3, <3>4, <3>5 DEF Seg, Vals
    <2>3. n = RemoveAt([A EXCEPT ![i] = e], i + 1)
        BY <1>1, <1>3 DEF ExtendLast
    <2>4. /\ \A w \in Vals(A[i]) : w < v
          /\ \A w \in Vals(A[i]), u \in Vals(A[i + 1]) : w < u
        <3>1. PICK a, b, c, d \in Int : /\ a = A[i].first /\ b = A[i].last
                                        /\ c = A[i + 1].first /\ d = A[i + 1].last
            BY <1>1, <2>1
        <3>2. b + 2 = c /\ v = b + 1
            BY <3>1, <1>3
        <3>3. Vals(A[i]) = a .. b /\ Vals(A[i + 1]) = c .. d
            BY <3>1 DEF Vals
        <3>4. \A w \in a .. b : w < v /\ \A u \in c .. d : w < u
            BY <3>2
        <3> QED BY <3>3, <3>4
    <2> HIDE DEF e
    <2>5. n = (L \o N) \o R
        BY <1>3, <2>2, <2>3, Replaced
    <2>6. L \in Seq(Seg) /\ T \in Seq(Seg) /\ A = (L \o M1) \o T
        BY Around
    <2>7. R \in Seq(Seg) /\ T = M2 \o R
        <3>1. (i + 1) + 1 = i + 2
            BY <1>1
        <3> QED BY <2>1, <3>1, Around
    <2>8. /\ M1 \in Seq(Seg) /\ Values(M1) = Vals(A[i])
          /\ \A w, u : Precedes(M1, w, u) <=> w \in Vals(A[i]) /\ u \in Vals(A[i]) /\ w < u
        BY <1>1, OneSegment
    <2>9. /\ M2 \in Seq(Seg) /\ Values(M2) = Vals(A[i + 1])
          /\ \A w, u : Precedes(M2, w, u) <=> w \in Vals(A[i + 1]) /\ u \in Vals(A[i + 1]) /\ w < u
        BY <2>1, OneSegment
    <2>10. /\ N \in Seq(Seg) /\ Values(N) = Vals(e) /\ Apart(N)
           /\ \A w, u : Precedes(N, w, u) <=> w \in Vals(e) /\ u \in Vals(e) /\ w < u
        BY <2>2, OneSegment
    <2> HIDE DEF n, L, M1, M2, N, R, T
    <2>11. Joined(M, M1, M2)
        BY <2>8, <2>9, Concat
    <2> HIDE DEF M
    <2>12. A = (L \o M) \o R
        <3>1. L \in Seq(Seg) /\ M1 \in Seq(Seg) /\ M2 \in Seq(Seg) /\ R \in Seq(Seg)
            BY <2>6, <2>7, <2>8, <2>9
        <3>2. \A l, m1, m2, r \in Seq(Seg) : (l \o m1) \o (m2 \o r) = (l \o (m1 \o m2)) \o r
            BY ConcatFour
        <3>3. \A m2, r \in Seq(Seg) : (L \o M1) \o (m2 \o r) = (L \o (M1 \o m2)) \o r
            BY <3>1, <3>2
        <3>4. (L \o M1) \o (M2 \o R) = (L \o (M1 \o M2)) \o R
            BY <3>1, <3>3
        <3> QED BY <3>4, <2>6, <2>7 DEF M
    <2>13. M \in Seq(Seg) /\ Values(N) = Values(M) \cup {v}
        BY <2>2, <2>8, <2>9, <2>10, <2>11 DEF Joined
    <2>14. Keeps(M, N)
        <3> SUFFICES ASSUME NEW w, NEW u, Precedes(M, w, u) PROVE Precedes(N, w, u)
            BY DEF Keeps
        <3>1. \/ Precedes(M1, w, u)
              \/ Precedes(M2, w, u)
              \/ w \in Values(M1) /\ u \in Values(M2)
            BY <2>11 DEF Joined
        <3>2. w \in Vals(e) /\ u \in Vals(e) /\ w < u
            BY <3>1, <2>2, <2>4, <2>8, <2>9
        <3> QED BY <3>2, <2>10
    <2>15. Added(A, n, v) /\ Behind(n, Values(L), v) /\ Keeps(N, n)
        <3>1. N \in Seq(Seg) /\ Apart(N)
            BY <2>10
        <3>2. L \in Seq(Seg) /\ R \in Seq(Seg)
            BY <2>6, <2>7
        <3>3. Adds(L, M, N, R, A, n, v)
            BY <3>1, <3>2, <2>5, <2>12, <2>13, <2>14 DEF Adds
        <3> QED BY <3>3, SpliceAdds
    <2>16. \A w \in Vals(A[i]) : Precedes(n, w, v)
        <3>1. \A w \in Vals(A[i]) : Precedes(N, w, v)
            BY <2>2, <2>4, <2>10
        <3> QED BY <3>1, <2>15 DEF Keeps
    <2> QED BY <2>15, <2>16 DEF n, L, Behind
<1> QED BY <1>2, <1>3

\* The first of a set of indices.
LEMMA LeastIs ==
    ASSUME NEW S, S \subseteq Nat, S # {}
    PROVE  Least(S) \in S /\ \A j \in S : Least(S) <= j
<1>1. PICK k \in S : \A j \in S : <<j, k>> \notin OpToRel(<, Nat)
    BY NatLessThanWellFounded, WFMin
<1>2. ASSUME NEW j \in S PROVE k <= j
    <2>1. j \in Nat /\ k \in Nat /\ <<j, k>> \in Nat \X Nat
        OBVIOUS
    <2>2. ~(<<j, k>>[1] < <<j, k>>[2])
        BY <1>1, <2>1 DEF OpToRel
    <2>3. ~(j < k)
        BY <2>2
    <2> QED BY <2>1, <2>3
<1> QED BY <1>2 DEF Least
\* The head is in front of every other segment.
LEMMA HeadInFront ==
    ASSUME NEW A \in Seq(Seg), NEW i \in 2 .. Len(A)
    PROVE  Vals(A[1]) \subseteq Values(SubSeq(A, 1, i - 1))
<1>1. Len(A) \in Nat /\ \A k \in 1 .. Len(A) : A[k] \in Seg
    OBVIOUS
<1>2. i - 1 \in Int /\ 1 <= i - 1 /\ \A k \in 1 .. i - 1 : A[k] \in Seg
    BY <1>1
<1> DEFINE L == SubSeq(A, 1, i - 1)
<1>3. /\ L \in Seq(Seg)
      /\ Len(L) = IF 1 <= i - 1 THEN (i - 1) - 1 + 1 ELSE 0
      /\ \A k \in 1 .. (i - 1) - 1 + 1 : L[k] = A[1 + k - 1]
    BY <1>2, SubSeqProperties
<1> HIDE DEF L
<1>4. 1 \in 1 .. (i - 1) - 1 + 1 /\ 1 + 1 - 1 = 1 /\ (i - 1) - 1 + 1 = i - 1
    BY <1>2
<1>5. 1 \in 1 .. Len(L) /\ L[1] = A[1]
    BY <1>2, <1>3, <1>4
<1>6. \A w \in Vals(A[1]) : w \in Values(L)
    BY <1>3, <1>5, ValuesOf
<1> QED BY <1>6 DEF L

\* A value that is put behind the head is added once.
LEMMA FreeBehindAdds ==
    ASSUME NEW A \in Seq(Seg), Apart(A), A # <<>>, NEW v \in Int, v \notin Values(A)
    PROVE  Added(A, FreeBehind(A, v), v) /\ Behind(FreeBehind(A, v), Vals(A[1]), v)
<1>1. Len(A) \in Nat /\ 1 \in 1 .. Len(A) /\ \A k \in 1 .. Len(A) : A[k] \in Seg
    BY EmptySeq
<1> DEFINE n == FreeBehind(A, v)
           stops == {k \in 2 .. Len(A) : Position(A[k], v) # "after"}
           i == Least(stops)
<1>2. CASE stops = {}
    <2>1. n = Append(A, Segment(v, v))
        BY <1>2 DEF FreeBehind
    <2>2. Added(A, n, v) /\ Behind(n, Values(A), v)
        BY <2>1, AppendAdds
    <2>3. \A w \in Vals(A[1]) : w \in Values(A)
        BY <1>1, ValuesOf
    <2> QED BY <2>2, <2>3 DEF Behind
<1>3. CASE stops # {}
    <2>1. stops \subseteq Nat
        OBVIOUS
    <2>2. i \in stops
        BY <1>3, <2>1, LeastIs
    <2>3. n = CASE Position(A[i], v) = "before" -> InsertAt(A, i, Segment(v, v))
                [] Position(A[i], v) = "adjacentToTheFront" -> [A EXCEPT ![i].first = v]
                [] Position(A[i], v) = "within" -> A
                [] Position(A[i], v) = "adjacentToTheBack" -> ExtendLast(A, i)
        BY <1>3 DEF FreeBehind
    <2>4. i \in 2 .. Len(A) /\ Position(A[i], v) # "after"
        BY <2>2
    <2> HIDE DEF n, stops, i
    <2>5. i \in 1 .. Len(A) /\ A[i] \in Seg /\ A[i] \in [first : Int, last : Int] /\ A[i].first <= A[i].last
        BY <1>1, <2>4 DEF Seg
    <2>6. v \notin Vals(A[i])
        BY <2>5, ValuesOf
    <2>7. \A w \in Vals(A[1]) : w \in Values(SubSeq(A, 1, i - 1))
        BY <2>4, HeadInFront
    <2>8. /\ Position(A[i], v) # "within"
          /\ Position(A[i], v) = "adjacentToTheFront" <=> v = A[i].first - 1
          /\ Position(A[i], v) = "adjacentToTheBack" <=> v = A[i].last + 1
          /\ Position(A[i], v) = "before" \/ v = A[i].first - 1 \/ v = A[i].last + 1
        <3>1. /\ Position(A[i], v) = "before" <=> v < A[i].first - 1
              /\ Position(A[i], v) = "adjacentToTheFront" <=> v = A[i].first - 1
              /\ Position(A[i], v) = "within" <=> v \in Vals(A[i])
              /\ Position(A[i], v) = "adjacentToTheBack" <=> v = A[i].last + 1
              /\ Position(A[i], v) = "after" <=> v > A[i].last + 1
            BY <2>5, Positions
        <3> QED BY <3>1, <2>4, <2>5, <2>6 DEF Vals
    <2>9. Added(A, n, v) /\ Behind(n, Values(SubSeq(A, 1, i - 1)), v)
        <3>1. CASE Position(A[i], v) = "before"
            <4>1. n = InsertAt(A, i, Segment(v, v))
                BY <2>3, <3>1
            <4> QED BY <4>1, <2>5, InsertAdds
        <3>2. CASE v = A[i].first - 1
            <4> DEFINE e == [A[i] EXCEPT !.first = v]
            <4>1. Position(A[i], v) = "adjacentToTheFront"
                BY <3>2, <2>8
            <4>2. n = [A EXCEPT ![i] = e]
                BY <2>3, <4>1
            <4>3. e \in Seg /\ Vals(e) = Vals(A[i]) \cup {v}
                BY <2>5, <3>2 DEF Seg, Vals
            <4> HIDE DEF e
            <4> QED BY <4>2, <4>3, <2>5, GrowAdds
        <3>3. CASE v = A[i].last + 1
            <4>1. Position(A[i], v) = "adjacentToTheBack"
                BY <3>3, <2>8
            <4>2. n = ExtendLast(A, i)
                BY <2>3, <4>1
            <4>3. Added(A, n, v) /\ Behind(n, Values(SubSeq(A, 1, i - 1)) \cup Vals(A[i]), v)
                BY <3>3, <4>2, <2>5, ExtendAdds
            <4> QED BY <4>3 DEF Behind
        <3> QED BY <3>1, <3>2, <3>3, <2>8
    <2>10. Behind(n, Vals(A[1]), v)
        BY <2>7, <2>9 DEF Behind
    <2> QED BY <2>9, <2>10 DEF n
<1> QED BY <1>2, <1>3

\* Free adds a value that is not in the list, behind what is in the head.
LEMMA FreeAdds ==
    ASSUME NEW A \in Seq(Seg), Apart(A), NEW v \in Int, v \notin Values(A)
    PROVE  /\ Added(A, FreeSegs(A, v), v)
           /\ A # <<>> => Behind(FreeSegs(A, v), Vals(A[1]), v)
<1> DEFINE n == FreeSegs(A, v)
<1>1. CASE A = <<>>
    <2>1. n = <<Segment(v, v)>>
        BY <1>1 DEF FreeSegs
    <2>2. Segment(v, v) \in Seg /\ Vals(Segment(v, v)) = {v}
        BY Single
    <2>3. n \in Seq(Seg) /\ Apart(n) /\ Values(n) = {v}
        BY <2>1, <2>2, OneSegment
    <2>4. Values(A) = {} /\ Keeps(A, n)
        BY <1>1, NoSegment DEF Keeps
    <2> QED BY <2>3, <2>4, <1>1 DEF Added
<1>2. CASE A # <<>>
    <2>1. 1 \in 1 .. Len(A) /\ A[1] \in Seg
        BY <1>2, EmptySeq
    <2>2. v \notin Vals(A[1])
        BY <2>1, ValuesOf
    <2>3. /\ Position(A[1], v) # "within"
          /\ Position(A[1], v) = "adjacentToTheBack" <=> v = A[1].last + 1
        BY <2>1, <2>2, Positions
    <2>4. CASE Position(A[1], v) = "adjacentToTheBack"
        <3>1. n = ExtendLast(A, 1)
            BY <1>2, <2>3, <2>4 DEF FreeSegs
        <3>2. Added(A, n, v) /\ Behind(n, Values(SubSeq(A, 1, 1 - 1)) \cup Vals(A[1]), v)
            BY <2>1, <2>3, <2>4, <3>1, ExtendAdds
        <3> QED BY <3>2 DEF Behind
    <2>5. CASE Position(A[1], v) # "adjacentToTheBack"
        <3>1. n = FreeBehind(A, v)
            BY <1>2, <2>3, <2>5 DEF FreeSegs
        <3> QED BY <1>2, <3>1, FreeBehindAdds
    <2> QED BY <2>4, <2>5
<1> QED BY <1>1, <1>2

\* As long as the segments are in order, Free finds a value that is free.
LEMMA FreeAgain ==
    ASSUME NEW A \in Seq(Seg), Apart(A), InOrder(A), NEW v \in Values(A)
    PROVE  FreeSegs(A, v) = A
<1>1. PICK k \in 1 .. Len(A) : v \in Vals(A[k])
    BY ValuesOf
<1>2. /\ Len(A) \in Nat /\ 1 \in 1 .. Len(A) /\ A # <<>>
      /\ \A j \in 1 .. Len(A) : A[j] \in Seg /\ A[j].first \in Int /\ A[j].last \in Int
    BY <1>1 DEF Seg
<1>3. v \in Int
    BY <1>1, <1>2 DEF Vals
<1>4. CASE v \in Vals(A[1])
    <2>1. Position(A[1], v) = "within"
        BY <1>2, <1>3, <1>4, Positions
    <2> QED BY <2>1, <1>2 DEF FreeSegs
<1>5. CASE v \notin Vals(A[1])
    <2>1. v # A[1].last + 1
        BY <1>2 DEF InOrder
    <2>2. Position(A[1], v) # "within" /\ Position(A[1], v) # "adjacentToTheBack"
        BY <2>1, <1>2, <1>3, <1>5, Positions
    <2>3. FreeSegs(A, v) = FreeBehind(A, v)
        BY <2>2, <1>2 DEF FreeSegs
    <2> DEFINE stops == {j \in 2 .. Len(A) : Position(A[j], v) # "after"}
               i == Least(stops)
    <2>4. k \in 2 .. Len(A)
        BY <1>1, <1>2, <1>5
    <2>5. Position(A[k], v) = "within"
        BY <1>1, <1>2, <1>3, Positions
    <2>6. k \in stops /\ stops \subseteq Nat
        BY <2>4, <2>5
    <2>7. i \in stops /\ i <= k
        BY <2>6, LeastIs
    <2>8. i = k
        <3> SUFFICES ASSUME i < k PROVE FALSE
            BY <2>4, <2>7
        <3>1. i \in 2 .. Len(A) /\ Position(A[i], v) # "after"
            BY <2>7
        <3> HIDE DEF i, stops
        <3>2. A[i].last + 1 < A[k].first
            BY <2>4, <3>1 DEF InOrder
        <3>3. i \in 1 .. Len(A)
            BY <3>1
        <3>4. v > A[i].last + 1
            BY <1>1, <1>2, <1>3, <3>2, <3>3 DEF Vals
        <3>5. Position(A[i], v) = "after"
            BY <1>2, <1>3, <3>3, <3>4, Positions
        <3> QED BY <3>1, <3>5
    <2>9. FreeBehind(A, v) = A
        BY <2>5, <2>6, <2>8 DEF FreeBehind
    <2> QED BY <2>3, <2>9
<1> QED BY <1>4, <1>5
-----------------------------------------------------------------------------
(* Pools.                                                                  *)

\* A pool with another list.
With(p, n, r) == [p EXCEPT !.segs = n, !.remain = r]

LEMMA Changed ==
    ASSUME NEW p, NEW a, NEW b, SoundPool(p, a, b), NEW n \in Seq(Seg), Apart(n),
           NEW r \in Int, r = Cardinality(Values(n))
    PROVE  SoundPool(With(p, n, r), a, b) /\ With(p, n, r).segs = n
<1> DEFINE q == With(p, n, r)
<1>1. p \in [first : All, last : All, segs : Seq(Seg), remain : Int] /\ p.first = a /\ p.last = b
    BY DEF SoundPool
<1>2. /\ q \in [first : All, last : All, segs : Seq(Seg), remain : Int]
      /\ q.first = a /\ q.last = b /\ q.segs = n /\ q.remain = r
    BY <1>1 DEF With
<1> QED BY <1>2 DEF SoundPool

\* Use takes a value out of the pool and leaves the others in their order.
LEMMA UseFacts ==
    ASSUME NEW p, NEW a, NEW b, SoundPool(p, a, b), IsFiniteSet(Values(p.segs)),
           NEW v \in Values(p.segs), NEW q, q = UsePool(p, v)
    PROVE  /\ SoundPool(q, a, b) /\ Values(q.segs) = Values(p.segs) \ {v}
           /\ KeepsOthers(p.segs, q.segs, v)
<1> DEFINE A == p.segs
           S == {j \in DOMAIN A : v \in A[j].first .. A[j].last}
           i == Least(S)
           n == (SubSeq(A, 1, i - 1) \o Minus(A[i], v, v)) \o SubSeq(A, i + 1, Len(A))
<1>1. p \in [first : All, last : All, segs : Seq(Seg), remain : Int] /\ A \in Seq(Seg) /\ Apart(A)
      /\ p.remain = Cardinality(Values(A)) /\ p.first = a /\ p.last = b
    BY DEF SoundPool
<1>2. i \in 1 .. Len(A) /\ v \in Vals(A[i])
    <2>1. DOMAIN A = 1 .. Len(A)
        BY <1>1
    <2>2. S # {} /\ S \subseteq Nat
        BY <1>1, <2>1, ValuesOf DEF Vals
    <2>3. i \in S
        BY <2>2, LeastIs
    <2> QED BY <2>1, <2>3 DEF Vals
<1>3. q = [p EXCEPT !.segs = n, !.remain = p.remain - 1]
    BY DEF UsePool
<1> HIDE DEF A, S, i
<1>4. Removed(A, n, v)
    BY <1>1, <1>2, Taken
<1> HIDE DEF n
<1>5. n \in Seq(Seg) /\ Apart(n) /\ Values(n) = Values(A) \ {v} /\ KeepsOthers(A, n, v)
    BY <1>4 DEF Removed
<1>6. PICK r \in Int : r = p.remain - 1
    BY <1>1
<1>7. r = Cardinality(Values(n))
    <2>1. IsFiniteSet(Values(A)) /\ v \in Values(A)
        BY DEF A
    <2>2. Cardinality(Values(A) \ {v}) = Cardinality(Values(A)) - 1
        BY <2>1, FS_RemoveElement
    <2> QED BY <1>1, <1>5, <1>6, <2>2
<1>8. SoundPool(q, a, b) /\ q.segs = n
    <2>1. q = With(p, n, r)
        BY <1>3, <1>6 DEF With
    <2>2. n \in Seq(Seg) /\ Apart(n)
        BY <1>5
    <2> QED BY <2>1, <2>2, <1>7, Changed
<1> QED BY <1>5, <1>8 DEF A

\* Allocate takes the value out of the pool that comes before all others.
IsHead(segs, v) == segs # <<>> /\ v = segs[1].first
InFront(segs, v) == v \in Values(segs) /\ \A w : ~Precedes(segs, w, v)

LEMMA AllocateFacts ==
    ASSUME NEW p, NEW a, NEW b, SoundPool(p, a, b), IsFiniteSet(Values(p.segs)),
           NEW v, IsHead(p.segs, v), NEW q, q = AllocatePool(p)
    PROVE  /\ InFront(p.segs, v)
           /\ SoundPool(q, a, b) /\ Values(q.segs) = Values(p.segs) \ {v}
           /\ KeepsOthers(p.segs, q.segs, v)
<1> DEFINE A == p.segs
           n == Minus(A[1], v, v) \o Tail(A)
<1>1. p \in [first : All, last : All, segs : Seq(Seg), remain : Int] /\ A \in Seq(Seg) /\ Apart(A)
      /\ p.remain = Cardinality(Values(A)) /\ p.first = a /\ p.last = b
    BY DEF SoundPool
<1>2. Len(A) \in Nat /\ 1 \in 1 .. Len(A) /\ \A k \in 1 .. Len(A) : A[k] \in Seg
    BY <1>1, EmptySeq DEF IsHead
<1>3. v \in Int /\ A[1].last \in Int /\ v \in Vals(A[1])
    BY <1>2 DEF Seg, Vals, IsHead
<1>4. q = [p EXCEPT !.segs = n, !.remain = p.remain - 1]
    BY DEF AllocatePool, IsHead
<1>5. n = (SubSeq(A, 1, 1 - 1) \o Minus(A[1], v, v)) \o SubSeq(A, 1 + 1, Len(A))
    <2>1. Minus(A[1], v, v) \in Seq(Seg)
        <3>1. A[1] \in Seg /\ v <= v
            BY <1>2, <1>3
        <3> QED BY <3>1, <1>3, MinusFacts
    <2>2. SubSeq(A, 1, 1 - 1) = <<>>
        BY SubSeqEmpty
    <2>3. <<>> \o Minus(A[1], v, v) = Minus(A[1], v, v)
        BY <2>1, ConcatEmptySeq
    <2>4. Tail(A) = SubSeq(A, 1 + 1, Len(A))
        BY <1>1, TailIsSubSeq
    <2> QED BY <2>2, <2>3, <2>4
<1> HIDE DEF A
<1>6. Removed(A, n, v)
    <2> HIDE DEF n
    <2> QED BY <1>1, <1>2, <1>3, <1>5, Taken
<1>7. ASSUME NEW w, Precedes(A, w, v) PROVE FALSE
    <2>1. PICK k \in 1 .. Len(A), j \in 1 .. Len(A) :
              w \in Vals(A[k]) /\ v \in Vals(A[j]) /\ (k < j \/ (k = j /\ w < v))
        BY <1>7 DEF Precedes
    <2>2. j = 1
        BY <1>1, <1>2, <1>3, <2>1 DEF Apart
    <2>3. k = 1 /\ w < v
        BY <1>2, <2>1, <2>2
    <2> QED BY <1>2, <1>3, <2>1, <2>3 DEF Vals, A, IsHead
<1> HIDE DEF n
<1>8. /\ n \in Seq(Seg) /\ Apart(n) /\ Values(n) = Values(A) \ {v} /\ v \in Values(A)
      /\ KeepsOthers(A, n, v)
    BY <1>6 DEF Removed
<1>9. PICK r \in Int : r = p.remain - 1
    BY <1>1
<1>10. r = Cardinality(Values(n))
    <2>1. IsFiniteSet(Values(A)) /\ v \in Values(A)
        BY <1>8 DEF A
    <2>2. Cardinality(Values(A) \ {v}) = Cardinality(Values(A)) - 1
        BY <2>1, FS_RemoveElement
    <2> QED BY <1>1, <1>8, <1>9, <2>2
<1>11. SoundPool(q, a, b) /\ q.segs = n
    <2>1. q = With(p, n, r)
        BY <1>4, <1>9 DEF With
    <2>2. n \in Seq(Seg) /\ Apart(n)
        BY <1>8
    <2> QED BY <2>1, <2>2, <1>10, Changed
<1> QED BY <1>7, <1>8, <1>11 DEF A, InFront

\* Free puts a value of the range into the pool, behind what is in the head.
LEMMA FreeFacts ==
    ASSUME NEW p, NEW a, NEW b, SoundPool(p, a, b), IsFiniteSet(Values(p.segs)),
           NEW v \in Int, a <= v, v <= b, v \notin Values(p.segs), NEW q, q = FreePool(p, v)
    PROVE  /\ SoundPool(q, a, b) /\ Values(q.segs) = Values(p.segs) \cup {v}
           /\ Keeps(p.segs, q.segs) /\ Behind(q.segs, HeadValues(p), v)
<1> DEFINE A == p.segs
           n == FreeSegs(A, v)
<1>1. p \in [first : All, last : All, segs : Seq(Seg), remain : Int] /\ A \in Seq(Seg) /\ Apart(A)
      /\ p.remain = Cardinality(Values(A)) /\ p.first = a /\ p.last = b
    BY DEF SoundPool
<1>2. Added(A, n, v) /\ (A # <<>> => Behind(n, Vals(A[1]), v))
    BY <1>1, FreeAdds
<1>3. n # A
    BY <1>2 DEF Added
<1>4. a \in Int /\ b \in Int
    BY <1>1, RangeAssumption DEF All
<1>5. q = [p EXCEPT !.segs = n, !.remain = p.remain + 1]
    BY <1>1, <1>3, <1>4 DEF FreePool
<1> HIDE DEF n, A
<1>6. n \in Seq(Seg) /\ Apart(n) /\ Values(n) = Values(A) \cup {v} /\ Keeps(A, n)
    BY <1>2 DEF Added
<1>7. PICK r \in Int : r = p.remain + 1
    BY <1>1
<1>8. r = Cardinality(Values(n))
    <2>1. IsFiniteSet(Values(A)) /\ v \notin Values(A)
        BY DEF A
    <2>2. Cardinality(Values(A) \cup {v}) = Cardinality(Values(A)) + 1
        BY <2>1, FS_AddElement
    <2> QED BY <1>1, <1>6, <1>7, <2>2
<1>9. SoundPool(q, a, b) /\ q.segs = n
    <2>1. q = With(p, n, r)
        BY <1>5, <1>7 DEF With
    <2>2. n \in Seq(Seg) /\ Apart(n)
        BY <1>6
    <2> QED BY <2>1, <2>2, <1>8, Changed
<1>10. Behind(n, HeadValues(p), v)
    BY <1>2 DEF Behind, HeadValues, Vals, A
<1> QED BY <1>6, <1>9, <1>10 DEF A

\* A second release changes nothing while the segments are in order.
LEMMA FreeAgainFacts ==
    ASSUME NEW p, NEW a, NEW b, SoundPool(p, a, b), InOrder(p.segs), NEW v \in Values(p.segs)
    PROVE  FreePool(p, v) = p
<1>1. FreeSegs(p.segs, v) = p.segs
    BY FreeAgain DEF SoundPool
<1> QED BY <1>1 DEF FreePool

\* The pieces of at most two segments in a row.
LEMMA Flatten ==
    ASSUME NEW q \in Seq(Seq(Seg)), Len(q) \in 1 .. 2
    PROVE  FlattenSeq(q) = IF Len(q) = 1 THEN q[1] ELSE q[1] \o q[2]
<1> DEFINE flatten[i \in 1 .. Len(q)] == IF i = 1 THEN q[i] ELSE flatten[i - 1] \o q[i]
           f == [i \in 1 .. Len(q) |-> IF i = 1 THEN q[1] ELSE q[1] \o q[2]]
<1>1. FlattenSeq(q) = flatten[Len(q)]
    BY DEF FlattenSeq
<1>2. f = [i \in 1 .. Len(q) |-> IF i = 1 THEN q[i] ELSE f[i - 1] \o q[i]]
    <2>1. ASSUME NEW i \in 1 .. Len(q)
          PROVE  f[i] = IF i = 1 THEN q[i] ELSE f[i - 1] \o q[i]
        <3>1. CASE i = 1
            BY <3>1
        <3>2. CASE i = 2
            <4>1. 1 \in 1 .. Len(q) /\ 2 \in 1 .. Len(q) /\ i - 1 = 1 /\ 1 # 2
                BY <3>2
            <4>2. f[1] = q[1] /\ f[2] = q[1] \o q[2]
                BY <4>1
            <4> HIDE DEF f
            <4> QED BY <3>2, <4>1, <4>2
        <3> QED BY <3>1, <3>2
    <2>2. DOMAIN f = 1 .. Len(q) /\ f = [i \in DOMAIN f |-> f[i]]
        OBVIOUS
    <2> HIDE DEF f
    <2> QED BY <2>1, <2>2
<1>3. flatten = [i \in 1 .. Len(q) |-> IF i = 1 THEN q[i] ELSE flatten[i - 1] \o q[i]]
    <2> HIDE DEF f
    <2> QED BY <1>2
<1> HIDE DEF flatten
<1>4. CASE Len(q) = 1
    <2>1. flatten[1] = q[1]
        BY <1>3, <1>4
    <2> QED BY <2>1, <1>1, <1>4
<1>5. CASE Len(q) = 2
    <2>1. flatten[1] = q[1]
        BY <1>3, <1>5
    <2>2. flatten[2] = flatten[2 - 1] \o q[2]
        BY <1>3, <1>5
    <2>3. 2 - 1 = 1
        OBVIOUS
    <2> QED BY <2>1, <2>2, <2>3, <1>1, <1>5
<1>6. Len(q) = 1 \/ Len(q) = 2
    OBVIOUS
<1> QED BY <1>4, <1>5, <1>6
\* A new pool.
LEMMA NewFacts ==
    ASSUME NEW a \in All, NEW b \in All, a <= b
    PROVE  /\ SoundPool(NewLazyReusePool(a, b), a, b)
           /\ Values(NewLazyReusePool(a, b).segs) = a .. b
           /\ Len(NewLazyReusePool(a, b).segs) = 1
<1> DEFINE g == Segment(a, b)
           p == NewLazyReusePool(a, b)
<1>1. a \in Int /\ b \in Int
    BY RangeAssumption DEF All
<1>2. g \in Seg /\ Vals(g) = a .. b
    BY <1>1 DEF Segment, Seg, Vals
<1>3. p = [first |-> a, last |-> b, segs |-> <<g>>, remain |-> b - a + 1]
    BY DEF NewLazyReusePool
<1> HIDE DEF g, p
<1>4. <<g>> \in Seq(Seg) /\ Values(<<g>>) = a .. b /\ Apart(<<g>>) /\ Len(<<g>>) = 1
    BY <1>2, OneSegment
<1>5. b - a + 1 \in Int /\ Cardinality(a .. b) = b - a + 1
    BY <1>1, FS_Interval
<1>6. /\ p \in [first : All, last : All, segs : Seq(Seg), remain : Int]
      /\ p.first = a /\ p.last = b /\ p.segs = <<g>> /\ p.remain = b - a + 1
    BY <1>3, <1>4, <1>5
<1> QED BY <1>4, <1>5, <1>6 DEF SoundPool, p

\* What Reserve leaves of a list of at most two segments.
Pieces(A, c, d) == FlattenSeq([i \in DOMAIN A |-> Minus(A[i], c, d)])
Cut(A, n, c, d) ==
    /\ n \in Seq(Seg) /\ Apart(n) /\ Values(n) = Values(A) \ (c .. d)
    /\ Len(A) = 1 \/ (\A v \in Values(A) : c <= v) => Len(n) <= 2

LEMMA ReserveSegs ==
    ASSUME NEW A \in Seq(Seg), Apart(A), Len(A) <= 2, NEW c \in Int, NEW d \in Int, c <= d
    PROVE  Cut(A, Pieces(A, c, d), c, d)
<1>10. PICK n : n = Pieces(A, c, d)
    OBVIOUS
<1> SUFFICES /\ n \in Seq(Seg) /\ Apart(n) /\ Values(n) = Values(A) \ (c .. d)
             /\ Len(A) = 1 \/ (\A v \in Values(A) : c <= v) => Len(n) <= 2
    BY <1>10 DEF Cut
<1> DEFINE m == [i \in DOMAIN A |-> Minus(A[i], c, d)]
<1>1. Len(A) \in Nat /\ DOMAIN A = 1 .. Len(A) /\ \A i \in 1 .. Len(A) : A[i] \in Seg
    OBVIOUS
<1>2. ASSUME NEW i \in 1 .. Len(A)
      PROVE  /\ Minus(A[i], c, d) \in Seq(Seg) /\ Apart(Minus(A[i], c, d))
             /\ Values(Minus(A[i], c, d)) = Vals(A[i]) \ (c .. d)
    BY <1>1, MinusFacts
<1>3. m \in Seq(Seq(Seg)) /\ Len(m) = Len(A) /\ \A i \in 1 .. Len(A) : m[i] = Minus(A[i], c, d)
    BY <1>1, <1>2
<1>4. ASSUME NEW i \in 1 .. Len(A)
      PROVE  /\ Len(Minus(A[i], c, d)) <= 2
             /\ (\A v \in Values(A) : c <= v) => Len(Minus(A[i], c, d)) <= 1
    <2>1. A[i] \in Seg /\ A[i].first \in Int /\ A[i].last \in Int /\ A[i].first \in Vals(A[i])
        BY <1>1 DEF Seg, Vals
    <2>2. ASSUME NEW x \in Int, NEW y \in Int
          PROVE  Piece(x, y) \in Seq(Seg) /\ Len(Piece(x, y)) = IF x <= y THEN 1 ELSE 0
        <3>1. CASE x <= y
            BY <3>1 DEF Piece, Segment, Seg
        <3>2. CASE ~(x <= y)
            BY <3>2 DEF Piece
        <3> QED BY <3>1, <3>2
    <2>3. CASE d < A[i].first \/ A[i].last < c
        <3>1. Minus(A[i], c, d) = <<A[i]>>
            BY <2>3 DEF Minus
        <3> QED BY <3>1
    <2>4. CASE ~(d < A[i].first \/ A[i].last < c)
        <3> DEFINE P == Piece(A[i].first, c - 1)
                   Q == Piece(d + 1, A[i].last)
        <3>1. Minus(A[i], c, d) = P \o Q
            BY <2>4 DEF Minus
        <3>2. c - 1 \in Int /\ d + 1 \in Int
            OBVIOUS
        <3>3. /\ P \in Seq(Seg) /\ Len(P) = IF A[i].first <= c - 1 THEN 1 ELSE 0
              /\ Q \in Seq(Seg) /\ Len(Q) = IF d + 1 <= A[i].last THEN 1 ELSE 0
            BY <2>1, <2>2, <3>2
        <3> HIDE DEF P, Q
        <3>4. Len(P \o Q) = Len(P) + Len(Q)
            BY <3>3, ConcatProperties
        <3>5. ASSUME \A v \in Values(A) : c <= v PROVE Len(P) = 0
            <4>1. c <= A[i].first
                BY <2>1, <3>5, ValuesOf
            <4> QED BY <4>1, <3>3, <2>1
        <3>6. Len(P) <= 1 /\ Len(Q) <= 1 /\ Len(P) \in Nat /\ Len(Q) \in Nat
            BY <3>3
        <3> QED BY <3>1, <3>4, <3>5, <3>6
    <2> QED BY <2>3, <2>4
<1>5. n = FlattenSeq(m)
    BY <1>10 DEF Pieces
<1> HIDE DEF m
<1>6. CASE Len(A) = 0
    <2>1. A = <<>>
        BY <1>6, EmptySeq
    <2>2. n = m /\ m = <<>>
        <3>1. Len(m) = 0
            BY <1>3, <1>6
        <3>2. m = <<>>
            BY <1>3, <3>1, EmptySeq
        <3> QED BY <3>1, <3>2, <1>5 DEF FlattenSeq
    <2>3. Len(n) <= 2
        BY <2>2, EmptySeq
    <2> QED BY <2>1, <2>2, <2>3, NoSegment
<1>7. CASE Len(A) = 1
    <2>1. 1 \in 1 .. Len(A)
        BY <1>7
    <2>2. n = Minus(A[1], c, d)
        <3>1. FlattenSeq(m) = m[1]
            <4>1. Len(m) = 1 /\ Len(m) \in 1 .. 2 /\ m \in Seq(Seq(Seg))
                BY <1>3, <1>7
            <4>2. FlattenSeq(m) = IF Len(m) = 1 THEN m[1] ELSE m[1] \o m[2]
                BY <4>1, Flatten
            <4> QED BY <4>1, <4>2
        <3> QED BY <3>1, <2>1, <1>3, <1>5
    <2>3. Values(A) = Vals(A[1])
        <3>1. 1 .. Len(A) = {1}
            BY <1>7
        <3> QED BY <3>1, ValuesOf
    <2> QED BY <2>1, <2>2, <2>3, <1>2, <1>4
<1>8. CASE Len(A) = 2
    <2>1. 1 \in 1 .. Len(A) /\ 2 \in 1 .. Len(A) /\ 1 .. Len(A) = {1, 2}
        BY <1>8
    <2> DEFINE P == Minus(A[1], c, d)
               Q == Minus(A[2], c, d)
    <2>2. n = P \o Q
        <3>1. FlattenSeq(m) = m[1] \o m[2]
            <4>1. Len(m) = 2 /\ Len(m) \in 1 .. 2 /\ m \in Seq(Seq(Seg))
                BY <1>3, <1>8
            <4>2. FlattenSeq(m) = IF Len(m) = 1 THEN m[1] ELSE m[1] \o m[2]
                BY <4>1, Flatten
            <4> QED BY <4>1, <4>2
        <3> QED BY <3>1, <2>1, <1>3, <1>5
    <2>3. /\ P \in Seq(Seg) /\ Apart(P) /\ Values(P) = Vals(A[1]) \ (c .. d)
          /\ Q \in Seq(Seg) /\ Apart(Q) /\ Values(Q) = Vals(A[2]) \ (c .. d)
        BY <2>1, <1>2
    <2>4. (\A v \in Values(A) : c <= v) => Len(P) <= 1 /\ Len(Q) <= 1
        BY <2>1, <1>4
    <2> HIDE DEF P, Q
    <2>5. Joined(n, P, Q)
        BY <2>2, <2>3, Concat
    <2>6. Values(A) = Vals(A[1]) \cup Vals(A[2]) /\ Vals(A[1]) \cap Vals(A[2]) = {}
        <3>1. \A v : v \in Values(A) <=> \E i \in {1, 2} : v \in Vals(A[i])
            BY <2>1, ValuesOf
        <3>2. 1 # 2
            OBVIOUS
        <3> QED BY <3>1, <3>2, <2>1 DEF Apart
    <2>7. n \in Seq(Seg) /\ Apart(n) /\ Values(n) = Values(P) \cup Values(Q)
        BY <2>3, <2>5, <2>6 DEF Joined
    <2>8. Len(n) = Len(P) + Len(Q) /\ Len(P) \in Nat /\ Len(Q) \in Nat
        BY <2>2, <2>3, ConcatProperties
    <2>9. Len(A) = 1 \/ (\A v \in Values(A) : c <= v) => Len(n) <= 2
        BY <1>8, <2>4, <2>8
    <2> QED BY <2>3, <2>6, <2>7, <2>9
<1>9. Len(A) = 0 \/ Len(A) = 1 \/ Len(A) = 2
    BY <1>1
<1> QED BY <1>6, <1>7, <1>8, <1>9

\* Reserve takes a range out of the pool.
Reserved(p, q, a, b, c, d) ==
    /\ SoundPool(q, a, b) /\ Values(q.segs) = Values(p.segs) \ (c .. d)
    /\ Len(p.segs) = 1 \/ (\A v \in Values(p.segs) : c <= v) => Len(q.segs) <= 2

LEMMA ReserveFacts ==
    ASSUME NEW p, NEW a, NEW b, SoundPool(p, a, b), IsFiniteSet(Values(p.segs)), Len(p.segs) <= 2,
           NEW c \in Int, NEW d \in Int, c <= d
    PROVE  Reserved(p, ReservePool(p, c, d), a, b, c, d)
<1> DEFINE q == ReservePool(p, c, d)
           A == p.segs
           n == FlattenSeq([i \in DOMAIN A |-> Minus(A[i], c, d)])
<1>1. p \in [first : All, last : All, segs : Seq(Seg), remain : Int] /\ A \in Seq(Seg) /\ Apart(A)
      /\ p.remain = Cardinality(Values(A)) /\ p.first = a /\ p.last = b
    BY DEF SoundPool
<1>2. q = [p EXCEPT !.segs = n, !.remain = p.remain - Cardinality(Values(A) \cap (c .. d))]
    BY DEF ReservePool
<1> HIDE DEF q
<1>3. /\ n \in Seq(Seg) /\ Apart(n) /\ Values(n) = Values(A) \ (c .. d)
      /\ Len(A) = 1 \/ (\A v \in Values(A) : c <= v) => Len(n) <= 2
    <2>1. A \in Seq(Seg) /\ Apart(A) /\ Len(A) <= 2
        BY <1>1
    <2> HIDE DEF A, n
    <2>2. Cut(A, Pieces(A, c, d), c, d)
        BY <2>1, ReserveSegs
    <2> QED BY <2>2 DEF Cut, Pieces, n
<1>4. IsFiniteSet(Values(A)) /\ IsFiniteSet(Values(A) \cap (c .. d))
    BY FS_Subset
<1> HIDE DEF A, n
<1>5. Cardinality(Values(A) \cap (c .. d)) \in Nat
    BY <1>4, FS_CardinalityType
<1>6. PICK r \in Int : r = p.remain - Cardinality(Values(A) \cap (c .. d))
    BY <1>1, <1>5
<1>7. r = Cardinality(Values(n))
    <2>1. Cardinality(Values(A) \ (c .. d)) = Cardinality(Values(A)) - Cardinality(Values(A) \cap (c .. d))
        BY <1>4, FS_Difference
    <2> QED BY <2>1, <1>1, <1>3, <1>6
<1>8. SoundPool(q, a, b) /\ q.segs = n
    <2>1. q = With(p, n, r)
        BY <1>2, <1>6 DEF With
    <2>2. n \in Seq(Seg) /\ Apart(n)
        BY <1>3
    <2> QED BY <2>1, <2>2, <1>7, Changed
<1> QED BY <1>3, <1>8 DEF A, q, Reserved
-----------------------------------------------------------------------------
(* The pools of the DNN.                                                   *)

\* The addresses are finitely many.
LEMMA FiniteAll ==
    ASSUME NEW S, S \subseteq All
    PROVE  IsFiniteSet(S) /\ Cardinality(S) \in 0 .. Broadcast + 1
<1>1. IsFiniteSet(All) /\ Cardinality(All) = Broadcast + 1
    BY RangeAssumption, FS_Interval DEF All
<1>2. IsFiniteSet(S) /\ Cardinality(S) <= Cardinality(All)
    BY <1>1, FS_Subset
<1>3. Cardinality(S) \in Nat
    BY <1>2, FS_CardinalityType
<1> QED BY <1>1, <1>2, <1>3, RangeAssumption

\* The two ranges.
LEMMA Ranges ==
    /\ All \subseteq Nat /\ Static \subseteq All /\ Dynamic \subseteq All /\ Static \cap Dynamic = {}
    /\ Network \in All /\ Broadcast \in All /\ StaticFirst \in All /\ StaticLast \in All
    /\ \A v \in Static : StaticFirst <= v /\ v <= StaticLast
    /\ \A v \in All : Network <= v /\ v <= Broadcast
BY RangeAssumption DEF All, Static, Dynamic, Network

\* What an address of the pools is.
LEMMA GivenIs ==
    /\ \A x \in Given : /\ x \in [value : All, static : BOOLEAN] /\ x # NoAddress /\ x.value # None
                        /\ x.static => x.value \in Static
                        /\ ~x.static => x.value \in Dynamic
    /\ \A v \in Static : [value |-> v, static |-> TRUE] \in Given
    /\ \A v \in Dynamic : [value |-> v, static |-> FALSE] \in Given
    /\ NoAddress.value = None /\ NoAddress.static = FALSE /\ None \notin All
<1>1. None \notin All
    BY RangeAssumption, NoneAssumption DEF All
<1>2. \A x \in Given : /\ x \in [value : All, static : BOOLEAN]
                       /\ x.static => x.value \in Static
                       /\ ~x.static => x.value \in Dynamic
    <2> SUFFICES ASSUME NEW x \in Given
                 PROVE  /\ x \in [value : All, static : BOOLEAN]
                        /\ x.static => x.value \in Static
                        /\ ~x.static => x.value \in Dynamic
        OBVIOUS
    <2>1. Static \subseteq All /\ Dynamic \subseteq All
        BY Ranges
    <2>2. CASE \E v \in Static : x = [value |-> v, static |-> TRUE]
        BY <2>1, <2>2
    <2>3. CASE \E v \in Dynamic : x = [value |-> v, static |-> FALSE]
        BY <2>1, <2>3
    <2> QED BY <2>2, <2>3 DEF Given
<1>3. NoAddress.value = None /\ NoAddress.static = FALSE
    BY DEF NoAddress
<1>4. \A x \in Given : x # NoAddress /\ x.value # None
    BY <1>1, <1>2, <1>3
<1>5. /\ \A v \in Static : [value |-> v, static |-> TRUE] \in Given
      /\ \A v \in Dynamic : [value |-> v, static |-> FALSE] \in Given
    BY DEF Given
<1> QED BY <1>1, <1>2, <1>3, <1>4, <1>5

LEMMA InitInv == Init => IInv
<1> SUFFICES ASSUME Init PROVE IInv
    OBVIOUS
<1> DEFINE p0 == NewLazyReusePool(Network, Broadcast)
           p1 == ReservePool(p0, StaticFirst, StaticLast)
           p2 == ReservePool(p1, Network, Network)
           p3 == ReservePool(p2, Broadcast, Broadcast)
<1>1. SoundPool(stat, StaticFirst, StaticLast) /\ Values(stat.segs) = Static
    BY Ranges, RangeAssumption, NewFacts DEF Init, Static
<1>2. SoundPool(p0, Network, Broadcast) /\ Values(p0.segs) = All /\ Len(p0.segs) = 1
    BY Ranges, NewFacts DEF All, Network
<1>3. dyn = p3
    BY DEF Init
<1>13. /\ p1 = ReservePool(p0, StaticFirst, StaticLast) /\ p2 = ReservePool(p1, Network, Network)
      /\ p3 = ReservePool(p2, Broadcast, Broadcast)
    OBVIOUS
<1> HIDE DEF p0, p1, p2, p3
<1>4. SoundPool(p1, Network, Broadcast) /\ Values(p1.segs) = All \ Static /\ Len(p1.segs) <= 2
    <2>1. IsFiniteSet(Values(p0.segs)) /\ Len(p0.segs) <= 2 /\ Len(p0.segs) = 1
        BY <1>2, FiniteAll
    <2>2. StaticFirst \in Int /\ StaticLast \in Int /\ StaticFirst <= StaticLast
        BY RangeAssumption
    <2>3. SoundPool(p1, Network, Broadcast) /\ Len(p1.segs) <= 2
          /\ Values(p1.segs) = Values(p0.segs) \ (StaticFirst .. StaticLast)
        <3>1. Reserved(p0, p1, Network, Broadcast, StaticFirst, StaticLast)
            BY <1>2, <1>13, <2>1, <2>2, ReserveFacts
        <3> QED BY <3>1, <2>1 DEF Reserved
    <2> QED BY <2>3, <1>2 DEF Static
<1>5. SoundPool(p2, Network, Broadcast) /\ Values(p2.segs) = (All \ Static) \ {0} /\ Len(p2.segs) <= 2
    <2>1. IsFiniteSet(Values(p1.segs))
        BY <1>4, FiniteAll
    <2>2. Network \in Int /\ Network <= Network /\ Network .. Network = {0}
        BY DEF Network
    <2>3. \A v \in Values(p1.segs) : Network <= v
        BY <1>4, Ranges
    <2>4. SoundPool(p2, Network, Broadcast) /\ Len(p2.segs) <= 2
          /\ Values(p2.segs) = Values(p1.segs) \ (Network .. Network)
        <3>1. Reserved(p1, p2, Network, Broadcast, Network, Network)
            BY <1>4, <1>13, <2>1, <2>2, ReserveFacts
        <3> QED BY <3>1, <2>3 DEF Reserved
    <2> QED BY <2>2, <2>4, <1>4
<1>6. SoundPool(p3, Network, Broadcast) /\ Values(p3.segs) = ((All \ Static) \ {0}) \ {Broadcast}
    <2>1. IsFiniteSet(Values(p2.segs))
        BY <1>5, FiniteAll
    <2>2. Broadcast \in Int /\ Broadcast <= Broadcast /\ Broadcast .. Broadcast = {Broadcast}
        BY RangeAssumption
    <2>3. /\ SoundPool(p3, Network, Broadcast)
          /\ Values(p3.segs) = Values(p2.segs) \ (Broadcast .. Broadcast)
        <3>1. Reserved(p2, p3, Network, Broadcast, Broadcast, Broadcast)
            BY <1>5, <1>13, <2>1, <2>2, ReserveFacts
        <3> QED BY <3>1 DEF Reserved
    <2> QED BY <2>2, <2>3, <1>5
<1>7. Pools
    BY <1>1, <1>3, <1>6 DEF Pools
<1>8. \A s \in Sessions : addr[s] = NoAddress
    BY DEF Init
<1>9. Held(TRUE) = {} /\ Held(FALSE) = {}
    BY <1>8, GivenIs DEF Held
<1>10. FreeInPools
    BY <1>1, <1>3, <1>6, <1>9 DEF FreeInPools, Dynamic, Network
<1>11. Owners
    BY DEF Init, Owners
<1>12. Queued
    BY DEF Init, Queued
<1> QED BY <1>7, <1>10, <1>11, <1>12 DEF IInv

\* A session gets an address that is free.
LEMMA GiveOwners ==
    ASSUME Owners, ahead \in [All -> SUBSET All], NEW s \in Sessions, addr[s] = NoAddress,
           NEW v \in All, NEW x \in BOOLEAN, NEW r \in All \cup {None},
           [value |-> v, static |-> x] \in Given, v \notin Held(x), Give(s, v, x, r)
    PROVE  /\ Owners' /\ Held(x)' = Held(x) \cup {v} /\ Held(~x)' = Held(~x)
           /\ ahead' \in [All -> SUBSET All]
           /\ \A a \in All : \A w \in ahead'[a] : w \in ahead[a] /\ w # v /\ a # v
<1> DEFINE g == [value |-> v, static |-> x]
<1>1. g.value = v /\ g.static = x /\ g \in Given
    OBVIOUS
<1>2. v # None
    BY GivenIs
<1>3. addr' = [addr EXCEPT ![s] = g] /\ asked' = [asked EXCEPT ![s] = r] /\ old' = old \ {g}
    BY DEF Give
<1> HIDE DEF g
<1>4. /\ addr \in [Sessions -> Given \cup {NoAddress}]
      /\ asked \in [Sessions -> All \cup {None}]
      /\ \A t, u \in Sessions : addr[t] = addr[u] /\ addr[t] # NoAddress => t = u
      /\ old \subseteq Given /\ \A t \in Sessions : addr[t] \notin old
    BY DEF Owners
<1>5. /\ addr' \in [Sessions -> Given \cup {NoAddress}] /\ addr'[s] = g
      /\ \A t \in Sessions \ {s} : addr'[t] = addr[t]
    BY <1>1, <1>3, <1>4
<1>6. \A t \in Sessions : addr[t] # g
    <2> SUFFICES ASSUME NEW t \in Sessions, addr[t] = g PROVE FALSE
        OBVIOUS
    <2>1. addr[t].static = x /\ addr[t].value = v
        BY <1>1
    <2> QED BY <2>1, <1>2 DEF Held
<1>7. Owners'
    <2>1. asked' \in [Sessions -> All \cup {None}]
        BY <1>3, <1>4
    <2>2. \A t, u \in Sessions : addr'[t] = addr'[u] /\ addr'[t] # NoAddress => t = u
        BY <1>4, <1>5, <1>6
    <2>3. old' \subseteq Given /\ \A t \in Sessions : addr'[t] \notin old'
        BY <1>3, <1>4, <1>5
    <2> QED BY <2>1, <2>2, <2>3, <1>5 DEF Owners
<1>8. addr[s].value = None
    BY GivenIs
<1>9. Held(x)' = Held(x) \cup {v}
    <2>1. ASSUME NEW w \in Held(x)' PROVE w \in Held(x) \cup {v}
        <3>1. PICK t \in Sessions : addr'[t].static = x /\ addr'[t].value = w /\ w # None
            BY DEF Held
        <3> QED BY <3>1, <1>1, <1>5 DEF Held
    <2>2. ASSUME NEW w \in Held(x) PROVE w \in Held(x)'
        <3>1. PICK t \in Sessions : addr[t].static = x /\ addr[t].value = w /\ w # None
            BY DEF Held
        <3>2. t # s
            BY <3>1, <1>8
        <3> QED BY <3>1, <3>2, <1>5 DEF Held
    <2>3. v \in Held(x)'
        BY <1>1, <1>2, <1>5 DEF Held
    <2> QED BY <2>1, <2>2, <2>3
<1>10. Held(~x)' = Held(~x)
    <2>1. ASSUME NEW w \in Held(~x)' PROVE w \in Held(~x)
        <3>1. PICK t \in Sessions : addr'[t].static = ~x /\ addr'[t].value = w /\ w # None
            BY DEF Held
        <3>2. t # s
            BY <3>1, <1>1, <1>5
        <3> QED BY <3>1, <3>2, <1>5 DEF Held
    <2>2. ASSUME NEW w \in Held(~x) PROVE w \in Held(~x)'
        <3>1. PICK t \in Sessions : addr[t].static = ~x /\ addr[t].value = w /\ w # None
            BY DEF Held
        <3>2. t # s
            BY <3>1, <1>8
        <3> QED BY <3>1, <3>2, <1>5 DEF Held
    <2> QED BY <2>1, <2>2
<1>11. /\ ahead' \in [All -> SUBSET All]
       /\ \A a \in All : \A w \in ahead'[a] : w \in ahead[a] /\ w # v /\ a # v
    BY DEF Give
<1> QED BY <1>7, <1>9, <1>10, <1>11

\* A session gives its address back.
LEMMA ReleaseOwners ==
    ASSUME Owners, NEW s \in Sessions, addr[s] # NoAddress, NEW g, g = addr[s],
           addr' = [addr EXCEPT ![s] = NoAddress], asked' = [asked EXCEPT ![s] = None],
           old' = old \cup {g}
    PROVE  /\ Owners' /\ g \in Given /\ g.value \in Held(g.static)
           /\ Held(g.static)' = Held(g.static) \ {g.value}
           /\ Held(~g.static)' = Held(~g.static)
<1>1. /\ addr \in [Sessions -> Given \cup {NoAddress}]
      /\ asked \in [Sessions -> All \cup {None}]
      /\ \A t, u \in Sessions : addr[t] = addr[u] /\ addr[t] # NoAddress => t = u
      /\ old \subseteq Given /\ \A t \in Sessions : addr[t] \notin old
    BY DEF Owners
<1>2. /\ addr' \in [Sessions -> Given \cup {NoAddress}] /\ addr'[s] = NoAddress
      /\ \A t \in Sessions \ {s} : addr'[t] = addr[t]
    BY <1>1
<1>3. g = addr[s]
    OBVIOUS
<1>4. g \in Given /\ g # NoAddress /\ g.value # None /\ g.static \in BOOLEAN
    BY <1>1, <1>3, GivenIs
<1>5. Owners'
    <2>1. asked' \in [Sessions -> All \cup {None}]
        BY <1>1
    <2>2. \A t, u \in Sessions : addr'[t] = addr'[u] /\ addr'[t] # NoAddress => t = u
        BY <1>1, <1>2
    <2>3. old' \subseteq Given
        BY <1>1, <1>3, <1>4
    <2>4. ASSUME NEW t \in Sessions PROVE addr'[t] \notin old'
        <3>1. CASE t = s
            BY <3>1, <1>2, <2>3, GivenIs
        <3>2. CASE t # s
            <4>1. addr'[t] = addr[t] /\ addr[t] \notin old
                BY <3>2, <1>1, <1>2
            <4>2. addr[t] # addr[s]
                BY <3>2, <1>1
            <4> QED BY <4>1, <4>2
        <3> QED BY <3>1, <3>2
    <2> QED BY <2>1, <2>2, <2>3, <2>4, <1>2 DEF Owners
<1>6. NoAddress.value = None
    BY GivenIs
<1>7. \A t \in Sessions \ {s} : addr[t].static = g.static => addr[t].value # g.value
    <2> SUFFICES ASSUME NEW t \in Sessions \ {s}, addr[t].static = g.static, addr[t].value = g.value
                 PROVE  FALSE
        OBVIOUS
    <2>1. addr[t] \in Given
        BY <1>1, <1>4, <1>6
    <2>2. \A y \in Given : y = [value |-> y.value, static |-> y.static]
        BY GivenIs
    <2>3. addr[t] = g
        BY <2>1, <2>2, <1>4
    <2> QED BY <2>3, <1>1, <1>3
<1>8. Held(g.static)' = Held(g.static) \ {g.value}
    <2>1. ASSUME NEW w \in Held(g.static)' PROVE w \in Held(g.static) \ {g.value}
        <3>1. PICK t \in Sessions : addr'[t].static = g.static /\ addr'[t].value = w /\ w # None
            BY DEF Held
        <3>2. t # s
            BY <3>1, <1>2, <1>6
        <3> QED BY <3>1, <3>2, <1>2, <1>7 DEF Held
    <2>2. ASSUME NEW w \in Held(g.static) \ {g.value} PROVE w \in Held(g.static)'
        <3>1. PICK t \in Sessions : addr[t].static = g.static /\ addr[t].value = w /\ w # None
            BY DEF Held
        <3>2. t # s
            BY <3>1, <1>3
        <3> QED BY <3>1, <3>2, <1>2 DEF Held
    <2> QED BY <2>1, <2>2
<1>9. Held(~g.static)' = Held(~g.static)
    <2>1. ASSUME NEW w \in Held(~g.static)' PROVE w \in Held(~g.static)
        <3>1. PICK t \in Sessions : addr'[t].static = ~g.static /\ addr'[t].value = w /\ w # None
            BY DEF Held
        <3>2. t # s
            BY <3>1, <1>2, <1>6
        <3> QED BY <3>1, <3>2, <1>2 DEF Held
    <2>2. ASSUME NEW w \in Held(~g.static) PROVE w \in Held(~g.static)'
        <3>1. PICK t \in Sessions : addr[t].static = ~g.static /\ addr[t].value = w /\ w # None
            BY DEF Held
        <3>2. t # s
            BY <3>1, <1>3, <1>4
        <3> QED BY <3>1, <3>2, <1>2 DEF Held
    <2> QED BY <2>1, <2>2
<1>10. g.value \in Held(g.static)
    BY <1>3, <1>4 DEF Held
<1> QED BY <1>4, <1>5, <1>8, <1>9, <1>10

\* What is in order in a list is in the list.
LEMMA PrecedesIn ==
    ASSUME NEW A \in Seq(Seg), NEW w, NEW v, Precedes(A, w, v)
    PROVE  w \in Values(A) /\ v \in Values(A)
BY ValuesOf DEF Precedes

\* The facts about the two pools the steps rest on.
LEMMA Sound ==
    ASSUME IInv
    PROVE  /\ SoundPool(stat, StaticFirst, StaticLast) /\ SoundPool(dyn, Network, Broadcast)
           /\ stat.segs \in Seq(Seg) /\ dyn.segs \in Seq(Seg)
           /\ Values(stat.segs) = Static \ Held(TRUE) /\ Values(dyn.segs) = Dynamic \ Held(FALSE)
           /\ IsFiniteSet(Values(stat.segs)) /\ IsFiniteSet(Values(dyn.segs))
<1>1. Values(stat.segs) = Static \ Held(TRUE) /\ Values(dyn.segs) = Dynamic \ Held(FALSE)
    BY DEF IInv, FreeInPools
<1>2. Values(stat.segs) \subseteq All /\ Values(dyn.segs) \subseteq All
    BY <1>1, Ranges
<1>3. IsFiniteSet(Values(stat.segs)) /\ IsFiniteSet(Values(dyn.segs))
    BY <1>2, FiniteAll
<1> QED BY <1>1, <1>3 DEF IInv, Pools, SoundPool

\* A session gets the free value v of the static or of the dynamic pool, and the
\* other values of the pool stay in their order.
GiveStep(s, v, x, r) ==
    /\ addr[s] = NoAddress /\ v \in All
    /\ x \in BOOLEAN /\ r \in All \cup {None} /\ Give(s, v, x, r)
    /\ \/ /\ x = TRUE /\ v \in Values(stat.segs)
          /\ SoundPool(stat', StaticFirst, StaticLast) /\ Values(stat'.segs) = Values(stat.segs) \ {v}
          /\ KeepsOthers(stat.segs, stat'.segs, v) /\ dyn' = dyn
       \/ /\ x = FALSE /\ v \in Values(dyn.segs)
          /\ SoundPool(dyn', Network, Broadcast) /\ Values(dyn'.segs) = Values(dyn.segs) \ {v}
          /\ KeepsOthers(dyn.segs, dyn'.segs, v) /\ stat' = stat

LEMMA AllocateStep ==
    ASSUME IInv, NEW s \in Sessions, Allocate(s)
    PROVE  /\ GiveStep(s, dyn.segs[1].first, FALSE, None)
           /\ InFront(dyn.segs, dyn.segs[1].first)
<1>1. PICK v : v = dyn.segs[1].first
    OBVIOUS
<1>2. addr[s] = NoAddress /\ dyn.segs # <<>> /\ dyn' = AllocatePool(dyn) /\ stat' = stat
      /\ Give(s, v, FALSE, None)
    BY <1>1 DEF Allocate
<1>3. /\ InFront(dyn.segs, v)
      /\ SoundPool(dyn', Network, Broadcast) /\ Values(dyn'.segs) = Values(dyn.segs) \ {v}
      /\ KeepsOthers(dyn.segs, dyn'.segs, v)
    <2>1. /\ SoundPool(dyn, Network, Broadcast) /\ IsFiniteSet(Values(dyn.segs))
          /\ IsHead(dyn.segs, v) /\ dyn' = AllocatePool(dyn)
        BY <1>1, <1>2, Sound DEF IsHead
    <2> QED BY <2>1, AllocateFacts
<1>4. v \in Values(dyn.segs) /\ v \in All
    BY <1>3, Sound, Ranges DEF InFront
<1> QED BY <1>1, <1>2, <1>3, <1>4 DEF GiveStep

LEMMA UseStep ==
    ASSUME IInv, NEW s \in Sessions, NEW v \in All, Use(s, v)
    PROVE  GiveStep(s, v, v \in Static, v)
<1>1. CASE v \in Static
    <2>1. addr[s] = NoAddress /\ v \in Values(stat.segs) /\ stat' = UsePool(stat, v) /\ dyn' = dyn
          /\ Give(s, v, TRUE, v)
        BY <1>1 DEF Use
    <2>2. /\ SoundPool(stat', StaticFirst, StaticLast)
          /\ Values(stat'.segs) = Values(stat.segs) \ {v} /\ KeepsOthers(stat.segs, stat'.segs, v)
        BY <2>1, Sound, UseFacts
    <2>3. GiveStep(s, v, TRUE, v)
        BY <2>1, <2>2 DEF GiveStep
    <2>4. (v \in Static) = TRUE
        BY <1>1
    <2> QED BY <2>3, <2>4
<1>2. CASE v \notin Static
    <2>1. addr[s] = NoAddress /\ v \in Values(dyn.segs) /\ dyn' = UsePool(dyn, v) /\ stat' = stat
          /\ Give(s, v, FALSE, v)
        BY <1>2 DEF Use
    <2>2. /\ SoundPool(dyn', Network, Broadcast)
          /\ Values(dyn'.segs) = Values(dyn.segs) \ {v} /\ KeepsOthers(dyn.segs, dyn'.segs, v)
        BY <2>1, Sound, UseFacts
    <2>3. GiveStep(s, v, FALSE, v)
        BY <2>1, <2>2 DEF GiveStep
    <2>4. (v \in Static) = FALSE
        BY <1>2
    <2> QED BY <2>3, <2>4
<1> QED BY <1>1, <1>2

LEMMA GiveInv ==
    ASSUME IInv, NEW s \in Sessions, NEW v, NEW x, NEW r, GiveStep(s, v, x, r)
    PROVE  IInv'
<1>1. v \in All /\ x \in BOOLEAN /\ r \in All \cup {None} /\ addr[s] = NoAddress /\ Give(s, v, x, r)
    BY DEF GiveStep
<1>2. [value |-> v, static |-> x] \in Given /\ v \notin Held(x)
    <2>1. CASE x = TRUE
        <3>1. v \in Static /\ v \notin Held(TRUE)
            BY <2>1, Sound DEF GiveStep
        <3> QED BY <2>1, <3>1, GivenIs
    <2>2. CASE x = FALSE
        <3>1. v \in Dynamic /\ v \notin Held(FALSE)
            BY <2>2, Sound DEF GiveStep
        <3> QED BY <2>2, <3>1, GivenIs
    <2> QED BY <2>1, <2>2, <1>1
<1>3. /\ Owners' /\ Held(x)' = Held(x) \cup {v} /\ Held(~x)' = Held(~x)
      /\ ahead' \in [All -> SUBSET All]
      /\ \A a \in All : \A w \in ahead'[a] : w \in ahead[a] /\ w # v /\ a # v
    <2>1. Owners /\ ahead \in [All -> SUBSET All]
        BY DEF IInv, Queued
    <2> QED BY <2>1, <1>1, <1>2, GiveOwners
<1>4. /\ SoundPool(stat, StaticFirst, StaticLast) /\ SoundPool(dyn, Network, Broadcast)
      /\ Values(stat.segs) = Static \ Held(TRUE) /\ Values(dyn.segs) = Dynamic \ Held(FALSE)
    BY Sound
<1>5. Pools'
    BY <1>4 DEF GiveStep, Pools
<1>6. FreeInPools'
    <2>1. CASE x = TRUE
        <3>1. Values(stat'.segs) = Values(stat.segs) \ {v} /\ dyn' = dyn
            BY <2>1 DEF GiveStep
        <3>2. Held(TRUE)' = Held(TRUE) \cup {v} /\ Held(FALSE)' = Held(FALSE)
            BY <2>1, <1>3
        <3> QED BY <3>1, <3>2, <1>4 DEF FreeInPools
    <2>2. CASE x = FALSE
        <3>1. Values(dyn'.segs) = Values(dyn.segs) \ {v} /\ stat' = stat
            BY <2>2 DEF GiveStep
        <3>2. Held(FALSE)' = Held(FALSE) \cup {v} /\ Held(TRUE)' = Held(TRUE)
            BY <2>2, <1>3
        <3> QED BY <3>1, <3>2, <1>4 DEF FreeInPools
    <2> QED BY <2>1, <2>2, <1>1
<1>7. Queued'
    <2>1. ASSUME NEW a \in All, NEW w \in ahead'[a]
          PROVE  Precedes(stat'.segs, w, a) \/ Precedes(dyn'.segs, w, a)
        <3>1. w \in ahead[a] /\ w # v /\ a # v
            BY <1>3
        <3>2. Precedes(stat.segs, w, a) \/ Precedes(dyn.segs, w, a)
            BY <3>1 DEF IInv, Queued
        <3>3. KeepsOthers(stat.segs, stat'.segs, v) \/ stat' = stat
            BY DEF GiveStep
        <3>4. KeepsOthers(dyn.segs, dyn'.segs, v) \/ dyn' = dyn
            BY DEF GiveStep
        <3> QED BY <3>1, <3>2, <3>3, <3>4 DEF KeepsOthers
    <2> QED BY <2>1, <1>3 DEF Queued
<1> QED BY <1>3, <1>5, <1>6, <1>7 DEF IInv

\* The values of the head are in the list.
LEMMA HeadIn ==
    ASSUME NEW p, p.segs \in Seq(Seg)
    PROVE  HeadValues(p) \subseteq Values(p.segs)
<1>1. CASE p.segs = <<>>
    BY <1>1 DEF HeadValues
<1>2. CASE p.segs # <<>>
    <2>1. 1 \in 1 .. Len(p.segs)
        BY <1>2, EmptySeq
    <2> QED BY <1>2, <2>1, ValuesOf DEF HeadValues, Vals
<1> QED BY <1>1, <1>2

LEMMA ReleaseInv ==
    ASSUME IInv, NEW s \in Sessions, Release(s)
    PROVE  IInv'
<1>1. PICK g : g = addr[s]
    OBVIOUS
<1>2. /\ g # NoAddress /\ ReleaseUEIP(g) /\ addr' = [addr EXCEPT ![s] = NoAddress]
      /\ asked' = [asked EXCEPT ![s] = None] /\ old' = old \cup {g}
      /\ ahead' = [ahead EXCEPT ![g.value] = HeadValues(IF g.static THEN stat ELSE dyn) \ {g.value}]
    BY <1>1 DEF Release
<1>3. /\ Owners' /\ g \in Given /\ g.value \in Held(g.static)
      /\ Held(g.static)' = Held(g.static) \ {g.value}
      /\ Held(~g.static)' = Held(~g.static)
    BY <1>1, <1>2, ReleaseOwners DEF IInv
<1>4. PICK v, x : v = g.value /\ x = g.static
    OBVIOUS
<1>5. /\ v \in All /\ v \in Int /\ x \in BOOLEAN /\ v \in Held(x)
      /\ Held(x)' = Held(x) \ {v} /\ Held(~x)' = Held(~x)
      /\ x => v \in Static
      /\ ~x => v \in Dynamic
      /\ ahead' = [ahead EXCEPT ![v] = HeadValues(IF x THEN stat ELSE dyn) \ {v}]
      /\ IF x THEN stat' = FreePool(stat, v) /\ dyn' = dyn ELSE dyn' = FreePool(dyn, v) /\ stat' = stat
    <2>1. v \in All /\ x \in BOOLEAN /\ (x => v \in Static) /\ (~x => v \in Dynamic)
        BY <1>3, <1>4, GivenIs
    <2>2. v \in Int
        BY <2>1, Ranges
    <2>3. IF x THEN stat' = FreePool(stat, v) /\ dyn' = dyn ELSE dyn' = FreePool(dyn, v) /\ stat' = stat
        BY <1>2, <1>4 DEF ReleaseUEIP
    <2> QED BY <2>1, <2>2, <2>3, <1>2, <1>3, <1>4
<1>6. /\ SoundPool(stat, StaticFirst, StaticLast) /\ SoundPool(dyn, Network, Broadcast)
      /\ stat.segs \in Seq(Seg) /\ dyn.segs \in Seq(Seg)
      /\ Values(stat.segs) = Static \ Held(TRUE) /\ Values(dyn.segs) = Dynamic \ Held(FALSE)
      /\ IsFiniteSet(Values(stat.segs)) /\ IsFiniteSet(Values(dyn.segs))
    BY Sound
<1>7. CASE x
    <2>1. /\ SoundPool(stat', StaticFirst, StaticLast) /\ Values(stat'.segs) = Values(stat.segs) \cup {v}
          /\ Keeps(stat.segs, stat'.segs) /\ Behind(stat'.segs, HeadValues(stat), v)
        <3>1. StaticFirst <= v /\ v <= StaticLast
            BY <1>5, <1>7, Ranges
        <3>2. v \notin Values(stat.segs) /\ stat' = FreePool(stat, v)
            BY <1>5, <1>6, <1>7
        <3>3. SoundPool(stat, StaticFirst, StaticLast) /\ IsFiniteSet(Values(stat.segs)) /\ v \in Int
            BY <1>5, <1>6
        <3> QED BY <3>1, <3>2, <3>3, FreeFacts
    <2>2. dyn' = dyn /\ Held(TRUE)' = Held(TRUE) \ {v} /\ Held(FALSE)' = Held(FALSE) /\ v \in Static
          /\ ahead' = [ahead EXCEPT ![v] = HeadValues(stat) \ {v}]
        BY <1>5, <1>7
    <2>3. Pools'
        BY <2>1, <2>2, <1>6 DEF Pools
    <2>4. FreeInPools'
        <3>1. Static \ Held(TRUE)' = (Static \ Held(TRUE)) \cup {v}
            <4>1. v \in Held(TRUE)
                BY <1>5, <1>7
            <4> QED BY <2>2, <4>1
        <3>2. Values(stat.segs)' = Values(stat'.segs) /\ Values(dyn.segs)' = Values(dyn.segs)
            BY <2>2
        <3>3. Dynamic' = Dynamic /\ Static' = Static
            BY DEF Dynamic, Static, All
        <3> QED BY <2>1, <2>2, <3>1, <3>2, <3>3, <1>6 DEF FreeInPools
    <2>5. HeadValues(stat) \subseteq All
        <3>1. HeadValues(stat) \subseteq Values(stat.segs)
            BY <1>6, HeadIn
        <3> QED BY <3>1, <1>6, Ranges
    <2>6. Queued'
        <3>1. ahead \in [All -> SUBSET All] /\ \A a \in All : \A w \in ahead[a] :
                  Precedes(stat.segs, w, a) \/ Precedes(dyn.segs, w, a)
            BY DEF IInv, Queued
        <3>2. ahead' \in [All -> SUBSET All]
            BY <2>2, <2>5, <3>1
        <3>3. ASSUME NEW a \in All, NEW w \in ahead'[a]
              PROVE  Precedes(stat'.segs, w, a) \/ Precedes(dyn'.segs, w, a)
            <4>1. CASE a = v
                BY <4>1, <2>1, <2>2, <3>1 DEF Behind
            <4>2. CASE a # v
                BY <4>2, <2>1, <2>2, <3>1 DEF Keeps
            <4> QED BY <4>1, <4>2
        <3> QED BY <3>2, <3>3 DEF Queued
    <2> QED BY <2>3, <2>4, <2>6, <1>3 DEF IInv
<1>8. CASE ~x
    <2>1. /\ SoundPool(dyn', Network, Broadcast) /\ Values(dyn'.segs) = Values(dyn.segs) \cup {v}
          /\ Keeps(dyn.segs, dyn'.segs) /\ Behind(dyn'.segs, HeadValues(dyn), v)
        <3>1. Network <= v /\ v <= Broadcast
            BY <1>5, Ranges
        <3>2. v \notin Values(dyn.segs) /\ dyn' = FreePool(dyn, v)
            BY <1>5, <1>6, <1>8
        <3>3. SoundPool(dyn, Network, Broadcast) /\ IsFiniteSet(Values(dyn.segs)) /\ v \in Int
            BY <1>5, <1>6
        <3> QED BY <3>1, <3>2, <3>3, FreeFacts
    <2>2. stat' = stat /\ Held(FALSE)' = Held(FALSE) \ {v} /\ Held(TRUE)' = Held(TRUE) /\ v \in Dynamic
          /\ ahead' = [ahead EXCEPT ![v] = HeadValues(dyn) \ {v}]
        BY <1>5, <1>8
    <2>3. Pools'
        BY <2>1, <2>2, <1>6 DEF Pools
    <2>4. FreeInPools'
        <3>1. Dynamic \ Held(FALSE)' = (Dynamic \ Held(FALSE)) \cup {v}
            <4>1. v \in Held(FALSE)
                BY <1>5, <1>8
            <4> QED BY <2>2, <4>1
        <3>2. Values(dyn.segs)' = Values(dyn'.segs) /\ Values(stat.segs)' = Values(stat.segs)
            BY <2>2
        <3>3. Dynamic' = Dynamic /\ Static' = Static
            BY DEF Dynamic, Static, All
        <3> QED BY <2>1, <2>2, <3>1, <3>2, <3>3, <1>6 DEF FreeInPools
    <2>5. HeadValues(dyn) \subseteq All
        <3>1. HeadValues(dyn) \subseteq Values(dyn.segs)
            BY <1>6, HeadIn
        <3> QED BY <3>1, <1>6, Ranges
    <2>6. Queued'
        <3>1. ahead \in [All -> SUBSET All] /\ \A a \in All : \A w \in ahead[a] :
                  Precedes(stat.segs, w, a) \/ Precedes(dyn.segs, w, a)
            BY DEF IInv, Queued
        <3>2. ahead' \in [All -> SUBSET All]
            BY <2>2, <2>5, <3>1
        <3>3. ASSUME NEW a \in All, NEW w \in ahead'[a]
              PROVE  Precedes(stat'.segs, w, a) \/ Precedes(dyn'.segs, w, a)
            <4>1. CASE a = v
                BY <4>1, <2>1, <2>2, <3>1 DEF Behind
            <4>2. CASE a # v
                BY <4>2, <2>1, <2>2, <3>1 DEF Keeps
            <4> QED BY <4>1, <4>2
        <3> QED BY <3>2, <3>3 DEF Queued
    <2> QED BY <2>3, <2>4, <2>6, <1>3 DEF IInv
<1> QED BY <1>5, <1>7, <1>8

\* A second release that finds the segments in order changes nothing.
LEMMA AgainNothing ==
    ASSUME IInv, ~Duplicates, NEW y \in old, ReleaseAgain(y)
    PROVE  dyn' = dyn /\ stat' = stat
<1>1. y \in Given /\ \A s \in Sessions : addr[s] # y
    BY DEF IInv, Owners
<1>2. ReleaseUEIP(y) /\ InOrder(IF y.static THEN stat.segs ELSE dyn.segs)
    BY DEF ReleaseAgain
<1>3. y = [value |-> y.value, static |-> y.static] /\ y.static \in BOOLEAN /\ y.value # None
    BY <1>1, GivenIs
<1>4. y.value \notin Held(y.static)
    <2> SUFFICES ASSUME y.value \in Held(y.static) PROVE FALSE
        OBVIOUS
    <2>1. PICK s \in Sessions : addr[s].static = y.static /\ addr[s].value = y.value
        BY DEF Held
    <2>2. addr[s] \in Given \cup {NoAddress}
        BY DEF IInv, Owners
    <2>3. addr[s] \in Given
        BY <1>3, <2>1, <2>2, GivenIs
    <2>4. addr[s] = [value |-> addr[s].value, static |-> addr[s].static]
        BY <2>3, GivenIs
    <2> QED BY <1>1, <1>3, <2>1, <2>4
<1>5. CASE y.static
    <2>1. y.value \in Values(stat.segs)
        <3>1. y.static = TRUE
            BY <1>3, <1>5
        <3> QED BY <3>1, <1>1, <1>4, Sound, GivenIs
    <2>2. FreePool(stat, y.value) = stat
        BY <2>1, <1>2, <1>5, Sound, FreeAgainFacts
    <2> QED BY <2>2, <1>2, <1>5 DEF ReleaseUEIP
<1>6. CASE ~y.static
    <2>1. y.value \in Values(dyn.segs)
        <3>1. y.static = FALSE
            BY <1>3, <1>6
        <3> QED BY <3>1, <1>1, <1>4, Sound, GivenIs
    <2>2. FreePool(dyn, y.value) = dyn
        BY <2>1, <1>2, <1>6, Sound, FreeAgainFacts
    <2> QED BY <2>2, <1>2, <1>6 DEF ReleaseUEIP
<1> QED BY <1>5, <1>6

LEMMA NextInv == ASSUME ~Duplicates PROVE IInv /\ [Next]_vars => IInv'
<1> SUFFICES ASSUME IInv, [Next]_vars PROVE IInv'
    OBVIOUS
<1>1. ASSUME NEW s \in Sessions, Allocate(s) PROVE IInv'
    <2>1. GiveStep(s, dyn.segs[1].first, FALSE, None)
        BY <1>1, AllocateStep
    <2>2. PICK v : v = dyn.segs[1].first
        OBVIOUS
    <2>3. GiveStep(s, v, FALSE, None)
        BY <2>1, <2>2
    <2> QED BY <2>3, GiveInv
<1>2. ASSUME NEW s \in Sessions, Release(s) PROVE IInv'
    BY <1>2, ReleaseInv
<1>3. ASSUME NEW s \in Sessions, NEW v \in All, Use(s, v) PROVE IInv'
    <2>1. GiveStep(s, v, v \in Static, v)
        BY <1>3, UseStep
    <2>2. PICK x : x = (v \in Static)
        OBVIOUS
    <2>3. GiveStep(s, v, x, v)
        BY <2>1, <2>2
    <2> QED BY <2>3, GiveInv
<1>4. ASSUME NEW y \in old, ReleaseAgain(y) PROVE IInv'
    <2>1. dyn' = dyn /\ stat' = stat
        BY <1>4, AgainNothing
    <2>2. addr' = addr /\ asked' = asked /\ old' = old /\ ahead' = ahead
        BY <1>4 DEF ReleaseAgain
    <2> QED BY <2>1, <2>2 DEF IInv, Pools, FreeInPools, Owners, Queued, Held
<1>5. CASE UNCHANGED vars
    BY <1>5 DEF vars, IInv, Pools, FreeInPools, Owners, Queued, Held
<1> QED BY <1>1, <1>2, <1>3, <1>4, <1>5 DEF Next

LEMMA Inv == ASSUME ~Duplicates PROVE Spec => []IInv
<1> QED BY InitInv, NextInv, PTL DEF Spec
-----------------------------------------------------------------------------
(* Theorems.                                                               *)

\* A sound pool has the type of a pool.
LEMMA PoolType ==
    ASSUME NEW p, NEW a, NEW b, SoundPool(p, a, b), Values(p.segs) \subseteq All
    PROVE  p \in Pool
<1> DEFINE A == p.segs
<1>1. p \in [first : All, last : All, segs : Seq(Seg), remain : Int] /\ A \in Seq(Seg)
      /\ p.remain = Cardinality(Values(A))
    BY DEF SoundPool
<1>2. p.remain \in 0 .. Broadcast + 1
    BY <1>1, FiniteAll
<1>3. ASSUME NEW i \in 1 .. Len(A) PROVE A[i] \in [first : All, last : All]
    <2>1. A[i] \in Seg
        BY <1>1
    <2>2. A[i] \in [first : Int, last : Int] /\ A[i].first \in Vals(A[i]) /\ A[i].last \in Vals(A[i])
        BY <2>1 DEF Seg, Vals
    <2>3. A[i].first \in All /\ A[i].last \in All
        BY <1>1, <2>2, ValuesOf
    <2> QED BY <2>2, <2>3
<1>4. A \in Seq([first : All, last : All])
    <2>1. Len(A) \in Nat /\ A = [i \in 1 .. Len(A) |-> A[i]]
        BY <1>1
    <2> HIDE DEF A
    <2>2. PICK n \in Nat : n = Len(A)
        BY <2>1
    <2>3. \A i \in 1 .. n : A[i] \in [first : All, last : All]
        BY <2>2, <1>3
    <2>4. [i \in 1 .. n |-> A[i]] \in Seq([first : All, last : All])
        BY <2>3
    <2> QED BY <2>1, <2>2, <2>4
<1> QED BY <1>1, <1>2, <1>4 DEF Pool

\* PoolsExact: joining and splitting segments in Allocate, Use, Free and Reserve
\* neither loses an address nor offers one twice, and Remain() is the number of
\* free addresses, whatever the ranges and the number of sessions.
THEOREM PoolsStayExact == ASSUME ~Duplicates PROVE Spec => []PoolsExact
<1>1. IInv => PoolsExact
    <2> SUFFICES ASSUME IInv PROVE PoolsExact
        OBVIOUS
    <2>1. /\ SoundPool(stat, StaticFirst, StaticLast) /\ SoundPool(dyn, Network, Broadcast)
          /\ Values(stat.segs) = Static \ Held(TRUE) /\ Values(dyn.segs) = Dynamic \ Held(FALSE)
        BY Sound
    <2>2. Values(stat.segs) \subseteq All /\ Values(dyn.segs) \subseteq All
        BY <2>1, Ranges
    <2>3. stat \in Pool /\ dyn \in Pool
        BY <2>1, <2>2, PoolType
    <2>4. TypeOK
        <3>1. Given \cup {NoAddress} \subseteq Address
            BY GivenIs DEF Address, NoAddress
        <3>2. /\ addr \in [Sessions -> Given \cup {NoAddress}] /\ old \subseteq Given
              /\ asked \in [Sessions -> All \cup {None}] /\ ahead \in [All -> SUBSET All]
            BY DEF IInv, Owners, Queued
        <3> QED BY <2>3, <3>1, <3>2 DEF TypeOK
    <2>5. ASSUME NEW p, NEW a, NEW b, SoundPool(p, a, b), NEW S, Values(p.segs) = S
          PROVE  Exact(p, S)
        <3>1. p.segs \in Seq(Seg) /\ p.remain = Cardinality(S) /\ Apart(p.segs)
            BY <2>5 DEF SoundPool
        <3>2. DOMAIN p.segs = 1 .. Len(p.segs)
            BY <3>1
        <3> QED BY <2>5, <3>1, <3>2 DEF Exact, Apart, Vals
    <2>6. Exact(stat, Static \ Held(TRUE)) /\ Exact(dyn, Dynamic \ Held(FALSE))
        BY <2>1, <2>5
    <2> QED BY <2>4, <2>6 DEF PoolsExact
<1> QED BY <1>1, Inv, PTL

\* LazyReuse: Allocate hands a released address out only after the addresses
\* that were in the head segment when it was released ("returned into a segment
\* after the head for lazy reuse").
THEOREM ReuseIsLazy == ASSUME ~Duplicates PROVE Spec => LazyReuse
<1> DEFINE A == \A s \in Sessions : Allocate(s) => ahead[addr'[s].value] = {}
<1>1. IInv => A
    <2> SUFFICES ASSUME IInv, NEW s \in Sessions, Allocate(s) PROVE ahead[addr'[s].value] = {}
        OBVIOUS
    <2>1. PICK v : v = dyn.segs[1].first
        OBVIOUS
    <2>2. GiveStep(s, v, FALSE, None) /\ InFront(dyn.segs, v)
        BY <2>1, AllocateStep
    <2>3. v \in All /\ v \in Values(dyn.segs) /\ Give(s, v, FALSE, None)
        BY <2>2 DEF GiveStep
    <2>4. addr'[s].value = v
        <3>1. addr \in [Sessions -> Given \cup {NoAddress}]
            BY DEF IInv, Owners
        <3>2. addr'[s] = [value |-> v, static |-> FALSE]
            BY <2>3, <3>1 DEF Give
        <3> QED BY <3>2
    <2>5. ASSUME NEW w \in ahead[v] PROVE FALSE
        <3>1. Precedes(stat.segs, w, v) \/ Precedes(dyn.segs, w, v)
            BY <2>3, <2>5 DEF IInv, Queued
        <3>2. ~Precedes(dyn.segs, w, v)
            BY <2>2 DEF InFront
        <3>3. v \in Values(stat.segs)
            BY <3>1, <3>2, Sound, PrecedesIn
        <3> QED BY <3>3, <2>3, Sound, Ranges
    <2> QED BY <2>4, <2>5
<1>2. IInv /\ [Next]_vars => [A]_vars
    BY <1>1
<1> QED BY <1>2, Inv, PTL DEF Spec, LazyReuse

\* DuplicateFreeRejected: a second release of an address that nobody has got
\* since leaves the pools as they are ("duplecated free"), as long as the
\* segments of the pool are in order.
THEOREM DuplicatesRejected == ASSUME ~Duplicates PROVE Spec => DuplicateFreeRejected
<1> DEFINE A == \A x \in old : ReleaseAgain(x) => dyn' = dyn /\ stat' = stat
<1>1. IInv => A
    BY AgainNothing
<1> QED BY <1>1, Inv, PTL DEF Spec, DuplicateFreeRejected

\* A session gets an address that no session has.
LEMMA GiveRefines ==
    ASSUME IInv, NEW s \in Sessions, NEW v, NEW x, NEW r, GiveStep(s, v, x, r),
           r # None => v = r, r = None => v \notin Static \cup {Network, Broadcast}
    PROVE  Abstract!Next
<1> DEFINE b == [t \in Sessions |-> addr[t].value]
<1>1. v \in All /\ r \in All \cup {None} /\ addr[s] = NoAddress /\ Give(s, v, x, r)
    BY DEF GiveStep
<1>2. addr \in [Sessions -> Given \cup {NoAddress}] /\ asked \in [Sessions -> All \cup {None}]
    BY DEF IInv, Owners
<1>3. b[s] = None
    BY <1>1, GivenIs
<1>4. ASSUME NEW t \in Sessions PROVE b[t] # v
    <2> SUFFICES ASSUME addr[t].value = v PROVE FALSE
        OBVIOUS
    <2>1. v # None
        BY <1>1, GivenIs
    <2>2. addr[t] \in Given
        BY <1>2, <2>1, GivenIs
    <2>3. \/ addr[t].static = TRUE /\ v \in Held(TRUE) /\ v \in Static
          \/ addr[t].static = FALSE /\ v \in Held(FALSE) /\ v \in Dynamic
        BY <2>1, <2>2, GivenIs DEF Held
    <2>4. v \in Values(stat.segs) \/ v \in Values(dyn.segs)
        BY DEF GiveStep
    <2> QED BY <2>3, <2>4, Sound, Ranges
<1>5. b' = [b EXCEPT ![s] = v]
    <2>1. addr' = [addr EXCEPT ![s] = [value |-> v, static |-> x]]
        BY <1>1 DEF Give
    <2>2. b' = [t \in Sessions |-> addr'[t].value]
        OBVIOUS
    <2>3. \A t \in Sessions : addr'[t].value = IF t = s THEN v ELSE addr[t].value
        BY <2>1, <1>2
    <2> QED BY <2>2, <2>3
<1>6. asked' = [asked EXCEPT ![s] = r]
    BY <1>1 DEF Give
<1>7. Abstract!Assign(s, v, r)
    BY <1>3, <1>4, <1>5, <1>6 DEF Abstract!Assign
<1> QED BY <1>1, <1>7 DEF Abstract!Next

\* The pools implement AddressPool: an address belongs to at most one session, an
\* address of the static range goes only to a session that asked for it, and the
\* network and the broadcast address to none.
THEOREM PoolsImplement == ASSUME ~Duplicates PROVE Spec => AbstractSpec
<1>1. Init => Abstract!Init
    <2> SUFFICES ASSUME Init PROVE Abstract!Init
        OBVIOUS
    <2>1. [s \in Sessions |-> addr[s].value] = [s \in Sessions |-> None]
        BY GivenIs DEF Init
    <2> QED BY <2>1 DEF Init, Abstract!Init
<1>2. IInv /\ [Next]_vars => [Abstract!Next]_<<[s \in Sessions |-> addr[s].value], asked>>
    <2> DEFINE b == [s \in Sessions |-> addr[s].value]
    <2> SUFFICES ASSUME IInv, [Next]_vars
                 PROVE  Abstract!Next \/ (b' = b /\ asked' = asked)
        OBVIOUS
    <2>1. ASSUME NEW s \in Sessions, Allocate(s) PROVE Abstract!Next
        <3>1. PICK v : v = dyn.segs[1].first
            OBVIOUS
        <3>2. GiveStep(s, v, FALSE, None) /\ InFront(dyn.segs, v)
            BY <2>1, <3>1, AllocateStep
        <3>3. v \notin Static \cup {Network, Broadcast}
            BY <3>2, Sound DEF InFront, Dynamic
        <3> QED BY <3>2, <3>3, GiveRefines
    <2>2. ASSUME NEW s \in Sessions, NEW v \in All, Use(s, v) PROVE Abstract!Next
        <3>1. GiveStep(s, v, v \in Static, v)
            BY <2>2, UseStep
        <3>2. PICK x : x = (v \in Static)
            OBVIOUS
        <3>3. GiveStep(s, v, x, v) /\ v # None
            BY <3>1, <3>2, GivenIs
        <3> QED BY <3>3, GiveRefines
    <2>3. ASSUME NEW s \in Sessions, Release(s) PROVE Abstract!Next
        <3>1. addr \in [Sessions -> Given \cup {NoAddress}] /\ asked' = [asked EXCEPT ![s] = None]
            BY <2>3 DEF IInv, Owners, Release
        <3>2. b[s] # None
            BY <2>3, <3>1, GivenIs DEF Release
        <3>3. b' = [b EXCEPT ![s] = None]
            <4>1. addr' = [addr EXCEPT ![s] = NoAddress] /\ NoAddress.value = None
                BY <2>3, GivenIs DEF Release
            <4>2. b' = [t \in Sessions |-> addr'[t].value]
                OBVIOUS
            <4>3. \A t \in Sessions : addr'[t].value = IF t = s THEN None ELSE addr[t].value
                BY <4>1, <3>1
            <4> QED BY <4>2, <4>3
        <3>4. Abstract!Release(s)
            BY <3>1, <3>2, <3>3 DEF Abstract!Release
        <3> QED BY <3>4 DEF Abstract!Next
    <2>4. ASSUME NEW y \in old, ReleaseAgain(y) PROVE b' = b /\ asked' = asked
        BY <2>4 DEF ReleaseAgain
    <2>5. CASE UNCHANGED vars
        BY <2>5 DEF vars
    <2> QED BY <2>1, <2>2, <2>3, <2>4, <2>5 DEF Next
<1> QED BY <1>1, <1>2, Inv, PTL DEF Spec, AbstractSpec, Abstract!Spec
=============================================================================
