-------------------------- MODULE BigPtrArrayLemmas --------------------------
(***************************************************************************)
(* What the proofs about BigPtrArray rest on, for arrays, blocks and       *)
(* thresholds of any size: sequences in pieces, the binary search, making  *)
(* and filling blocks, room for an element, and Compress.                  *)
(***************************************************************************)
EXTENDS BigPtrArray, FiniteSetTheorems, SequenceTheorems, NaturalsInduction,
        WellFoundedInduction, TLAPS

(* Numbers and recursion.                                                   *)

LessThan == {p \in Nat \X Nat : p[1] < p[2]}

\* A set of naturals has a least number.
LEMMA LeastNumber ==
  ASSUME NEW T \in SUBSET Nat, T # {}
  PROVE  \E k \in T : \A y \in T : k <= y
<1>1. IsWellFoundedOn(LessThan, Nat)
  BY NatLessThanWellFounded DEF OpToRel, LessThan
<1>2. PICK k \in T : \A y \in T : ~ (<<y, k>> \in LessThan)
  BY <1>1, WFMin
<1>3. ASSUME NEW y \in T PROVE k <= y
  <2>1. k \in Nat /\ y \in Nat
    OBVIOUS
  <2>2. ~ (y < k)
    BY <1>2, <2>1 DEF LessThan
  <2> QED BY <2>1, <2>2
<1> QED BY <1>3

\* If a set of numbers up to n is left somewhere, then at a first one behind one that
\* is in it: induction over a set.
LEMMA Inductively ==
  ASSUME NEW n \in Nat, NEW T, 0 \in T,
         \A k \in 1 .. n : k - 1 \in T => k \in T
  PROVE  \A k \in 0 .. n : k \in T
<1>1. SUFFICES ASSUME NEW x \in 0 .. n, x \notin T PROVE FALSE
  OBVIOUS
<1> DEFINE U == {k \in 0 .. n : k \notin T}
<1>2. U \in SUBSET Nat /\ U # {}
  BY <1>1
<1>3. PICK k \in U : \A y \in U : k <= y
  BY <1>2, LeastNumber
<1>4. k \in 1 .. n /\ k - 1 \in 0 .. n
  OBVIOUS
<1>5. k - 1 \in T
  <2>1. ~ (k <= k - 1)
    BY <1>4
  <2> QED BY <1>3, <1>4, <2>1
<1> QED BY <1>4, <1>5

\* A step that is a function of a set into itself can be taken n times.
Runs(f, s0, n, F) == f[0] = s0 /\ \A k \in 1 .. n : f[k] = F[<<f[k - 1], k>>]

LEMMA Iterated ==
  ASSUME NEW S, NEW s0 \in S, NEW n \in Nat, NEW F \in [S \X (1 .. n) -> S]
  PROVE  \E f \in [0 .. n -> S] : Runs(f, s0, n, F)
<1> DEFINE Takes(f, m) == f[0] = s0 /\ \A k \in 1 .. m : f[k] = F[<<f[k - 1], k>>]
           T == {m \in 0 .. n : \E f \in [0 .. m -> S] : Takes(f, m)}
<1>1. 0 \in T
  <2>1. [k \in 0 .. 0 |-> s0] \in [0 .. 0 -> S] /\ Takes([k \in 0 .. 0 |-> s0], 0)
    OBVIOUS
  <2>2. \E f \in [0 .. 0 -> S] : Takes(f, 0)
    BY <2>1
  <2> HIDE DEF Takes
  <2> QED BY <2>2
<1>2. ASSUME NEW m \in 1 .. n, m - 1 \in T PROVE m \in T
  <2>1. PICK f \in [0 .. m - 1 -> S] : Takes(f, m - 1)
    BY <1>2
  <2> DEFINE g == [k \in 0 .. m |-> IF k = m THEN F[<<f[m - 1], m>>] ELSE f[k]]
  <2>2. f[m - 1] \in S /\ F[<<f[m - 1], m>>] \in S
    OBVIOUS
  <2>3. g \in [0 .. m -> S]
    BY <2>2
  <2>4. g[0] = s0
    BY <2>1
  <2>5. ASSUME NEW k \in 1 .. m PROVE g[k] = F[<<g[k - 1], k>>]
    <3>1. CASE k = m
      <4>1. g[k] = F[<<f[m - 1], m>>] /\ g[k - 1] = f[m - 1]
        BY <3>1
      <4> QED BY <3>1, <4>1
    <3>2. CASE k # m
      <4>1. k \in 1 .. m - 1 /\ k - 1 \in 0 .. m /\ k - 1 # m
        BY <3>2
      <4>2. g[k] = f[k] /\ g[k - 1] = f[k - 1]
        BY <3>2, <4>1
      <4> QED BY <2>1, <4>1, <4>2
    <3> QED BY <3>1, <3>2
  <2>6. Takes(g, m)
    BY <2>4, <2>5
  <2> HIDE DEF Takes, g
  <2>7. \E h \in [0 .. m -> S] : Takes(h, m)
    BY <2>3, <2>6
  <2> QED BY <2>7
<1>3. n \in T
  <2> HIDE DEF T
  <2> QED BY <1>1, <1>2, Inductively
<1> QED BY <1>3 DEF Runs

-----------------------------------------------------------------------------
(* Sequences.                                                               *)

\* A function on the first numbers is a sequence, of this length.
LEMMA FunctionIsSeq ==
  ASSUME NEW S, NEW n \in Nat, NEW f \in [1 .. n -> S]
  PROVE  f \in Seq(S) /\ Len(f) = n /\ DOMAIN f = 1 .. n
<1>1. f \in Seq(S)
  BY SeqDef
<1> QED BY <1>1, LenProperties

\* The part of a sequence from i to j.
LEMMA PartOfSeq ==
  ASSUME NEW S, NEW q \in Seq(S), NEW i \in 1 .. Len(q) + 1, NEW j \in i - 1 .. Len(q)
  PROVE  /\ SubSeq(q, i, j) \in Seq(S) /\ Len(SubSeq(q, i, j)) = j - i + 1
         /\ \A k \in 1 .. j - i + 1 : SubSeq(q, i, j)[k] = q[i + k - 1]
BY SubSeqProperties, LenProperties

\* Its first m elements.
LEMMA FrontOfSeq ==
  ASSUME NEW S, NEW q \in Seq(S), NEW m \in 0 .. Len(q)
  PROVE  /\ SubSeq(q, 1, m) \in Seq(S) /\ Len(SubSeq(q, 1, m)) = m
         /\ \A k \in 1 .. m : SubSeq(q, 1, m)[k] = q[k]
<1>1. Len(q) \in Nat
  BY LenProperties
<1>2. 1 \in 1 .. Len(q) + 1 /\ m \in 1 - 1 .. Len(q) /\ m - 1 + 1 = m /\ m \in Nat
  BY <1>1
<1>3. /\ SubSeq(q, 1, m) \in Seq(S) /\ Len(SubSeq(q, 1, m)) = m - 1 + 1
      /\ \A k \in 1 .. m - 1 + 1 : SubSeq(q, 1, m)[k] = q[1 + k - 1]
  BY <1>2, PartOfSeq
<1>4. \A k \in 1 .. m : 1 + k - 1 = k
  BY <1>2
<1> QED BY <1>2, <1>3, <1>4

\* An element more.
HasInserted(q, j, e, r) ==
  /\ Len(r) = Len(q) + 1
  /\ \A i \in 1 .. Len(q) + 1 : r[i] = IF i < j THEN q[i] ELSE IF i = j THEN e ELSE q[i - 1]

LEMMA InsertAtFacts ==
  ASSUME NEW S, NEW q \in Seq(S), NEW j \in 1 .. Len(q) + 1, NEW e \in S
  PROVE  InsertAt(q, j, e) \in Seq(S) /\ HasInserted(q, j, e, InsertAt(q, j, e))
<1> DEFINE u == SubSeq(q, 1, j - 1)
           v == SubSeq(q, j, Len(q))
<1>1. Len(q) \in Nat
  BY LenProperties
<1>2. /\ u \in Seq(S) /\ Len(u) = j - 1 /\ \A i \in 1 .. j - 1 : u[i] = q[i]
  BY <1>1, PartOfSeq
<1>3. /\ v \in Seq(S) /\ Len(v) = Len(q) - j + 1
      /\ \A i \in 1 .. Len(q) - j + 1 : v[i] = q[j + i - 1]
  BY <1>1, PartOfSeq
<1> HIDE DEF u, v
<1>4. <<e>> \in Seq(S) /\ Len(<<e>>) = 1 /\ <<e>>[1] = e
  OBVIOUS
<1> DEFINE w == u \o <<e>>
           r == w \o v
<1>5. /\ w \in Seq(S) /\ Len(w) = j
      /\ \A i \in 1 .. j : w[i] = IF i < j THEN q[i] ELSE e
  <2>1. w \in Seq(S) /\ Len(w) = j - 1 + 1
        /\ \A i \in 1 .. j - 1 + 1 : w[i] = IF i <= j - 1 THEN u[i] ELSE <<e>>[i - (j - 1)]
    BY <1>2, <1>4, ConcatProperties
  <2>2. \A i \in 1 .. j : w[i] = IF i < j THEN q[i] ELSE e
    <3>1. ASSUME NEW i \in 1 .. j PROVE w[i] = IF i < j THEN q[i] ELSE e
      <4> HIDE DEF w
      <4>1. CASE i < j
        BY <1>1, <1>2, <2>1, <4>1
      <4>2. CASE i = j
        BY <1>1, <1>4, <2>1, <4>2
      <4> QED BY <4>1, <4>2
    <3> QED BY <3>1
  <2> HIDE DEF w
  <2> QED BY <1>1, <2>1, <2>2
<1> HIDE DEF w
<1>6. /\ r \in Seq(S) /\ Len(r) = j + (Len(q) - j + 1)
      /\ \A i \in 1 .. j + (Len(q) - j + 1) : r[i] = IF i <= j THEN w[i] ELSE v[i - j]
  BY <1>3, <1>5, ConcatProperties
<1> HIDE DEF r
<1>7. ASSUME NEW i \in 1 .. Len(q) + 1
      PROVE  r[i] = IF i < j THEN q[i] ELSE IF i = j THEN e ELSE q[i - 1]
  <2>1. CASE i <= j
    BY <1>1, <1>5, <1>6, <2>1
  <2>2. CASE i > j
    <3>1. i - j \in 1 .. Len(q) - j + 1 /\ j + (i - j) - 1 = i - 1
      BY <1>1, <2>2
    <3>2. r[i] = v[i - j] /\ v[i - j] = q[i - 1]
      BY <1>1, <1>3, <1>6, <2>2, <3>1
    <3> QED BY <1>1, <2>2, <3>2
  <2> QED BY <1>1, <2>1, <2>2
<1>8. r = InsertAt(q, j, e)
  BY DEF InsertAt, r, w, u, v
<1> QED BY <1>1, <1>6, <1>7, <1>8 DEF HasInserted

\* n elements less, behind the first j.
Without(q, j, n) == SubSeq(q, 1, j) \o SubSeq(q, j + n + 1, Len(q))

HasCut(q, j, n, r) ==
  /\ Len(r) = Len(q) - n
  /\ \A i \in 1 .. Len(q) - n : r[i] = IF i <= j THEN q[i] ELSE q[i + n]

LEMMA CutFacts ==
  ASSUME NEW S, NEW q \in Seq(S), NEW j \in 0 .. Len(q), NEW n \in 0 .. Len(q) - j
  PROVE  Without(q, j, n) \in Seq(S) /\ HasCut(q, j, n, Without(q, j, n))
<1> DEFINE u == SubSeq(q, 1, j)
           v == SubSeq(q, j + n + 1, Len(q))
<1>1. Len(q) \in Nat
  BY LenProperties
<1>2. /\ u \in Seq(S) /\ Len(u) = j /\ \A i \in 1 .. j : u[i] = q[i]
  BY <1>1, PartOfSeq
<1>3. /\ v \in Seq(S) /\ Len(v) = Len(q) - j - n
      /\ \A i \in 1 .. Len(q) - j - n : v[i] = q[j + n + i]
  BY <1>1, PartOfSeq
<1> HIDE DEF u, v
<1> DEFINE r == u \o v
<1>4. /\ r \in Seq(S) /\ Len(r) = j + (Len(q) - j - n)
      /\ \A i \in 1 .. j + (Len(q) - j - n) : r[i] = IF i <= j THEN u[i] ELSE v[i - j]
  BY <1>1, <1>2, <1>3, ConcatProperties
<1> HIDE DEF r
<1>5. ASSUME NEW i \in 1 .. Len(q) - n
      PROVE  r[i] = IF i <= j THEN q[i] ELSE q[i + n]
  <2>1. CASE i <= j
    BY <1>1, <1>2, <1>4, <2>1
  <2>2. CASE i > j
    <3>1. i - j \in 1 .. Len(q) - j - n /\ j + n + (i - j) = i + n
      BY <1>1, <2>2
    <3>2. r[i] = v[i - j] /\ v[i - j] = q[i + n]
      BY <1>1, <1>3, <1>4, <2>2, <3>1
    <3> QED BY <1>1, <2>2, <3>2
  <2> QED BY <1>1, <2>1, <2>2
<1>6. r = Without(q, j, n)
  BY DEF Without, r, u, v
<1>7. Len(r) = Len(q) - n
  BY <1>1, <1>4
<1> QED BY <1>4, <1>5, <1>6, <1>7 DEF HasCut

\* Two sequences with the same elements are the same.
LEMMA SameSeq ==
  ASSUME NEW S, NEW p \in Seq(S), NEW q \in Seq(S), Len(p) = Len(q),
         \A i \in 1 .. Len(p) : p[i] = q[i]
  PROVE  p = q
BY LenProperties

-----------------------------------------------------------------------------
(* A sequence in pieces: D are the pieces, and s[k] is how many elements    *)
(* are in front of the k-th one.                                            *)

Starts(D, s) ==
  /\ D \in Seq(Seq(Elems)) /\ s \in [1 .. Len(D) + 1 -> Nat] /\ s[1] = 0
  /\ \A k \in 1 .. Len(D) : s[k + 1] = s[k] + Len(D[k])

Joined(D, s, C) ==
  /\ Starts(D, s) /\ C \in Seq(Elems) /\ Len(C) = s[Len(D) + 1]
  /\ \A k \in 1 .. Len(D) : \A i \in 1 .. Len(D[k]) : C[s[k] + i] = D[k][i]

LEMMA PieceFacts ==
  ASSUME NEW D, NEW s, Starts(D, s)
  PROVE  /\ Len(D) \in Nat /\ DOMAIN D = 1 .. Len(D) /\ D \in [1 .. Len(D) -> Seq(Elems)]
         /\ \A k \in 1 .. Len(D) :
              /\ D[k] \in Seq(Elems) /\ Len(D[k]) \in Nat /\ DOMAIN D[k] = 1 .. Len(D[k])
              /\ D[k] \in [1 .. Len(D[k]) -> Elems]
              /\ s[k] \in Nat /\ s[k + 1] \in Nat /\ s[k + 1] = s[k] + Len(D[k])
         /\ s[Len(D) + 1] \in Nat
<1>1. /\ D \in Seq(Seq(Elems)) /\ s \in [1 .. Len(D) + 1 -> Nat]
      /\ \A k \in 1 .. Len(D) : s[k + 1] = s[k] + Len(D[k])
  BY DEF Starts
<1>2. Len(D) \in Nat /\ DOMAIN D = 1 .. Len(D) /\ D \in [1 .. Len(D) -> Seq(Elems)]
  BY <1>1, LenProperties
<1>3. \A k \in 1 .. Len(D) : D[k] \in Seq(Elems)
  BY <1>2
<1>4. \A k \in 1 .. Len(D) : /\ Len(D[k]) \in Nat /\ DOMAIN D[k] = 1 .. Len(D[k])
                             /\ D[k] \in [1 .. Len(D[k]) -> Elems]
  BY <1>3, LenProperties
<1>5. \A k \in 1 .. Len(D) + 1 : s[k] \in Nat
  BY <1>1
<1>6. \A k \in 1 .. Len(D) : k \in 1 .. Len(D) + 1 /\ k + 1 \in 1 .. Len(D) + 1
  BY <1>2
<1>7. Len(D) + 1 \in 1 .. Len(D) + 1
  BY <1>2
<1> QED BY <1>1, <1>2, <1>3, <1>4, <1>5, <1>6, <1>7

\* The pieces follow one another.
LEMMA Rising ==
  ASSUME NEW D, NEW s, Starts(D, s), NEW k \in 1 .. Len(D) + 1, NEW l \in k .. Len(D) + 1
  PROVE  s[k] <= s[l]
<1> DEFINE T == {d \in Nat : k + d <= Len(D) + 1 => s[k] <= s[k + d]}
<1>1. Len(D) \in Nat /\ s \in [1 .. Len(D) + 1 -> Nat]
  BY PieceFacts DEF Starts
<1>2. s[k] \in Nat
  BY <1>1
<1>3. 0 \in T
  BY <1>1, <1>2
<1>4. ASSUME NEW d \in 1 .. Len(D), d - 1 \in T PROVE d \in T
  <2>1. SUFFICES ASSUME k + d <= Len(D) + 1 PROVE s[k] <= s[k + d]
    OBVIOUS
  <2>2. k + (d - 1) \in 1 .. Len(D) /\ k + (d - 1) <= Len(D) + 1 /\ (k + (d - 1)) + 1 = k + d
    BY <1>1, <2>1
  <2>3. s[k] <= s[k + (d - 1)]
    BY <1>4, <2>2
  <2>4. /\ s[k + d] = s[k + (d - 1)] + Len(D[k + (d - 1)])
        /\ s[k + (d - 1)] \in Nat /\ Len(D[k + (d - 1)]) \in Nat
    BY <2>2, PieceFacts
  <2> QED BY <1>2, <2>3, <2>4
<1>5. \A d \in 0 .. Len(D) : d \in T
  <2> HIDE DEF T
  <2> QED BY <1>1, <1>3, <1>4, Inductively
<1>6. l - k \in 0 .. Len(D) /\ k + (l - k) = l /\ l <= Len(D) + 1
  BY <1>1
<1>7. l - k \in T
  BY <1>5, <1>6
<1> QED BY <1>6, <1>7

\* Each position is in a piece.
LEMMA InSomePiece ==
  ASSUME NEW D, NEW s, Starts(D, s), NEW p \in 1 .. s[Len(D) + 1]
  PROVE  \E k \in 1 .. Len(D) : s[k] < p /\ p <= s[k + 1] /\ p - s[k] \in 1 .. Len(D[k])
<1> DEFINE T == {k \in 1 .. Len(D) + 1 : p <= s[k]}
<1>1. Len(D) \in Nat /\ s[Len(D) + 1] \in Nat /\ s \in [1 .. Len(D) + 1 -> Nat] /\ s[1] = 0
  BY PieceFacts DEF Starts
<1>2. Len(D) + 1 \in T
  BY <1>1
<1>3. T \in SUBSET Nat /\ T # {}
  BY <1>1, <1>2
<1>4. PICK l \in T : \A y \in T : l <= y
  BY <1>3, LeastNumber
<1>5. l \in 1 .. Len(D) + 1 /\ p <= s[l] /\ l # 1
  BY <1>1
<1>6. l - 1 \in 1 .. Len(D) /\ l - 1 \notin T /\ (l - 1) + 1 = l /\ l - 1 \in 1 .. Len(D) + 1
  <2>1. ~ (l <= l - 1)
    BY <1>1, <1>5
  <2> QED BY <1>1, <1>4, <1>5, <2>1
<1>7. s[l - 1] < p
  BY <1>1, <1>6
<1>8. s[l] = s[l - 1] + Len(D[l - 1]) /\ s[l - 1] \in Nat /\ Len(D[l - 1]) \in Nat
  BY <1>6, PieceFacts
<1>9. p - s[l - 1] \in 1 .. Len(D[l - 1])
  BY <1>5, <1>7, <1>8
<1> QED BY <1>5, <1>6, <1>7, <1>9

\* And in no other.
LEMMA InOnePiece ==
  ASSUME NEW D, NEW s, Starts(D, s), NEW k \in 1 .. Len(D), NEW l \in 1 .. Len(D), NEW p \in Nat,
         s[k] < p, p <= s[k + 1], s[l] < p, p <= s[l + 1]
  PROVE  k = l
<1>1. Len(D) \in Nat /\ s[k] \in Nat /\ s[l] \in Nat /\ s[k + 1] \in Nat /\ s[l + 1] \in Nat
  BY PieceFacts
<1>2. CASE k < l
  <2>1. k + 1 \in 1 .. Len(D) + 1 /\ l \in k + 1 .. Len(D) + 1
    BY <1>1, <1>2
  <2>2. s[k + 1] <= s[l]
    BY <2>1, Rising
  <2> QED BY <1>1, <2>2
<1>3. CASE l < k
  <2>1. l + 1 \in 1 .. Len(D) + 1 /\ k \in l + 1 .. Len(D) + 1
    BY <1>1, <1>3
  <2>2. s[l + 1] <= s[k]
    BY <2>1, Rising
  <2> QED BY <1>1, <2>2
<1> QED BY <1>1, <1>2, <1>3

\* A place in a piece is a position in the whole.
LEMMA PlaceInWhole ==
  ASSUME NEW D, NEW s, Starts(D, s), NEW k \in 1 .. Len(D), NEW i \in 1 .. Len(D[k])
  PROVE  s[k] + i \in 1 .. s[Len(D) + 1] /\ s[k] < s[k] + i /\ s[k] + i <= s[k + 1]
<1>1. /\ Len(D) \in Nat /\ s[k] \in Nat /\ s[k + 1] = s[k] + Len(D[k]) /\ Len(D[k]) \in Nat
      /\ s[Len(D) + 1] \in Nat
  BY PieceFacts
<1>2. k + 1 \in 1 .. Len(D) + 1 /\ Len(D) + 1 \in k + 1 .. Len(D) + 1
  BY <1>1
<1>3. s[k + 1] <= s[Len(D) + 1]
  BY <1>2, Rising
<1> QED BY SMTT(30), <1>1, <1>3

\* FlattenSeq puts the pieces together.
LEMMA FlattenJoins ==
  ASSUME NEW D, NEW s, NEW C, Joined(D, s, C)
  PROVE  FlattenSeq(D) = C
<1>1. /\ Starts(D, s) /\ C \in Seq(Elems) /\ Len(C) = s[Len(D) + 1]
      /\ D \in Seq(Seq(Elems)) /\ s[1] = 0
  BY DEF Joined, Starts
<1>2. /\ Len(D) \in Nat /\ DOMAIN D = 1 .. Len(D) /\ s[Len(D) + 1] \in Nat
      /\ s \in [1 .. Len(D) + 1 -> Nat]
  BY <1>1, PieceFacts DEF Starts
<1>3. CASE Len(D) = 0
  <2>1. D = <<>> /\ C = <<>>
    BY <1>1, <1>2, <1>3, EmptySeq
  <2> QED BY <1>3, <2>1 DEF FlattenSeq
<1>4. CASE Len(D) # 0
  <2> DEFINE n == Len(D)
             F(f) == [i \in 1 .. Len(D) |-> IF i = 1 THEN D[i] ELSE f[i - 1] \o D[i]]
             g == [i \in 1 .. Len(D) |-> SubSeq(C, 1, s[i + 1])]
  <2>1. ASSUME NEW i \in 1 .. n
        PROVE  /\ SubSeq(C, 1, s[i + 1]) \in Seq(Elems) /\ Len(SubSeq(C, 1, s[i + 1])) = s[i + 1]
               /\ \A j \in 1 .. s[i + 1] : SubSeq(C, 1, s[i + 1])[j] = C[j]
    <3>1. s[i + 1] \in Nat /\ s[i + 1] <= Len(C) /\ Len(C) \in Nat
      <4>1. i + 1 \in 1 .. Len(D) + 1 /\ Len(D) + 1 \in i + 1 .. Len(D) + 1
        BY <1>2
      <4> QED BY <1>1, <1>2, <4>1, Rising
    <3>2. s[i + 1] \in 0 .. Len(C)
      BY <3>1
    <3> QED BY <1>1, <3>2, FrontOfSeq
  <2>2. \A i \in 1 .. n : g[i] = IF i = 1 THEN D[i] ELSE g[i - 1] \o D[i]
    <3>1. ASSUME NEW i \in 1 .. n PROVE g[i] = IF i = 1 THEN D[i] ELSE g[i - 1] \o D[i]
      <4>1. /\ D[i] \in Seq(Elems) /\ Len(D[i]) \in Nat /\ s[i] \in Nat /\ s[i + 1] \in Nat
            /\ s[i + 1] = s[i] + Len(D[i])
        BY <1>1, PieceFacts
      <4>2. \A j \in 1 .. Len(D[i]) : C[s[i] + j] = D[i][j]
        BY DEF Joined
      <4>3. CASE i = 1
        <5>1. s[i] = 0
          BY <1>1, <4>3
        <5>2. \A j \in 1 .. Len(D[i]) : SubSeq(C, 1, s[i + 1])[j] = D[i][j]
          BY <2>1, <4>1, <4>2, <5>1
        <5>3. SubSeq(C, 1, s[i + 1]) = D[i]
          BY <2>1, <4>1, <5>1, <5>2, SameSeq
        <5> QED BY <4>3, <5>3
      <4>4. CASE i # 1
        <5>1. i - 1 \in 1 .. n /\ (i - 1) + 1 = i
          BY <1>2, <4>4
        <5> DEFINE u == SubSeq(C, 1, s[i])
                   w == u \o D[i]
        <5>2. u \in Seq(Elems) /\ Len(u) = s[i] /\ \A j \in 1 .. s[i] : u[j] = C[j]
          BY <2>1, <5>1
        <5> HIDE DEF u
        <5>a. /\ w \in Seq(Elems) /\ Len(w) = Len(u) + Len(D[i])
              /\ \A j \in 1 .. Len(u) + Len(D[i]) :
                   w[j] = IF j <= Len(u) THEN u[j] ELSE D[i][j - Len(u)]
          BY <4>1, <5>2, ConcatProperties
        <5>3. /\ w \in Seq(Elems) /\ Len(w) = s[i] + Len(D[i])
              /\ \A j \in 1 .. s[i] + Len(D[i]) : w[j] = IF j <= s[i] THEN u[j] ELSE D[i][j - s[i]]
          <6> HIDE DEF w
          <6> QED BY <5>2, <5>a
        <5> HIDE DEF w
        <5>4. ASSUME NEW j \in 1 .. s[i + 1] PROVE w[j] = C[j]
          <6>1. CASE j <= s[i]
            BY <4>1, <5>2, <5>3, <6>1
          <6>2. CASE j > s[i]
            <7>1. j - s[i] \in 1 .. Len(D[i]) /\ s[i] + (j - s[i]) = j
              BY <4>1, <6>2
            <7>2. C[s[i] + (j - s[i])] = D[i][j - s[i]]
              BY <4>2, <7>1
            <7>3. w[j] = D[i][j - s[i]]
              BY <4>1, <5>3, <6>2
            <7> QED BY <7>1, <7>2, <7>3
          <6> QED BY <4>1, <6>1, <6>2
        <5>5. w = SubSeq(C, 1, s[i + 1])
          <6>1. Len(w) = Len(SubSeq(C, 1, s[i + 1])) /\ Len(w) = s[i + 1]
            BY <2>1, <4>1, <5>3
          <6>2. \A j \in 1 .. Len(w) : w[j] = SubSeq(C, 1, s[i + 1])[j]
            BY <2>1, <5>4, <6>1
          <6> QED BY <2>1, <5>3, <6>1, <6>2, SameSeq
        <5>6. g[i - 1] = u
          BY <5>1 DEF u
        <5> QED BY <4>4, <5>5, <5>6 DEF w
      <4> QED BY <4>3, <4>4
    <3> QED BY <3>1
  <2>3. g = F(g)
    BY <2>2
  <2>4. PICK w : w = CHOOSE f : f = F(f)
    OBVIOUS
  <2>5. w = F(w)
    <3> HIDE DEF F, g
    <3> QED BY <2>3, <2>4
  <2>6. \A i \in 1 .. n : w[i] = IF i = 1 THEN D[i] ELSE w[i - 1] \o D[i]
    BY <2>5
  <2> DEFINE T == {k \in 0 .. n : k = 0 \/ w[k] = g[k]}
  <2>7. 0 \in T
    BY <1>2
  <2>8. ASSUME NEW k \in 1 .. n, k - 1 \in T PROVE k \in T
    <3>1. CASE k = 1
      <4>1. w[k] = D[k] /\ g[k] = D[k]
        <5> HIDE DEF g
        <5> QED BY <2>2, <2>6, <3>1
      <4>2. k \in 0 .. n /\ w[k] = g[k]
        BY <1>2, <4>1
      <4> HIDE DEF g
      <4> QED BY <4>2
    <3>2. CASE k # 1
      <4>1. w[k - 1] = g[k - 1]
        BY <2>8, <3>2
      <4>2. w[k] = g[k]
        <5> HIDE DEF g
        <5> QED BY <2>2, <2>6, <3>2, <4>1
      <4> QED BY <4>2
    <3> QED BY <3>1, <3>2
  <2>9. \A k \in 0 .. n : k \in T
    <3> HIDE DEF T
    <3> QED BY <1>2, <2>7, <2>8, Inductively
  <2>10. n \in 1 .. n /\ w[n] = g[n]
    <3>1. n \in 1 .. n /\ n \in 0 .. n /\ n # 0
      BY <1>2, <1>4
    <3> QED BY <2>9, <3>1
  <2>11. g[n] = C
    <3>1. g[n] = SubSeq(C, 1, s[n + 1]) /\ s[n + 1] = Len(C)
      BY <1>1, <2>10
    <3>2. SubSeq(C, 1, s[n + 1]) \in Seq(Elems) /\ Len(SubSeq(C, 1, s[n + 1])) = Len(C)
      BY <2>1, <2>10, <3>1
    <3>3. \A j \in 1 .. Len(C) : SubSeq(C, 1, s[n + 1])[j] = C[j]
      BY <2>1, <2>10, <3>1
    <3> QED BY <1>1, <3>1, <3>2, <3>3, SameSeq
  <2>12. FlattenSeq(D) = w[n]
    BY <1>4, <2>4 DEF FlattenSeq
  <2> QED BY <2>10, <2>11, <2>12
<1> QED BY <1>3, <1>4

-----------------------------------------------------------------------------
(* The elements of the array are C, of which the blocks b hold a piece each.*)

Datas(b) == [k \in DOMAIN b |-> b[k].pData]

Laid(b, s, C) == b \in Seq(BlockInfos) /\ Joined(Datas(b), s, C)

\* The indices of the first m blocks are right.
Indexed(b, s, m) == \A k \in 1 .. m : b[k].nStart = s[k] /\ b[k].nEnd = s[k + 1] - 1

\* No two blocks are the same.
Ids(b) == \A k, l \in 1 .. Len(b) : b[k].id = b[l].id => k = l

\* The blocks are not too large, and no block is empty.
Fit(b) == \A k \in 1 .. Len(b) : Len(b[k].pData) <= MAXENTRY
Filled(b) == \A k \in 1 .. Len(b) : b[k].pData # <<>>

\* The elements know where they are, but for the x-th one.
Right(b, en, s, x) ==
  \A k \in 1 .. Len(b) : \A i \in 1 .. Len(b[k].pData) :
    s[k] + i # x => en[b[k].pData[i]] = [pBlock |-> b[k].id, nOffset |-> i - 1]

\* Two tables with the same blocks, but for their indices.
SameBlocks(b, d) ==
  Len(d) = Len(b) /\ \A k \in 1 .. Len(b) : d[k].pData = b[k].pData /\ d[k].id = b[k].id

LEMMA DatasFacts ==
  ASSUME NEW b \in Seq(BlockInfos)
  PROVE  /\ Len(b) \in Nat /\ DOMAIN b = 1 .. Len(b) /\ b \in [1 .. Len(b) -> BlockInfos]
         /\ Datas(b) \in Seq(Seq(Elems)) /\ Len(Datas(b)) = Len(b)
         /\ \A k \in 1 .. Len(b) :
              /\ Datas(b)[k] = b[k].pData
              /\ b[k] \in BlockInfos /\ b[k].id \in Nat /\ b[k].nStart \in Nat /\ b[k].nEnd \in Int
              /\ b[k].pData \in Seq(Elems) /\ Len(b[k].pData) \in Nat
              /\ DOMAIN b[k].pData = 1 .. Len(b[k].pData)
              /\ \A i \in 1 .. Len(b[k].pData) : b[k].pData[i] \in Elems
<1>1. Len(b) \in Nat /\ DOMAIN b = 1 .. Len(b) /\ b \in [1 .. Len(b) -> BlockInfos]
  BY LenProperties
<1>2. ASSUME NEW k \in 1 .. Len(b)
      PROVE  /\ b[k] \in BlockInfos /\ b[k].id \in Nat /\ b[k].nStart \in Nat /\ b[k].nEnd \in Int
             /\ b[k].pData \in Seq(Elems)
  BY <1>1 DEF BlockInfos
<1>3. \A k \in 1 .. Len(b) :
        /\ Len(b[k].pData) \in Nat /\ DOMAIN b[k].pData = 1 .. Len(b[k].pData)
        /\ b[k].pData \in [1 .. Len(b[k].pData) -> Elems]
  BY <1>2, LenProperties
<1>4. Datas(b) \in [1 .. Len(b) -> Seq(Elems)] /\ \A k \in 1 .. Len(b) : Datas(b)[k] = b[k].pData
  BY <1>1, <1>2 DEF Datas
<1>5. Datas(b) \in Seq(Seq(Elems)) /\ Len(Datas(b)) = Len(b)
  BY <1>1, <1>4, FunctionIsSeq
<1> QED BY <1>1, <1>2, <1>3, <1>4, <1>5

LEMMA LaidFacts ==
  ASSUME NEW b, NEW s, NEW C, Laid(b, s, C)
  PROVE  /\ Len(b) \in Nat /\ DOMAIN b = 1 .. Len(b) /\ b \in [1 .. Len(b) -> BlockInfos]
         /\ b \in Seq(BlockInfos) /\ C \in Seq(Elems) /\ Len(C) \in Nat /\ Len(C) = s[Len(b) + 1]
         /\ C \in [1 .. Len(C) -> Elems] /\ s \in [1 .. Len(b) + 1 -> Nat] /\ s[1] = 0
         /\ \A k \in 1 .. Len(b) :
              /\ b[k] \in BlockInfos /\ b[k].id \in Nat /\ b[k].nStart \in Nat /\ b[k].nEnd \in Int
              /\ b[k].pData \in Seq(Elems) /\ Len(b[k].pData) \in Nat
              /\ DOMAIN b[k].pData = 1 .. Len(b[k].pData)
              /\ s[k] \in Nat /\ s[k + 1] \in Nat /\ s[k + 1] = s[k] + Len(b[k].pData)
              /\ s[k + 1] <= Len(C)
              /\ \A i \in 1 .. Len(b[k].pData) :
                   C[s[k] + i] = b[k].pData[i] /\ b[k].pData[i] \in Elems
<1>1. b \in Seq(BlockInfos) /\ Joined(Datas(b), s, C) /\ Starts(Datas(b), s)
  BY DEF Laid, Joined
<1>2. /\ Len(b) \in Nat /\ DOMAIN b = 1 .. Len(b) /\ b \in [1 .. Len(b) -> BlockInfos]
      /\ Len(Datas(b)) = Len(b)
      /\ \A k \in 1 .. Len(b) :
           /\ Datas(b)[k] = b[k].pData
           /\ b[k] \in BlockInfos /\ b[k].id \in Nat /\ b[k].nStart \in Nat /\ b[k].nEnd \in Int
           /\ b[k].pData \in Seq(Elems) /\ Len(b[k].pData) \in Nat
           /\ DOMAIN b[k].pData = 1 .. Len(b[k].pData)
           /\ \A i \in 1 .. Len(b[k].pData) : b[k].pData[i] \in Elems
  BY <1>1, DatasFacts
<1>3. /\ C \in Seq(Elems) /\ Len(C) = s[Len(b) + 1] /\ s \in [1 .. Len(b) + 1 -> Nat] /\ s[1] = 0
      /\ \A k \in 1 .. Len(b) : s[k + 1] = s[k] + Len(b[k].pData)
      /\ \A k \in 1 .. Len(b) : \A i \in 1 .. Len(b[k].pData) : C[s[k] + i] = b[k].pData[i]
  <2>1. PICK D : D = Datas(b)
    OBVIOUS
  <2>2. /\ C \in Seq(Elems) /\ Len(C) = s[Len(D) + 1] /\ s \in [1 .. Len(D) + 1 -> Nat] /\ s[1] = 0
        /\ \A k \in 1 .. Len(D) : s[k + 1] = s[k] + Len(D[k])
        /\ \A k \in 1 .. Len(D) : \A i \in 1 .. Len(D[k]) : C[s[k] + i] = D[k][i]
    BY <1>1, <2>1 DEF Joined, Starts
  <2>3. Len(D) = Len(b) /\ \A k \in 1 .. Len(b) : D[k] = b[k].pData
    BY <1>2, <2>1
  <2>4. \A k \in 1 .. Len(b) : s[k + 1] = s[k] + Len(b[k].pData)
    BY <2>2, <2>3
  <2>5. \A k \in 1 .. Len(b) : \A i \in 1 .. Len(b[k].pData) : C[s[k] + i] = b[k].pData[i]
    <3>1. ASSUME NEW k \in 1 .. Len(b), NEW i \in 1 .. Len(b[k].pData)
          PROVE  C[s[k] + i] = b[k].pData[i]
      <4>1. k \in 1 .. Len(D) /\ D[k] = b[k].pData /\ i \in 1 .. Len(D[k])
        BY <2>3
      <4>2. C[s[k] + i] = D[k][i]
        BY <2>2, <4>1
      <4> QED BY <4>1, <4>2
    <3> QED BY <3>1
  <2> QED BY <2>2, <2>3, <2>4, <2>5
<1>4. Len(C) \in Nat /\ C \in [1 .. Len(C) -> Elems]
  BY <1>3, LenProperties
<1>5. \A k \in 1 .. Len(b) : s[k] \in Nat /\ s[k + 1] \in Nat
  BY <1>1, <1>2, PieceFacts
<1>6. \A k \in 1 .. Len(b) : s[k + 1] <= Len(C)
  <2>1. ASSUME NEW k \in 1 .. Len(b) PROVE s[k + 1] <= Len(C)
    <3>1. k + 1 \in 1 .. Len(b) + 1 /\ Len(b) + 1 \in k + 1 .. Len(b) + 1
      BY <1>2
    <3>2. s[k + 1] <= s[Len(b) + 1]
      <4>1. k + 1 \in 1 .. Len(Datas(b)) + 1 /\ Len(b) + 1 \in k + 1 .. Len(Datas(b)) + 1
        BY <1>2, <3>1
      <4> QED BY <1>1, <4>1, Rising
    <3> QED BY <1>3, <3>2
  <2> QED BY <2>1
<1> QED BY <1>1, <1>2, <1>3, <1>4, <1>5, <1>6

\* What has to be shown for it.
LEMMA LaidIf ==
  ASSUME NEW b \in Seq(BlockInfos), NEW s \in [1 .. Len(b) + 1 -> Nat], s[1] = 0,
         \A k \in 1 .. Len(b) : s[k + 1] = s[k] + Len(b[k].pData),
         NEW C \in Seq(Elems), Len(C) = s[Len(b) + 1],
         \A k \in 1 .. Len(b) : \A i \in 1 .. Len(b[k].pData) : C[s[k] + i] = b[k].pData[i]
  PROVE  Laid(b, s, C)
<1>1. PICK D : D = Datas(b)
  OBVIOUS
<1>2. D \in Seq(Seq(Elems)) /\ Len(D) = Len(b) /\ \A k \in 1 .. Len(b) : D[k] = b[k].pData
  BY <1>1, DatasFacts
<1>3. \A k \in 1 .. Len(D) : s[k + 1] = s[k] + Len(D[k])
  BY <1>2
<1>4. ASSUME NEW k \in 1 .. Len(D), NEW i \in 1 .. Len(D[k]) PROVE C[s[k] + i] = D[k][i]
  <2>1. k \in 1 .. Len(b) /\ D[k] = b[k].pData /\ i \in 1 .. Len(b[k].pData)
    BY <1>2
  <2>2. C[s[k] + i] = b[k].pData[i]
    BY <2>1
  <2> QED BY <2>1, <2>2
<1>5. Joined(D, s, C)
  BY <1>2, <1>3, <1>4 DEF Joined, Starts
<1> QED BY <1>1, <1>5 DEF Laid

LEMMA BlocksRise ==
  ASSUME NEW b, NEW s, NEW C, Laid(b, s, C), NEW k \in 1 .. Len(b) + 1, NEW l \in k .. Len(b) + 1
  PROVE  s[k] <= s[l]
<1>1. Starts(Datas(b), s) /\ Len(Datas(b)) = Len(b)
  BY DatasFacts DEF Laid, Joined
<1> QED BY <1>1, Rising

\* Each position has its block.
LEMMA InSomeBlock ==
  ASSUME NEW b, NEW s, NEW C, Laid(b, s, C), NEW p \in 1 .. Len(C)
  PROVE  \E k \in 1 .. Len(b) : s[k] < p /\ p <= s[k + 1] /\ p - s[k] \in 1 .. Len(b[k].pData)
<1>1. /\ Starts(Datas(b), s) /\ Len(Datas(b)) = Len(b) /\ Len(C) = s[Len(b) + 1]
      /\ \A k \in 1 .. Len(b) : Datas(b)[k] = b[k].pData
  BY DatasFacts DEF Laid, Joined
<1> QED BY <1>1, InSomePiece

LEMMA InOneBlock ==
  ASSUME NEW b, NEW s, NEW C, Laid(b, s, C), NEW k \in 1 .. Len(b), NEW l \in 1 .. Len(b),
         NEW p \in Nat, s[k] < p, p <= s[k + 1], s[l] < p, p <= s[l + 1]
  PROVE  k = l
<1>1. Starts(Datas(b), s) /\ Len(Datas(b)) = Len(b)
  BY DatasFacts DEF Laid, Joined
<1> QED BY <1>1, InOnePiece

\* The indices do not matter for what is held where.
LEMMA SameLaid ==
  ASSUME NEW b, NEW s, NEW C, Laid(b, s, C), NEW d \in Seq(BlockInfos), SameBlocks(b, d)
  PROVE  /\ Laid(d, s, C) /\ (Ids(b) => Ids(d)) /\ (Fit(b) => Fit(d)) /\ (Filled(b) => Filled(d))
         /\ \A en, x : Right(b, en, s, x) => Right(d, en, s, x)
<1>1. Len(d) = Len(b) /\ \A k \in 1 .. Len(b) : d[k].pData = b[k].pData /\ d[k].id = b[k].id
  BY DEF SameBlocks
<1>2. Laid(d, s, C)
  <2>1. /\ C \in Seq(Elems) /\ Len(C) = s[Len(b) + 1] /\ s \in [1 .. Len(b) + 1 -> Nat] /\ s[1] = 0
        /\ \A k \in 1 .. Len(b) : s[k + 1] = s[k] + Len(b[k].pData)
        /\ \A k \in 1 .. Len(b) : \A i \in 1 .. Len(b[k].pData) : C[s[k] + i] = b[k].pData[i]
    BY SMTT(30), LaidFacts
  <2>2. /\ \A k \in 1 .. Len(d) : s[k + 1] = s[k] + Len(d[k].pData)
        /\ \A k \in 1 .. Len(d) : \A i \in 1 .. Len(d[k].pData) : C[s[k] + i] = d[k].pData[i]
    <3>1. ASSUME NEW k \in 1 .. Len(d)
          PROVE  /\ s[k + 1] = s[k] + Len(d[k].pData)
                 /\ \A i \in 1 .. Len(d[k].pData) : C[s[k] + i] = d[k].pData[i]
      <4>1. k \in 1 .. Len(b) /\ d[k].pData = b[k].pData
        BY <1>1
      <4> QED BY <2>1, <4>1
    <3> QED BY <3>1
  <2> QED BY <1>1, <2>1, <2>2, LaidIf
<1>3. (Ids(b) => Ids(d)) /\ (Fit(b) => Fit(d)) /\ (Filled(b) => Filled(d))
  BY <1>1 DEF Ids, Fit, Filled
<1>4. ASSUME NEW en, NEW x, Right(b, en, s, x) PROVE Right(d, en, s, x)
  BY <1>1, <1>4 DEF Right
<1> QED BY <1>2, <1>3, <1>4

\* UpdIndex gives the blocks behind pos the right indices, if those of pos are.
LEMMA UpdIndexFacts ==
  ASSUME NEW b, NEW s, NEW C, Laid(b, s, C), NEW pos \in 0 .. Len(b) - 1, Indexed(b, s, pos + 1)
  PROVE  /\ UpdIndex(b, pos) \in Seq(BlockInfos) /\ SameBlocks(b, UpdIndex(b, pos))
         /\ Indexed(UpdIndex(b, pos), s, Len(b))
         /\ \A k \in 1 .. pos + 1 : UpdIndex(b, pos)[k] = b[k]
<1> DEFINE F(f) == [k \in pos + 1 .. Len(b) |->
                      IF k = pos + 1 THEN b[k].nEnd + 1 ELSE f[k - 1] + Len(b[k].pData)]
           g == [k \in pos + 1 .. Len(b) |-> s[k + 1]]
<1>1. /\ Len(b) \in Nat /\ pos \in Nat /\ pos + 1 \in 1 .. Len(b) /\ DOMAIN b = 1 .. Len(b)
      /\ b \in [1 .. Len(b) -> BlockInfos]
      /\ \A k \in 1 .. Len(b) :
           /\ b[k] \in BlockInfos /\ Len(b[k].pData) \in Nat
           /\ s[k] \in Nat /\ s[k + 1] \in Nat /\ s[k + 1] = s[k] + Len(b[k].pData)
  BY LaidFacts
<1>2. b[pos + 1].nEnd + 1 = s[(pos + 1) + 1]
  <2>1. b[pos + 1].nEnd = s[(pos + 1) + 1] - 1 /\ s[(pos + 1) + 1] \in Nat
    BY <1>1 DEF Indexed
  <2> QED BY <2>1
<1>3. g = F(g)
  <2>1. ASSUME NEW k \in pos + 1 .. Len(b)
        PROVE  g[k] = IF k = pos + 1 THEN b[k].nEnd + 1 ELSE g[k - 1] + Len(b[k].pData)
    <3>1. CASE k = pos + 1
      <4>1. g[k] = s[k + 1]
        OBVIOUS
      <4> QED BY <1>2, <3>1, <4>1
    <3>2. CASE k # pos + 1
      <4>1. k \in 1 .. Len(b) /\ k - 1 \in pos + 1 .. Len(b) /\ (k - 1) + 1 = k
        BY <1>1, <3>2
      <4>2. g[k] = s[k + 1] /\ g[k - 1] = s[k]
        BY <4>1
      <4> QED BY <1>1, <3>2, <4>1, <4>2
    <3> QED BY <3>1, <3>2
  <2> QED BY <2>1
<1>4. PICK w : w = CHOOSE f : f = F(f)
  OBVIOUS
<1>5. w = F(w)
  <2> HIDE DEF F, g
  <2> QED BY <1>3, <1>4
<1>6. \A k \in pos + 1 .. Len(b) : w[k] = IF k = pos + 1 THEN b[k].nEnd + 1
                                          ELSE w[k - 1] + Len(b[k].pData)
  BY <1>5
<1> DEFINE T == {d \in Nat : pos + 1 + d <= Len(b) => w[pos + 1 + d] = s[pos + 1 + d + 1]}
<1>7. \A d \in 0 .. Len(b) : d \in T
  <2>1. 0 \in T
    <3>1. pos + 1 \in pos + 1 .. Len(b) /\ pos + 1 + 0 = pos + 1
      BY <1>1
    <3>2. w[pos + 1] = s[(pos + 1) + 1]
      BY <1>2, <1>6, <3>1
    <3> QED BY <3>1, <3>2
  <2>2. ASSUME NEW d \in 1 .. Len(b), d - 1 \in T PROVE d \in T
    <3>1. SUFFICES ASSUME pos + 1 + d <= Len(b) PROVE w[pos + 1 + d] = s[pos + 1 + d + 1]
      OBVIOUS
    <3> DEFINE k == pos + 1 + d
    <3>2. /\ k \in pos + 1 .. Len(b) /\ k \in 1 .. Len(b) /\ k # pos + 1
          /\ pos + 1 + (d - 1) = k - 1 /\ pos + 1 + (d - 1) <= Len(b) /\ pos + 1 + (d - 1) + 1 = k
      BY <1>1, <3>1
    <3>3. w[k - 1] = s[k]
      <4>1. w[pos + 1 + (d - 1)] = s[pos + 1 + (d - 1) + 1]
        BY <2>2, <3>2
      <4> QED BY <3>2, <4>1
    <3>4. w[k] = w[k - 1] + Len(b[k].pData)
      BY <1>6, <3>2
    <3> QED BY <1>1, <3>2, <3>3, <3>4
  <2> HIDE DEF T
  <2> QED BY <1>1, <2>1, <2>2, Inductively
<1>8. \A k \in pos + 1 .. Len(b) : w[k] = s[k + 1]
  <2>1. ASSUME NEW k \in pos + 1 .. Len(b) PROVE w[k] = s[k + 1]
    <3>1. k - (pos + 1) \in 0 .. Len(b) /\ pos + 1 + (k - (pos + 1)) = k /\ k <= Len(b)
      BY <1>1
    <3> QED BY <1>7, <3>1
  <2> QED BY <2>1
<1> DEFINE d == [k \in DOMAIN b |-> IF k <= pos + 1 THEN b[k]
                                   ELSE [b[k] EXCEPT !.nStart = w[k - 1], !.nEnd = w[k] - 1]]
<1>9. UpdIndex(b, pos) = d
  BY <1>4 DEF UpdIndex
<1>10. ASSUME NEW k \in 1 .. Len(b)
       PROVE  /\ d[k] \in BlockInfos /\ d[k].pData = b[k].pData /\ d[k].id = b[k].id
              /\ d[k].nStart = s[k] /\ d[k].nEnd = s[k + 1] - 1
              /\ (k <= pos + 1 => d[k] = b[k])
  <2>1. CASE k <= pos + 1
    <3>1. d[k] = b[k] /\ k \in 1 .. pos + 1
      BY <1>1, <2>1
    <3> QED BY <1>1, <3>1 DEF Indexed
  <2>2. CASE ~(k <= pos + 1)
    <3>1. k \in pos + 1 .. Len(b) /\ k - 1 \in pos + 1 .. Len(b) /\ (k - 1) + 1 = k
      BY <1>1, <2>2
    <3>2. w[k] = s[k + 1] /\ w[k - 1] = s[k]
      BY <1>8, <3>1
    <3>3. d[k] = [b[k] EXCEPT !.nStart = s[k], !.nEnd = s[k + 1] - 1]
      BY <1>1, <2>2, <3>2
    <3>4. s[k] \in Nat /\ s[k + 1] - 1 \in Int /\ b[k] \in BlockInfos
      BY <1>1
    <3> HIDE DEF d
    <3> QED BY <2>2, <3>3, <3>4 DEF BlockInfos
  <2> QED BY <2>1, <2>2
<1>11. d \in [1 .. Len(b) -> BlockInfos]
  <2>1. DOMAIN d = 1 .. Len(b) /\ d = [k \in 1 .. Len(b) |-> d[k]]
    BY <1>1
  <2> HIDE DEF d
  <2> QED BY <1>10, <2>1
<1> HIDE DEF d
<1>12. d \in Seq(BlockInfos) /\ Len(d) = Len(b)
  BY <1>1, <1>11, FunctionIsSeq
<1>13. \A k \in 1 .. pos + 1 : k \in 1 .. Len(b) /\ k <= pos + 1
  BY <1>1
<1> QED BY <1>9, <1>10, <1>12, <1>13 DEF SameBlocks, Indexed

-----------------------------------------------------------------------------
(* The search.                                                              *)

\* The block t, and no other, holds pos; those in front of it end before pos, and
\* those behind it start after it.
Target(b, pos, t) ==
  /\ t \in 1 .. Len(b) /\ Len(b) \in Nat
  /\ \A k \in 1 .. Len(b) : /\ Holds(b[k], pos) <=> k = t
                            /\ k # t => (b[k].nStart > pos <=> t < k)

LEMMA HasTarget ==
  ASSUME NEW b, NEW s, NEW C, Laid(b, s, C), Indexed(b, s, Len(b)), NEW pos \in 0 .. Len(C) - 1
  PROVE  \E t \in 1 .. Len(b) :
           Target(b, pos, t) /\ s[t] <= pos /\ pos < s[t + 1] /\ pos - s[t] + 1 \in 1 .. Len(b[t].pData)
<1>1. /\ Len(b) \in Nat /\ Len(C) \in Nat
      /\ \A k \in 1 .. Len(b) : /\ s[k] \in Nat /\ s[k + 1] \in Nat /\ b[k].nStart \in Nat
                                /\ b[k].nEnd \in Int
  BY LaidFacts
<1>2. pos + 1 \in 1 .. Len(C)
  BY <1>1
<1>3. PICK p \in 1 .. Len(C) : p = pos + 1
  BY <1>2
<1>3a. PICK t \in 1 .. Len(b) : s[t] < p /\ p <= s[t + 1] /\ p - s[t] \in 1 .. Len(b[t].pData)
  BY InSomeBlock
<1>3b. s[t] < pos + 1 /\ pos + 1 <= s[t + 1] /\ pos + 1 - s[t] \in 1 .. Len(b[t].pData)
  BY SMTT(30), <1>1, <1>3, <1>3a
<1>4. s[t] <= pos /\ pos < s[t + 1] /\ pos - s[t] + 1 = pos + 1 - s[t]
  BY SMTT(30), <1>1, <1>3b
<1>5. ASSUME NEW k \in 1 .. Len(b) PROVE Holds(b[k], pos) <=> k = t
  <2>1. b[k].nStart = s[k] /\ b[k].nEnd = s[k + 1] - 1
    BY DEF Indexed
  <2>2. Holds(b[k], pos) <=> s[k] < pos + 1 /\ pos + 1 <= s[k + 1]
    BY SMTT(30), <1>1, <2>1 DEF Holds
  <2>3. s[k] < pos + 1 /\ pos + 1 <= s[k + 1] => k = t
    <3>1. p \in Nat
      BY <1>1
    <3>2. s[k] < p /\ p <= s[k + 1] => k = t
      BY <1>3a, <3>1, InOneBlock
    <3> QED BY <1>3, <3>2
  <2> QED BY <1>3b, <2>2, <2>3
<1>6. ASSUME NEW k \in 1 .. Len(b), k # t PROVE b[k].nStart > pos <=> t < k
  <2>1. b[k].nStart = s[k]
    BY DEF Indexed
  <2>2. CASE t < k
    <3>1. t + 1 \in 1 .. Len(b) + 1 /\ k \in t + 1 .. Len(b) + 1
      BY <1>1, <2>2
    <3>2. s[t + 1] <= s[k]
      BY <3>1, BlocksRise
    <3> QED BY <1>1, <1>4, <2>1, <2>2, <3>2
  <2>3. CASE k < t
    <3>1. k \in 1 .. Len(b) + 1 /\ t \in k .. Len(b) + 1
      BY <1>1, <2>3
    <3>2. s[k] <= s[t]
      BY <3>1, BlocksRise
    <3> QED BY <1>1, <1>4, <2>1, <2>3, <3>2
  <2> QED BY <1>1, <1>6, <2>2, <2>3
<1>7. Target(b, pos, t)
  BY <1>1, <1>5, <1>6 DEF Target
<1> QED BY <1>3b, <1>4, <1>7

\* What is left to search contains the target, and one of its ends was looked at.
Ranges == [lower : Int, upper : Int, cur : Int]

Between(r, t, m) ==
  /\ r \in Ranges /\ 0 <= r.lower /\ r.lower <= t - 1 /\ t - 1 <= r.upper /\ r.upper < m
  /\ r.lower < r.upper /\ (r.cur = r.lower \/ r.cur = r.upper)

\* Of two blocks, the one that was not looked at before is looked at.
LEMMA SmallRange ==
  ASSUME NEW q, NEW l \in Int, q.lower = l, q.upper = l + 1
  PROVE  Probed(q) = IF q.cur = l THEN l + 1 ELSE l
<1>1. ((l + 1) - l) \div 2 = 0
  OBVIOUS
<1>2. q.lower + (q.upper - q.lower) \div 2 = l
  BY <1>1
<1> QED BY <1>2 DEF Probed

\* A round that does not find it narrows the range down to two blocks, of which
\* it then looks at the one and at the other.
LEMMA RoundNarrows ==
  ASSUME NEW a, NEW pos, NEW t \in Nat, NEW m \in Nat, m = Len(a.ppInf), Target(a.ppInf, pos, t),
         NEW r, Between(r, t, m), ~Holds(a.ppInf[Probed(r) + 1], pos)
  PROVE  LET q == Narrowed(a, pos, r) IN
         /\ Between(q, t, m)
         /\ q.upper - q.lower < r.upper - r.lower \/ r.upper - r.lower = 1
         /\ r.upper - r.lower = 1 =>
              q.upper - q.lower = 1 /\ Holds(a.ppInf[Probed(q) + 1], pos)
<1> DEFINE n == Probed(r)
           q == Narrowed(a, pos, r)
<1>1. r.lower \in Int /\ r.upper \in Int /\ r.cur \in Int
  BY DEF Between, Ranges
<1>2. /\ 0 <= r.lower /\ r.lower <= t - 1 /\ t - 1 <= r.upper /\ r.upper < m
      /\ r.lower < r.upper /\ (r.cur = r.lower \/ r.cur = r.upper)
  BY DEF Between
<1>3. /\ n \in Int /\ r.lower <= n /\ n <= r.upper /\ n # r.cur
      /\ r.upper - r.lower > 1 => r.lower < n /\ n < r.upper
  BY SMTT(30), <1>1, <1>2 DEF Probed
<1>4. n + 1 \in 1 .. m /\ n + 1 # t /\ (a.ppInf[n + 1].nStart > pos <=> t < n + 1)
  <2>1. n + 1 \in 1 .. m
    BY <1>1, <1>2, <1>3
  <2> HIDE DEF n
  <2> QED BY <2>1 DEF Target, n
<1> HIDE DEF n
<1>5. q = IF a.ppInf[n + 1].nStart > pos THEN [r EXCEPT !.upper = n, !.cur = n]
          ELSE [r EXCEPT !.lower = n, !.cur = n]
  BY DEF Narrowed, n
<1>6. CASE a.ppInf[n + 1].nStart > pos
  <2>1. q = [r EXCEPT !.upper = n, !.cur = n] /\ t < n + 1
    BY <1>4, <1>5, <1>6
  <2> HIDE DEF q
  <2>2. q \in Ranges /\ q.lower = r.lower /\ q.upper = n /\ q.cur = n
    BY <1>3, <2>1 DEF Between, Ranges
  <2>3. Between(q, t, m)
    BY <1>1, <1>2, <1>3, <2>1, <2>2 DEF Between
  <2>4. q.upper - q.lower < r.upper - r.lower \/ r.upper - r.lower = 1
    BY <1>1, <1>2, <1>3, <2>2
  <2>5. ASSUME r.upper - r.lower = 1
        PROVE  q.upper - q.lower = 1 /\ Holds(a.ppInf[Probed(q) + 1], pos)
    <3>1. n = r.upper /\ t - 1 = r.lower
      BY <1>1, <1>2, <1>3, <2>1, <2>5
    <3>2. q.lower = t - 1 /\ q.upper = t /\ q.cur = t
      BY <1>1, <2>2, <2>5, <3>1
    <3>3. Probed(q) + 1 = t
      BY SMTT(30), <1>1, <3>2, SmallRange
    <3>4. Holds(a.ppInf[t], pos)
      BY DEF Target
    <3>5. q.upper - q.lower = 1
      BY <3>2
    <3> QED BY <3>3, <3>4, <3>5
  <2> QED BY <2>3, <2>4, <2>5 DEF q
<1>7. CASE ~(a.ppInf[n + 1].nStart > pos)
  <2>1. q = [r EXCEPT !.lower = n, !.cur = n] /\ ~(t < n + 1)
    BY <1>4, <1>5, <1>7
  <2> HIDE DEF q
  <2>2. q \in Ranges /\ q.lower = n /\ q.upper = r.upper /\ q.cur = n
    BY <1>3, <2>1 DEF Between, Ranges
  <2>3. Between(q, t, m)
    BY <1>1, <1>2, <1>3, <1>4, <2>1, <2>2 DEF Between
  <2>4. q.upper - q.lower < r.upper - r.lower \/ r.upper - r.lower = 1
    BY <1>1, <1>2, <1>3, <2>2
  <2>5. ASSUME r.upper - r.lower = 1
        PROVE  q.upper - q.lower = 1 /\ Holds(a.ppInf[Probed(q) + 1], pos)
    <3>1. n = r.lower /\ t - 1 = r.upper
      BY <1>1, <1>2, <1>3, <1>4, <2>1, <2>5
    <3>2. q.lower = t - 2 /\ q.upper = t - 1 /\ q.cur = t - 2
      BY <1>1, <2>2, <2>5, <3>1
    <3>3. Probed(q) + 1 = t
      BY <1>1, <3>2, SmallRange
    <3>4. Holds(a.ppInf[t], pos)
      BY DEF Target
    <3>5. q.upper - q.lower = 1
      BY <3>2
    <3> QED BY <3>3, <3>4, <3>5
  <2> QED BY <2>3, <2>4, <2>5 DEF q
<1> QED BY <1>6, <1>7

\* The binary search ends, with the block that holds pos.
LEMMA SearchFinds ==
  ASSUME NEW a, NEW pos, NEW t, Target(a.ppInf, pos, t), Len(a.ppInf) # 1
  PROVE  Search(a, pos) = t - 1
<1> DEFINE m == Len(a.ppInf)
           r0 == [lower |-> 0, upper |-> nBlock(a) - 1, cur |-> 0]
           G(f) == [i \in 0 .. nBlock(a) |-> IF i = 0 THEN r0 ELSE Narrowed(a, pos, f[i - 1])]
<1>1. m \in Nat /\ m >= 2 /\ t \in 1 .. m /\ nBlock(a) = m
  <2>1. m \in Nat /\ t \in 1 .. m
    BY DEF Target
  <2>2. m # 1 /\ nBlock(a) = m
    BY DEF nBlock
  <2> HIDE DEF m
  <2> QED BY <2>1, <2>2
<1>2. ASSUME NEW r \in Ranges PROVE Narrowed(a, pos, r) \in Ranges
  <2>1. Probed(r) \in Int
    BY DEF Probed, Ranges
  <2> QED BY <2>1 DEF Narrowed, Ranges
<1>3. \E f : f = G(f)
  <2> DEFINE F == [x \in Ranges \X (1 .. m) |-> Narrowed(a, pos, x[1])]
  <2>1. F \in [Ranges \X (1 .. m) -> Ranges]
    BY <1>2
  <2>2. r0 \in Ranges
    BY <1>1 DEF Ranges
  <2>2a. PICK f \in [0 .. m -> Ranges] : Runs(f, r0, m, F)
    <3>1. m \in Nat
      BY <1>1
    <3> HIDE DEF F, r0, m
    <3> QED BY <2>1, <2>2, <3>1, Iterated
  <2>3. f[0] = r0 /\ \A k \in 1 .. m : f[k] = F[<<f[k - 1], k>>]
    <3> HIDE DEF F, r0, m
    <3> QED BY <2>2a DEF Runs
  <2>4. ASSUME NEW k \in 0 .. m PROVE f[k] = IF k = 0 THEN r0 ELSE Narrowed(a, pos, f[k - 1])
    <3>1. CASE k = 0
      BY <2>3, <3>1
    <3>2. CASE k # 0
      <4>1. k \in 1 .. m /\ f[k - 1] \in Ranges
        BY <1>1, <3>2
      <4>2. F[<<f[k - 1], k>>] = Narrowed(a, pos, f[k - 1])
        BY <4>1
      <4> QED BY <2>3, <3>2, <4>1, <4>2
    <3> QED BY <3>1, <3>2
  <2>5. f = [k \in 0 .. m |-> f[k]]
    OBVIOUS
  <2>6. f = G(f)
    <3> HIDE DEF r0
    <3> QED BY <1>1, <2>4, <2>5
  <2> HIDE DEF G
  <2> QED BY <2>6
<1>4. PICK w : w = CHOOSE f : f = G(f)
  OBVIOUS
<1>5. w = G(w)
  <2> HIDE DEF G
  <2> QED BY <1>3, <1>4
<1>6. w[0] = r0 /\ \A k \in 1 .. m : w[k] = Narrowed(a, pos, w[k - 1])
  <2> HIDE DEF r0
  <2>1. \A k \in 0 .. m : w[k] = IF k = 0 THEN r0 ELSE Narrowed(a, pos, w[k - 1])
    BY <1>1, <1>5
  <2> QED BY <1>1, <2>1
<1> DEFINE found(i) == Holds(a.ppInf[Probed(w[i]) + 1], pos)
<1>7. \E i \in 0 .. m : found(i)
  <2>1. SUFFICES ASSUME \A i \in 0 .. m : ~found(i) PROVE FALSE
    OBVIOUS
  <2> DEFINE T == {i \in 0 .. m : /\ Between(w[i], t, m)
                                  /\ \/ w[i].upper - w[i].lower = 1
                                     \/ w[i].upper - w[i].lower <= m - 1 - i}
  <2>2. 0 \in T
    <3>1. /\ w[0] \in Ranges /\ w[0].lower = 0 /\ w[0].upper = m - 1 /\ w[0].cur = 0
      BY <1>1, <1>6 DEF Ranges
    <3>2. Between(w[0], t, m)
      BY <1>1, <3>1 DEF Between
    <3> QED BY <1>1, <3>1, <3>2
  <2>3. ASSUME NEW k \in 1 .. m, k - 1 \in T PROVE k \in T
    <3> DEFINE r == w[k - 1]
               q == w[k]
    <3>1. /\ Between(r, t, m) /\ k - 1 \in 0 .. m
          /\ r.upper - r.lower = 1 \/ r.upper - r.lower <= m - 1 - (k - 1)
      BY <2>3
    <3>2. q = Narrowed(a, pos, r) /\ ~Holds(a.ppInf[Probed(r) + 1], pos)
      BY <1>6, <2>1, <3>1
    <3> HIDE DEF r, q
    <3>3. /\ Between(q, t, m)
          /\ q.upper - q.lower < r.upper - r.lower \/ r.upper - r.lower = 1
          /\ r.upper - r.lower = 1 => q.upper - q.lower = 1
      <4> HIDE DEF m
      <4> QED BY <1>1, <3>1, <3>2, RoundNarrows DEF m
    <3>4. r.upper \in Int /\ r.lower \in Int /\ q.upper \in Int /\ q.lower \in Int
      BY <3>1, <3>3 DEF Between, Ranges
    <3>5. q.upper - q.lower = 1 \/ q.upper - q.lower <= m - 1 - k
      <4>1. m \in Nat
        BY <1>1
      <4> HIDE DEF m
      <4>2. ASSUME r.upper - r.lower <= m - 1 - (k - 1), q.upper - q.lower < r.upper - r.lower
            PROVE  q.upper - q.lower <= m - 1 - k
        BY <3>4, <4>1, <4>2
      <4> QED BY <3>1, <3>3, <4>2
    <3> QED BY <1>1, <3>3, <3>5 DEF q
  <2>4. m - 2 \in T
    <3>1. \A k \in 0 .. m : k \in T
      <4> HIDE DEF T, m
      <4> QED BY <1>1, <2>2, <2>3, Inductively
    <3> QED BY <1>1, <3>1
  <2> DEFINE r == w[m - 2]
  <2>5. m - 2 \in 0 .. m /\ m - 1 \in 1 .. m /\ m - 1 \in 0 .. m /\ (m - 1) - 1 = m - 2
    BY <1>1
  <2>6. Between(r, t, m) /\ r.upper - r.lower = 1
    <3>1. Between(r, t, m) /\ (r.upper - r.lower = 1 \/ r.upper - r.lower <= m - 1 - (m - 2))
      BY <2>4
    <3>2. r.upper \in Int /\ r.lower \in Int /\ r.lower < r.upper
      BY <3>1 DEF Between, Ranges
    <3> QED BY <1>1, <3>1, <3>2
  <2>7. w[m - 1] = Narrowed(a, pos, r) /\ ~Holds(a.ppInf[Probed(r) + 1], pos)
    BY <1>6, <2>1, <2>5
  <2>8. Holds(a.ppInf[Probed(w[m - 1]) + 1], pos)
    <3> HIDE DEF r, m
    <3> QED BY <1>1, <2>6, <2>7, RoundNarrows DEF m
  <2> QED BY <2>1, <2>5, <2>8
<1> DEFINE first(i) == found(i) /\ \A j \in 0 .. i - 1 : ~found(j)
           last == CHOOSE i \in 0 .. nBlock(a) : first(i)
<1>8. \E i \in 0 .. m : first(i)
  <2> DEFINE U == {i \in 0 .. m : found(i)}
  <2> HIDE DEF found
  <2>1. U \in SUBSET Nat /\ U # {}
    BY <1>1, <1>7
  <2>2. PICK i \in U : \A y \in U : i <= y
    BY <2>1, LeastNumber
  <2>3. i \in 0 .. m /\ found(i)
    OBVIOUS
  <2>4. \A j \in 0 .. i - 1 : j \in 0 .. m /\ ~(i <= j)
    BY <1>1, <2>3
  <2> QED BY <2>2, <2>3, <2>4
<1>9. last \in 0 .. m /\ first(last)
  <2> HIDE DEF first
  <2> QED BY <1>1, <1>8
<1>10. Search(a, pos) = Probed(w[last])
  BY <1>4 DEF Search
<1> HIDE DEF last
<1>11. Between(w[last], t, m)
  <2> DEFINE T == {i \in 0 .. m : i <= last => Between(w[i], t, m)}
  <2>1. 0 \in T
    <3>1. /\ w[0] \in Ranges /\ w[0].lower = 0 /\ w[0].upper = m - 1 /\ w[0].cur = 0
      BY <1>1, <1>6 DEF Ranges
    <3>2. Between(w[0], t, m)
      BY <1>1, <3>1 DEF Between
    <3> QED BY <1>1, <3>2
  <2>2. ASSUME NEW k \in 1 .. m, k - 1 \in T PROVE k \in T
    <3>1. SUFFICES ASSUME k <= last PROVE Between(w[k], t, m)
      BY <1>1
    <3>2. k - 1 \in 0 .. last - 1 /\ k - 1 <= last
      BY <1>1, <1>9, <3>1
    <3>3. Between(w[k - 1], t, m) /\ ~Holds(a.ppInf[Probed(w[k - 1]) + 1], pos)
      BY <1>9, <2>2, <3>2
    <3>4. w[k] = Narrowed(a, pos, w[k - 1])
      BY <1>6
    <3> HIDE DEF m
    <3> QED BY <1>1, <3>3, <3>4, RoundNarrows DEF m
  <2>3. \A k \in 0 .. m : k \in T
    <3> HIDE DEF T, m
    <3> QED BY <1>1, <2>1, <2>2, Inductively
  <2> QED BY <1>1, <1>9, <2>3
<1>12. Probed(w[last]) + 1 = t
  <2> DEFINE r == w[last]
  <2>1. Holds(a.ppInf[Probed(r) + 1], pos)
    BY <1>9
  <2>2. Probed(r) \in Int /\ Probed(r) + 1 \in 1 .. m
    <3> HIDE DEF m, r
    <3>1. /\ r.lower \in Int /\ r.upper \in Int /\ r.cur \in Int /\ 0 <= r.lower /\ r.upper < m
          /\ r.lower < r.upper /\ (r.cur = r.lower \/ r.cur = r.upper)
      BY <1>11 DEF Between, Ranges, r
    <3> QED BY <1>1, <3>1 DEF Probed
  <2>3. Probed(r) + 1 \in 1 .. Len(a.ppInf)
    BY <2>2
  <2> HIDE DEF r
  <2>4. Holds(a.ppInf[Probed(r) + 1], pos) <=> Probed(r) + 1 = t
    BY <2>3 DEF Target
  <2> QED BY <2>1, <2>4 DEF r
<1>13. Probed(w[last]) \in Int
  <2>1. w[last] \in Ranges
    BY <1>11 DEF Between
  <2> QED BY <2>1 DEF Probed, Ranges
<1> QED BY <1>1, <1>10, <1>12, <1>13

\* Whichever block was used last, the block of the position is found, even when it is
\* one that Remove has deleted.
LEMMA BlockFound ==
  ASSUME NEW a, NEW pos \in Nat, NEW t, Target(a.ppInf, pos, t), t = 1 \/ pos # 0,
         a.nCur \in Nat, a.nCur <= Len(a.ppInf), a.nSize \in Nat, pos < a.nSize
  PROVE  Index2Block(a, pos) = t - 1
<1> DEFINE m == Len(a.ppInf)
           last == a.nCur + 1
           p == LastUsed(a)
<1>1. /\ m \in Nat /\ t \in 1 .. m /\ nBlock(a) = m
      /\ \A k \in 1 .. m : Holds(a.ppInf[k], pos) <=> k = t
  BY DEF Target, nBlock
<1>2. a.nCur < m => p = a.ppInf[last]
  BY <1>1 DEF LastUsed
<1>3. ~(a.nCur < m) => p.nStart = a.nSize /\ ~Holds(p, pos)
  <2>1. SUFFICES ASSUME ~(a.nCur < m) PROVE p.nStart = a.nSize /\ ~Holds(p, pos)
    OBVIOUS
  <2>2. p = [nStart |-> a.nSize, nEnd |-> a.nSize - 1]
    BY <1>1, <2>1 DEF LastUsed
  <2>3. p.nStart = a.nSize
    BY <2>2
  <2>4. ~(p.nStart <= pos)
    BY <2>3
  <2> QED BY <2>3, <2>4 DEF Holds
<1> HIDE DEF p
<1> DEFINE previous == a.nCur >= m - 1 /\ pos < p.nStart /\ a.nCur > 0 /\ Holds(a.ppInf[a.nCur], pos)
           next     == a.nCur < m - 1 /\ Holds(a.ppInf[a.nCur + 2], pos)
<1>4. Index2Block(a, pos) = IF Holds(p, pos) THEN a.nCur
                            ELSE IF pos = 0 THEN 0
                            ELSE IF next THEN a.nCur + 1
                            ELSE IF previous THEN a.nCur - 1
                            ELSE Search(a, pos)
  BY <1>1 DEF Index2Block, p
<1>5. CASE Holds(p, pos)
  <2>1. last \in 1 .. m /\ p = a.ppInf[last]
    BY <1>1, <1>2, <1>3, <1>5
  <2>2. last = t
    BY <1>1, <1>5, <2>1
  <2> QED BY <1>4, <1>5, <2>2
<1>6. CASE ~Holds(p, pos) /\ pos = 0
  BY <1>4, <1>6
<1>7. CASE ~Holds(p, pos) /\ pos # 0 /\ next
  <2>1. a.nCur + 2 \in 1 .. m
    BY <1>1, <1>7
  <2>2. a.nCur + 2 = t
    BY <1>1, <1>7, <2>1
  <2> QED BY <1>4, <1>7, <2>2
<1>8. CASE ~Holds(p, pos) /\ pos # 0 /\ ~next /\ previous
  <2>1. a.nCur \in 1 .. m
    BY <1>1, <1>8
  <2>2. a.nCur = t
    BY <1>1, <1>8, <2>1
  <2> QED BY <1>4, <1>8, <2>2
<1>9. CASE ~Holds(p, pos) /\ pos # 0 /\ ~next /\ ~previous
  <2>1. Index2Block(a, pos) = Search(a, pos)
    BY <1>4, <1>9
  <2>2. m # 1
    <3>1. SUFFICES ASSUME m = 1 PROVE FALSE
      OBVIOUS
    <3>2. t = 1 /\ Holds(a.ppInf[1], pos) /\ (a.nCur = 0 \/ a.nCur = 1)
      BY <1>1, <3>1
    <3>3. CASE a.nCur = 0
      <4>1. p = a.ppInf[1]
        BY <1>2, <3>1, <3>3
      <4> QED BY <1>9, <3>2, <4>1
    <3>4. CASE a.nCur = 1
      <4>1. p.nStart = a.nSize
        BY <1>3, <3>1, <3>4
      <4> QED BY <1>9, <3>1, <3>2, <3>4, <4>1
    <3> QED BY <3>2, <3>3, <3>4
  <2> QED BY <1>9, <2>1, <2>2, SearchFinds
<1> QED BY <1>5, <1>6, <1>7, <1>8, <1>9


-----------------------------------------------------------------------------
(* The fields of the array.                                                 *)

Arrays == [ppInf : Seq(BlockInfos), nSize : Nat, nMaxBlock : Nat, nCur : Nat,
           entry : [Elems -> Entries \cup {None}]]

\* The array a holds C, with a table of blocks that is large enough.
Holding(a, s, C) ==
  /\ a \in Arrays /\ Laid(a.ppInf, s, C) /\ Ids(a.ppInf) /\ Fit(a.ppInf)
  /\ a.nSize = Len(C) /\ Len(a.ppInf) <= a.nMaxBlock /\ a.nCur <= Len(a.ppInf)

\* No element is there twice, but for the x-th one.
Distinct(C, x) ==
  \A p, q \in 1 .. Len(C) : C[p] = C[q] /\ p # x /\ q # x => p = q

\* As the operations find it and leave it.
Tidy(a, s, C, x) ==
  /\ Holding(a, s, C) /\ Right(a.ppInf, a.entry, s, x)
  /\ Indexed(a.ppInf, s, Len(a.ppInf)) /\ Filled(a.ppInf)

Sound(a, C, x) == \E s : Tidy(a, s, C, x)

LEMMA HoldingFacts ==
  ASSUME NEW a, NEW s, NEW C, Holding(a, s, C)
  PROVE  /\ a.ppInf \in Seq(BlockInfos) /\ a.nSize \in Nat /\ a.nMaxBlock \in Nat /\ a.nCur \in Nat
         /\ a.entry \in [Elems -> Entries \cup {None}]
         /\ a = [ppInf |-> a.ppInf, nSize |-> a.nSize, nMaxBlock |-> a.nMaxBlock,
                 nCur |-> a.nCur, entry |-> a.entry]
         /\ Len(a.ppInf) \in Nat /\ Laid(a.ppInf, s, C) /\ nBlock(a) = Len(a.ppInf)
         /\ Len(C) \in Nat /\ C \in Seq(Elems)
<1>1. a \in Arrays /\ Laid(a.ppInf, s, C)
  BY DEF Holding
<1>2. Len(a.ppInf) \in Nat /\ Len(C) \in Nat /\ C \in Seq(Elems)
  <2>1. PICK b : b = a.ppInf
    OBVIOUS
  <2>2. Len(b) \in Nat /\ Len(C) \in Nat /\ C \in Seq(Elems)
    BY <1>1, <2>1, LaidFacts
  <2> QED BY <2>1, <2>2
<1>3. /\ a.ppInf \in Seq(BlockInfos) /\ a.nSize \in Nat /\ a.nMaxBlock \in Nat /\ a.nCur \in Nat
      /\ a.entry \in [Elems -> Entries \cup {None}]
  BY <1>1 DEF Arrays
<1>4. a = [ppInf |-> a.ppInf, nSize |-> a.nSize, nMaxBlock |-> a.nMaxBlock,
           nCur |-> a.nCur, entry |-> a.entry]
  BY <1>1 DEF Arrays
<1> QED BY <1>1, <1>2, <1>3, <1>4 DEF nBlock

LEMMA BlockFacts ==
  ASSUME NEW b, NEW s, NEW C, Laid(b, s, C), NEW k \in 1 .. Len(b)
  PROVE  /\ s[k] \in Nat /\ s[k + 1] \in Nat /\ Len(b[k].pData) \in Nat
         /\ s[k + 1] = s[k] + Len(b[k].pData) /\ s[k + 1] <= Len(C) /\ Len(C) \in Nat
         /\ b[k] \in BlockInfos /\ b[k].id \in Nat /\ b[k].nStart \in Nat /\ b[k].nEnd \in Int
         /\ b[k].pData \in Seq(Elems) /\ DOMAIN b[k].pData = 1 .. Len(b[k].pData)
BY LaidFacts

LEMMA PlaceFacts ==
  ASSUME NEW b, NEW s, NEW C, Laid(b, s, C), NEW k \in 1 .. Len(b), NEW i \in 1 .. Len(b[k].pData)
  PROVE  /\ i \in Int /\ s[k] \in Nat /\ s[k] + i \in 1 .. Len(C) /\ s[k] + i <= s[k + 1]
         /\ s[k] + i \in Nat /\ s[k] < s[k] + i /\ s[k + 1] \in Nat /\ C[s[k] + i] = b[k].pData[i] /\ b[k].pData[i] \in Elems
<1>1. /\ s[k] \in Nat /\ s[k + 1] \in Nat /\ Len(b[k].pData) \in Nat
      /\ s[k + 1] = s[k] + Len(b[k].pData) /\ s[k + 1] <= Len(C) /\ Len(C) \in Nat
  BY BlockFacts
<1>2. C[s[k] + i] = b[k].pData[i] /\ b[k].pData[i] \in Elems
  BY LaidFacts
<1>3. i \in Int /\ i > 0 /\ i <= Len(b[k].pData)
  BY <1>1
<1>4. /\ s[k] + i \in 1 .. Len(C) /\ s[k] + i <= s[k + 1]
      /\ s[k] + i \in Nat /\ s[k] < s[k] + i
  BY <1>1, <1>3
<1> QED BY <1>1, <1>2, <1>3, <1>4

\* The place of a position.
LEMMA PlaceOf ==
  ASSUME NEW b, NEW s, NEW C, Laid(b, s, C), NEW p \in 1 .. Len(C)
  PROVE  \E k \in 1 .. Len(b) : \E i \in 1 .. Len(b[k].pData) :
           s[k] + i = p /\ C[p] = b[k].pData[i]
<1>1. PICK k \in 1 .. Len(b) : p - s[k] \in 1 .. Len(b[k].pData)
  BY InSomeBlock
<1>2. PICK i \in 1 .. Len(b[k].pData) : i = p - s[k]
  BY <1>1
<1>3. p \in Int /\ s[k] \in Nat
  BY LaidFacts
<1>4. s[k] + i = p
  BY <1>2, <1>3
<1>5. C[s[k] + i] = b[k].pData[i]
  BY PlaceFacts
<1> QED BY <1>4, <1>5

\* Elements that know where they are, are there once.
LEMMA RightDistinct ==
  ASSUME NEW b, NEW s, NEW C, NEW en, NEW x, Laid(b, s, C), Ids(b), Right(b, en, s, x)
  PROVE  Distinct(C, x)
<1>0. ASSUME NEW r \in 1 .. Len(C)
      PROVE  \E k \in 1 .. Len(b) : \E i \in 1 .. Len(b[k].pData) :
               s[k] + i = r /\ C[r] = b[k].pData[i]
  BY PlaceOf
<1>1. SUFFICES ASSUME NEW p \in 1 .. Len(C), NEW q \in 1 .. Len(C), C[p] = C[q], p # x, q # x
               PROVE  p = q
  BY DEF Distinct
<1>2. PICK k \in 1 .. Len(b) : \E i \in 1 .. Len(b[k].pData) : s[k] + i = p /\ C[p] = b[k].pData[i]
  BY <1>0
<1>3. PICK i \in 1 .. Len(b[k].pData) : s[k] + i = p /\ C[p] = b[k].pData[i]
  BY <1>2
<1>4. PICK l \in 1 .. Len(b) : \E j \in 1 .. Len(b[l].pData) : s[l] + j = q /\ C[q] = b[l].pData[j]
  BY <1>0
<1>5. PICK j \in 1 .. Len(b[l].pData) : s[l] + j = q /\ C[q] = b[l].pData[j]
  BY <1>4
<1>6. en[C[p]] = [pBlock |-> b[k].id, nOffset |-> i - 1]
  BY <1>1, <1>3 DEF Right
<1>7. en[C[q]] = [pBlock |-> b[l].id, nOffset |-> j - 1]
  BY <1>1, <1>5 DEF Right
<1>8. b[k].id = b[l].id /\ i - 1 = j - 1
  BY <1>1, <1>6, <1>7
<1>9. k = l
  BY <1>8 DEF Ids
<1>10. i = j
  <2>1. i \in Int /\ j \in Int
    BY PlaceFacts
  <2> QED BY <1>8, <2>1
<1> QED BY <1>3, <1>5, <1>9, <1>10

\* Where an element is among the blocks, if no element is there twice.
LEMMA OnePlace ==
  ASSUME NEW b, NEW s, NEW C, Laid(b, s, C), NEW x, Distinct(C, x),
         NEW k \in 1 .. Len(b), NEW i \in 1 .. Len(b[k].pData),
         NEW l \in 1 .. Len(b), NEW j \in 1 .. Len(b[l].pData), b[k].pData[i] = b[l].pData[j],
         s[k] + i # x, s[l] + j # x
  PROVE  k = l /\ i = j
<1>1. /\ i \in Int /\ s[k] \in Nat /\ s[k] + i \in 1 .. Len(C) /\ s[k] + i <= s[k + 1]
      /\ s[k + 1] \in Nat /\ C[s[k] + i] = b[k].pData[i]
  BY PlaceFacts
<1>2. /\ j \in Int /\ s[l] \in Nat /\ s[l] + j \in 1 .. Len(C) /\ s[l] + j <= s[l + 1]
      /\ s[l + 1] \in Nat /\ C[s[l] + j] = b[l].pData[j]
  BY PlaceFacts
<1>3. s[k] + i = s[l] + j
  BY <1>1, <1>2 DEF Distinct
<1>4. PICK p : p = s[k] + i
  OBVIOUS
<1>5. p \in Nat /\ s[k] < p /\ p <= s[k + 1]
  <2>1. s[k] + i \in Nat /\ s[k] < s[k] + i /\ s[k] + i <= s[k + 1]
    BY PlaceFacts
  <2> QED BY <1>4, <2>1
<1>6. s[l] < p /\ p <= s[l + 1]
  <2>1. s[l] < s[l] + j /\ s[l] + j <= s[l + 1]
    BY PlaceFacts
  <2> QED BY <1>3, <1>4, <2>1
<1>7. k = l
  BY <1>5, <1>6, InOneBlock
<1>8. s[k] + i = s[k] + j
  BY <1>3, <1>7
<1> QED BY <1>1, <1>2, <1>7, <1>8

\* The starts follow from the lengths.
LEMMA SameStarts ==
  ASSUME NEW b, NEW s, NEW C, Laid(b, s, C), NEW d, NEW t, NEW D, Laid(d, t, D),
         NEW m \in 0 .. Len(b), m <= Len(d), \A k \in 1 .. m : Len(d[k].pData) = Len(b[k].pData)
  PROVE  \A k \in 1 .. m + 1 : t[k] = s[k]
<1> DEFINE T == {j \in Nat : j <= m => t[j + 1] = s[j + 1]}
<1>1. /\ Len(b) \in Nat /\ s[1] = 0 /\ \A k \in 1 .. Len(b) : s[k + 1] = s[k] + Len(b[k].pData)
  BY LaidFacts
<1>2. /\ Len(d) \in Nat /\ t[1] = 0 /\ \A k \in 1 .. Len(d) : t[k + 1] = t[k] + Len(d[k].pData)
  BY LaidFacts
<1>3. 0 \in T
  BY <1>1, <1>2
<1>4. ASSUME NEW j \in 1 .. m, j - 1 \in T PROVE j \in T
  <2>1. j \in 1 .. Len(b) /\ j \in 1 .. Len(d) /\ (j - 1) + 1 = j /\ j - 1 <= m
    BY <1>1, <1>2
  <2>2. t[j] = s[j]
    BY <1>4, <2>1
  <2>3. t[j + 1] = t[j] + Len(d[j].pData) /\ s[j + 1] = s[j] + Len(b[j].pData)
    BY <1>1, <1>2, <2>1
  <2> QED BY <2>2, <2>3
<1>5. \A j \in 0 .. m : j \in T
  <2>1. m \in Nat
    BY <1>1
  <2> HIDE DEF T
  <2> QED BY <1>3, <1>4, <2>1, Inductively
<1>6. ASSUME NEW k \in 1 .. m + 1 PROVE t[k] = s[k]
  <2>1. k - 1 \in 0 .. m /\ (k - 1) + 1 = k /\ k - 1 <= m
    OBVIOUS
  <2>2. k - 1 \in T
    BY <1>5, <2>1
  <2> QED BY <2>1, <2>2
<1> QED BY <1>6

-----------------------------------------------------------------------------
(* A new block.                                                             *)

\* There is an address that no block has.
LEMMA NewAddress ==
  ASSUME NEW b \in Seq(BlockInfos)
  PROVE  \E i \in 1 .. Len(b) + 1 : \A k \in DOMAIN b : b[k].id # i
<1> DEFINE n == Len(b)
<1>1. n \in Nat /\ DOMAIN b = 1 .. n
  BY DatasFacts
<1> HIDE DEF n
<1>2. SUFFICES ASSUME \A i \in 1 .. n + 1 : \E k \in 1 .. n : b[k].id = i PROVE FALSE
  BY <1>1 DEF n
<1> DEFINE g == [i \in 1 .. n + 1 |-> CHOOSE k \in 1 .. n : b[k].id = i]
<1>3. \A i \in 1 .. n + 1 : g[i] \in 1 .. n /\ b[g[i]].id = i
  BY <1>2
<1>4. g \in [1 .. n + 1 -> 1 .. n]
  BY <1>3
<1>5. /\ IsFiniteSet(1 .. n + 1) /\ IsFiniteSet(1 .. n)
      /\ Cardinality(1 .. n) < Cardinality(1 .. n + 1)
  <2>1. 1 \in Int /\ n \in Int /\ n + 1 \in Int
    BY <1>1
  <2>2. IsFiniteSet(1 .. n) /\ Cardinality(1 .. n) = n
    BY <1>1, <2>1, FS_Interval
  <2>3. IsFiniteSet(1 .. n + 1) /\ Cardinality(1 .. n + 1) = n + 1
    <3>1. PICK m \in Nat : m = n + 1
      BY <1>1
    <3>2. IsFiniteSet(1 .. m) /\ Cardinality(1 .. m) = m
      BY <2>1, <3>1, FS_Interval
    <3> QED BY <3>1, <3>2
  <2> QED BY <1>1, <2>2, <2>3
<1> HIDE DEF g
<1>6. \E x, y \in 1 .. n + 1 : x # y /\ g[x] = g[y]
  BY <1>4, <1>5, FS_PigeonHole
<1> QED BY <1>3, <1>6

\* The starts with an empty block more, of number pos.
Opened(s, n, pos) == [k \in 1 .. n + 2 |-> IF k <= pos + 1 THEN s[k] ELSE s[k - 1]]

LEMMA InsBlockFacts ==
  ASSUME NEW a, NEW s, NEW C, Holding(a, s, C), Right(a.ppInf, a.entry, s, 0),
         Indexed(a.ppInf, s, Len(a.ppInf)), NEW pos \in 0 .. Len(a.ppInf),
         NEW b, b = InsBlock(a, pos), NEW t, t = Opened(s, Len(a.ppInf), pos)
  PROVE  /\ Holding(b, t, C) /\ Right(b.ppInf, b.entry, t, 0) /\ Indexed(b.ppInf, t, Len(b.ppInf))
         /\ Len(b.ppInf) = Len(a.ppInf) + 1
         /\ b.ppInf[pos + 1].pData = <<>>
         /\ b.entry = a.entry /\ b.nCur = a.nCur /\ b.nSize = a.nSize
         /\ \A k \in 1 .. pos : b.ppInf[k] = a.ppInf[k]
         /\ \A k \in pos + 2 .. Len(a.ppInf) + 1 : b.ppInf[k] = a.ppInf[k - 1]
         /\ \A k \in 1 .. pos + 1 : t[k] = s[k]
         /\ \A k \in pos + 2 .. Len(a.ppInf) + 2 : t[k] = s[k - 1]
<1> DEFINE n == Len(a.ppInf)
           q == a.ppInf
           new == CHOOSE i \in 1 .. nBlock(a) + 1 : \A k \in DOMAIN q : q[k].id # i
           start == IF pos = 0 THEN 0 ELSE q[pos].nEnd + 1
           block == [id |-> new, nStart |-> start, nEnd |-> start - 1, pData |-> <<>>]
           d == InsertAt(q, pos + 1, block)
           max == IF nBlock(a) = a.nMaxBlock THEN a.nMaxBlock + nBlockGrowSize ELSE a.nMaxBlock
<1>1. /\ q \in Seq(BlockInfos) /\ a.nSize \in Nat /\ a.nMaxBlock \in Nat /\ a.nCur \in Nat
      /\ a.entry \in [Elems -> Entries \cup {None}]
      /\ a = [ppInf |-> a.ppInf, nSize |-> a.nSize, nMaxBlock |-> a.nMaxBlock,
              nCur |-> a.nCur, entry |-> a.entry]
      /\ n \in Nat /\ Laid(q, s, C) /\ nBlock(a) = n
      /\ Len(C) \in Nat /\ C \in Seq(Elems)
  BY HoldingFacts
<1>2. b = [ppInf |-> d, nSize |-> a.nSize, nMaxBlock |-> max, nCur |-> a.nCur, entry |-> a.entry]
  <2>1. b = [a EXCEPT !.ppInf = d, !.nMaxBlock = max]
    BY DEF InsBlock
  <2> HIDE DEF d, max
  <2> QED BY <1>1, <2>1
<1>3. new \in 1 .. n + 1 /\ \A k \in 1 .. n : q[k].id # new
  <2>1. \E i \in 1 .. n + 1 : \A k \in DOMAIN q : q[k].id # i
    BY <1>1, NewAddress
  <2>2. DOMAIN q = 1 .. n
    BY <1>1
  <2>3. new \in 1 .. n + 1 /\ \A k \in DOMAIN q : q[k].id # new
    BY <1>1, <2>1
  <2> HIDE DEF new
  <2> QED BY <2>2, <2>3
<1> HIDE DEF new
<1>4. start = s[pos + 1] /\ s[pos + 1] \in Nat
  <2>1. CASE pos = 0
    <3>1. s[1] = 0
      BY <1>1, LaidFacts
    <3> QED BY <2>1, <3>1
  <2>2. CASE pos # 0
    <3>1. pos \in 1 .. n
      BY <1>1, <2>2
    <3>2. q[pos].nEnd = s[pos + 1] - 1
      BY <3>1 DEF Indexed
    <3>3. s[pos + 1] \in Nat
      BY <1>1, <3>1, BlockFacts
    <3> QED BY <2>2, <3>2, <3>3
  <2> QED BY <2>1, <2>2
<1> HIDE DEF start
<1>5. block \in BlockInfos
  BY <1>1, <1>3, <1>4 DEF BlockInfos
<1>6. /\ block.id = new /\ block.nStart = s[pos + 1] /\ block.nEnd = s[pos + 1] - 1
      /\ block.pData = <<>>
  BY <1>4
<1> HIDE DEF block
<1>7. /\ d \in Seq(BlockInfos) /\ Len(d) = n + 1
      /\ \A i \in 1 .. n + 1 : d[i] = IF i < pos + 1 THEN q[i] ELSE IF i = pos + 1 THEN block
                                      ELSE q[i - 1]
  <2>1. PICK p \in Seq(BlockInfos) : p = q
    BY <1>1
  <2>2. PICK j \in 1 .. Len(p) + 1 : j = pos + 1
    BY <1>1, <2>1
  <2>3. InsertAt(p, j, block) \in Seq(BlockInfos) /\ HasInserted(p, j, block, InsertAt(p, j, block))
    BY <1>5, InsertAtFacts
  <2> QED BY <2>1, <2>2, <2>3 DEF HasInserted
<1> HIDE DEF d
<1>8. \A k \in 1 .. pos : k \in 1 .. n /\ d[k] = q[k]
  BY <1>1, <1>7
<1>9. d[pos + 1] = block
  BY <1>1, <1>7
<1>10. \A k \in pos + 2 .. n + 1 : k - 1 \in 1 .. n /\ d[k] = q[k - 1]
  BY <1>1, <1>7
<1>11. s \in [1 .. n + 1 -> Nat]
  BY <1>1, LaidFacts
<1>12. \A k \in 1 .. pos + 1 : t[k] = s[k] /\ t[k] \in Nat
  BY <1>1, <1>11 DEF Opened
<1>13. \A k \in pos + 2 .. n + 2 : t[k] = s[k - 1] /\ t[k] \in Nat
  BY <1>1, <1>11 DEF Opened
<1>14. t \in [1 .. n + 2 -> Nat]
  <2>1. \A k \in 1 .. n + 2 : k \in 1 .. pos + 1 \/ k \in pos + 2 .. n + 2
    BY <1>1
  <2>2. t = [k \in 1 .. n + 2 |-> t[k]]
    BY DEF Opened
  <2> QED BY <1>12, <1>13, <2>1, <2>2
\* Each block but the new one was there before.
<1>15. ASSUME NEW k \in 1 .. n + 1, k # pos + 1
       PROVE  \E j \in 1 .. n : /\ d[k] = q[j] /\ t[k] = s[j] /\ t[k + 1] = s[j + 1]
                                /\ k = IF j <= pos THEN j ELSE j + 1
  <2>1. CASE k \in 1 .. pos
    <3>1. k \in 1 .. n /\ d[k] = q[k] /\ t[k] = s[k] /\ t[k + 1] = s[k + 1] /\ k <= pos
      BY SMTT(30), <1>1, <1>8, <1>12, <2>1
    <3> QED BY <3>1
  <2>2. CASE k \in pos + 2 .. n + 1
    <3>1. PICK j \in 1 .. n : j = k - 1
      BY <1>1, <2>2
    <3>2. /\ k \in pos + 2 .. n + 2 /\ k + 1 \in pos + 2 .. n + 2 /\ (k + 1) - 1 = j + 1
          /\ k = j + 1 /\ ~(j <= pos)
      BY SMTT(30), <1>1, <2>2, <3>1
    <3>3. d[k] = q[j] /\ t[k] = s[j] /\ t[k + 1] = s[j + 1]
      BY <1>10, <1>13, <2>2, <3>1, <3>2
    <3> QED BY <3>2, <3>3
  <2> QED BY <1>1, <1>15, <2>1, <2>2
<1>16. d[pos + 1] = block /\ t[pos + 1] = s[pos + 1] /\ t[(pos + 1) + 1] = s[pos + 1]
  <2>1. (pos + 1) + 1 \in pos + 2 .. n + 2 /\ ((pos + 1) + 1) - 1 = pos + 1 /\ pos + 1 \in 1 .. pos + 1
    BY <1>1
  <2> QED BY <1>9, <1>12, <1>13, <2>1
<1>17. /\ s[1] = 0 /\ Len(C) = s[n + 1]
       /\ \A k \in 1 .. n : /\ s[k + 1] = s[k] + Len(q[k].pData)
                            /\ \A i \in 1 .. Len(q[k].pData) : C[s[k] + i] = q[k].pData[i]
  BY <1>1, LaidFacts
<1>19. Laid(d, t, C)
  <2>1. t[1] = 0
    BY <1>1, <1>12, <1>17
  <2>2. ASSUME NEW k \in 1 .. n + 1
        PROVE  /\ t[k + 1] = t[k] + Len(d[k].pData)
               /\ \A i \in 1 .. Len(d[k].pData) : C[t[k] + i] = d[k].pData[i]
    <3>1. CASE k = pos + 1
      <4>1. d[k].pData = <<>> /\ t[k] = s[pos + 1] /\ t[k + 1] = s[pos + 1] /\ s[pos + 1] \in Nat
        BY <1>4, <1>6, <1>16, <3>1
      <4> QED BY <4>1
    <3>2. CASE k # pos + 1
      <4>1. PICK j \in 1 .. n : d[k] = q[j] /\ t[k] = s[j] /\ t[k + 1] = s[j + 1]
        BY <1>15, <3>2
      <4> QED BY <1>17, <4>1
    <3> QED BY <3>1, <3>2
  <2>3. Len(C) = t[(n + 1) + 1]
    <3>1. (n + 1) + 1 \in pos + 2 .. n + 2 /\ ((n + 1) + 1) - 1 = n + 1
      BY <1>1
    <3> QED BY <1>13, <1>17, <3>1
  <2>4. PICK m : m = n + 1
    OBVIOUS
  <2>5. /\ Len(d) = m /\ t \in [1 .. m + 1 -> Nat] /\ Len(C) = t[m + 1]
        /\ \A k \in 1 .. m : t[k + 1] = t[k] + Len(d[k].pData)
        /\ \A k \in 1 .. m : \A i \in 1 .. Len(d[k].pData) : C[t[k] + i] = d[k].pData[i]
    <3>1. (n + 1) + 1 = n + 2
      BY <1>1
    <3> QED BY <1>7, <1>14, <2>2, <2>3, <2>4, <3>1
  <2> QED BY <1>1, <1>7, <2>1, <2>5, LaidIf
<1>20. Ids(d)
  <2>1. SUFFICES ASSUME NEW k \in 1 .. n + 1, NEW l \in 1 .. n + 1, d[k].id = d[l].id PROVE k = l
    BY <1>7 DEF Ids
  <2>2. \A i, j \in 1 .. n : q[i].id = q[j].id => i = j
    BY DEF Holding, Ids
  <2>3. CASE k = pos + 1 /\ l = pos + 1
    BY <2>3
  <2>4. CASE k = pos + 1 /\ l # pos + 1
    <3>1. PICK j \in 1 .. n : d[l] = q[j]
      BY <1>15, <2>4
    <3>2. d[k].id = new
      BY <1>6, <1>16, <2>4
    <3> QED BY <1>3, <2>1, <3>1, <3>2
  <2>5. CASE k # pos + 1 /\ l = pos + 1
    <3>1. PICK j \in 1 .. n : d[k] = q[j]
      BY <1>15, <2>5
    <3>2. d[l].id = new
      BY <1>6, <1>16, <2>5
    <3> QED BY <1>3, <2>1, <3>1, <3>2
  <2>6. CASE k # pos + 1 /\ l # pos + 1
    <3>1. PICK i \in 1 .. n : d[k] = q[i] /\ k = IF i <= pos THEN i ELSE i + 1
      BY <1>15, <2>6
    <3>2. PICK j \in 1 .. n : d[l] = q[j] /\ l = IF j <= pos THEN j ELSE j + 1
      BY <1>15, <2>6
    <3>3. i = j
      BY <2>1, <2>2, <3>1, <3>2
    <3> QED BY <3>1, <3>2, <3>3
  <2> QED BY <2>3, <2>4, <2>5, <2>6
<1>21. Fit(d)
  <2>1. \A k \in 1 .. n : Len(q[k].pData) <= MAXENTRY
    BY DEF Holding, Fit
  <2>2. ASSUME NEW k \in 1 .. n + 1 PROVE Len(d[k].pData) <= MAXENTRY
    <3>1. CASE k = pos + 1
      BY <1>6, <1>16, <3>1, SizesAssumption
    <3>2. CASE k # pos + 1
      BY <1>15, <2>1, <3>2
    <3> QED BY <3>1, <3>2
  <2> QED BY <1>7, <2>2 DEF Fit
<1>22. Right(d, a.entry, t, 0)
  <2>1. ASSUME NEW k \in 1 .. n + 1, NEW i \in 1 .. Len(d[k].pData), t[k] + i # 0
        PROVE  a.entry[d[k].pData[i]] = [pBlock |-> d[k].id, nOffset |-> i - 1]
    <3>1. CASE k = pos + 1
      BY <1>6, <1>16, <3>1
    <3>2. CASE k # pos + 1
      <4>1. PICK j \in 1 .. n : d[k] = q[j] /\ t[k] = s[j]
        BY <1>15, <3>2
      <4> QED BY <2>1, <4>1 DEF Right
    <3> QED BY <3>1, <3>2
  <2> QED BY <1>7, <2>1 DEF Right
<1>23. Indexed(d, t, n + 1)
  <2>1. ASSUME NEW k \in 1 .. n + 1 PROVE d[k].nStart = t[k] /\ d[k].nEnd = t[k + 1] - 1
    <3>1. CASE k = pos + 1
      BY <1>6, <1>16, <3>1
    <3>2. CASE k # pos + 1
      <4>1. PICK j \in 1 .. n : d[k] = q[j] /\ t[k] = s[j] /\ t[k + 1] = s[j + 1]
        BY <1>15, <3>2
      <4> QED BY <4>1 DEF Indexed
    <3> QED BY <3>1, <3>2
  <2> QED BY <2>1 DEF Indexed
<1>24. max \in Nat /\ n + 1 <= max
  <2>1. n <= a.nMaxBlock
    BY DEF Holding
  <2> QED BY <1>1, <2>1, SizesAssumption
<1> HIDE DEF max
<1>25. /\ b.ppInf = d /\ b.nSize = a.nSize /\ b.nMaxBlock = max /\ b.nCur = a.nCur
       /\ b.entry = a.entry
  BY <1>2
<1>26. b \in Arrays
  BY <1>1, <1>2, <1>7, <1>24 DEF Arrays
<1>27. Holding(b, t, C)
  <2>1. a.nSize = Len(C) /\ a.nCur <= n
    BY DEF Holding
  <2>2. a.nCur <= n + 1
    BY <1>1, <2>1
  <2> QED BY <1>7, <1>19, <1>20, <1>21, <1>24, <1>25, <1>26, <2>1, <2>2 DEF Holding
<1> QED BY <1>6, <1>7, <1>8, <1>9, <1>10, <1>12, <1>13, <1>22, <1>23, <1>25, <1>27

-----------------------------------------------------------------------------
(* Room for an element.                                                     *)

\* The elements of set that are in the same block lie n further.
LEMMA ShiftedFacts ==
  ASSUME NEW en \in [Elems -> Entries \cup {None}], NEW set, NEW n \in Nat,
         \A e \in Elems : e \in set => en[e] \in Entries
  PROVE  /\ Shifted(en, set, n) \in [Elems -> Entries \cup {None}]
         /\ \A e \in Elems : e \notin set => Shifted(en, set, n)[e] = en[e]
         /\ \A e \in Elems, i, j \in Nat :
              e \in set /\ en[e] = [pBlock |-> i, nOffset |-> j] =>
                Shifted(en, set, n)[e] = [pBlock |-> i, nOffset |-> j + n]
<1> DEFINE f == Shifted(en, set, n)
<1>1. /\ DOMAIN f = Elems
      /\ \A e \in Elems : f[e] = IF e \in set THEN [en[e] EXCEPT !.nOffset = @ + n] ELSE en[e]
      /\ f = [e \in Elems |-> f[e]]
  BY DEF Shifted
<1> HIDE DEF f
<1>2. ASSUME NEW e \in Elems PROVE f[e] \in Entries \cup {None}
  <2>1. CASE e \in set
    <3>1. en[e] \in Entries /\ f[e] = [en[e] EXCEPT !.nOffset = @ + n]
      BY <1>1, <2>1
    <3>2. [en[e] EXCEPT !.nOffset = @ + n] \in Entries
      BY <3>1 DEF Entries
    <3> QED BY <3>1, <3>2
  <2>2. CASE e \notin set
    BY <1>1, <2>2
  <2> QED BY <2>1, <2>2
<1>3. ASSUME NEW e \in Elems, NEW i \in Nat, NEW j \in Nat, e \in set,
             en[e] = [pBlock |-> i, nOffset |-> j]
      PROVE  f[e] = [pBlock |-> i, nOffset |-> j + n]
  BY <1>1, <1>3
<1>4. f \in [Elems -> Entries \cup {None}]
  BY <1>1, <1>2
<1> QED BY <1>1, <1>3, <1>4 DEF f

\* The entry of an element that knows where it is.
LEMMA EntryFacts ==
  ASSUME NEW b, NEW s, NEW C, NEW en, Laid(b, s, C), Right(b, en, s, 0),
         NEW k \in 1 .. Len(b), NEW i \in 1 .. Len(b[k].pData)
  PROVE  /\ en[b[k].pData[i]] = [pBlock |-> b[k].id, nOffset |-> i - 1]
         /\ en[b[k].pData[i]] \in Entries /\ b[k].pData[i] \in Elems /\ i - 1 \in Nat
         /\ b[k].id \in Nat
<1>1. s[k] < s[k] + i /\ s[k] \in Nat /\ i \in Int /\ b[k].pData[i] \in Elems
  BY PlaceFacts
<1>2. s[k] + i # 0
  BY <1>1
<1>3. en[b[k].pData[i]] = [pBlock |-> b[k].id, nOffset |-> i - 1]
  BY <1>2 DEF Right
<1>4. b[k].id \in Nat /\ Len(b[k].pData) \in Nat
  BY BlockFacts
<1>5. i - 1 \in Nat
  BY <1>4
<1>6. [pBlock |-> b[k].id, nOffset |-> i - 1] \in Entries
  BY <1>4, <1>5 DEF Entries
<1> QED BY <1>1, <1>3, <1>4, <1>5, <1>6

LEMMA NoOther ==
  ASSUME NEW b, NEW s, NEW C, Laid(b, s, C), Distinct(C, 0)
  PROVE  \A k, l \in 1 .. Len(b) : \A i \in 1 .. Len(b[k].pData), j \in 1 .. Len(b[l].pData) :
           b[k].pData[i] = b[l].pData[j] => k = l /\ i = j
<1>1. ASSUME NEW k \in 1 .. Len(b), NEW i \in 1 .. Len(b[k].pData) PROVE s[k] + i # 0
  <2>1. s[k] < s[k] + i /\ s[k] \in Nat /\ i \in Int
    BY PlaceFacts
  <2> QED BY <2>1
<1>2. ASSUME NEW k \in 1 .. Len(b), NEW i \in 1 .. Len(b[k].pData),
             NEW l \in 1 .. Len(b), NEW j \in 1 .. Len(b[l].pData), b[k].pData[i] = b[l].pData[j]
      PROVE  k = l /\ i = j
  <2>1. s[k] + i # 0 /\ s[l] + j # 0
    BY <1>1
  <2> QED BY <1>2, <2>1, OnePlace
<1> QED BY <1>2

LEMMA InSet ==
  ASSUME NEW S, NEW q \in Seq(S), NEW e
  PROVE  e \in ToSet(q) <=> \E i \in 1 .. Len(q) : q[i] = e
<1>1. DOMAIN q = 1 .. Len(q)
  BY LenProperties
<1> QED BY <1>1 DEF ToSet

\* Two other blocks instead of neighbours.
WithTwo(q, k, P, l, R) == [q EXCEPT ![k] = P, ![l] = R]

HasTwo(q, k, P, l, R, d) ==
  /\ d \in Seq(BlockInfos) /\ Len(d) = Len(q) /\ d[k] = P /\ d[l] = R
  /\ \A j \in 1 .. Len(q) : j # k /\ j # l => d[j] = q[j]

LEMMA TwoBlocks ==
  ASSUME NEW q \in Seq(BlockInfos), NEW k \in 1 .. Len(q), NEW l \in 1 .. Len(q), k # l,
         NEW P \in BlockInfos, NEW R \in BlockInfos
  PROVE  HasTwo(q, k, P, l, R, WithTwo(q, k, P, l, R))
<1> DEFINE d == [q EXCEPT ![k] = P, ![l] = R]
<1>1. Len(q) \in Nat /\ DOMAIN q = 1 .. Len(q) /\ q \in [1 .. Len(q) -> BlockInfos]
  BY DatasFacts
<1>2. d \in [1 .. Len(q) -> BlockInfos]
  BY <1>1
<1>3. d \in Seq(BlockInfos) /\ Len(d) = Len(q)
  BY <1>1, <1>2, FunctionIsSeq
<1> QED BY <1>1, <1>3 DEF HasTwo, WithTwo

\* The block of number cur is full, and the one behind it is not.
RoomAt(a, s, C, cur) ==
  /\ Holding(a, s, C) /\ Right(a.ppInf, a.entry, s, 0)
  /\ cur \in Nat /\ cur + 2 <= Len(a.ppInf) /\ Indexed(a.ppInf, s, cur + 2)
  /\ Len(a.ppInf[cur + 1].pData) = MAXENTRY /\ Len(a.ppInf[cur + 2].pData) < MAXENTRY

\* There is room in the block of number cur, whose indices are right.
RoomMade(a, s, C, cur, b, t) ==
  /\ Holding(b, t, C) /\ Right(b.ppInf, b.entry, t, 0) /\ Indexed(b.ppInf, t, cur + 1)
  /\ Len(b.ppInf) = Len(a.ppInf) /\ Len(b.ppInf[cur + 1].pData) = MAXENTRY - 1
  /\ t[cur + 1] = s[cur + 1] /\ t[cur + 2] = s[cur + 2] - 1
  /\ \A k \in 1 .. Len(a.ppInf) :
       a.ppInf[k].pData # <<>> \/ k = cur + 2 => b.ppInf[k].pData # <<>>

\* The block behind a full one gets its last element.
LEMMA MakeRoomFacts ==
  ASSUME NEW a, NEW s, NEW C, NEW cur, RoomAt(a, s, C, cur)
  PROVE  \E t : RoomMade(a, s, C, cur, MakeRoom(a, cur), t)
<1>0. PICK q, k, l, n, b :
        q = a.ppInf /\ k = cur + 1 /\ l = cur + 2 /\ n = Len(a.ppInf) /\ b = MakeRoom(a, cur)
  OBVIOUS
<1>0a. /\ n = Len(q) /\ Right(q, a.entry, s, 0) /\ l <= n /\ Indexed(q, s, l) /\ k \in Nat /\ l \in Nat
       /\ Len(q[k].pData) = MAXENTRY /\ Len(q[l].pData) < MAXENTRY
       /\ l = k + 1 /\ k >= 1 /\ Ids(q) /\ Fit(q)
  BY <1>0 DEF RoomAt, Holding
<1>0b. PICK t : t = [s EXCEPT ![l] = s[l] - 1]
  OBVIOUS
<1>0c. Holding(a, s, C) /\ cur \in Nat
  BY DEF RoomAt
<1>1. /\ q \in Seq(BlockInfos) /\ a.nSize \in Nat /\ a.nMaxBlock \in Nat /\ a.nCur \in Nat
      /\ a.entry \in [Elems -> Entries \cup {None}]
      /\ n \in Nat /\ Laid(q, s, C) /\ Len(q) \in Nat
      /\ Len(C) \in Nat /\ C \in Seq(Elems)
  BY <1>0, <1>0c, HoldingFacts
<1>1a. a = [ppInf |-> q, nSize |-> a.nSize, nMaxBlock |-> a.nMaxBlock,
            nCur |-> a.nCur, entry |-> a.entry]
  BY <1>0, <1>0c, HoldingFacts
<1>2. k \in 1 .. n /\ l \in 1 .. n /\ k # l /\ k + 1 = l /\ l \in 1 .. Len(q) + 1
      /\ k \in 1 .. Len(q) /\ l \in 1 .. Len(q)
  BY <1>0a, <1>1
<1>3. /\ s[k] \in Nat /\ s[k + 1] \in Nat /\ s[k + 1] = s[k] + MAXENTRY
      /\ q[k] \in BlockInfos /\ q[k].id \in Nat /\ q[k].nStart \in Nat /\ q[k].nEnd \in Int
      /\ q[k].pData \in Seq(Elems) /\ DOMAIN q[k].pData = 1 .. MAXENTRY
      /\ Len(q[k].pData) = MAXENTRY
  BY <1>0a, <1>1, <1>2, BlockFacts
<1>4. /\ s[l] \in Nat /\ s[l + 1] \in Nat /\ s[l + 1] = s[l] + Len(q[l].pData)
      /\ q[l] \in BlockInfos /\ q[l].id \in Nat /\ q[l].nStart \in Nat /\ q[l].nEnd \in Int
      /\ q[l].pData \in Seq(Elems) /\ DOMAIN q[l].pData = 1 .. Len(q[l].pData)
      /\ Len(q[l].pData) \in Nat /\ Len(q[l].pData) < MAXENTRY
  BY <1>0a, <1>1, <1>2, BlockFacts
<1>5. q[k].nEnd = s[l] - 1 /\ q[l].nStart = s[l] /\ q[k].nStart = s[k]
  BY <1>0a, <1>2 DEF Indexed
<1>6. MAXENTRY \in Nat /\ MAXENTRY >= 2
  BY SizesAssumption
<1>6a. PICK e, first, last :
         e = q[k].pData[MAXENTRY] /\ first = Front(q[k].pData) /\ last = <<e>> \o q[l].pData
  OBVIOUS
<1> DEFINE P == [q[k] EXCEPT !.pData = first, !.nEnd = @ - 1]
           R == [q[l] EXCEPT !.pData = last,
                             !.nStart = IF q[l].pData = <<>> THEN @ ELSE @ - 1,
                             !.nEnd = IF q[l].pData = <<>> THEN @ + 1 ELSE @]
           d == WithTwo(q, k, P, l, R)
           en == [Shifted(a.entry, ToSet(q[l].pData), 1) EXCEPT ![e] = [pBlock |-> q[l].id, nOffset |-> 0]]
<1>7. /\ first \in Seq(Elems) /\ Len(first) = MAXENTRY - 1
      /\ \A i \in 1 .. MAXENTRY - 1 : first[i] = q[k].pData[i]
  <2>1. MAXENTRY - 1 \in 0 .. Len(q[k].pData)
    BY <1>3, <1>6
  <2>2. /\ SubSeq(q[k].pData, 1, MAXENTRY - 1) \in Seq(Elems)
        /\ Len(SubSeq(q[k].pData, 1, MAXENTRY - 1)) = MAXENTRY - 1
        /\ \A i \in 1 .. MAXENTRY - 1 : SubSeq(q[k].pData, 1, MAXENTRY - 1)[i] = q[k].pData[i]
    BY <1>3, <2>1, FrontOfSeq
  <2>3. first = SubSeq(q[k].pData, 1, MAXENTRY - 1)
    BY <1>3, <1>6a DEF Front
  <2> QED BY <2>2, <2>3
<1>8. e \in Elems
  BY <1>3, <1>6, <1>6a
<1>9. /\ last \in Seq(Elems) /\ Len(last) = Len(q[l].pData) + 1 /\ last[1] = e
      /\ \A i \in 2 .. Len(q[l].pData) + 1 : last[i] = q[l].pData[i - 1]
  <2>1. <<e>> \in Seq(Elems) /\ Len(<<e>>) = 1 /\ <<e>>[1] = e
    BY <1>8
  <2>2. /\ last \in Seq(Elems) /\ Len(last) = 1 + Len(q[l].pData)
        /\ \A i \in 1 .. 1 + Len(q[l].pData) :
             last[i] = IF i <= 1 THEN <<e>>[i] ELSE q[l].pData[i - 1]
    BY <1>4, <1>6a, <2>1, ConcatProperties
  <2>3. last[1] = e
    BY <1>4, <2>1, <2>2
  <2>4. ASSUME NEW i \in 2 .. Len(q[l].pData) + 1 PROVE last[i] = q[l].pData[i - 1]
    <3>1. i \in 1 .. 1 + Len(q[l].pData) /\ ~(i <= 1)
      BY <1>4
    <3> QED BY <2>2, <3>1
  <2> QED BY <1>4, <2>2, <2>3, <2>4
<1>10. /\ P \in BlockInfos /\ P.id = q[k].id /\ P.nStart = s[k] /\ P.nEnd = s[l] - 2 /\ P.pData = first
  <2>1. q[k] \in BlockInfos /\ first \in Seq(Elems) /\ q[k].nEnd - 1 \in Int
    BY <1>3, <1>7
  <2>2. P \in BlockInfos /\ P.id = q[k].id /\ P.nStart = q[k].nStart /\ P.nEnd = q[k].nEnd - 1
        /\ P.pData = first
    BY <2>1 DEF BlockInfos
  <2>3. q[k].nEnd - 1 = s[l] - 2
    BY <1>4, <1>5
  <2> QED BY <1>5, <2>2, <2>3
<1>11. /\ R \in BlockInfos /\ R.id = q[l].id /\ R.pData = last
  <2>1. q[l].pData # <<>> => s[l] - 1 \in Nat
    BY <1>2, <1>3, <1>6
  <2>2. (IF q[l].pData = <<>> THEN q[l].nStart ELSE q[l].nStart - 1) \in Nat
    BY <1>4, <1>5, <2>1
  <2>3. (IF q[l].pData = <<>> THEN q[l].nEnd + 1 ELSE q[l].nEnd) \in Int
    BY <1>4
  <2> QED BY <1>4, <1>9, <2>2, <2>3 DEF BlockInfos
<1>12. b = [ppInf |-> d, nSize |-> a.nSize, nMaxBlock |-> a.nMaxBlock, nCur |-> a.nCur, entry |-> en]
  <2>1. b = [a EXCEPT !.ppInf = d, !.entry = en]
    BY <1>0, <1>6a DEF MakeRoom, WithTwo
  <2> HIDE DEF d, en
  <2> QED BY <1>1a, <2>1
<1> HIDE DEF P, R, en
<1>13. /\ d \in Seq(BlockInfos) /\ Len(d) = Len(q) /\ d[k] = P /\ d[l] = R
       /\ \A j \in 1 .. Len(q) : j # k /\ j # l => d[j] = q[j]
  <2>1. HasTwo(q, k, P, l, R, d)
    BY <1>1, <1>2, <1>10, <1>11, TwoBlocks
  <2> QED BY <2>1 DEF HasTwo
<1> HIDE DEF d
<1>14. s \in [1 .. Len(q) + 1 -> Nat] /\ s[1] = 0 /\ Len(C) = s[Len(q) + 1]
  BY <1>0a, <1>1, LaidFacts
<1>14b. ASSUME NEW j \in 1 .. Len(q)
         PROVE  /\ s[j + 1] = s[j] + Len(q[j].pData)
                /\ \A i \in 1 .. Len(q[j].pData) : C[s[j] + i] = q[j].pData[i]
  <2>1. ASSUME NEW i \in 1 .. Len(q[j].pData) PROVE C[s[j] + i] = q[j].pData[i]
    BY <1>1, PlaceFacts
  <2>2. s[j + 1] = s[j] + Len(q[j].pData)
    BY <1>1, BlockFacts
  <2> QED BY <2>1, <2>2
<1>14a. \A j \in 1 .. Len(q) : /\ s[j + 1] = s[j] + Len(q[j].pData)
                                /\ \A i \in 1 .. Len(q[j].pData) : C[s[j] + i] = q[j].pData[i]
  BY <1>14b
<1>14c. \A j \in 1 .. Len(q) : \A i \in 1 .. Len(q[j].pData) :
          /\ a.entry[q[j].pData[i]] = [pBlock |-> q[j].id, nOffset |-> i - 1]
          /\ a.entry[q[j].pData[i]] \in Entries /\ q[j].pData[i] \in Elems /\ i - 1 \in Nat
  <2>1. ASSUME NEW j \in 1 .. Len(q), NEW i \in 1 .. Len(q[j].pData)
        PROVE  /\ a.entry[q[j].pData[i]] = [pBlock |-> q[j].id, nOffset |-> i - 1]
               /\ a.entry[q[j].pData[i]] \in Entries /\ q[j].pData[i] \in Elems /\ i - 1 \in Nat
    BY SMTT(30), <1>0a, <1>1, EntryFacts
  <2> QED BY <2>1
<1>15. s[l] - 1 \in Nat
  BY <1>2, <1>3, <1>6
<1>16. /\ t \in [1 .. Len(q) + 1 -> Nat] /\ t[l] = s[l] - 1
       /\ \A j \in 1 .. Len(q) + 1 : j # l => t[j] = s[j]
  BY <1>0a, <1>0b, <1>1, <1>2, <1>14, <1>15
<1>17. t[k] = s[k] /\ t[l + 1] = s[l + 1]
  BY <1>1, <1>2, <1>16
<1>18. Laid(d, t, C)
  <2>1. ASSUME NEW j \in 1 .. Len(q)
        PROVE  /\ t[j + 1] = t[j] + Len(d[j].pData)
               /\ \A i \in 1 .. Len(d[j].pData) : C[t[j] + i] = d[j].pData[i]
    <3>1. CASE j = k
      <4>1. t[j + 1] = t[j] + Len(d[j].pData)
        <5>1. t[k] = s[k] /\ t[k + 1] = s[k + 1] - 1 /\ s[k + 1] = s[k] + MAXENTRY /\ s[k] \in Nat
          BY <1>2, <1>3, <1>16, <1>17
        <5>2. Len(d[k].pData) = MAXENTRY - 1
          BY <1>7, <1>10, <1>13
        <5> QED BY <1>6, <3>1, <5>1, <5>2
      <4>2. ASSUME NEW i \in 1 .. MAXENTRY - 1 PROVE C[t[k] + i] = first[i]
        <5>1. i \in 1 .. Len(q[k].pData)
          BY <1>3, <1>6
        <5>2. C[s[k] + i] = q[k].pData[i]
          BY <1>2, <5>1, <1>14a
        <5>3. t[k] = s[k] /\ first[i] = q[k].pData[i]
          BY <1>7, <1>17
        <5> QED BY <5>2, <5>3
      <4>3. d[j].pData = first /\ Len(first) = MAXENTRY - 1
        BY <1>7, <1>10, <1>13, <3>1
      <4> QED BY <3>1, <4>1, <4>2, <4>3
    <3>2. CASE j = l
      <4>1. t[j + 1] = t[j] + Len(d[j].pData)
        <5>1. t[l] = s[l] - 1 /\ t[l + 1] = s[l + 1] /\ s[l + 1] = s[l] + Len(q[l].pData)
              /\ s[l] \in Nat /\ Len(q[l].pData) \in Nat
          BY <1>4, <1>16, <1>17
        <5>2. Len(d[l].pData) = Len(q[l].pData) + 1
          BY <1>9, <1>11, <1>13
        <5> QED BY <3>2, <5>1, <5>2
      <4>2. ASSUME NEW i \in 1 .. Len(q[l].pData) + 1 PROVE C[t[l] + i] = last[i]
        <5>1. CASE i = 1
          <6>1. MAXENTRY \in 1 .. Len(q[k].pData)
            BY <1>3, <1>6
          <6>2. C[s[k] + MAXENTRY] = e
            BY <1>2, <1>6a, <6>1, <1>14a
          <6>3. t[l] + i = s[k] + MAXENTRY
            BY <1>2, <1>3, <1>6, <1>16, <5>1
          <6> QED BY <1>9, <5>1, <6>2, <6>3
        <5>2. CASE i # 1
          <6>1. PICK j1 \in 1 .. Len(q[l].pData) : j1 = i - 1
            BY SMTT(30), <1>4, <5>2
          <6>2. C[s[l] + j1] = q[l].pData[j1]
            BY <1>2, <1>14a
          <6>3. t[l] + i = s[l] + j1
            <7>1. t[l] = s[l] - 1 /\ s[l] \in Nat
              BY <1>4, <1>16
            <7>2. j1 = i - 1 /\ i \in Int
              BY <1>4, <6>1
            <7> QED BY <7>1, <7>2
          <6>4. last[i] = q[l].pData[j1]
            BY <1>4, <1>9, <5>2, <6>1
          <6> QED BY <6>2, <6>3, <6>4
        <5> QED BY <5>1, <5>2
      <4> QED BY <1>9, <1>11, <1>13, <3>2, <4>1, <4>2
    <3>3. CASE j # k /\ j # l
      <4>1. /\ s[j + 1] = s[j] + Len(q[j].pData)
            /\ \A i \in 1 .. Len(q[j].pData) : C[s[j] + i] = q[j].pData[i]
        BY <1>14a
      <4>2. j + 1 # l /\ j \in 1 .. Len(q) + 1 /\ j + 1 \in 1 .. Len(q) + 1
        BY <1>1, <1>2, <3>3
      <4>3. t[j] = s[j] /\ t[j + 1] = s[j + 1] /\ d[j] = q[j]
        BY <1>13, <1>16, <3>3, <4>2
      <4> QED BY <4>1, <4>3
    <3> QED BY <3>1, <3>2, <3>3
  <2>2. 1 # l /\ 1 \in 1 .. Len(q) + 1 /\ Len(q) + 1 # l /\ Len(q) + 1 \in 1 .. Len(q) + 1
    BY <1>1, <1>2
  <2>3. t[1] = 0 /\ Len(C) = t[Len(q) + 1]
    BY <1>14, <1>16, <2>2
  <2> QED BY <1>1, <1>13, <1>16, <2>1, <2>3, LaidIf
<1>19. ASSUME NEW j \in 1 .. Len(q) PROVE d[j].id = q[j].id
  BY <1>10, <1>11, <1>13
<1>20. Ids(d)
  <2>1. \A i, j \in 1 .. Len(q) : q[i].id = q[j].id => i = j
    BY <1>0a DEF Ids
  <2> QED BY <1>0a, <1>13, <1>19, <2>1 DEF Ids
<1>21. Fit(d)
  <2>1. \A j \in 1 .. Len(q) : Len(q[j].pData) <= MAXENTRY
    BY <1>0a DEF Fit
  <2>2. ASSUME NEW j \in 1 .. Len(q) PROVE Len(d[j].pData) <= MAXENTRY
    <3>1. CASE j = k
      BY <1>6, <1>7, <1>10, <1>13, <3>1
    <3>2. CASE j = l
      BY SMTT(30), <1>4, <1>6, <1>9, <1>11, <1>13, <3>2
    <3>3. CASE j # k /\ j # l
      BY <1>13, <2>1, <3>3
    <3> QED BY <3>1, <3>2, <3>3
  <2> QED BY <1>13, <2>2 DEF Fit
<1>22. Distinct(C, 0) /\ Ids(q)
  BY <1>0a, <1>1, RightDistinct
<1>22a. \A j, m \in 1 .. Len(q) : \A i \in 1 .. Len(q[j].pData), r \in 1 .. Len(q[m].pData) :
          q[j].pData[i] = q[m].pData[r] => j = m /\ i = r
  BY <1>1, <1>22, NoOther
\* The elements of the block behind, and no others, are shifted.
<1> DEFINE set == ToSet(q[l].pData)
<1>22b. \A z : z \in set <=> \E m \in 1 .. Len(q[l].pData) : q[l].pData[m] = z
  <2>1. ASSUME NEW z PROVE z \in set <=> \E m \in 1 .. Len(q[l].pData) : q[l].pData[m] = z
    BY <1>4, InSet
  <2> QED BY <2>1
<1> HIDE DEF set
<1>23. ASSUME NEW j \in 1 .. Len(q), NEW i \in 1 .. Len(q[j].pData)
       PROVE  q[j].pData[i] \in set <=> j = l
  <2>1. q[j].pData[i] \in set <=> \E m \in 1 .. Len(q[l].pData) : q[l].pData[m] = q[j].pData[i]
    BY <1>22b
  <2>2. ASSUME NEW m \in 1 .. Len(q[l].pData), q[l].pData[m] = q[j].pData[i] PROVE j = l
    BY <1>2, <1>22a, <2>2
  <2> QED BY <2>1, <2>2
<1>24. ASSUME NEW j \in 1 .. Len(q), NEW i \in 1 .. Len(q[j].pData)
       PROVE  q[j].pData[i] = e <=> j = k /\ i = MAXENTRY
  <2>1. MAXENTRY \in 1 .. Len(q[k].pData)
    BY <1>3, <1>6
  <2>2. ASSUME q[j].pData[i] = q[k].pData[MAXENTRY] PROVE j = k /\ i = MAXENTRY
    BY <1>2, <1>22a, <2>1, <2>2
  <2> QED BY <1>6a, <2>2
<1>25. \A x \in Elems : x \in set => a.entry[x] \in Entries
  <2>1. ASSUME NEW x \in Elems, x \in set PROVE a.entry[x] \in Entries
    <3>1. PICK m \in 1 .. Len(q[l].pData) : q[l].pData[m] = x
      BY <1>22b, <2>1
    <3> QED BY <1>2, <1>14c, <3>1
  <2> QED BY <2>1
<1> DEFINE sh == Shifted(a.entry, set, 1)
<1>26. /\ sh \in [Elems -> Entries \cup {None}]
       /\ \A x \in Elems : x \notin set => sh[x] = a.entry[x]
       /\ \A x \in Elems, i, j \in Nat :
            x \in set /\ a.entry[x] = [pBlock |-> i, nOffset |-> j] =>
              sh[x] = [pBlock |-> i, nOffset |-> j + 1]
  BY <1>1, <1>25, ShiftedFacts
<1> HIDE DEF sh
<1>27. en = [sh EXCEPT ![e] = [pBlock |-> q[l].id, nOffset |-> 0]]
  BY DEF en, sh, set
<1>28. /\ en \in [Elems -> Entries \cup {None}] /\ en[e] = [pBlock |-> q[l].id, nOffset |-> 0]
       /\ \A x \in Elems : x # e => en[x] = sh[x]
  <2>1. [pBlock |-> q[l].id, nOffset |-> 0] \in Entries
    BY <1>4 DEF Entries
  <2> QED BY <1>8, <1>26, <1>27, <2>1
<1>29. Right(d, en, t, 0)
  <2>1. ASSUME NEW j \in 1 .. Len(q), NEW i \in 1 .. Len(d[j].pData)
        PROVE  en[d[j].pData[i]] = [pBlock |-> d[j].id, nOffset |-> i - 1]
    <3>1. CASE j = k
      <4>1. i \in 1 .. MAXENTRY - 1 /\ i \in 1 .. Len(q[k].pData) /\ i # MAXENTRY
        BY <1>3, <1>6, <1>7, <1>10, <1>13, <3>1
      <4>2. d[j].pData[i] = q[k].pData[i] /\ d[j].id = q[k].id
        BY <1>7, <1>10, <1>13, <3>1, <4>1
      <4>3. /\ a.entry[q[k].pData[i]] = [pBlock |-> q[k].id, nOffset |-> i - 1]
            /\ q[k].pData[i] \in Elems
        BY <1>2, <1>14c, <4>1
      <4>4. q[k].pData[i] # e /\ q[k].pData[i] \notin set
        BY <1>2, <1>23, <1>24, <4>1
      <4>5. en[q[k].pData[i]] = a.entry[q[k].pData[i]]
        BY <1>26, <1>28, <4>3, <4>4
      <4> QED BY <4>2, <4>3, <4>5
    <3>2. CASE j = l
      <4>1. d[j].pData = last /\ d[j].id = q[l].id /\ Len(last) = Len(q[l].pData) + 1
        BY <1>9, <1>11, <1>13, <3>2
      <4>2. CASE i = 1
        BY <1>9, <1>28, <4>1, <4>2
      <4>3. CASE i # 1
        <5>1. PICK m \in 1 .. Len(q[l].pData) : m = i - 1
          BY <1>4, <4>1, <4>3
        <5>2. last[i] = q[l].pData[m]
          BY <1>4, <1>9, <4>1, <4>3, <5>1
        <5>3. /\ a.entry[q[l].pData[m]] = [pBlock |-> q[l].id, nOffset |-> m - 1]
              /\ q[l].pData[m] \in Elems /\ m - 1 \in Nat
          BY <1>2, <1>14c
        <5>4. q[l].pData[m] # e /\ q[l].pData[m] \in set
          BY <1>2, <1>23, <1>24
        <5>5. sh[q[l].pData[m]] = [pBlock |-> q[l].id, nOffset |-> (m - 1) + 1]
          BY <1>4, <1>26, <5>3, <5>4
        <5>6. (m - 1) + 1 = i - 1
          BY <1>4, <5>1
        <5> QED BY <1>28, <4>1, <5>2, <5>3, <5>4, <5>5, <5>6
      <4> QED BY <4>2, <4>3
    <3>3. CASE j # k /\ j # l
      <4>1. d[j] = q[j]
        BY <1>13, <3>3
      <4>2. /\ a.entry[q[j].pData[i]] = [pBlock |-> q[j].id, nOffset |-> i - 1]
            /\ q[j].pData[i] \in Elems
        BY <1>14c, <4>1
      <4>3. q[j].pData[i] # e /\ q[j].pData[i] \notin set
        BY <1>23, <1>24, <3>3, <4>1
      <4>4. en[q[j].pData[i]] = a.entry[q[j].pData[i]]
        BY <1>26, <1>28, <4>2, <4>3
      <4> QED BY <4>1, <4>2, <4>4
    <3> QED BY <3>1, <3>2, <3>3
  <2> QED BY <1>13, <2>1 DEF Right
<1>30. Indexed(d, t, k)
  <2>1. ASSUME NEW j \in 1 .. k PROVE d[j].nStart = t[j] /\ d[j].nEnd = t[j + 1] - 1
    <3>1. CASE j = k
      BY SMTT(30), <1>2, <1>3, <1>10, <1>13, <1>16, <1>17, <3>1
    <3>2. CASE j # k
      <4>0. j \in Int /\ 1 <= j /\ j < k /\ l = k + 1 /\ k \in Int /\ k <= Len(q) /\ Len(q) \in Int
            /\ l \in Int
        BY <1>0a, <1>1, <1>2, <3>2
      <4>1. /\ j # l /\ j + 1 # l /\ j \in 1 .. Len(q) /\ j \in 1 .. Len(q) + 1 /\ j + 1 \in 1 .. Len(q) + 1
            /\ j \in 1 .. l
        BY <4>0
      <4>2. t[j] = s[j] /\ t[j + 1] = s[j + 1] /\ d[j] = q[j]
        BY <1>13, <1>16, <3>2, <4>1
      <4> QED BY <1>0a, <4>1, <4>2 DEF Indexed
    <3> QED BY <3>1, <3>2
  <2> QED BY <2>1 DEF Indexed
<1>31. b.ppInf = d /\ b.nSize = a.nSize /\ b.nMaxBlock = a.nMaxBlock /\ b.nCur = a.nCur /\ b.entry = en
  BY <1>12
<1>32. b \in Arrays
  BY <1>1, <1>12, <1>13, <1>28 DEF Arrays
<1>33. Holding(b, t, C)
  <2>1. a.nSize = Len(C) /\ a.nCur <= Len(q) /\ Len(q) <= a.nMaxBlock
    BY <1>0, <1>0c DEF Holding
  <2> QED BY <1>13, <1>18, <1>20, <1>21, <1>31, <1>32, <2>1 DEF Holding
<1>34. ASSUME NEW j \in 1 .. Len(q), q[j].pData # <<>> \/ j = l PROVE d[j].pData # <<>>
  <2>1. CASE j = k
    <3>1. Len(d[j].pData) # 0
      BY <1>6, <1>7, <1>10, <1>13, <2>1
    <3> QED BY <3>1
  <2>2. CASE j = l
    <3>1. Len(d[j].pData) # 0
      BY <1>4, <1>9, <1>11, <1>13, <2>2
    <3> QED BY <3>1
  <2>3. CASE j # k /\ j # l
    BY <1>13, <1>34, <2>3
  <2> QED BY <2>1, <2>2, <2>3
<1>35. Len(d[k].pData) = MAXENTRY - 1
  BY <1>7, <1>10, <1>13
<1>36. RoomMade(a, s, C, cur, b, t)
  BY <1>0, <1>13, <1>16, <1>17, <1>29, <1>30, <1>31, <1>33, <1>34, <1>35 DEF RoomMade
<1> QED BY <1>0, <1>36

-----------------------------------------------------------------------------
(* An element more in a block.                                              *)

\* Another block instead of one.
WithOne(q, k, P) == [q EXCEPT ![k] = P]

HasOne(q, k, P, d) ==
  /\ d \in Seq(BlockInfos) /\ Len(d) = Len(q) /\ d[k] = P
  /\ \A j \in 1 .. Len(q) : j # k => d[j] = q[j]

LEMMA OneBlock ==
  ASSUME NEW q \in Seq(BlockInfos), NEW k \in 1 .. Len(q), NEW P \in BlockInfos
  PROVE  HasOne(q, k, P, WithOne(q, k, P))
<1> DEFINE d == [q EXCEPT ![k] = P]
<1>1. Len(q) \in Nat /\ DOMAIN q = 1 .. Len(q) /\ q \in [1 .. Len(q) -> BlockInfos]
  BY DatasFacts
<1>2. d \in [1 .. Len(q) -> BlockInfos]
  BY <1>1
<1>3. d \in Seq(BlockInfos) /\ Len(d) = Len(q)
  BY <1>1, <1>2, FunctionIsSeq
<1> QED BY <1>1, <1>3 DEF HasOne, WithOne

\* The addresses stay when the new block has the address of the old one.
LEMMA OneKeepsIds ==
  ASSUME NEW q \in Seq(BlockInfos), NEW k \in 1 .. Len(q), NEW P, NEW d, HasOne(q, k, P, d),
         P.id = q[k].id, Ids(q)
  PROVE  Ids(d) /\ \A j \in 1 .. Len(q) : d[j].id = q[j].id
<1>1. Len(d) = Len(q)
  BY DEF HasOne
<1>2. ASSUME NEW j \in 1 .. Len(q) PROVE d[j].id = q[j].id
  BY DEF HasOne
<1>3. ASSUME NEW i \in 1 .. Len(q), NEW j \in 1 .. Len(q), d[i].id = d[j].id PROVE i = j
  <2>1. q[i].id = q[j].id
    BY <1>2, <1>3
  <2> QED BY <2>1 DEF Ids
<1> QED BY <1>1, <1>2, <1>3 DEF Ids

\* Where the blocks start then.
Moved(s, n, k) == [j \in 1 .. n + 1 |-> IF j <= k THEN s[j] ELSE s[j] + 1]

\* What e is put into, at the offset off of the block k.
PutInto(q, s, C, k, off, e, d) ==
  /\ Laid(q, s, C) /\ k \in 1 .. Len(q) /\ off \in 0 .. Len(q[k].pData) /\ e \in Elems
  /\ HasOne(q, k, d[k], d) /\ d[k].pData = InsertAt(q[k].pData, off + 1, e) /\ d[k].id = q[k].id

LEMMA MovedFacts ==
  ASSUME NEW q, NEW s, NEW C, Laid(q, s, C), NEW k \in 1 .. Len(q)
  PROVE  /\ Moved(s, Len(q), k) \in [1 .. Len(q) + 1 -> Nat]
         /\ \A j \in 1 .. Len(q) + 1 : s[j] \in Nat
         /\ \A j \in 1 .. k : Moved(s, Len(q), k)[j] = s[j]
         /\ \A j \in k + 1 .. Len(q) + 1 : Moved(s, Len(q), k)[j] = s[j] + 1
<1>1. Len(q) \in Nat /\ s \in [1 .. Len(q) + 1 -> Nat]
  BY LaidFacts
<1> DEFINE t == Moved(s, Len(q), k)
<1>2. t = [j \in 1 .. Len(q) + 1 |-> IF j <= k THEN s[j] ELSE s[j] + 1]
  BY DEF Moved
<1> HIDE DEF t
<1>3. \A j \in 1 .. Len(q) + 1 : t[j] = IF j <= k THEN s[j] ELSE s[j] + 1
  BY <1>2
<1>4. ASSUME NEW j \in 1 .. Len(q) + 1 PROVE (IF j <= k THEN s[j] ELSE s[j] + 1) \in Nat /\ s[j] \in Nat
  BY <1>1
<1>5. t \in [1 .. Len(q) + 1 -> Nat]
  BY <1>2, <1>4
<1>6. ASSUME NEW j \in 1 .. k PROVE t[j] = s[j]
  <2>1. j \in 1 .. Len(q) + 1 /\ j <= k
    BY <1>1
  <2> QED BY <1>3, <2>1
<1>7. ASSUME NEW j \in k + 1 .. Len(q) + 1 PROVE t[j] = s[j] + 1
  <2>1. j \in 1 .. Len(q) + 1 /\ ~(j <= k)
    BY <1>1
  <2> QED BY <1>3, <2>1
<1> QED BY <1>4, <1>5, <1>6, <1>7 DEF t

\* The elements of the block with e, and those of the others.
LEMMA PutElements ==
  ASSUME NEW q, NEW s, NEW C, NEW k, NEW off, NEW e, NEW d, PutInto(q, s, C, k, off, e, d)
  PROVE  /\ d \in Seq(BlockInfos) /\ Len(d) = Len(q)
         /\ Len(d[k].pData) = Len(q[k].pData) + 1
         /\ \A i \in 1 .. off : d[k].pData[i] = q[k].pData[i]
         /\ d[k].pData[off + 1] = e
         /\ \A i \in off + 2 .. Len(q[k].pData) + 1 : d[k].pData[i] = q[k].pData[i - 1]
         /\ \A j \in 1 .. Len(q) : j # k => d[j] = q[j]
<1>1. Laid(q, s, C) /\ k \in 1 .. Len(q) /\ off \in 0 .. Len(q[k].pData) /\ e \in Elems
  BY DEF PutInto
<1>2. q[k].pData \in Seq(Elems) /\ Len(q[k].pData) \in Nat
  BY <1>1, BlockFacts
<1>3. off + 1 \in 1 .. Len(q[k].pData) + 1
  BY <1>1, <1>2
<1>4. PICK p, r : p = q[k].pData /\ r = InsertAt(p, off + 1, e)
  OBVIOUS
<1>5. HasInserted(p, off + 1, e, r)
  BY <1>1, <1>2, <1>3, <1>4, InsertAtFacts
<1>6. r = d[k].pData
  BY <1>4 DEF PutInto
<1>7. /\ Len(r) = Len(p) + 1
      /\ \A i \in 1 .. Len(p) + 1 : r[i] = IF i < off + 1 THEN p[i] ELSE IF i = off + 1 THEN e ELSE p[i - 1]
  BY <1>5 DEF HasInserted
<1>8. Len(p) \in Nat /\ off \in 0 .. Len(p)
  BY <1>1, <1>2, <1>4
<1>9. ASSUME NEW i \in 1 .. off PROVE r[i] = p[i]
  <2>1. i \in 1 .. Len(p) + 1 /\ i < off + 1
    BY <1>8
  <2> QED BY <1>7, <2>1
<1>10. r[off + 1] = e
  <2>1. off + 1 \in 1 .. Len(p) + 1 /\ ~(off + 1 < off + 1)
    BY <1>8
  <2> QED BY <1>7, <2>1
<1>11. ASSUME NEW i \in off + 2 .. Len(p) + 1 PROVE r[i] = p[i - 1]
  <2>1. i \in 1 .. Len(p) + 1 /\ ~(i < off + 1) /\ i # off + 1
    BY <1>8
  <2> QED BY <1>7, <2>1
<1>12. /\ d \in Seq(BlockInfos) /\ Len(d) = Len(q)
       /\ \A j \in 1 .. Len(q) : j # k => d[j] = q[j]
  BY DEF PutInto, HasOne
<1> QED BY <1>4, <1>6, <1>7, <1>9, <1>10, <1>11, <1>12

\* D is C with e at the position pos.
WholeWith(C, pos, e, D) ==
  /\ D \in Seq(Elems) /\ Len(D) = Len(C) + 1 /\ Len(C) \in Nat
  /\ \A p \in 1 .. pos : D[p] = C[p]
  /\ D[pos + 1] = e
  /\ \A p \in pos + 1 .. Len(C) : D[p + 1] = C[p]

LEMMA InsertedWhole ==
  ASSUME NEW C \in Seq(Elems), NEW pos \in 0 .. Len(C), NEW e \in Elems
  PROVE  WholeWith(C, pos, e, InsertAt(C, pos + 1, e))
<1>1. Len(C) \in Nat
  BY LenProperties
<1>2. pos + 1 \in 1 .. Len(C) + 1
  BY <1>1
<1>0. PICK D : D = InsertAt(C, pos + 1, e)
  OBVIOUS
<1>3. D \in Seq(Elems) /\ HasInserted(C, pos + 1, e, D)
  BY <1>0, <1>2, InsertAtFacts
<1>4. /\ Len(D) = Len(C) + 1
      /\ \A i \in 1 .. Len(C) + 1 : D[i] = IF i < pos + 1 THEN C[i] ELSE IF i = pos + 1 THEN e ELSE C[i - 1]
  BY <1>3 DEF HasInserted
<1>5. ASSUME NEW p \in 1 .. pos PROVE D[p] = C[p]
  <2>1. p \in 1 .. Len(C) + 1 /\ p < pos + 1
    BY <1>1
  <2> QED BY <1>4, <2>1
<1>6. D[pos + 1] = e
  <2>1. ~(pos + 1 < pos + 1)
    BY <1>1
  <2> QED BY <1>2, <1>4, <2>1
<1>7. ASSUME NEW p \in pos + 1 .. Len(C) PROVE D[p + 1] = C[p]
  <2>1. p + 1 \in 1 .. Len(C) + 1 /\ ~(p + 1 < pos + 1) /\ p + 1 # pos + 1 /\ (p + 1) - 1 = p
    BY <1>1
  <2>2. D[p + 1] = C[(p + 1) - 1]
    BY <1>4, <2>1
  <2> QED BY <2>1, <2>2
<1> QED BY <1>0, <1>1, <1>3, <1>4, <1>5, <1>6, <1>7 DEF WholeWith

PutWhole(q, s, C, k, pos, e, d, D) ==
  /\ pos \in Nat /\ s[k] <= pos /\ PutInto(q, s, C, k, pos - s[k], e, d)
  /\ WholeWith(C, pos, e, D)

LEMMA PutLaid ==
  ASSUME NEW q, NEW s, NEW C, NEW k, NEW pos, NEW e, NEW d, NEW D,
         PutWhole(q, s, C, k, pos, e, d, D)
  PROVE  Laid(d, Moved(s, Len(q), k), D)
<1>0. PICK off, t : off = pos - s[k] /\ t = Moved(s, Len(q), k)
  OBVIOUS
<1>0a. PutInto(q, s, C, k, off, e, d)
  BY <1>0 DEF PutWhole
<1>1. Laid(q, s, C) /\ k \in 1 .. Len(q) /\ off \in 0 .. Len(q[k].pData) /\ e \in Elems
  BY <1>0a DEF PutInto
<1>2. /\ s[k] \in Nat /\ s[k + 1] \in Nat /\ s[k + 1] = s[k] + Len(q[k].pData)
      /\ Len(q[k].pData) \in Nat /\ s[k + 1] <= Len(C) /\ Len(C) \in Nat
  BY <1>1, BlockFacts
<1>2a. pos \in Nat /\ s[k] <= pos
  BY DEF PutWhole
<1>3a. /\ pos = s[k] + off /\ off \in Nat /\ off <= Len(q[k].pData) /\ pos \in Nat
       /\ Len(q[k].pData) \in Nat /\ s[k] \in Nat
  <2>1. pos = s[k] + off
    BY <1>0, <1>2, <1>2a
  <2>2. off \in Nat /\ off <= Len(q[k].pData)
    BY <1>1, <1>2
  <2> QED BY <1>2, <1>2a, <2>1, <2>2
<1>4. /\ t \in [1 .. Len(q) + 1 -> Nat] /\ \A j \in 1 .. Len(q) + 1 : s[j] \in Nat
      /\ \A j \in 1 .. k : t[j] = s[j]
      /\ \A j \in k + 1 .. Len(q) + 1 : t[j] = s[j] + 1
  BY <1>0, <1>1, MovedFacts
<1>5. /\ Len(q) \in Nat /\ s[1] = 0 /\ Len(C) = s[Len(q) + 1] /\ C \in Seq(Elems)
  BY <1>1, LaidFacts
<1>6. pos \in 0 .. Len(C) /\ pos <= s[k + 1]
  BY <1>2, <1>3a
<1>7. /\ D \in Seq(Elems) /\ Len(D) = Len(C) + 1
      /\ \A p \in 1 .. pos : D[p] = C[p]
      /\ D[pos + 1] = e
      /\ \A p \in pos + 1 .. Len(C) : D[p + 1] = C[p]
  BY DEF PutWhole, WholeWith
<1>8. /\ d \in Seq(BlockInfos) /\ Len(d) = Len(q)
      /\ Len(d[k].pData) = Len(q[k].pData) + 1
      /\ \A i \in 1 .. off : d[k].pData[i] = q[k].pData[i]
      /\ d[k].pData[off + 1] = e
      /\ \A i \in off + 2 .. Len(q[k].pData) + 1 : d[k].pData[i] = q[k].pData[i - 1]
      /\ \A j \in 1 .. Len(q) : j # k => d[j] = q[j]
  BY <1>0a, PutElements
<1>9. \A j \in 1 .. Len(q) : /\ s[j + 1] = s[j] + Len(q[j].pData) /\ Len(q[j].pData) \in Nat
                             /\ s[j + 1] <= Len(C)
  <2>1. ASSUME NEW j \in 1 .. Len(q)
        PROVE  /\ s[j + 1] = s[j] + Len(q[j].pData) /\ Len(q[j].pData) \in Nat
               /\ s[j + 1] <= Len(C)
    BY <1>1, BlockFacts
  <2> QED BY <2>1
<1>10. \A j \in 1 .. Len(q) : \A i \in 1 .. Len(q[j].pData) : C[s[j] + i] = q[j].pData[i]
  <2>1. ASSUME NEW j \in 1 .. Len(q), NEW i \in 1 .. Len(q[j].pData) PROVE C[s[j] + i] = q[j].pData[i]
    BY <1>1, PlaceFacts
  <2> QED BY <2>1
<1>11. ASSUME NEW j \in 1 .. Len(q) PROVE t[j + 1] = t[j] + Len(d[j].pData)
  <2>1. s[j + 1] = s[j] + Len(q[j].pData) /\ Len(q[j].pData) \in Nat
    BY <1>9
  <2>2. s[j] \in Nat
    BY <1>4, <1>5
  <2>3. CASE j < k
    <3>1. j \in 1 .. k /\ j + 1 \in 1 .. k /\ d[j] = q[j]
      BY <1>1, <1>5, <1>8, <2>3
    <3> QED BY <1>4, <2>1, <3>1
  <2>4. CASE j = k
    <3>1. j \in 1 .. k /\ j + 1 \in k + 1 .. Len(q) + 1
      BY <1>1, <1>5, <2>4
    <3>2. t[j] = s[j] /\ t[j + 1] = s[j + 1] + 1 /\ Len(d[j].pData) = Len(q[j].pData) + 1
      BY <1>4, <1>8, <2>4, <3>1
    <3> QED BY <2>1, <2>2, <3>2
  <2>5. CASE j > k
    <3>1. j \in k + 1 .. Len(q) + 1 /\ j + 1 \in k + 1 .. Len(q) + 1 /\ j # k
      BY <1>1, <1>5, <2>5
    <3>2. t[j] = s[j] + 1 /\ t[j + 1] = s[j + 1] + 1 /\ d[j] = q[j]
      BY <1>4, <1>8, <3>1
    <3> QED BY <2>1, <2>2, <3>2
  <2> QED BY <1>1, <1>5, <2>3, <2>4, <2>5
<1>5a. Len(q) \in Nat
  BY <1>5
<1>12a. \A j \in 1 .. Len(q) : Len(d[j].pData) \in Nat
  BY <1>2, <1>8, <1>9
<1>12. ASSUME NEW j \in 1 .. Len(q), NEW i \in 1 .. Len(d[j].pData) PROVE D[t[j] + i] = d[j].pData[i]
  <2>0a. j \in 1 .. Len(q) + 1 /\ j \in Nat /\ Len(q) \in Nat
    BY <1>5a
  <2>0. /\ j \in 1 .. Len(q) + 1 /\ j \in Nat /\ Len(q) \in Nat /\ t[j] \in Nat
        /\ Len(C) \in Nat
    BY <1>2, <1>4, <2>0a
  <2>1. s[j] \in Nat /\ Len(d[j].pData) \in Nat /\ i \in Nat /\ i >= 1
    BY <1>4, <1>12a, <2>0
  <2>2. CASE j < k
    <3>1. j \in 1 .. k /\ j + 1 \in 1 .. k /\ d[j] = q[j] /\ j + 1 \in 1 .. Len(q) + 1
          /\ k \in j + 1 .. Len(q) + 1
      BY <1>1, <1>5, <1>8, <2>2
    <3>2. t[j] = s[j] /\ C[s[j] + i] = q[j].pData[i] /\ i \in 1 .. Len(q[j].pData)
      BY <1>4, <1>10, <3>1
    <3>3. s[j + 1] <= s[k]
      BY <1>1, <3>1, BlocksRise
    <3>4. s[j + 1] = s[j] + Len(q[j].pData) /\ Len(q[j].pData) \in Nat
      BY <1>9
    <3>5. s[j] + i \in 1 .. pos
      <4>1. i <= Len(q[j].pData) /\ Len(q[j].pData) \in Nat /\ s[k] \in Nat
        BY <1>2, <2>0, <2>1, <3>2, <3>4
      <4>2. s[j] + Len(q[j].pData) <= s[k] /\ s[k] <= pos /\ pos \in Nat
        BY <1>2a, <1>3a, <3>3, <3>4
      <4> QED BY SMTT(30), <2>0, <2>1, <4>1, <4>2
    <3> QED BY <1>7, <3>1, <3>2, <3>5
  <2>3. CASE j = k
    <3>1. t[j] = s[k]
      BY <1>1, <1>4, <2>3
    <3>2. i \in 1 .. Len(q[k].pData) + 1
      BY <1>8, <2>3
    <3>3. CASE i <= off
      <4>1. i \in 1 .. off /\ i \in 1 .. Len(q[k].pData)
        BY <1>1, <1>2, <3>2, <3>3
      <4>2. s[k] + i \in 1 .. pos
        BY SMTT(30), <1>2, <1>3a, <2>1, <4>1
      <4>3. C[s[k] + i] = q[k].pData[i] /\ d[k].pData[i] = q[k].pData[i]
        BY <1>1, <1>8, <1>10, <4>1
      <4> QED BY <1>7, <2>3, <3>1, <4>2, <4>3
    <3>4. CASE i = off + 1
      <4>1. pos = s[k] + off /\ s[k] \in Nat /\ off \in Nat
        BY <1>3a
      <4>2. s[k] + i = pos + 1
        BY <3>4, <4>1
      <4>3. t[j] + i = pos + 1
        BY <3>1, <4>2
      <4> QED BY <1>7, <1>8, <2>3, <3>4, <4>3
    <3>5. CASE i > off + 1
      <4>1. PICK m \in 1 .. Len(q[k].pData) : m = i - 1
        BY <1>1, <1>2, <3>2, <3>5
      <4>2. i \in off + 2 .. Len(q[k].pData) + 1
        BY <1>1, <1>2, <3>2, <3>5
      <4>3. d[k].pData[i] = q[k].pData[m] /\ C[s[k] + m] = q[k].pData[m]
        BY <1>1, <1>8, <1>10, <4>1, <4>2
      <4>4. s[k] + m \in pos + 1 .. Len(C) /\ (s[k] + m) + 1 = t[j] + i
        <5>1. PICK x, n, c \in Nat : x = s[k] /\ n = Len(q[k].pData) /\ c = Len(C)
          BY <1>2
        <5>2. pos = x + off /\ off \in Nat /\ x + n <= c /\ i \in Int /\ m \in 1 .. n /\ m = i - 1
          BY <1>2, <1>3a, <2>1, <4>1, <5>1
        <5>3. x + m \in pos + 1 .. c /\ (x + m) + 1 = x + i
          BY <3>5, <5>2
        <5> QED BY <3>1, <5>1, <5>3
      <4>5. D[(s[k] + m) + 1] = C[s[k] + m]
        BY <1>7, <4>4
      <4> QED BY <2>3, <4>3, <4>4, <4>5
    <3> QED BY <1>1, <1>2, <3>2, <3>3, <3>4, <3>5
  <2>4. CASE j > k
    <3>1. j \in k + 1 .. Len(q) + 1 /\ j # k /\ k + 1 \in 1 .. Len(q) + 1
          /\ d[j] = q[j]
      BY <1>1, <1>5, <1>8, <2>4
    <3>2. t[j] = s[j] + 1 /\ C[s[j] + i] = q[j].pData[i] /\ i \in 1 .. Len(q[j].pData)
      BY <1>4, <1>10, <3>1
    <3>3. s[k + 1] <= s[j]
      BY <1>1, <3>1, BlocksRise
    <3>4. s[j + 1] = s[j] + Len(q[j].pData) /\ Len(q[j].pData) \in Nat /\ s[j + 1] <= Len(C)
      BY <1>9
    <3>5. s[j] + i \in pos + 1 .. Len(C) /\ (s[j] + i) + 1 = t[j] + i
      <4>1. i <= Len(q[j].pData) /\ Len(q[j].pData) \in Nat
        BY <2>0, <2>1, <3>2, <3>4
      <4>2. s[j] + Len(q[j].pData) <= Len(C) /\ Len(C) \in Nat /\ pos \in Nat /\ pos <= s[j]
        BY <1>2, <1>3a, <1>6, <2>1, <3>3, <3>4
      <4>3. s[j] + i \in pos + 1 .. Len(C) /\ (s[j] + i) + 1 = (s[j] + 1) + i
        BY SMTT(30), <2>1, <4>1, <4>2
      <4> QED BY <3>2, <4>3
    <3>6. D[(s[j] + i) + 1] = C[s[j] + i]
      BY <1>7, <3>5
    <3> QED BY <3>1, <3>2, <3>5, <3>6
  <2> QED BY <1>1, <1>5, <2>2, <2>3, <2>4
<1>13. t[1] = 0 /\ Len(D) = t[Len(d) + 1]
  <2>1. 1 \in 1 .. k /\ Len(q) + 1 \in k + 1 .. Len(q) + 1
    BY <1>1, <1>5
  <2> QED BY <1>4, <1>5, <1>7, <1>8, <2>1
<1>14. Laid(d, t, D)
  BY <1>4, <1>7, <1>8, <1>11, <1>12, <1>13, LaidIf
<1> QED BY <1>0, <1>14

\* Where an element is when another one was put at the position pos.
Behind(p, pos) == IF p <= pos THEN p ELSE p + 1

\* Each element of the new blocks is e, or was there before.
PutFrom(q, s, k, pos, d, j, i, m) ==
  /\ m \in 1 .. Len(q[j].pData) /\ d[j].pData[i] = q[j].pData[m]
  /\ Moved(s, Len(q), k)[j] + i = Behind(s[j] + m, pos)
  /\ (j = k /\ s[k] + m > pos) \/ i = m
  /\ j = k /\ s[k] + m > pos => i = m + 1

LEMMA PutPlaces ==
  ASSUME NEW q, NEW s, NEW C, NEW k, NEW pos, NEW e, NEW d, NEW D,
         PutWhole(q, s, C, k, pos, e, d, D),
         NEW j \in 1 .. Len(q), NEW i \in 1 .. Len(d[j].pData)
  PROVE  \/ j = k /\ i = pos - s[k] + 1 /\ d[j].pData[i] = e
         \/ \E m : PutFrom(q, s, k, pos, d, j, i, m)
<1>0. PICK off, t : off = pos - s[k] /\ t = Moved(s, Len(q), k)
  OBVIOUS
<1>1. PutInto(q, s, C, k, off, e, d)
  BY <1>0 DEF PutWhole
<1>2. Laid(q, s, C) /\ k \in 1 .. Len(q) /\ off \in 0 .. Len(q[k].pData) /\ e \in Elems
  BY <1>1 DEF PutInto
<1>3. Len(q) \in Nat
  BY <1>2, LaidFacts
<1>4. /\ \A l \in 1 .. k : t[l] = s[l]
      /\ \A l \in k + 1 .. Len(q) + 1 : t[l] = s[l] + 1
  BY <1>0, <1>2, MovedFacts
<1>5. /\ Len(d[k].pData) = Len(q[k].pData) + 1
      /\ \A l \in 1 .. off : d[k].pData[l] = q[k].pData[l]
      /\ d[k].pData[off + 1] = e
      /\ \A l \in off + 2 .. Len(q[k].pData) + 1 : d[k].pData[l] = q[k].pData[l - 1]
      /\ \A l \in 1 .. Len(q) : l # k => d[l] = q[l]
  BY SMTT(30), <1>1, PutElements
<1>6. PICK x \in Nat, y \in Nat, n \in Nat, xk \in Nat, yk \in Nat, nk \in Nat :
        /\ x = s[j] /\ y = s[j + 1] /\ n = Len(q[j].pData) /\ y = x + n
        /\ xk = s[k] /\ yk = s[k + 1] /\ nk = Len(q[k].pData) /\ yk = xk + nk
  <2>1. /\ s[j] \in Nat /\ s[j + 1] \in Nat /\ Len(q[j].pData) \in Nat
        /\ s[j + 1] = s[j] + Len(q[j].pData)
    BY <1>2, BlockFacts
  <2>2. /\ s[k] \in Nat /\ s[k + 1] \in Nat /\ Len(q[k].pData) \in Nat
        /\ s[k + 1] = s[k] + Len(q[k].pData)
    BY <1>2, BlockFacts
  <2> QED BY <2>1, <2>2
<1>7. pos \in Nat /\ xk <= pos /\ off = pos - xk /\ off \in 0 .. nk
  BY <1>0, <1>2, <1>6 DEF PutWhole
<1>8. CASE j < k
  <2>1. j \in 1 .. k /\ d[j] = q[j] /\ j + 1 \in 1 .. Len(q) + 1 /\ k \in j + 1 .. Len(q) + 1
    BY <1>2, <1>3, <1>5, <1>8
  <2>2. t[j] = x /\ y <= xk /\ i \in 1 .. n
    BY <1>2, <1>4, <1>6, <2>1, BlocksRise
  <2>3. x + i <= pos
    <3>1. y = x + n /\ y <= xk /\ xk <= pos /\ pos \in Nat /\ i \in 1 .. n
      BY <1>6, <1>7, <2>2
    <3> QED BY <3>1
  <2>4. x + i = Behind(x + i, pos)
    BY <2>3 DEF Behind
  <2>5. j # k
    BY <1>2, <1>3, <1>8
  <2>6. PutFrom(q, s, k, pos, d, j, i, i)
    BY <1>0, <1>6, <2>1, <2>2, <2>4, <2>5 DEF PutFrom
  <2> QED BY <2>6
<1>9. CASE j = k
  <2>1. t[j] = xk /\ i \in 1 .. nk + 1 /\ x = xk
    <3>1. k \in 1 .. k
      BY <1>2, <1>3
    <3>2. t[k] = s[k]
      BY <1>4, <3>1
    <3> QED BY <1>5, <1>6, <1>9, <3>2
  <2>2. CASE i <= off
    <3>1. i \in 1 .. off /\ xk + i <= pos /\ i \in 1 .. nk /\ ~(xk + i > pos)
      BY <1>7, <2>1, <2>2
    <3>2. xk + i = Behind(xk + i, pos)
      BY <3>1 DEF Behind
    <3>3. d[j].pData[i] = q[j].pData[i]
      BY <1>5, <1>9, <3>1
    <3>4. PutFrom(q, s, k, pos, d, j, i, i)
      BY <1>0, <1>6, <1>9, <2>1, <3>1, <3>2, <3>3 DEF PutFrom
    <3> QED BY <3>4
  <2>3. CASE i = off + 1
    <3>1. d[j].pData[i] = e
      BY <1>5, <1>9, <2>3
    <3>2. i = pos - xk + 1
      BY <1>7, <2>3
    <3> QED BY <1>6, <1>9, <3>1, <3>2
  <2>4. CASE i > off + 1
    <3>1. PICK m \in 1 .. nk : m = i - 1
      BY <1>7, <2>1, <2>4
    <3>2. i \in off + 2 .. nk + 1 /\ xk + m > pos /\ i = m + 1 /\ xk + i = (xk + m) + 1
      BY <1>7, <2>1, <2>4, <3>1
    <3>3. xk + i = Behind(xk + m, pos)
      BY <1>7, <3>1, <3>2 DEF Behind
    <3>4. d[j].pData[i] = q[j].pData[m]
      BY <1>5, <1>6, <1>9, <3>1, <3>2
    <3>5. PutFrom(q, s, k, pos, d, j, i, m)
      BY <1>0, <1>6, <1>9, <2>1, <3>1, <3>2, <3>3, <3>4 DEF PutFrom
    <3> QED BY <3>5
  <2> QED BY <1>7, <2>1, <2>2, <2>3, <2>4
<1>10. CASE j > k
  <2>1. j \in k + 1 .. Len(q) + 1 /\ d[j] = q[j] /\ k + 1 \in 1 .. Len(q) + 1 /\ j # k
    BY <1>2, <1>3, <1>5, <1>10
  <2>2. t[j] = x + 1 /\ yk <= x /\ i \in 1 .. n
    BY <1>2, <1>4, <1>6, <2>1, BlocksRise
  <2>3. ~(x + i <= pos) /\ (x + 1) + i = (x + i) + 1
    <3>1. yk = xk + nk /\ yk <= x /\ off \in 0 .. nk /\ off = pos - xk /\ pos \in Nat /\ i \in 1 .. n
      BY <1>6, <1>7, <2>2
    <3>2. pos <= yk
      BY <3>1
    <3>3. i \in Int /\ i >= 1 /\ pos <= x
      BY <3>1, <3>2
    <3> QED BY <3>1, <3>3
  <2>4. (x + 1) + i = Behind(x + i, pos)
    BY <2>3 DEF Behind
  <2>5. PutFrom(q, s, k, pos, d, j, i, i)
    BY <1>0, <1>6, <2>1, <2>2, <2>4 DEF PutFrom
  <2> QED BY <2>5
<1> QED BY <1>2, <1>3, <1>8, <1>9, <1>10

\* The elements of a sequence from an index on.
LEMMA InPart ==
  ASSUME NEW S, NEW q \in Seq(S), NEW i \in 1 .. Len(q) + 1, NEW e
  PROVE  e \in ToSet(SubSeq(q, i, Len(q))) <=> \E m \in i .. Len(q) : q[m] = e
<1> DEFINE r == SubSeq(q, i, Len(q))
<1>1. Len(q) \in Nat
  BY LenProperties
<1>2. Len(q) \in i - 1 .. Len(q)
  BY <1>1
<1>3. r \in Seq(S) /\ Len(r) = Len(q) - i + 1 /\ \A k \in 1 .. Len(q) - i + 1 : r[k] = q[i + k - 1]
  BY <1>2, PartOfSeq
<1> HIDE DEF r
<1>4. e \in ToSet(r) <=> \E k \in 1 .. Len(r) : r[k] = e
  BY <1>3, InSet
<1>5. ASSUME NEW k \in 1 .. Len(r), r[k] = e PROVE \E m \in i .. Len(q) : q[m] = e
  <2>1. i + k - 1 \in i .. Len(q) /\ k \in 1 .. Len(q) - i + 1
    BY <1>1, <1>3
  <2> QED BY <1>3, <1>5, <2>1
<1>6. ASSUME NEW m \in i .. Len(q), q[m] = e PROVE \E k \in 1 .. Len(r) : r[k] = e
  <2>1. m - i + 1 \in 1 .. Len(q) - i + 1 /\ i + (m - i + 1) - 1 = m
    BY <1>1
  <2>2. r[m - i + 1] = q[i + (m - i + 1) - 1]
    BY <1>3, <2>1
  <2> QED BY <1>3, <1>6, <2>1, <2>2
<1> QED BY <1>4, <1>5, <1>6 DEF r

\* Where e is now, if it was there before it was put at the position pos.
OldPlace(C, e, pos, x) == \A p \in 1 .. Len(C) : C[p] = e => x = Behind(p, pos)

\* The elements behind e in its block lie further; e is where it was put.
PutEntries(q, en, k, off, e) ==
  [Shifted(en, ToSet(SubSeq(q[k].pData, off + 1, Len(q[k].pData))), 1)
     EXCEPT ![e] = [pBlock |-> q[k].id, nOffset |-> off]]

LEMMA PutRight ==
  ASSUME NEW q, NEW s, NEW C, NEW k, NEW pos, NEW e, NEW d, NEW D,
         PutWhole(q, s, C, k, pos, e, d, D), Ids(q),
         NEW en \in [Elems -> Entries \cup {None}], Right(q, en, s, 0),
         NEW x, OldPlace(C, e, pos, x)
  PROVE  /\ PutEntries(q, en, k, pos - s[k], e) \in [Elems -> Entries \cup {None}]
         /\ Right(d, PutEntries(q, en, k, pos - s[k], e), Moved(s, Len(q), k), x)
<1>0. PICK off, t, f, set, sh :
        /\ off = pos - s[k] /\ t = Moved(s, Len(q), k) /\ f = PutEntries(q, en, k, off, e)
        /\ set = ToSet(SubSeq(q[k].pData, off + 1, Len(q[k].pData))) /\ sh = Shifted(en, set, 1)
  OBVIOUS
<1>1. PutInto(q, s, C, k, off, e, d)
  BY <1>0 DEF PutWhole
<1>2. Laid(q, s, C) /\ k \in 1 .. Len(q) /\ off \in 0 .. Len(q[k].pData) /\ e \in Elems
  BY <1>1 DEF PutInto
<1>3. /\ q[k].pData \in Seq(Elems) /\ Len(q[k].pData) \in Nat /\ q[k].id \in Nat /\ s[k] \in Nat
      /\ off \in Nat /\ off + 1 \in 1 .. Len(q[k].pData) + 1
  <2>1. /\ q[k].pData \in Seq(Elems) /\ Len(q[k].pData) \in Nat /\ q[k].id \in Nat /\ s[k] \in Nat
    BY <1>2, BlockFacts
  <2> QED BY <1>2, <2>1
<1>4. pos \in Nat /\ pos = s[k] + off
  BY <1>0, <1>3 DEF PutWhole
<1>5. \A y : y \in set <=> \E m \in off + 1 .. Len(q[k].pData) : q[k].pData[m] = y
  <2>1. ASSUME NEW y PROVE y \in set <=> \E m \in off + 1 .. Len(q[k].pData) : q[k].pData[m] = y
    BY <1>0, <1>3, InPart
  <2> QED BY <2>1
<1>6. Distinct(C, 0)
  BY <1>2, RightDistinct
<1>7. \A j, l \in 1 .. Len(q) : \A i \in 1 .. Len(q[j].pData), m \in 1 .. Len(q[l].pData) :
        q[j].pData[i] = q[l].pData[m] => j = l /\ i = m
  BY <1>2, <1>6, NoOther
<1>8. \A j \in 1 .. Len(q) : \A i \in 1 .. Len(q[j].pData) :
        /\ en[q[j].pData[i]] = [pBlock |-> q[j].id, nOffset |-> i - 1]
        /\ en[q[j].pData[i]] \in Entries /\ q[j].pData[i] \in Elems /\ i - 1 \in Nat /\ q[j].id \in Nat
  <2>1. ASSUME NEW j \in 1 .. Len(q), NEW i \in 1 .. Len(q[j].pData)
        PROVE  /\ en[q[j].pData[i]] = [pBlock |-> q[j].id, nOffset |-> i - 1]
               /\ en[q[j].pData[i]] \in Entries /\ q[j].pData[i] \in Elems /\ i - 1 \in Nat /\ q[j].id \in Nat
    BY <1>2, EntryFacts
  <2> QED BY <2>1
<1>9. \A j \in 1 .. Len(q) : \A m \in 1 .. Len(q[j].pData) :
        q[j].pData[m] \in set <=> j = k /\ m > off
  <2>1. ASSUME NEW j \in 1 .. Len(q), NEW m \in 1 .. Len(q[j].pData), j = k, m > off
        PROVE  q[j].pData[m] \in set
    <3>1. m \in off + 1 .. Len(q[k].pData)
      BY <1>3, <2>1
    <3> QED BY <1>5, <2>1, <3>1
  <2>2. ASSUME NEW j \in 1 .. Len(q), NEW m \in 1 .. Len(q[j].pData), q[j].pData[m] \in set
        PROVE  j = k /\ m > off
    <3>1. PICK l \in off + 1 .. Len(q[k].pData) : q[k].pData[l] = q[j].pData[m]
      BY <1>5, <2>2
    <3>2. l \in 1 .. Len(q[k].pData) /\ l > off
      BY <1>3
    <3>3. j = k /\ m = l
      BY <1>2, <1>7, <3>1, <3>2
    <3> QED BY <3>2, <3>3
  <2> QED BY <2>1, <2>2
<1>10. \A y \in Elems : y \in set => en[y] \in Entries
  <2>1. ASSUME NEW y \in Elems, y \in set PROVE en[y] \in Entries
    <3>1. PICK m \in off + 1 .. Len(q[k].pData) : q[k].pData[m] = y
      BY <1>5, <2>1
    <3>2. m \in 1 .. Len(q[k].pData)
      BY <1>3
    <3> QED BY <1>2, <1>8, <3>1, <3>2
  <2> QED BY <2>1
<1>11. /\ sh \in [Elems -> Entries \cup {None}]
       /\ \A y \in Elems : y \notin set => sh[y] = en[y]
       /\ \A y \in Elems, i, j \in Nat :
            y \in set /\ en[y] = [pBlock |-> i, nOffset |-> j] =>
              sh[y] = [pBlock |-> i, nOffset |-> j + 1]
  BY <1>0, <1>10, ShiftedFacts
<1>12. f = [sh EXCEPT ![e] = [pBlock |-> q[k].id, nOffset |-> off]]
  BY <1>0 DEF PutEntries
<1>13. /\ f \in [Elems -> Entries \cup {None}]
       /\ f[e] = [pBlock |-> q[k].id, nOffset |-> off]
       /\ \A y \in Elems : y # e => f[y] = sh[y]
  <2>1. [pBlock |-> q[k].id, nOffset |-> off] \in Entries
    BY <1>3 DEF Entries
  <2> QED BY <1>2, <1>11, <1>12, <2>1
<1>14. \A j \in 1 .. Len(q) : d[j].id = q[j].id
  <2>1. HasOne(q, k, d[k], d) /\ d[k].id = q[k].id
    BY <1>1 DEF PutInto
  <2>2. q \in Seq(BlockInfos)
    BY <1>2 DEF Laid
  <2> QED BY <1>2, <2>1, <2>2, OneKeepsIds
<1>15. Len(d) = Len(q)
  BY <1>1 DEF PutInto, HasOne
<1>16. ASSUME NEW j \in 1 .. Len(q), NEW i \in 1 .. Len(d[j].pData), t[j] + i # x
       PROVE  f[d[j].pData[i]] = [pBlock |-> d[j].id, nOffset |-> i - 1]
  <2>1. CASE j = k /\ i = pos - s[k] + 1 /\ d[j].pData[i] = e
    <3>1. i - 1 = off
      BY <1>3, <1>4, <2>1
    <3> QED BY <1>13, <1>14, <2>1, <3>1
  <2>2. CASE \E m : PutFrom(q, s, k, pos, d, j, i, m)
    <3>1. PICK m : PutFrom(q, s, k, pos, d, j, i, m)
      BY <2>2
    <3>2. /\ m \in 1 .. Len(q[j].pData) /\ d[j].pData[i] = q[j].pData[m]
          /\ t[j] + i = Behind(s[j] + m, pos)
          /\ (j = k /\ s[k] + m > pos) \/ i = m
          /\ j = k /\ s[k] + m > pos => i = m + 1
      BY <1>0, <3>1 DEF PutFrom
    <3>3. s[j] + m \in 1 .. Len(C) /\ C[s[j] + m] = q[j].pData[m]
      BY <1>2, <3>2, PlaceFacts
    <3>4. PICK y : y = d[j].pData[i] /\ y = q[j].pData[m] /\ y \in Elems
      BY <1>8, <3>2
    <3>5. y # e
      <4>1. ASSUME y = e PROVE FALSE
        <5>1. C[s[j] + m] = e
          BY <3>3, <3>4, <4>1
        <5>2. x = Behind(s[j] + m, pos)
          BY <3>3, <5>1 DEF OldPlace
        <5> QED BY <1>16, <3>2, <5>2
      <4> QED BY <4>1
    <3>6. PICK mm \in Nat : mm = m - 1 /\ en[y] = [pBlock |-> q[j].id, nOffset |-> mm] /\ q[j].id \in Nat
      BY <1>8, <3>2, <3>4
    <3>7. Len(q[j].pData) \in Nat
      BY <1>2, BlockFacts
    <3>8. m \in Int /\ mm + 1 = m
      BY <3>2, <3>6, <3>7
    <3>9. CASE j = k /\ m > off
      <4>1. s[k] + m > pos
        <5>1. PICK z \in Nat : z = s[k]
          BY <1>3
        <5>2. pos = z + off
          BY <1>4, <5>1
        <5>3. z + m > pos
          BY <1>3, <3>8, <3>9, <5>2
        <5> QED BY <5>1, <5>3
      <4>2. i = m + 1
        BY <3>2, <3>9, <4>1
      <4>3. y \in set
        BY <1>9, <3>2, <3>4, <3>9
      <4>4. sh[y] = [pBlock |-> q[j].id, nOffset |-> mm + 1]
        BY <1>11, <3>4, <3>6, <4>3
      <4>5. i - 1 = mm + 1
        BY <3>8, <4>2
      <4> QED BY <1>13, <1>14, <3>4, <3>5, <4>4, <4>5
    <3>10. CASE ~(j = k /\ m > off)
      <4>1. ~(j = k /\ s[k] + m > pos)
        <5>1. PICK z \in Nat : z = s[k]
          BY <1>3
        <5>2. pos = z + off
          BY <1>4, <5>1
        <5>3. m <= off => ~(z + m > pos)
          BY <1>3, <3>8, <5>2
        <5>4. j = k => m <= off
          BY <1>3, <3>8, <3>10
        <5> QED BY <5>1, <5>3, <5>4
      <4>2. i = m
        BY <3>2, <4>1
      <4>3. y \notin set
        BY <1>9, <3>2, <3>4, <3>10
      <4>4. sh[y] = en[y]
        BY <1>11, <3>4, <4>3
      <4> QED BY <1>13, <1>14, <3>4, <3>5, <3>6, <4>2, <4>4
    <3> QED BY <3>9, <3>10
  <2>3. \/ j = k /\ i = pos - s[k] + 1 /\ d[j].pData[i] = e
        \/ \E m : PutFrom(q, s, k, pos, d, j, i, m)
    BY PutPlaces
  <2> QED BY <2>1, <2>2, <2>3
<1>17. Right(d, f, t, x)
  BY <1>15, <1>16 DEF Right
<1> QED BY <1>0, <1>13, <1>17

\* There is room in the block of number cur for e at the position pos.
PutAt(a, s, C, e, pos, cur, x) ==
  /\ Holding(a, s, C) /\ Right(a.ppInf, a.entry, s, 0)
  /\ cur \in Nat /\ cur + 1 <= Len(a.ppInf) /\ Indexed(a.ppInf, s, cur + 1)
  /\ Len(a.ppInf[cur + 1].pData) < MAXENTRY
  /\ \A k \in 1 .. Len(a.ppInf) : k # cur + 1 => a.ppInf[k].pData # <<>>
  /\ e \in Elems /\ pos \in Nat /\ s[cur + 1] <= pos /\ pos <= s[cur + 2]
  /\ OldPlace(C, e, pos, x)

LEMMA PutElementFacts ==
  ASSUME NEW a, NEW s, NEW C, NEW e, NEW pos, NEW cur, NEW x, PutAt(a, s, C, e, pos, cur, x),
         NEW D, WholeWith(C, pos, e, D)
  PROVE  Sound(PutElement(a, e, pos, cur), D, x)
<1>0. PICK q, k, P, d, t, b :
        /\ q = a.ppInf /\ k = cur + 1 /\ t = Moved(s, Len(q), k) /\ b = PutElement(a, e, pos, cur)
        /\ P = [q[k] EXCEPT !.pData = InsertAt(@, pos - q[k].nStart + 1, e), !.nEnd = @ + 1]
        /\ d = WithOne(q, k, P)
  OBVIOUS
<1>1. /\ Holding(a, s, C) /\ Right(q, a.entry, s, 0) /\ Indexed(q, s, k) /\ Len(q[k].pData) < MAXENTRY
      /\ e \in Elems /\ pos \in Nat /\ OldPlace(C, e, pos, x)
      /\ \A j \in 1 .. Len(q) : j # k => q[j].pData # <<>>
  BY <1>0 DEF PutAt
<1>2. /\ q \in Seq(BlockInfos) /\ a.nSize \in Nat /\ a.nMaxBlock \in Nat /\ a.nCur \in Nat
      /\ a.entry \in [Elems -> Entries \cup {None}]
      /\ a = [ppInf |-> q, nSize |-> a.nSize, nMaxBlock |-> a.nMaxBlock,
              nCur |-> a.nCur, entry |-> a.entry]
      /\ Len(q) \in Nat /\ Laid(q, s, C) /\ Len(C) \in Nat /\ C \in Seq(Elems)
  BY <1>0, <1>1, HoldingFacts
<1>3. /\ Ids(q) /\ Fit(q) /\ a.nSize = Len(C) /\ Len(q) <= a.nMaxBlock
  BY <1>0, <1>1 DEF Holding
<1>4. cur \in Nat /\ k \in 1 .. Len(q) /\ cur + 2 = k + 1 /\ cur \in 0 .. Len(q) - 1 /\ k \in Nat
  BY <1>0, <1>2 DEF PutAt
<1>5. s[k] <= pos /\ pos <= s[k + 1]
  BY <1>0, <1>4 DEF PutAt
<1>6. /\ s[k] \in Nat /\ s[k + 1] \in Nat /\ s[k + 1] = s[k] + Len(q[k].pData)
      /\ q[k] \in BlockInfos /\ q[k].id \in Nat /\ q[k].nStart \in Nat /\ q[k].nEnd \in Int
      /\ q[k].pData \in Seq(Elems) /\ Len(q[k].pData) \in Nat
  BY <1>2, <1>4, BlockFacts
<1>7. q[k].nStart = s[k] /\ q[k].nEnd = s[k + 1] - 1
  BY <1>1, <1>4 DEF Indexed
<1>8. PICK off : off = pos - s[k] /\ off \in 0 .. Len(q[k].pData)
  <2>1. PICK z \in Nat, n \in Nat : z = s[k] /\ n = Len(q[k].pData) /\ z <= pos /\ pos <= z + n
    BY <1>5, <1>6
  <2>2. pos - z \in 0 .. n
    BY <1>1, <2>1
  <2> QED BY <2>1, <2>2
<1>9. PICK r : r = InsertAt(q[k].pData, off + 1, e) /\ r \in Seq(Elems) /\ Len(r) = Len(q[k].pData) + 1
  <2>1. off + 1 \in 1 .. Len(q[k].pData) + 1
    BY <1>6, <1>8
  <2>2. /\ InsertAt(q[k].pData, off + 1, e) \in Seq(Elems)
        /\ HasInserted(q[k].pData, off + 1, e, InsertAt(q[k].pData, off + 1, e))
    BY <1>1, <1>6, <2>1, InsertAtFacts
  <2> QED BY <2>2 DEF HasInserted
<1>10. P = [q[k] EXCEPT !.pData = r, !.nEnd = @ + 1]
  BY <1>0, <1>7, <1>8, <1>9
<1>11. /\ P \in BlockInfos /\ P.pData = r /\ P.id = q[k].id /\ P.nStart = s[k] /\ P.nEnd = s[k + 1]
  <2>1. P \in BlockInfos /\ P.pData = r /\ P.id = q[k].id /\ P.nStart = q[k].nStart
        /\ P.nEnd = q[k].nEnd + 1
    <3>1. q[k] \in BlockInfos /\ r \in Seq(Elems) /\ q[k].nEnd + 1 \in Int
      BY <1>6, <1>9
    <3> QED BY <1>10, <3>1 DEF BlockInfos
  <2>2. q[k].nEnd + 1 = s[k + 1]
    <3>1. PICK z \in Nat : z = s[k + 1]
      BY <1>6
    <3> QED BY <1>7, <3>1
  <2> QED BY <1>7, <2>1, <2>2
<1>12. HasOne(q, k, P, d)
  BY <1>0, <1>2, <1>4, <1>11, OneBlock
<1>13. d[k] = P /\ d \in Seq(BlockInfos) /\ Len(d) = Len(q) /\ \A j \in 1 .. Len(q) : j # k => d[j] = q[j]
  BY <1>12 DEF HasOne
<1>14. PutInto(q, s, C, k, off, e, d)
  BY <1>1, <1>2, <1>4, <1>8, <1>9, <1>11, <1>12, <1>13 DEF PutInto
<1>15. PutWhole(q, s, C, k, pos, e, d, D)
  BY <1>1, <1>5, <1>8, <1>14 DEF PutWhole
<1>16. Laid(d, t, D)
  BY <1>0, <1>15, PutLaid
<1>17. PICK f : f = PutEntries(q, a.entry, k, off, e)
  OBVIOUS
<1>18. f \in [Elems -> Entries \cup {None}] /\ Right(d, f, t, x)
  BY <1>0, <1>1, <1>2, <1>3, <1>8, <1>15, <1>17, PutRight
<1>19. Ids(d)
  BY <1>2, <1>3, <1>4, <1>11, <1>12, OneKeepsIds
<1>20. Fit(d)
  <2>1. ASSUME NEW j \in 1 .. Len(q) PROVE Len(d[j].pData) <= MAXENTRY
    <3>1. CASE j = k
      <4>1. PICK n \in Nat : n = Len(q[k].pData) /\ n < MAXENTRY /\ Len(r) = n + 1
        BY <1>1, <1>6, <1>9
      <4>2. MAXENTRY \in Nat
        BY SizesAssumption
      <4>3. n + 1 <= MAXENTRY
        BY <4>1, <4>2
      <4> QED BY <1>11, <1>13, <3>1, <4>1, <4>3
    <3>2. CASE j # k
      BY <1>3, <1>13, <3>2 DEF Fit
    <3> QED BY <3>1, <3>2
  <2> QED BY <1>13, <2>1 DEF Fit
<1>21. Filled(d)
  <2>1. ASSUME NEW j \in 1 .. Len(q) PROVE d[j].pData # <<>>
    <3>1. CASE j = k
      <4>1. Len(r) # 0
        BY <1>6, <1>9
      <4>2. r # <<>>
        BY <4>1
      <4> QED BY <1>11, <1>13, <3>1, <4>2
    <3>2. CASE j # k
      BY <1>1, <1>13, <3>2
    <3> QED BY <3>1, <3>2
  <2> QED BY <1>13, <2>1 DEF Filled
<1>22. Indexed(d, t, cur + 1)
  <2>1. /\ \A j \in 1 .. k : t[j] = s[j]
        /\ \A j \in k + 1 .. Len(q) + 1 : t[j] = s[j] + 1
    <3>1. t = Moved(s, Len(q), k) /\ Laid(q, s, C) /\ k \in 1 .. Len(q)
      BY <1>0, <1>2, <1>4
    <3> QED BY <3>1, MovedFacts
  <2>2. ASSUME NEW j \in 1 .. k PROVE d[j].nStart = t[j] /\ d[j].nEnd = t[j + 1] - 1
    <3>1. CASE j = k
      <4>1. k \in 1 .. k /\ k + 1 \in k + 1 .. Len(q) + 1
        BY <1>2, <1>4
      <4>2. t[k] = s[k] /\ t[k + 1] = s[k + 1] + 1
        BY <2>1, <4>1
      <4>3. PICK z \in Nat : z = s[k + 1]
        BY <1>6
      <4>4. d[k].nStart = t[k] /\ d[k].nEnd = z /\ t[k + 1] = z + 1
        BY <1>11, <1>13, <4>2, <4>3
      <4>5. d[k].nEnd = t[k + 1] - 1
        BY <4>4
      <4> QED BY <3>1, <4>4, <4>5
    <3>2. CASE j # k
      <4>1. j + 1 \in 1 .. k /\ j \in 1 .. Len(q)
        BY <1>2, <1>4, <3>2
      <4>2. t[j] = s[j] /\ t[j + 1] = s[j + 1] /\ d[j] = q[j]
        BY <1>13, <2>1, <3>2, <4>1
      <4> QED BY <1>1, <4>2 DEF Indexed
    <3> QED BY <3>1, <3>2
  <2> QED BY <1>0, <2>2 DEF Indexed
<1>23. PICK u : u = UpdIndex(d, cur)
  OBVIOUS
<1>24. u \in Seq(BlockInfos) /\ SameBlocks(d, u) /\ Indexed(u, t, Len(d))
  <2>1. cur \in 0 .. Len(d) - 1
    BY <1>4, <1>13
  <2> QED BY <1>16, <1>22, <1>23, <2>1, UpdIndexFacts
<1>25. Laid(u, t, D) /\ Ids(u) /\ Fit(u) /\ Filled(u) /\ Right(u, f, t, x)
  BY <1>16, <1>18, <1>19, <1>20, <1>21, <1>24, SameLaid
<1>26. b = [ppInf |-> u, nSize |-> a.nSize + 1, nMaxBlock |-> a.nMaxBlock, nCur |-> cur, entry |-> f]
  <2>1. b = [a EXCEPT !.ppInf = u, !.nSize = @ + 1, !.nCur = cur, !.entry = f]
    <3>1. pos - a.ppInf[cur + 1].nStart = off
      BY <1>0, <1>7, <1>8
    <3>2. u = UpdIndex([a.ppInf EXCEPT ![cur + 1] = [a.ppInf[cur + 1] EXCEPT
                          !.pData = InsertAt(@, off + 1, e), !.nEnd = @ + 1]], cur)
      BY <1>0, <1>9, <1>10, <1>23 DEF WithOne
    <3>3. f = [Shifted(a.entry, ToSet(SubSeq(a.ppInf[cur + 1].pData, off + 1,
                                             Len(a.ppInf[cur + 1].pData))), 1)
                 EXCEPT ![e] = [pBlock |-> a.ppInf[cur + 1].id, nOffset |-> off]]
      BY <1>0, <1>17 DEF PutEntries
    <3> QED BY <1>0, <3>1, <3>2, <3>3 DEF PutElement
  <2> QED BY <1>2, <2>1
<1>27. Len(u) = Len(q)
  BY <1>13, <1>24 DEF SameBlocks
<1>28. b \in Arrays
  BY <1>2, <1>4, <1>18, <1>24, <1>26 DEF Arrays
<1>29. Len(D) = Len(C) + 1
  BY DEF WholeWith
<1>30. Holding(b, t, D)
  <2>1. b.ppInf = u /\ b.nSize = a.nSize + 1 /\ b.nMaxBlock = a.nMaxBlock /\ b.nCur = cur
    BY <1>26
  <2>2. cur <= Len(u)
    BY <1>2, <1>4, <1>27
  <2> QED BY <1>3, <1>25, <1>27, <1>28, <1>29, <2>1, <2>2 DEF Holding
<1>31. b.ppInf = u /\ b.entry = f
  BY <1>26
<1>32. Tidy(b, t, D, x)
  BY <1>13, <1>24, <1>25, <1>27, <1>30, <1>31 DEF Tidy
<1> QED BY <1>0, <1>32 DEF Sound

-----------------------------------------------------------------------------
(* Compress.                                                                *)

\* The blocks hold the first z elements of C.
LaidUpTo(B, t, C, z) ==
  /\ B \in Seq(BlockInfos) /\ t \in [1 .. Len(B) + 1 -> Nat] /\ t[1] = 0 /\ t[Len(B) + 1] = z
  /\ \A j \in 1 .. Len(B) : t[j + 1] = t[j] + Len(B[j].pData)
  /\ \A j \in 1 .. Len(B) : \A i \in 1 .. Len(B[j].pData) : C[t[j] + i] = B[j].pData[i]

\* The elements from the position z on are those of mv.
Follows(C, z, mv) == mv \in Seq(Elems) /\ \A i \in 1 .. Len(mv) : C[z + i] = mv[i]

\* d is B with the elements mv more in its last block.
Grown(B, mv, d) ==
  /\ d \in Seq(BlockInfos) /\ Len(d) = Len(B) /\ Len(B) \in Nat \ {0}
  /\ \A j \in 1 .. Len(B) : j # Len(B) => d[j] = B[j]
  /\ d[Len(B)].id = B[Len(B)].id /\ d[Len(B)].nStart = B[Len(B)].nStart
  /\ Len(d[Len(B)].pData) = Len(B[Len(B)].pData) + Len(mv)
  /\ \A i \in 1 .. Len(B[Len(B)].pData) : d[Len(B)].pData[i] = B[Len(B)].pData[i]
  /\ \A i \in 1 .. Len(mv) : d[Len(B)].pData[Len(B[Len(B)].pData) + i] = mv[i]

LEMMA GrownFacts ==
  ASSUME NEW B \in Seq(BlockInfos), Len(B) # 0, NEW mv \in Seq(Elems)
  PROVE  Grown(B, mv, [B EXCEPT ![Len(B)].pData = @ \o mv])
<1>0. PICK m, d, P : m = Len(B) /\ d = [B EXCEPT ![m].pData = @ \o mv]
                     /\ P = [B[m] EXCEPT !.pData = @ \o mv]
  OBVIOUS
<1>1. m \in 1 .. Len(B) /\ m \in Nat /\ B \in [1 .. m -> BlockInfos] /\ DOMAIN B = 1 .. m
  <2>1. Len(B) \in Nat /\ DOMAIN B = 1 .. Len(B) /\ B \in [1 .. Len(B) -> BlockInfos]
    BY DatasFacts
  <2> QED BY <1>0, <2>1
<1>2. /\ B[m] \in BlockInfos /\ B[m].pData \in Seq(Elems) /\ Len(B[m].pData) \in Nat
  BY <1>1, DatasFacts
<1>3. PICK r : r = B[m].pData \o mv
  OBVIOUS
<1>4. Len(mv) \in Nat
  BY LenProperties
<1>5. /\ r \in Seq(Elems) /\ Len(r) = Len(B[m].pData) + Len(mv)
      /\ \A i \in 1 .. Len(B[m].pData) + Len(mv) :
           r[i] = IF i <= Len(B[m].pData) THEN B[m].pData[i] ELSE mv[i - Len(B[m].pData)]
  BY <1>2, <1>3, ConcatProperties
<1>6. ASSUME NEW i \in 1 .. Len(B[m].pData) PROVE r[i] = B[m].pData[i]
  <2>1. i \in 1 .. Len(B[m].pData) + Len(mv) /\ i <= Len(B[m].pData)
    BY <1>2, <1>4
  <2> QED BY <1>5, <2>1
<1>7. ASSUME NEW i \in 1 .. Len(mv) PROVE r[Len(B[m].pData) + i] = mv[i]
  <2>1. PICK n \in Nat : n = Len(B[m].pData)
    BY <1>2
  <2>2. n + i \in 1 .. n + Len(mv) /\ ~(n + i <= n) /\ (n + i) - n = i
    BY <1>4
  <2>3. r[n + i] = mv[(n + i) - n]
    BY <1>5, <2>1, <2>2
  <2> QED BY <2>1, <2>2, <2>3
<1>8. P = [B[m] EXCEPT !.pData = r]
  BY <1>0, <1>3
<1>9. P \in BlockInfos /\ P.pData = r /\ P.id = B[m].id /\ P.nStart = B[m].nStart
  BY <1>2, <1>5, <1>8 DEF BlockInfos
<1>10. d = WithOne(B, m, P)
  BY <1>0, <1>1 DEF WithOne
<1>11. HasOne(B, m, P, d)
  <2>1. m \in 1 .. Len(B) /\ P \in BlockInfos
    BY <1>1, <1>9
  <2>2. HasOne(B, m, P, WithOne(B, m, P))
    BY <2>1, OneBlock
  <2> QED BY <1>10, <2>2
<1>12. d \in Seq(BlockInfos) /\ Len(d) = Len(B) /\ d[m] = P /\ \A j \in 1 .. Len(B) : j # m => d[j] = B[j]
  BY <1>11 DEF HasOne
<1>13. Len(B) \in Nat \ {0}
  BY <1>0, <1>1
<1> QED BY SMTT(30), <1>0, <1>5, <1>6, <1>7, <1>9, <1>12, <1>13 DEF Grown

LEMMA UpToFacts ==
  ASSUME NEW B, NEW t, NEW C, NEW z, LaidUpTo(B, t, C, z)
  PROVE  /\ B \in Seq(BlockInfos) /\ Len(B) \in Nat /\ z \in Nat
         /\ \A j \in 1 .. Len(B) + 1 : t[j] \in Nat
         /\ \A j \in 1 .. Len(B) :
              /\ B[j] \in BlockInfos /\ B[j].id \in Nat /\ B[j].pData \in Seq(Elems)
              /\ Len(B[j].pData) \in Nat
              /\ t[j] \in Nat /\ t[j + 1] \in Nat /\ t[j + 1] = t[j] + Len(B[j].pData)
<1>1. B \in Seq(BlockInfos) /\ t \in [1 .. Len(B) + 1 -> Nat] /\ t[Len(B) + 1] = z
  BY DEF LaidUpTo
<1>2. Len(B) \in Nat
  BY <1>1, DatasFacts
<1>3. \A j \in 1 .. Len(B) + 1 : t[j] \in Nat
  BY <1>1
<1>4. Len(B) + 1 \in 1 .. Len(B) + 1
  BY <1>2
<1>5. ASSUME NEW j \in 1 .. Len(B)
      PROVE  /\ B[j] \in BlockInfos /\ B[j].id \in Nat /\ B[j].pData \in Seq(Elems)
             /\ Len(B[j].pData) \in Nat
             /\ t[j] \in Nat /\ t[j + 1] \in Nat /\ t[j + 1] = t[j] + Len(B[j].pData)
  <2>1. j \in 1 .. Len(B) + 1 /\ j + 1 \in 1 .. Len(B) + 1
    BY <1>2
  <2>2. t[j] \in Nat /\ t[j + 1] \in Nat
    BY <1>3, <2>1
  <2>3. t[j + 1] = t[j] + Len(B[j].pData)
    BY DEF LaidUpTo
  <2>4. B[j] \in BlockInfos /\ B[j].id \in Nat /\ B[j].pData \in Seq(Elems) /\ Len(B[j].pData) \in Nat
    BY <1>1, DatasFacts
  <2> QED BY <2>2, <2>3, <2>4
<1>6. t[Len(B) + 1] \in Nat
  BY <1>3, <1>4
<1> QED BY <1>1, <1>2, <1>3, <1>5, <1>6

LEMMA UpToRises ==
  ASSUME NEW B, NEW t, NEW C, NEW z, LaidUpTo(B, t, C, z), NEW j \in 1 .. Len(B),
         NEW i \in 1 .. Len(B[j].pData)
  PROVE  t[j] + i \in 1 .. z
<1>1. Len(B) \in Nat /\ z \in Nat /\ B \in Seq(BlockInfos)
  BY UpToFacts
<1>2. \A l \in 1 .. Len(B) : Len(B[l].pData) \in Nat /\ t[l] \in Nat /\ t[l + 1] \in Nat
                             /\ t[l + 1] = t[l] + Len(B[l].pData)
  BY UpToFacts
<1>3. /\ Datas(B) \in Seq(Seq(Elems)) /\ Len(Datas(B)) = Len(B)
      /\ \A l \in 1 .. Len(B) : Datas(B)[l] = B[l].pData
  BY <1>1, DatasFacts
<1>4. Starts(Datas(B), t)
  <2>1. t \in [1 .. Len(B) + 1 -> Nat] /\ t[1] = 0
    BY DEF LaidUpTo
  <2> QED BY <1>2, <1>3, <2>1 DEF Starts
<1>5. i \in 1 .. Len(Datas(B)[j]) /\ j \in 1 .. Len(Datas(B))
  BY <1>3
<1>6. t[j] + i \in 1 .. t[Len(Datas(B)) + 1]
  BY <1>4, <1>5, PlaceInWhole
<1>7. t[Len(B) + 1] = z
  BY DEF LaidUpTo
<1> QED BY <1>3, <1>6, <1>7

LEMMA GrownLaid ==
  ASSUME NEW B, NEW t, NEW C, NEW z, LaidUpTo(B, t, C, z), NEW mv, Follows(C, z, mv),
         NEW d, Grown(B, mv, d)
  PROVE  \E u : LaidUpTo(d, u, C, z + Len(mv))
<1>0. PICK m, u : m = Len(B) /\ u = [t EXCEPT ![m + 1] = z + Len(mv)]
  OBVIOUS
<1>1. /\ B \in Seq(BlockInfos) /\ Len(B) \in Nat /\ z \in Nat
      /\ \A j \in 1 .. Len(B) :
           /\ B[j] \in BlockInfos /\ B[j].pData \in Seq(Elems) /\ Len(B[j].pData) \in Nat
           /\ t[j] \in Nat /\ t[j + 1] \in Nat /\ t[j + 1] = t[j] + Len(B[j].pData)
  BY UpToFacts
<1>2. /\ t \in [1 .. m + 1 -> Nat] /\ t[1] = 0 /\ t[m + 1] = z
      /\ \A j \in 1 .. m : \A i \in 1 .. Len(B[j].pData) : C[t[j] + i] = B[j].pData[i]
  BY <1>0 DEF LaidUpTo
<1>3. mv \in Seq(Elems) /\ Len(mv) \in Nat /\ \A i \in 1 .. Len(mv) : C[z + i] = mv[i]
  BY LenProperties DEF Follows
<1>4. /\ d \in Seq(BlockInfos) /\ Len(d) = m /\ m \in Nat \ {0}
      /\ \A j \in 1 .. m : j # m => d[j] = B[j]
      /\ Len(d[m].pData) = Len(B[m].pData) + Len(mv)
      /\ \A i \in 1 .. Len(B[m].pData) : d[m].pData[i] = B[m].pData[i]
      /\ \A i \in 1 .. Len(mv) : d[m].pData[Len(B[m].pData) + i] = mv[i]
  BY <1>0 DEF Grown
<1>5. z + Len(mv) \in Nat /\ m + 1 \in 1 .. m + 1
  BY <1>1, <1>3, <1>4
<1>6. u \in [1 .. m + 1 -> Nat] /\ u[m + 1] = z + Len(mv) /\ \A j \in 1 .. m + 1 : j # m + 1 => u[j] = t[j]
  BY <1>0, <1>2, <1>5
<1>6a. \A j \in 1 .. m : u[j] = t[j]
  <2>1. ASSUME NEW j \in 1 .. m PROVE u[j] = t[j]
    <3>1. j \in 1 .. m + 1 /\ j # m + 1
      BY <1>4
    <3> QED BY <1>6, <3>1
  <2> QED BY <2>1
<1>7. PICK x \in Nat, n \in Nat, w \in Nat : x = t[m] /\ n = Len(B[m].pData) /\ w = Len(mv) /\ z = x + n
  <2>1. m \in 1 .. Len(B)
    BY <1>0, <1>4
  <2> QED BY <1>0, <1>1, <1>2, <1>3, <2>1
<1>7b. z = x + n
  BY <1>7
<1>7a. m \in 1 .. m
  BY <1>4
<1>8. ASSUME NEW j \in 1 .. m
      PROVE  u[j + 1] = u[j] + Len(d[j].pData)
  <2>1. CASE j = m
    <3>1. u[m] = x /\ u[m + 1] = z + w /\ Len(d[m].pData) = n + w
      BY <1>4, <1>6, <1>6a, <1>7, <1>7a
    <3>2. z + w = x + (n + w)
      BY <1>7b
    <3> QED BY <2>1, <3>1, <3>2
  <2>2. CASE j # m
    <3>1. j + 1 \in 1 .. m /\ j \in 1 .. Len(B)
      BY <1>0, <1>4, <2>2
    <3>2. u[j] = t[j] /\ u[j + 1] = t[j + 1] /\ d[j] = B[j]
      BY <1>4, <1>6a, <2>2, <3>1
    <3> QED BY <1>1, <3>1, <3>2
  <2> QED BY <2>1, <2>2
<1>9. ASSUME NEW j \in 1 .. m, NEW i \in 1 .. Len(d[j].pData)
      PROVE  C[u[j] + i] = d[j].pData[i]
  <2>1. CASE j = m
    <3>1. u[j] = x /\ i \in 1 .. n + w
      BY <1>4, <1>6a, <1>7, <1>7a, <2>1
    <3>2. CASE i <= n
      <4>1. i \in 1 .. n
        BY <1>7, <3>1, <3>2
      <4>2. C[t[m] + i] = B[m].pData[i] /\ d[m].pData[i] = B[m].pData[i]
        BY <1>2, <1>4, <1>7, <1>7a, <4>1
      <4> QED BY <2>1, <3>1, <1>7, <4>2
    <3>3. CASE i > n
      <4>1. PICK l \in 1 .. w : l = i - n
        <5>1. i \in 1 .. n + w
          BY <3>1
        <5> QED BY <3>3, <5>1
      <4>2. n + l = i /\ z + l = x + i
        <5>1. i \in 1 .. n + w
          BY <3>1
        <5> QED BY <1>7b, <4>1, <5>1
      <4>3. C[z + l] = mv[l] /\ d[m].pData[n + l] = mv[l]
        BY <1>3, <1>4, <1>7, <4>1
      <4> QED BY <2>1, <3>1, <4>2, <4>3
    <3> QED BY <1>7, <3>1, <3>2, <3>3
  <2>2. CASE j # m
    <3>1. d[j] = B[j] /\ u[j] = t[j]
      BY <1>4, <1>6a, <2>2
    <3> QED BY <1>2, <3>1
  <2> QED BY <2>1, <2>2
<1>10. u[1] = 0
  <2>1. 1 \in 1 .. m
    BY <1>4
  <2> QED BY <1>2, <1>6a, <2>1
<1>11. LaidUpTo(d, u, C, z + Len(mv))
  BY <1>4, <1>6, <1>8, <1>9, <1>10 DEF LaidUpTo
<1> QED BY <1>11

\* d is B with the block p behind.
Longer(B, p, d) ==
  /\ d \in Seq(BlockInfos) /\ Len(d) = Len(B) + 1 /\ Len(B) \in Nat
  /\ d[Len(B) + 1] = p /\ p \in BlockInfos
  /\ \A j \in 1 .. Len(B) : d[j] = B[j]

LEMMA LongerFacts ==
  ASSUME NEW B \in Seq(BlockInfos), NEW p \in BlockInfos
  PROVE  Longer(B, p, Append(B, p))
BY AppendProperties, LenProperties DEF Longer

LEMMA LongerLaid ==
  ASSUME NEW B, NEW t, NEW C, NEW z, LaidUpTo(B, t, C, z), NEW p, Follows(C, z, p.pData),
         NEW d, Longer(B, p, d)
  PROVE  \E u : LaidUpTo(d, u, C, z + Len(p.pData))
<1>0. PICK m, n, u : m = Len(B) /\ n = Len(p.pData)
                     /\ u = [j \in 1 .. m + 2 |-> IF j = m + 2 THEN z + n ELSE t[j]]
  OBVIOUS
<1>1. /\ B \in Seq(BlockInfos) /\ m \in Nat /\ z \in Nat
      /\ \A j \in 1 .. m + 1 : t[j] \in Nat
      /\ \A j \in 1 .. m : t[j + 1] = t[j] + Len(B[j].pData)
  BY <1>0, UpToFacts
<1>2. /\ t[1] = 0 /\ t[m + 1] = z
      /\ \A j \in 1 .. m : \A i \in 1 .. Len(B[j].pData) : C[t[j] + i] = B[j].pData[i]
  BY <1>0 DEF LaidUpTo
<1>3. n \in Nat /\ \A i \in 1 .. n : C[z + i] = p.pData[i]
  BY <1>0, LenProperties DEF Follows
<1>4. d \in Seq(BlockInfos) /\ Len(d) = m + 1 /\ d[m + 1] = p /\ \A j \in 1 .. m : d[j] = B[j]
  BY <1>0 DEF Longer
<1>5. u[m + 2] = z + n
  <2>1. m + 2 \in 1 .. m + 2
    BY <1>1
  <2> QED BY <1>0, <2>1
<1>6. \A j \in 1 .. m + 1 : u[j] = t[j]
  <2>1. ASSUME NEW j \in 1 .. m + 1 PROVE u[j] = t[j]
    <3>1. j \in 1 .. m + 2 /\ j # m + 2
      BY <1>1
    <3> QED BY <1>0, <3>1
  <2> QED BY <2>1
<1>7. u \in [1 .. m + 2 -> Nat]
  <2>1. ASSUME NEW j \in 1 .. m + 2 PROVE (IF j = m + 2 THEN z + n ELSE t[j]) \in Nat
    <3>1. CASE j = m + 2
      BY <1>1, <1>3, <3>1
    <3>2. CASE j # m + 2
      <4>1. j \in 1 .. m + 1
        BY <1>1, <3>2
      <4> QED BY <1>1, <3>2, <4>1
    <3> QED BY <3>1, <3>2
  <2> QED BY <1>0, <2>1
<1>8. ASSUME NEW j \in 1 .. m + 1 PROVE u[j + 1] = u[j] + Len(d[j].pData)
  <2>1. CASE j = m + 1
    <3>1. j \in 1 .. m + 1 /\ j + 1 = m + 2
      BY <1>1, <2>1
    <3> QED BY <1>0, <1>2, <1>4, <1>5, <1>6, <2>1, <3>1
  <2>2. CASE j # m + 1
    <3>1. j \in 1 .. m /\ j + 1 \in 1 .. m + 1
      BY <1>1, <2>2
    <3> QED BY <1>1, <1>4, <1>6, <3>1
  <2> QED BY <2>1, <2>2
<1>9. ASSUME NEW j \in 1 .. m + 1, NEW i \in 1 .. Len(d[j].pData) PROVE C[u[j] + i] = d[j].pData[i]
  <2>1. CASE j = m + 1
    BY <1>0, <1>2, <1>3, <1>4, <1>6, <2>1
  <2>2. CASE j # m + 1
    <3>1. j \in 1 .. m
      BY <1>1, <2>2
    <3> QED BY <1>2, <1>4, <1>6, <3>1
  <2> QED BY <2>1, <2>2
<1>10. u[1] = 0 /\ (m + 1) + 1 = m + 2
  <2>1. 1 \in 1 .. m + 1 /\ (m + 1) + 1 = m + 2
    BY <1>1
  <2> QED BY <1>2, <1>6, <2>1
<1>11. LaidUpTo(d, u, C, z + n)
  <2>1. Len(d) + 1 = m + 2
    BY <1>4, <1>10
  <2>2. u \in [1 .. Len(d) + 1 -> Nat] /\ u[Len(d) + 1] = z + n
    BY <1>5, <1>7, <2>1
  <2> QED BY <1>4, <1>8, <1>9, <1>10, <2>2 DEF LaidUpTo
<1> QED BY <1>0, <1>11

\* The states of the loop of Compress.
Presses == [blocks : Seq(BlockInfos), into : Nat, free : Nat, deleted : BOOLEAN,
            changed : Nat \cup {None}, cur : Nat, entry : [Elems -> Entries \cup {None}]]

Room(p) == MAXENTRY - Len(p.pData)

\* Nothing is moved from r to p, which is before r.
Closed(p, r) == Room(p) = 0 \/ (Len(r.pData) > Room(p) /\ Room(p) < nMax)

Dense(B) == \A j \in 1 .. Len(B) - 1 : Closed(B[j], B[j + 1])

\* The elements of the blocks from a number on know where they are.
Known(B, en, from) ==
  \A j \in from .. Len(B) : \A i \in 1 .. Len(B[j].pData) :
    en[B[j].pData[i]] = [pBlock |-> B[j].id, nOffset |-> i - 1]

\* Each block of B is one of the first k blocks of q.
Among(B, q, k) == \A j \in 1 .. Len(B) : \E l \in 1 .. k : B[j].id = q[l].id

\* The new table, with the first z elements of C in it.
Packed(q, k, C, z, B) ==
  /\ \E t : LaidUpTo(B, t, C, z)
  /\ Fit(B) /\ Filled(B) /\ Dense(B) /\ Ids(B) /\ Among(B, q, k)
  /\ Len(B) # 0 => B[1].nStart = 0

\* The blocks before the first one that was changed, which was not full.
Kept(q, k, c) ==
  /\ c.changed = None => Len(c.blocks) = k /\ \A j \in 1 .. k : c.blocks[j] = q[j]
  /\ c.changed # None =>
       /\ c.changed \in 1 .. Len(c.blocks) /\ c.changed <= k /\ Room(q[c.changed]) > 0
       /\ \A j \in 1 .. c.changed - 1 : c.blocks[j] = q[j]

FreeRight(c) ==
  /\ Len(c.blocks) = 0 => c.free = 0
  /\ Len(c.blocks) # 0 => c.free = Room(c.blocks[Len(c.blocks)])
  /\ c.free > 0 => c.into = Len(c.blocks)

\* c is what the loop has made of the first k blocks of q.
Built(q, k, C, z, c) ==
  /\ c \in Presses /\ Packed(q, k, C, z, c.blocks) /\ Kept(q, k, c) /\ FreeRight(c)
  /\ Known(c.blocks, c.entry, 1) /\ c.cur = k /\ Len(c.blocks) <= k

LEMMA PressFacts ==
  ASSUME NEW c \in Presses
  PROVE  /\ c.blocks \in Seq(BlockInfos) /\ Len(c.blocks) \in Nat /\ c.into \in Nat /\ c.free \in Nat
         /\ c.deleted \in BOOLEAN /\ c.changed \in Nat \cup {None} /\ c.cur \in Nat
         /\ c.entry \in [Elems -> Entries \cup {None}]
         /\ c = [blocks |-> c.blocks, into |-> c.into, free |-> c.free, deleted |-> c.deleted,
                 changed |-> c.changed, cur |-> c.cur, entry |-> c.entry]
BY LenProperties DEF Presses

\* p can be the next block.
Fits(q, k, C, z, c, p) ==
  /\ p \in BlockInfos /\ p.id = q[k + 1].id /\ p.pData # <<>> /\ Len(p.pData) <= MAXENTRY
  /\ Follows(C, z, p.pData)
  /\ \A i \in 1 .. Len(p.pData) : c.entry[p.pData[i]] = [pBlock |-> p.id, nOffset |-> i - 1]
  /\ Len(c.blocks) # 0 => Closed(c.blocks[Len(c.blocks)], p)
  /\ Len(c.blocks) = 0 => p.nStart = 0
  /\ c.changed = None => p = q[k + 1]

LEMMA KeepStep ==
  ASSUME NEW q \in Seq(BlockInfos), Ids(q), NEW k \in Nat, k < Len(q), NEW C, NEW z, NEW c,
         Built(q, k, C, z, c), NEW p, Fits(q, k, C, z, c, p)
  PROVE  Built(q, k + 1, C, z + Len(p.pData), KeepBlock(c, p))
<1>0. PICK B, m, d, w, en : /\ B = c.blocks /\ m = Len(B) /\ d = Append(B, p)
                            /\ w = KeepBlock(c, p) /\ en = c.entry
  OBVIOUS
<1>1. /\ c \in Presses /\ Packed(q, k, C, z, B) /\ Kept(q, k, c) /\ FreeRight(c)
      /\ Known(B, en, 1) /\ c.cur = k /\ m <= k
  BY <1>0 DEF Built
<1>2. /\ B \in Seq(BlockInfos) /\ m \in Nat /\ c.into \in Nat /\ c.free \in Nat
      /\ c.deleted \in BOOLEAN /\ c.changed \in Nat \cup {None} /\ c.cur \in Nat
      /\ en \in [Elems -> Entries \cup {None}]
      /\ c = [blocks |-> B, into |-> c.into, free |-> c.free, deleted |-> c.deleted,
              changed |-> c.changed, cur |-> c.cur, entry |-> en]
  BY <1>0, <1>1, PressFacts
<1>3. /\ p \in BlockInfos /\ p.id = q[k + 1].id /\ p.pData # <<>> /\ Len(p.pData) <= MAXENTRY
      /\ Follows(C, z, p.pData)
      /\ \A i \in 1 .. Len(p.pData) : en[p.pData[i]] = [pBlock |-> p.id, nOffset |-> i - 1]
      /\ m # 0 => Closed(B[m], p)
      /\ m = 0 => p.nStart = 0
      /\ c.changed = None => p = q[k + 1]
  BY <1>0 DEF Fits
<1>4. Longer(B, p, d)
  BY <1>0, <1>2, <1>3, LongerFacts
<1>5. d \in Seq(BlockInfos) /\ Len(d) = m + 1 /\ d[m + 1] = p /\ \A j \in 1 .. m : d[j] = B[j]
  BY <1>0, <1>4 DEF Longer
<1>6. PICK n : n = Len(p.pData) /\ n \in Nat
  BY <1>3, LenProperties DEF BlockInfos
<1>7. MAXENTRY \in Nat
  BY SizesAssumption
<1>8. PICK room, into : room = MAXENTRY - n /\ into = IF room > 0 THEN m + 1 ELSE c.into
  OBVIOUS
<1>9. room \in Nat /\ into \in Nat
  <2>1. n <= MAXENTRY /\ room = MAXENTRY - n
    BY <1>3, <1>6, <1>8
  <2>2. room \in Nat
    BY <1>6, <1>7, <2>1
  <2>3. m + 1 \in Nat /\ c.into \in Nat
    BY <1>2
  <2> QED BY <1>8, <2>2, <2>3
<1>10. w = [blocks |-> d, into |-> into, free |-> room, deleted |-> c.deleted,
            changed |-> c.changed, cur |-> k + 1, entry |-> en]
  <2>1. w = [c EXCEPT !.blocks = d, !.into = into, !.free = room, !.cur = c.cur + 1]
    BY <1>0, <1>1, <1>6, <1>8 DEF KeepBlock
  <2>2. c.cur + 1 = k + 1
    BY <1>1
  <2>3. c = [blocks |-> B, into |-> c.into, free |-> c.free, deleted |-> c.deleted,
              changed |-> c.changed, cur |-> c.cur, entry |-> en]
    BY <1>2
  <2>4. PICK k1 : k1 = c.cur + 1
    OBVIOUS
  <2>5. w = [c EXCEPT !.blocks = d, !.into = into, !.free = room, !.cur = k1]
    BY <2>1, <2>4, Zenon
  <2>6. PICK i1, f1, l1, h1, j1 :
          c = [blocks |-> B, into |-> i1, free |-> f1, deleted |-> l1, changed |-> h1, cur |-> j1,
               entry |-> en]
    BY <2>3
  <2>7. c.deleted = l1 /\ c.changed = h1
    BY <2>6
  <2>8. w = [blocks |-> d, into |-> into, free |-> room, deleted |-> l1, changed |-> h1, cur |-> k1,
             entry |-> en]
    BY <2>5, <2>6
  <2> QED BY <2>2, <2>4, <2>7, <2>8
<1>11. w \in Presses
  BY <1>2, <1>5, <1>9, <1>10 DEF Presses
<1>12. m + 1 \in Nat /\ k + 1 \in Nat /\ m + 1 <= k + 1
  BY <1>1, <1>2
<1>13. Packed(q, k + 1, C, z + n, d)
  <2>1. /\ \E t : LaidUpTo(B, t, C, z)
        /\ Fit(B) /\ Filled(B) /\ Dense(B) /\ Ids(B) /\ Among(B, q, k)
        /\ m # 0 => B[1].nStart = 0
    BY <1>0, <1>1 DEF Packed
  <2>2. \E u : LaidUpTo(d, u, C, z + n)
    <3>1. PICK t : LaidUpTo(B, t, C, z)
      BY <2>1
    <3> QED BY <1>3, <1>4, <1>6, <3>1, LongerLaid
  <2>3. ASSUME NEW j \in 1 .. m + 1 PROVE j \in 1 .. m \/ j = m + 1
    BY SMTT(30), <1>2
  <2>4. Fit(d)
    <3>1. \A j \in 1 .. m : Len(B[j].pData) <= MAXENTRY
      BY <1>0, <2>1 DEF Fit
    <3> QED BY <1>3, <1>5, <2>3, <3>1 DEF Fit
  <2>5. Filled(d)
    <3>1. \A j \in 1 .. m : B[j].pData # <<>>
      BY <1>0, <2>1 DEF Filled
    <3> QED BY <1>3, <1>5, <2>3, <3>1 DEF Filled
  <2>6. Dense(d)
    <3>1. \A j \in 1 .. m - 1 : Closed(B[j], B[j + 1])
      BY <1>0, <2>1 DEF Dense
    <3>2. ASSUME NEW j \in 1 .. m PROVE Closed(d[j], d[j + 1])
      <4>1. CASE j = m
        BY <1>2, <1>3, <1>5, <4>1
      <4>2. CASE j # m
        <5>1. j \in 1 .. m - 1 /\ j + 1 \in 1 .. m
          BY <1>2, <4>2
        <5> QED BY <1>5, <3>1, <5>1
      <4> QED BY <4>1, <4>2
    <3>3. Len(d) - 1 = m
      BY <1>2, <1>5
    <3> QED BY <3>2, <3>3 DEF Dense
  <2>7. Among(d, q, k + 1)
    <3>1. ASSUME NEW j \in 1 .. m + 1 PROVE \E l \in 1 .. k + 1 : d[j].id = q[l].id
      <4>1. CASE j = m + 1
        <5>1. k + 1 \in 1 .. k + 1
          OBVIOUS
        <5> QED BY <1>3, <1>5, <4>1, <5>1
      <4>2. CASE j \in 1 .. m
        <5>1. PICK l \in 1 .. k : B[j].id = q[l].id
          BY <1>0, <2>1, <4>2 DEF Among
        <5>2. l \in 1 .. k + 1
          OBVIOUS
        <5> QED BY <1>5, <4>2, <5>1, <5>2
      <4> QED BY <2>3, <4>1, <4>2
    <3> QED BY <1>5, <3>1 DEF Among
  <2>8. Ids(d)
    <3>1. ASSUME NEW j \in 1 .. m, d[j].id = p.id PROVE FALSE
      <4>1. PICK l \in 1 .. k : B[j].id = q[l].id
        BY <1>0, <2>1 DEF Among
      <4>2. Len(q) \in Nat
        BY LenProperties
      <4>3. l \in 1 .. Len(q) /\ k + 1 \in 1 .. Len(q) /\ l # k + 1
        BY <4>2
      <4>4. q[l].id = q[k + 1].id
        BY <1>3, <1>5, <3>1, <4>1
      <4> QED BY <4>3, <4>4 DEF Ids
    <3>2. ASSUME NEW i \in 1 .. m, NEW j \in 1 .. m, d[i].id = d[j].id PROVE i = j
      <4>1. B[i].id = B[j].id
        BY <1>5, <3>2
      <4> QED BY <1>0, <2>1, <4>1 DEF Ids
    <3>3. ASSUME NEW i \in 1 .. m + 1, NEW j \in 1 .. m + 1, d[i].id = d[j].id PROVE i = j
      <4>1. CASE i \in 1 .. m /\ j \in 1 .. m
        BY <3>2, <3>3, <4>1
      <4>2. CASE i = m + 1 /\ j = m + 1
        BY <4>2
      <4>3. CASE i \in 1 .. m /\ j = m + 1
        BY <1>5, <3>1, <3>3, <4>3
      <4>4. CASE i = m + 1 /\ j \in 1 .. m
        BY <1>5, <3>1, <3>3, <4>4
      <4> QED BY <2>3, <4>1, <4>2, <4>3, <4>4
    <3> QED BY <1>5, <3>3 DEF Ids
  <2>9. d[1].nStart = 0
    <3>1. CASE m = 0
      BY <1>3, <1>5, <3>1
    <3>2. CASE m # 0
      <4>1. 1 \in 1 .. m
        BY <1>2, <3>2
      <4> QED BY <1>5, <2>1, <3>2, <4>1
    <3> QED BY <3>1, <3>2
  <2> QED BY <2>2, <2>4, <2>5, <2>6, <2>7, <2>8, <2>9 DEF Packed
<1>14. Kept(q, k + 1, w)
  <2>1. w.changed = c.changed /\ w.blocks = d
    BY <1>10
  <2>2. ASSUME c.changed = None PROVE m + 1 = k + 1 /\ \A j \in 1 .. k + 1 : d[j] = q[j]
    <3>1. m = k /\ \A j \in 1 .. k : B[j] = q[j]
      BY <1>0, <1>1, <2>2 DEF Kept
    <3>2. ASSUME NEW j \in 1 .. k + 1 PROVE d[j] = q[j]
      <4>1. CASE j = k + 1
        BY <1>3, <1>5, <2>2, <3>1, <4>1
      <4>2. CASE j # k + 1
        <5>1. j \in 1 .. k
          BY <4>2
        <5> QED BY <1>5, <3>1, <5>1
      <4> QED BY <4>1, <4>2
    <3> QED BY <3>1, <3>2
  <2>3. ASSUME c.changed # None
        PROVE  /\ c.changed \in 1 .. m + 1 /\ c.changed <= k + 1 /\ Room(q[c.changed]) > 0
               /\ \A j \in 1 .. c.changed - 1 : d[j] = q[j]
    <3>1. PICK h : h = c.changed
      OBVIOUS
    <3>2. h \in 1 .. m /\ h <= k /\ Room(q[h]) > 0 /\ \A j \in 1 .. h - 1 : B[j] = q[j]
      BY <1>0, <1>1, <2>3, <3>1 DEF Kept
    <3>3. h \in 1 .. m + 1 /\ h <= k + 1
      BY <1>2, <3>2
    <3>4. ASSUME NEW j \in 1 .. h - 1 PROVE d[j] = q[j]
      <4>1. j \in 1 .. m
        BY <1>2, <3>2
      <4> QED BY <1>5, <3>2, <4>1
    <3> QED BY <3>1, <3>2, <3>3, <3>4
  <2> QED BY <1>5, <2>1, <2>2, <2>3 DEF Kept
<1>15. FreeRight(w)
  <2>1. w.blocks = d /\ w.free = room /\ w.into = into
    BY <1>10
  <2>2. Room(p) = room
    BY <1>6, <1>8 DEF Room
  <2>3. Len(d) # 0 /\ d[Len(d)] = p
    BY <1>2, <1>5
  <2> QED BY <1>5, <1>8, <2>1, <2>2, <2>3 DEF FreeRight
<1>16. Known(d, en, 1)
  <2>1. \A j \in 1 .. m : \A i \in 1 .. Len(B[j].pData) :
          en[B[j].pData[i]] = [pBlock |-> B[j].id, nOffset |-> i - 1]
    BY <1>0, <1>1 DEF Known
  <2>2. ASSUME NEW j \in 1 .. m + 1, NEW i \in 1 .. Len(d[j].pData)
        PROVE  en[d[j].pData[i]] = [pBlock |-> d[j].id, nOffset |-> i - 1]
    <3>1. CASE j = m + 1
      BY <1>3, <1>5, <3>1
    <3>2. CASE j # m + 1
      <4>1. j \in 1 .. m
        BY <1>2, <3>2
      <4> QED BY <1>5, <2>1, <4>1
    <3> QED BY <3>1, <3>2
  <2> QED BY <1>5, <2>2 DEF Known
<1>17. w.blocks = d /\ w.entry = en /\ w.cur = k + 1
  BY <1>10
<1>18. Built(q, k + 1, C, z + n, w)
  BY <1>5, <1>11, <1>12, <1>13, <1>14, <1>15, <1>16, <1>17 DEF Built
<1> QED BY <1>0, <1>6, <1>18

\* Elements are moved into the last block of the new table.
Filling(c, mv, en) ==
  [c EXCEPT !.blocks[c.into].pData = @ \o mv, !.free = @ - Len(mv), !.entry = en,
            !.changed = IF @ = None THEN c.cur ELSE @]

\* Where those elements are then; the others of the table stay where they are.
MovedEntries(B, old, mv, en) ==
  /\ en \in [Elems -> Entries \cup {None}]
  /\ \A i \in 1 .. Len(mv) :
       en[mv[i]] = [pBlock |-> B[Len(B)].id, nOffset |-> Len(B[Len(B)].pData) + i - 1]
  /\ \A j \in 1 .. Len(B) : \A i \in 1 .. Len(B[j].pData) : en[B[j].pData[i]] = old[B[j].pData[i]]

LEMMA GrownPacked ==
  ASSUME NEW q, NEW k, NEW C, NEW z, NEW B, Packed(q, k, C, z, B),
         NEW mv, Follows(C, z, mv), NEW d, Grown(B, mv, d), Len(mv) <= Room(B[Len(B)])
  PROVE  Packed(q, k, C, z + Len(mv), d)
<1>0. PICK m : m = Len(B)
  OBVIOUS
<1>1. PICK t : LaidUpTo(B, t, C, z)
  BY DEF Packed
<1>2. /\ Fit(B) /\ Filled(B) /\ Dense(B) /\ Ids(B) /\ Among(B, q, k)
      /\ B[1].nStart = 0
  BY DEF Packed, Grown
<1>3. /\ d \in Seq(BlockInfos) /\ Len(d) = m /\ m \in Nat \ {0}
      /\ \A j \in 1 .. m : j # m => d[j] = B[j]
      /\ d[m].id = B[m].id /\ d[m].nStart = B[m].nStart
      /\ Len(d[m].pData) = Len(B[m].pData) + Len(mv)
  BY <1>0 DEF Grown
<1>4. \E u : LaidUpTo(d, u, C, z + Len(mv))
  BY <1>1, GrownLaid
<1>5. PICK n \in Nat, w \in Nat : n = Len(B[m].pData) /\ w = Len(mv)
  <2>1. m \in 1 .. Len(B)
    BY <1>0, <1>3
  <2>2. Len(B[m].pData) \in Nat
    BY <1>1, <2>1, UpToFacts
  <2>3. Len(mv) \in Nat
    BY LenProperties DEF Follows
  <2> QED BY <2>2, <2>3
<1>6. Len(d[m].pData) = n + w /\ m \in 1 .. m
  BY <1>3, <1>5
<1>7. MAXENTRY \in Nat /\ w <= MAXENTRY - n
  BY <1>0, <1>5, SizesAssumption DEF Room
<1>8. n + w <= MAXENTRY
  BY <1>7
<1>9. n # 0
  <2>1. B[m].pData # <<>> /\ B[m].pData \in Seq(Elems)
    BY <1>0, <1>1, <1>2, <1>6, UpToFacts DEF Filled
  <2> QED BY <1>5, <2>1, EmptySeq
<1>10. \A j \in 1 .. m : d[j].id = B[j].id
  BY <1>3
<1>11. Fit(d)
  <2>1. \A j \in 1 .. m : Len(B[j].pData) <= MAXENTRY
    BY <1>0, <1>2 DEF Fit
  <2>2. ASSUME NEW j \in 1 .. m PROVE Len(d[j].pData) <= MAXENTRY
    BY <1>3, <1>6, <1>8, <2>1
  <2> QED BY <1>3, <2>2 DEF Fit
<1>12. Filled(d)
  <2>1. \A j \in 1 .. m : B[j].pData # <<>>
    BY <1>0, <1>2 DEF Filled
  <2>2. d[m].pData # <<>>
    <3>1. Len(d[m].pData) # 0
      BY <1>6, <1>9
    <3> QED BY <3>1
  <2> QED BY <1>3, <2>1, <2>2 DEF Filled
<1>13. Ids(d)
  <2>1. \A i, j \in 1 .. m : B[i].id = B[j].id => i = j
    BY <1>0, <1>2 DEF Ids
  <2> QED BY <1>3, <1>10, <2>1 DEF Ids
<1>14. Among(d, q, k)
  <2>1. \A j \in 1 .. m : \E l \in 1 .. k : B[j].id = q[l].id
    BY <1>0, <1>2 DEF Among
  <2> QED BY <1>3, <1>10, <2>1 DEF Among
<1>15. Dense(d)
  <2>1. \A j \in 1 .. m - 1 : Closed(B[j], B[j + 1])
    BY <1>0, <1>2 DEF Dense
  <2>2. ASSUME NEW j \in 1 .. m - 1 PROVE Closed(d[j], d[j + 1])
    <3>1. j \in 1 .. m /\ j # m /\ j + 1 \in 1 .. m
      BY <1>3
    <3>2. d[j] = B[j] /\ Closed(B[j], B[j + 1])
      BY <1>3, <2>1, <3>1
    <3>3. CASE j + 1 = m
      <4>1. Room(B[j]) = 0 \/ (n > Room(B[j]) /\ Room(B[j]) < nMax)
        BY <1>5, <3>2, <3>3 DEF Closed
      <4>2. PICK r : r = Room(B[j])
        OBVIOUS
      <4>3. r \in Int
        <5>1. Len(B[j].pData) \in Nat
          BY <1>0, <1>1, <3>1, UpToFacts
        <5> QED BY <1>7, <4>2, <5>1 DEF Room
      <4>4. n > r => n + w > r
        BY <4>3
      <4> QED BY <1>6, <3>2, <3>3, <4>1, <4>2, <4>4 DEF Closed
    <3>4. CASE j + 1 # m
      BY <1>3, <3>1, <3>2, <3>4
    <3> QED BY <3>3, <3>4
  <2> QED BY <1>3, <2>2 DEF Dense
<1>16. d[1].nStart = 0
  <2>1. 1 \in 1 .. m
    BY <1>3
  <2> QED BY <1>2, <1>3, <2>1
<1> QED BY <1>4, <1>11, <1>12, <1>13, <1>14, <1>15, <1>16 DEF Packed

\* mv can be moved into the last block.
CanFill(q, k, C, z, c, mv, en) ==
  /\ Built(q, k, C, z, c) /\ c.free > 0 /\ Follows(C, z, mv) /\ Len(mv) <= c.free
  /\ MovedEntries(c.blocks, c.entry, mv, en)

LEMMA FillStep ==
  ASSUME NEW q, NEW k \in Nat, NEW C, NEW z, NEW c, NEW mv, NEW en, CanFill(q, k, C, z, c, mv, en)
  PROVE  Built(q, k, C, z + Len(mv), Filling(c, mv, en))
<1>0. PICK B, m, d, w : /\ B = c.blocks /\ m = Len(B) /\ w = Filling(c, mv, en)
                        /\ d = [B EXCEPT ![Len(B)].pData = @ \o mv]
  OBVIOUS
<1>1. /\ c \in Presses /\ Packed(q, k, C, z, B) /\ Kept(q, k, c) /\ FreeRight(c)
      /\ Known(B, c.entry, 1) /\ c.cur = k /\ m <= k
      /\ c.free > 0 /\ Follows(C, z, mv) /\ Len(mv) <= c.free /\ MovedEntries(B, c.entry, mv, en)
  BY <1>0 DEF CanFill, Built
<1>2. /\ B \in Seq(BlockInfos) /\ m \in Nat /\ c.free \in Nat /\ c.changed \in Nat \cup {None}
  BY <1>0, <1>1, PressFacts
<1>3. PICK i1, f1, l1, h1, j1, e1 :
        /\ i1 \in Nat /\ f1 \in Nat /\ l1 \in BOOLEAN /\ h1 \in Nat \cup {None} /\ j1 \in Nat
        /\ c = [blocks |-> B, into |-> i1, free |-> f1, deleted |-> l1, changed |-> h1, cur |-> j1,
                entry |-> e1]
        /\ c.into = i1 /\ c.free = f1 /\ c.deleted = l1 /\ c.changed = h1 /\ c.cur = j1 /\ c.entry = e1
  BY <1>0, <1>1, PressFacts
<1>4. m # 0 /\ f1 = Room(B[m]) /\ i1 = m
  BY <1>0, <1>1, <1>3 DEF FreeRight
<1>5. mv \in Seq(Elems) /\ Len(mv) \in Nat
  BY <1>1, LenProperties DEF Follows
<1>6. Grown(B, mv, d)
  BY <1>0, <1>2, <1>4, <1>5, GrownFacts
<1>7. /\ d \in Seq(BlockInfos) /\ Len(d) = m /\ m \in Nat \ {0}
      /\ \A j \in 1 .. m : j # m => d[j] = B[j]
      /\ d[m].id = B[m].id
      /\ Len(d[m].pData) = Len(B[m].pData) + Len(mv)
      /\ \A i \in 1 .. Len(B[m].pData) : d[m].pData[i] = B[m].pData[i]
      /\ \A i \in 1 .. Len(mv) : d[m].pData[Len(B[m].pData) + i] = mv[i]
  <2>1. /\ d \in Seq(BlockInfos) /\ Len(d) = m /\ m \in Nat \ {0}
        /\ \A j \in 1 .. m : j # m => d[j] = B[j]
        /\ d[m].id = B[m].id
        /\ Len(d[m].pData) = Len(B[m].pData) + Len(mv)
    BY <1>0, <1>6 DEF Grown
  <2>2. ASSUME NEW i \in 1 .. Len(B[m].pData) PROVE d[m].pData[i] = B[m].pData[i]
    BY <1>0, <1>6 DEF Grown
  <2>3. ASSUME NEW i \in 1 .. Len(mv) PROVE d[m].pData[Len(B[m].pData) + i] = mv[i]
    <3>1. d[Len(B)].pData[Len(B[Len(B)].pData) + i] = mv[i]
      BY <1>6 DEF Grown
    <3> QED BY <1>0, <3>1, Zenon
  <2> QED BY <2>1, <2>2, <2>3
<1>8. PICK n \in Nat, x \in Nat : n = Len(B[m].pData) /\ x = Len(mv) /\ m \in 1 .. m
  <2>1. m \in 1 .. Len(B) /\ m \in 1 .. m
    BY <1>0, <1>7
  <2>2. Len(B[m].pData) \in Nat
    BY <1>2, <2>1, DatasFacts
  <2> QED BY <1>5, <2>1, <2>2
<1>9. MAXENTRY \in Nat /\ f1 = MAXENTRY - n /\ x <= f1
  BY <1>1, <1>3, <1>4, <1>8, SizesAssumption DEF Room
<1>10. PICK h2, f2 : h2 = (IF h1 = None THEN j1 ELSE h1) /\ f2 = f1 - x
  OBVIOUS
<1>11. w = [blocks |-> d, into |-> i1, free |-> f2, deleted |-> l1, changed |-> h2, cur |-> j1,
            entry |-> en]
  <2>1. w = [c EXCEPT !.blocks = [c.blocks EXCEPT ![c.into].pData = @ \o mv],
                      !.free = c.free - Len(mv), !.entry = en,
                      !.changed = IF c.changed = None THEN c.cur ELSE c.changed]
    BY <1>0 DEF Filling
  <2>2. c.free - Len(mv) = f2 /\ (IF c.changed = None THEN c.cur ELSE c.changed) = h2
    BY <1>3, <1>8, <1>10
  <2>3. [c.blocks EXCEPT ![c.into].pData = @ \o mv] = d
    BY <1>0, <1>3, <1>4
  <2>4. w = [c EXCEPT !.blocks = d, !.free = f2, !.entry = en, !.changed = h2]
    BY <2>1, <2>2, <2>3, Zenon
  <2>5. c = [blocks |-> B, into |-> i1, free |-> f1, deleted |-> l1, changed |-> h1, cur |-> j1,
             entry |-> e1]
    BY <1>3
  <2> QED BY <2>4, <2>5
<1>12. f2 \in Nat /\ f2 = MAXENTRY - (n + x)
  BY <1>3, <1>9, <1>10
<1>13. h2 \in Nat
  BY <1>3, <1>10
<1>14. w \in Presses
  <2>1. en \in [Elems -> Entries \cup {None}]
    BY <1>1 DEF MovedEntries
  <2> QED BY <1>3, <1>7, <1>11, <1>12, <1>13, <2>1 DEF Presses
<1>15. Packed(q, k, C, z + Len(mv), d)
  <2>1. Len(mv) <= Room(B[Len(B)])
    BY <1>0, <1>4, <1>8, <1>9
  <2> QED BY <1>1, <1>6, <2>1, GrownPacked
<1>16. Kept(q, k, w)
  <2>1. w.changed = h2 /\ w.blocks = d /\ h2 # None
    BY <1>11, <1>13, NoneAssumption
  <2>2. h2 \in 1 .. m /\ h2 <= k /\ Room(q[h2]) > 0 /\ \A j \in 1 .. h2 - 1 : d[j] = q[j]
    <3>1. CASE h1 = None
      <4>1. m = k /\ \A j \in 1 .. k : B[j] = q[j]
        BY <1>0, <1>1, <1>3, <3>1 DEF Kept
      <4>2. h2 = m
        BY <1>1, <1>3, <1>10, <3>1, <4>1
      <4>3. Room(q[m]) > 0
        BY <1>1, <1>3, <1>4, <1>8, <4>1
      <4>4. ASSUME NEW j \in 1 .. m - 1 PROVE d[j] = q[j]
        <5>1. j \in 1 .. m /\ j # m
          BY <1>7
        <5> QED BY <1>7, <4>1, <5>1
      <4> QED BY <1>7, <1>8, <4>1, <4>2, <4>3, <4>4
    <3>2. CASE h1 # None
      <4>1. h2 = h1
        BY <1>10, <3>2
      <4>2. h1 \in 1 .. m /\ h1 <= k /\ Room(q[h1]) > 0 /\ \A j \in 1 .. h1 - 1 : B[j] = q[j]
        BY <1>0, <1>1, <1>3, <3>2 DEF Kept
      <4>3. ASSUME NEW j \in 1 .. h1 - 1 PROVE d[j] = q[j]
        <5>1. j \in 1 .. m /\ j # m
          BY <1>7, <4>2
        <5> QED BY <1>7, <4>2, <5>1
      <4> QED BY <4>1, <4>2, <4>3
    <3> QED BY <3>1, <3>2
  <2> QED BY <1>7, <2>1, <2>2 DEF Kept
<1>17. FreeRight(w)
  <2>1. w.blocks = d /\ w.free = f2 /\ w.into = m
    BY <1>4, <1>11
  <2>2. Room(d[m]) = f2
    BY <1>7, <1>8, <1>12 DEF Room
  <2> QED BY <1>7, <2>1, <2>2 DEF FreeRight
<1>18. Known(d, en, 1)
  <2>1. \A j \in 1 .. m : \A i \in 1 .. Len(B[j].pData) :
          e1[B[j].pData[i]] = [pBlock |-> B[j].id, nOffset |-> i - 1]
    BY <1>0, <1>1, <1>3 DEF Known
  <2>2. /\ \A i \in 1 .. x : en[mv[i]] = [pBlock |-> B[m].id, nOffset |-> n + i - 1]
        /\ \A j \in 1 .. m : \A i \in 1 .. Len(B[j].pData) : en[B[j].pData[i]] = e1[B[j].pData[i]]
    BY <1>0, <1>1, <1>3, <1>8 DEF MovedEntries
  <2>3. ASSUME NEW j \in 1 .. m, NEW i \in 1 .. Len(d[j].pData)
        PROVE  en[d[j].pData[i]] = [pBlock |-> d[j].id, nOffset |-> i - 1]
    <3>1. CASE j # m
      BY <1>7, <2>1, <2>2, <3>1
    <3>2. CASE j = m
      <4>1. i \in 1 .. n + x
        BY <1>7, <1>8, <3>2
      <4>2. CASE i <= n
        <5>1. i \in 1 .. Len(B[m].pData)
          BY <1>8, <4>1, <4>2
        <5>2. d[m].pData[i] = B[m].pData[i] /\ d[m].id = B[m].id
          BY <1>7, <5>1
        <5> QED BY <1>8, <2>1, <2>2, <3>2, <5>1, <5>2
      <4>3. CASE i > n
        <5>1. PICK l \in 1 .. x : l = i - n
          BY <4>1, <4>3
        <5>2. n + l = i
          BY <4>1, <5>1
        <5>3. d[m].pData[n + l] = mv[l] /\ d[m].id = B[m].id
          BY <1>7, <1>8, <5>1
        <5>4. en[mv[l]] = [pBlock |-> B[m].id, nOffset |-> n + l - 1]
          BY <2>2, <5>1
        <5> QED BY <3>2, <5>2, <5>3, <5>4
      <4> QED BY <4>1, <4>2, <4>3
    <3> QED BY <3>1, <3>2
  <2> QED BY <1>7, <2>3 DEF Known
<1>19. w.blocks = d /\ w.entry = en /\ w.cur = k
  BY <1>1, <1>3, <1>11
<1>20. Built(q, k, C, z + Len(mv), w)
  BY <1>1, <1>7, <1>14, <1>15, <1>16, <1>17, <1>18, <1>19 DEF Built
<1> QED BY <1>0, <1>20

-----------------------------------------------------------------------------
(* A round of Compress.                                                     *)

\* No element of mv is there twice or in rs.
Apart(mv, rs) ==
  /\ mv \in Seq(Elems) /\ rs \in Seq(Elems)
  /\ \A i, j \in 1 .. Len(mv) : mv[i] = mv[j] => i = j
  /\ \A i \in 1 .. Len(mv), j \in 1 .. Len(rs) : mv[i] # rs[j]

\* The elements mv are put into the block to, and those of rs are moved to the front.
FilledEntries(old, to, mv, rs) ==
  [e \in Elems |->
     IF e \in ToSet(mv)
     THEN [pBlock |-> to.id,
           nOffset |-> Len(to.pData) - 1 + CHOOSE i \in 1 .. Len(mv) : mv[i] = e]
     ELSE IF e \in ToSet(rs) THEN [old[e] EXCEPT !.nOffset = @ - Len(mv)]
     ELSE old[e]]

\* The elements of rs are at n and behind in the block with the address id.
Staying(old, rs, id, n) ==
  \A i \in 1 .. Len(rs) : old[rs[i]] = [pBlock |-> id, nOffset |-> n + i - 1]

Refilled(old, to, mv, rs, id, en) ==
  /\ en \in [Elems -> Entries \cup {None}]
  /\ \A i \in 1 .. Len(mv) : en[mv[i]] = [pBlock |-> to.id, nOffset |-> Len(to.pData) + i - 1]
  /\ \A i \in 1 .. Len(rs) : en[rs[i]] = [pBlock |-> id, nOffset |-> i - 1]
  /\ \A e \in Elems : (\A i \in 1 .. Len(mv) : mv[i] # e) /\ (\A i \in 1 .. Len(rs) : rs[i] # e)
                        => en[e] = old[e]

LEMMA FilledEntriesFacts ==
  ASSUME NEW old \in [Elems -> Entries \cup {None}], NEW to \in BlockInfos, NEW mv, NEW rs,
         Apart(mv, rs), NEW id \in Nat,
         Staying(old, rs, id, Len(mv)),
         NEW en, en = FilledEntries(old, to, mv, rs)
  PROVE  Refilled(old, to, mv, rs, id, en)
<1>1. mv \in Seq(Elems) /\ rs \in Seq(Elems) /\ Len(mv) \in Nat /\ Len(rs) \in Nat
  BY LenProperties DEF Apart
<1>2. /\ \A e : e \in ToSet(mv) <=> \E i \in 1 .. Len(mv) : mv[i] = e
      /\ \A e : e \in ToSet(rs) <=> \E i \in 1 .. Len(rs) : rs[i] = e
  BY <1>1, InSet
<1>3. PICK m, w, l : m = Len(mv) /\ w = Len(rs) /\ l = Len(to.pData)
  OBVIOUS
<1>4. to.id \in Nat /\ l \in Nat /\ m \in Nat /\ w \in Nat
  BY <1>1, <1>3, LenProperties DEF BlockInfos
<1>5. ASSUME NEW i \in 1 .. m
      PROVE  mv[i] \in Elems /\ en[mv[i]] = [pBlock |-> to.id, nOffset |-> l + i - 1]
  <2>1. mv[i] \in Elems
    BY <1>1, <1>3, ElementOfSeq
  <2>2. mv[i] \in ToSet(mv)
    BY <1>2, <1>3
  <2>3. (CHOOSE j \in 1 .. Len(mv) : mv[j] = mv[i]) = i
    <3>1. \E j \in 1 .. m : mv[j] = mv[i]
      OBVIOUS
    <3>2. \A j \in 1 .. m : mv[j] = mv[i] => j = i
      BY <1>3 DEF Apart
    <3> QED BY <1>3, <3>1, <3>2
  <2>4. en[mv[i]] = [pBlock |-> to.id, nOffset |-> l - 1 + i]
    BY <1>3, <2>1, <2>2, <2>3 DEF FilledEntries
  <2>5. l - 1 + i = l + i - 1
    BY <1>4
  <2> QED BY <2>1, <2>4, <2>5
<1>6. ASSUME NEW i \in 1 .. w
      PROVE  rs[i] \in Elems /\ en[rs[i]] = [pBlock |-> id, nOffset |-> i - 1]
  <2>1. rs[i] \in Elems
    BY <1>1, <1>3, ElementOfSeq
  <2>2. rs[i] \in ToSet(rs) /\ rs[i] \notin ToSet(mv)
    BY <1>2, <1>3 DEF Apart
  <2>3. PICK o \in Nat : o = m + i - 1 /\ o - m = i - 1
    BY <1>4
  <2>4. old[rs[i]] = [pBlock |-> id, nOffset |-> o]
    BY <1>3, <2>3 DEF Staying
  <2>5. en[rs[i]] = [old[rs[i]] EXCEPT !.nOffset = @ - m]
    BY <1>3, <2>1, <2>2 DEF FilledEntries
  <2> QED BY <2>1, <2>3, <2>4, <2>5
<1>7. ASSUME NEW e \in Elems, \A i \in 1 .. m : mv[i] # e, \A i \in 1 .. w : rs[i] # e
      PROVE  en[e] = old[e]
  <2>1. e \notin ToSet(mv) /\ e \notin ToSet(rs)
    BY <1>2, <1>3, <1>7
  <2> QED BY <2>1 DEF FilledEntries
<1>8. en \in [Elems -> Entries \cup {None}]
  <2>1. ASSUME NEW e \in Elems PROVE en[e] \in Entries \cup {None}
    <3>1. CASE \E i \in 1 .. m : mv[i] = e
      <4>1. PICK i \in 1 .. m : mv[i] = e
        BY <3>1
      <4>2. PICK o \in Nat : o = l + i - 1
        BY <1>4
      <4>3. en[e] = [pBlock |-> to.id, nOffset |-> o]
        BY <1>5, <4>1, <4>2
      <4>4. [pBlock |-> to.id, nOffset |-> o] \in Entries
        BY <1>4, <4>2 DEF Entries
      <4> QED BY <4>3, <4>4
    <3>2. CASE \E i \in 1 .. w : rs[i] = e
      <4>1. PICK i \in 1 .. w : rs[i] = e
        BY <3>2
      <4>2. PICK o \in Nat : o = i - 1
        BY <1>4
      <4>3. en[e] = [pBlock |-> id, nOffset |-> o]
        BY <1>6, <4>1, <4>2
      <4>4. [pBlock |-> id, nOffset |-> o] \in Entries
        BY <4>2 DEF Entries
      <4> QED BY <4>3, <4>4
    <3>3. CASE ~(\E i \in 1 .. m : mv[i] = e) /\ ~(\E i \in 1 .. w : rs[i] = e)
      BY <1>7, <3>3
    <3> QED BY <3>1, <3>2, <3>3
  <2>2. en = [e \in Elems |-> en[e]]
    BY DEF FilledEntries
  <2> QED BY <2>1, <2>2
<1> QED BY <1>3, <1>5, <1>6, <1>7, <1>8 DEF Refilled

\* A block that was moved into the new table is deleted.
Emptied(c) == [c EXCEPT !.deleted = TRUE, !.cur = @ + 1]

LEMMA EmptiedStep ==
  ASSUME NEW q, NEW k \in Nat, NEW C, NEW z, NEW c, Built(q, k, C, z, c), c.changed # None
  PROVE  Built(q, k + 1, C, z, Emptied(c)) /\ Emptied(c).entry = c.entry
<1>0. PICK w : w = Emptied(c)
  OBVIOUS
<1>1. /\ c \in Presses /\ Packed(q, k, C, z, c.blocks) /\ Kept(q, k, c) /\ FreeRight(c)
      /\ Known(c.blocks, c.entry, 1) /\ c.cur = k /\ Len(c.blocks) <= k
  BY DEF Built
<1>2. PICK B, i1, f1, l1, h1, j1, e1 :
        /\ B \in Seq(BlockInfos) /\ Len(B) \in Nat
        /\ i1 \in Nat /\ f1 \in Nat /\ l1 \in BOOLEAN /\ h1 \in Nat \cup {None} /\ j1 \in Nat
        /\ e1 \in [Elems -> Entries \cup {None}]
        /\ c = [blocks |-> B, into |-> i1, free |-> f1, deleted |-> l1, changed |-> h1, cur |-> j1,
                entry |-> e1]
        /\ c.blocks = B /\ c.into = i1 /\ c.free = f1 /\ c.deleted = l1 /\ c.changed = h1
        /\ c.cur = j1 /\ c.entry = e1
  BY <1>1, PressFacts
<1>3. w = [blocks |-> B, into |-> i1, free |-> f1, deleted |-> TRUE, changed |-> h1, cur |-> k + 1,
           entry |-> e1]
  <2>1. w = [c EXCEPT !.deleted = TRUE, !.cur = k + 1]
    BY <1>0, <1>1 DEF Emptied
  <2>2. c = [blocks |-> B, into |-> i1, free |-> f1, deleted |-> l1, changed |-> h1, cur |-> j1,
             entry |-> e1]
    BY <1>2
  <2> QED BY <2>1, <2>2
<1>4. /\ w.blocks = B /\ w.into = i1 /\ w.free = f1 /\ w.changed = h1 /\ w.cur = k + 1 /\ w.entry = e1
  BY <1>3
<1>5. w \in Presses
  <2>1. k + 1 \in Nat
    OBVIOUS
  <2> QED BY <1>2, <1>3, <2>1 DEF Presses
<1>6. Packed(q, k + 1, C, z, B)
  <2>1. Packed(q, k, C, z, B)
    BY <1>1, <1>2
  <2>2. Among(B, q, k + 1)
    <3>1. \A j \in 1 .. Len(B) : \E l \in 1 .. k : B[j].id = q[l].id
      BY <2>1 DEF Packed, Among
    <3>2. \A l \in 1 .. k : l \in 1 .. k + 1
      OBVIOUS
    <3> QED BY <3>1, <3>2 DEF Among
  <2> QED BY <2>1, <2>2 DEF Packed
<1>7. Kept(q, k + 1, w)
  <2>1. h1 # None /\ h1 \in 1 .. Len(B) /\ h1 <= k /\ Room(q[h1]) > 0 /\ \A j \in 1 .. h1 - 1 : B[j] = q[j]
    BY <1>1, <1>2 DEF Kept
  <2>2. h1 <= k + 1
    BY <1>2, <2>1
  <2> QED BY <1>4, <2>1, <2>2 DEF Kept
<1>8. FreeRight(w)
  BY <1>1, <1>2, <1>4 DEF FreeRight
<1>9. Known(B, e1, 1) /\ Len(B) <= k + 1
  BY <1>1, <1>2
<1> QED BY <1>0, <1>2, <1>4, <1>5, <1>6, <1>7, <1>8, <1>9 DEF Built

\* The table that is compressed.
Source(q, s, C) ==
  /\ Laid(q, s, C) /\ Ids(q) /\ Fit(q) /\ Filled(q) /\ Distinct(C, 0)
  /\ Len(q) # 0 => q[1].nStart = 0

\* The state behind its first k blocks.
Pressed(q, s, C, k, c) == Built(q, k, C, s[k + 1], c) /\ Known(q, c.entry, k + 1)

LEMMA KeepEntry ==
  ASSUME NEW c \in Presses, NEW p
  PROVE  KeepBlock(c, p).entry = c.entry
<1>1. PICK B, i1, f1, j1 :
        KeepBlock(c, p) = [c EXCEPT !.blocks = B, !.into = i1, !.free = f1, !.cur = j1]
  BY DEF KeepBlock
<1> QED BY <1>1 DEF Presses

\* The block p is kept.
LEMMA KeptRound ==
  ASSUME NEW q, NEW s, NEW C, Source(q, s, C), NEW k \in Nat, k < Len(q), NEW c,
         Pressed(q, s, C, k, c),
         c.free = 0 \/ (Len(q[k + 1].pData) > c.free /\ c.free < nMax)
  PROVE  Pressed(q, s, C, k + 1, KeepBlock(c, q[k + 1]))
<1>0. PICK p, z, B, m : p = q[k + 1] /\ z = s[k + 1] /\ B = c.blocks /\ m = Len(B)
  OBVIOUS
<1>1. /\ Laid(q, s, C) /\ Ids(q) /\ Fit(q) /\ Filled(q)
      /\ Len(q) # 0 => q[1].nStart = 0
      /\ Built(q, k, C, z, c) /\ Known(q, c.entry, k + 1)
  BY <1>0 DEF Source, Pressed
<1>2. q \in Seq(BlockInfos) /\ Len(q) \in Nat /\ k + 1 \in 1 .. Len(q)
  <2>1. q \in Seq(BlockInfos) /\ Len(q) \in Nat
    BY <1>1, LaidFacts
  <2> QED BY <2>1
<1>3. /\ p \in BlockInfos /\ z \in Nat /\ Len(p.pData) \in Nat /\ p.pData \in Seq(Elems)
      /\ s[k + 1 + 1] = z + Len(p.pData)
  BY <1>0, <1>1, <1>2, BlockFacts
<1>4. c \in Presses /\ Kept(q, k, c) /\ FreeRight(c)
  BY <1>1 DEF Built
<1>5. B \in Seq(BlockInfos) /\ m \in Nat
  BY <1>0, <1>4, PressFacts
<1>6. Follows(C, z, p.pData)
  <2>1. ASSUME NEW i \in 1 .. Len(p.pData) PROVE C[z + i] = p.pData[i]
    BY <1>0, <1>1, <1>2, PlaceFacts
  <2> QED BY <1>3, <2>1 DEF Follows
<1>7. Fits(q, k, C, z, c, p)
  <2>1. p.pData # <<>> /\ Len(p.pData) <= MAXENTRY
    BY <1>0, <1>1, <1>2 DEF Fit, Filled
  <2>2. \A i \in 1 .. Len(p.pData) : c.entry[p.pData[i]] = [pBlock |-> p.id, nOffset |-> i - 1]
    <3>1. k + 1 \in k + 1 .. Len(q)
      BY <1>2
    <3> QED BY <1>0, <1>1, <3>1 DEF Known
  <2>3. m # 0 => Closed(B[m], p)
    BY <1>0, <1>4 DEF FreeRight, Closed
  <2>4. m = 0 => p.nStart = 0
    <3>1. m = 0 => k = 0
      BY <1>0, <1>4 DEF Kept
    <3>2. k = 0 => k + 1 = 1
      OBVIOUS
    <3> QED BY <1>0, <1>1, <1>2, <3>1, <3>2
  <2> QED BY <1>0, <1>3, <1>6, <2>1, <2>2, <2>3, <2>4 DEF Fits
<1>8. Built(q, k + 1, C, z + Len(p.pData), KeepBlock(c, p))
  BY <1>1, <1>2, <1>7, KeepStep
<1>9. KeepBlock(c, p).entry = c.entry
  BY <1>4, KeepEntry
<1>10. Known(q, c.entry, k + 1 + 1)
  <2>1. \A j \in k + 1 + 1 .. Len(q) : j \in k + 1 .. Len(q)
    BY <1>2
  <2> QED BY <1>1, <2>1 DEF Known
<1> QED BY <1>0, <1>3, <1>8, <1>9, <1>10 DEF Pressed

\* The elements mv of the block p go into the block to, and those of rs stay.
Split(c, p, n, mv, rs) ==
  /\ n = IF Len(p.pData) > c.free THEN c.free ELSE Len(p.pData)
  /\ mv = SubSeq(p.pData, 1, n) /\ rs = SubSeq(p.pData, n + 1, Len(p.pData))

Halves(P, n, f, mv, rs) ==
  /\ n \in Nat /\ n <= f /\ n <= Len(P) /\ Len(P) \in Nat
  /\ mv \in Seq(Elems) /\ Len(mv) = n /\ \A i \in 1 .. n : mv[i] = P[i]
  /\ rs \in Seq(Elems) /\ Len(rs) = Len(P) - n
  /\ \A i \in 1 .. Len(P) - n : rs[i] = P[n + i]
  /\ rs # <<>> => n = f

LEMMA SplitFacts ==
  ASSUME NEW c \in Presses, c.free > 0, NEW p \in BlockInfos, NEW n, NEW mv, NEW rs,
         Split(c, p, n, mv, rs)
  PROVE  Halves(p.pData, n, c.free, mv, rs)
<1>1. PICK P, L, f : P = p.pData /\ L = Len(P) /\ f = c.free
  OBVIOUS
<1>2. P \in Seq(Elems) /\ L \in Nat /\ f \in Nat
  BY <1>1, PressFacts, LenProperties DEF BlockInfos
<1>3. n = (IF L > f THEN f ELSE L) /\ mv = SubSeq(P, 1, n) /\ rs = SubSeq(P, n + 1, L)
  BY <1>1 DEF Split
<1>4. n \in Nat /\ n <= f /\ n <= L
  BY <1>2, <1>3
<1>5. mv \in Seq(Elems) /\ Len(mv) = n /\ \A i \in 1 .. n : mv[i] = P[i]
  <2>1. n \in 0 .. Len(P)
    BY <1>1, <1>2, <1>4
  <2> QED BY <1>2, <1>3, <2>1, FrontOfSeq
<1>6. rs \in Seq(Elems) /\ Len(rs) = L - n /\ \A i \in 1 .. L - n : rs[i] = P[n + i]
  <2>1. PICK x : x = n + 1 /\ x \in 1 .. Len(P) + 1 /\ L \in x - 1 .. Len(P)
    BY <1>1, <1>2, <1>4
  <2>2. /\ rs \in Seq(Elems) /\ Len(rs) = L - x + 1
        /\ \A i \in 1 .. L - x + 1 : rs[i] = P[x + i - 1]
    <3>1. rs = SubSeq(P, x, L)
      BY <1>3, <2>1
    <3> QED BY <1>2, <2>1, <3>1, PartOfSeq
  <2>3. L - x + 1 = L - n
    BY <1>2, <1>4, <2>1
  <2>4. ASSUME NEW i \in 1 .. L - n PROVE x + i - 1 = n + i
    BY <1>2, <1>4, <2>1
  <2> QED BY <2>2, <2>3, <2>4
<1>7. rs # <<>> => n = f
  <2>1. CASE L > f
    BY <1>3, <2>1
  <2>2. CASE ~(L > f)
    <3>1. Len(rs) = 0
      BY <1>2, <1>3, <1>6, <2>2
    <3> QED BY <1>6, <3>1, EmptySeq
  <2> QED BY <2>1, <2>2
<1> QED BY <1>1, <1>2, <1>4, <1>5, <1>6, <1>7 DEF Halves

\* The entries then.
HasSplit(q, k, C, z, c, mv, rs, en) ==
  /\ CanFill(q, k, C, z, c, mv, en)
  /\ Follows(C, z + Len(mv), rs)
  /\ \A i \in 1 .. Len(rs) : en[rs[i]] = [pBlock |-> q[k + 1].id, nOffset |-> i - 1]
  /\ Known(q, en, k + 2)

LEMMA SplitEntries ==
  ASSUME NEW q, NEW s, NEW C, Source(q, s, C), NEW k \in Nat, k < Len(q), NEW c,
         Pressed(q, s, C, k, c), c.free > 0, NEW n, NEW mv, NEW rs, Split(c, q[k + 1], n, mv, rs),
         NEW en, en = FilledEntries(c.entry, c.blocks[c.into], mv, rs)
  PROVE  HasSplit(q, k, C, s[k + 1], c, mv, rs, en)
<1>0. PICK p, z, B, m, L, old : /\ p = q[k + 1] /\ z = s[k + 1] /\ B = c.blocks /\ m = Len(B)
                                /\ L = Len(p.pData) /\ old = c.entry
  OBVIOUS
<1>1. /\ Laid(q, s, C) /\ Ids(q) /\ Fit(q) /\ Filled(q) /\ Distinct(C, 0)
      /\ Built(q, k, C, z, c) /\ Known(q, old, k + 1)
  BY <1>0 DEF Source, Pressed
<1>2. q \in Seq(BlockInfos) /\ Len(q) \in Nat /\ k + 1 \in 1 .. Len(q)
  <2>1. q \in Seq(BlockInfos) /\ Len(q) \in Nat
    BY <1>1, LaidFacts
  <2> QED BY <2>1
<1>3. /\ p \in BlockInfos /\ p.id \in Nat /\ z \in Nat /\ L \in Nat /\ p.pData \in Seq(Elems)
      /\ Len(C) \in Nat
  BY <1>0, <1>1, <1>2, BlockFacts
<1>4. c \in Presses /\ FreeRight(c) /\ \E t : LaidUpTo(B, t, C, z)
  BY <1>0, <1>1 DEF Built, Packed
<1>5. B \in Seq(BlockInfos) /\ m \in Nat /\ old \in [Elems -> Entries \cup {None}]
  BY <1>0, <1>4, PressFacts
<1>6. m # 0 /\ c.into = m /\ m \in 1 .. m
  <2>1. m # 0 /\ c.into = m
    BY <1>0, <1>4 DEF FreeRight
  <2> QED BY <1>5, <2>1
<1>7. PICK to : to = B[m] /\ to \in BlockInfos
  <2>1. B[m] \in BlockInfos
    BY <1>0, <1>5, <1>6, ElementOfSeq
  <2> QED BY <2>1
<1>8. /\ n \in Nat /\ n <= c.free /\ n <= L
      /\ mv \in Seq(Elems) /\ Len(mv) = n /\ \A i \in 1 .. n : mv[i] = p.pData[i]
      /\ rs \in Seq(Elems) /\ Len(rs) = L - n
      /\ \A i \in 1 .. L - n : rs[i] = p.pData[n + i]
  <2>1. Halves(p.pData, n, c.free, mv, rs)
    <3>1. Split(c, p, n, mv, rs) /\ c.free > 0
      BY <1>0
    <3> QED BY <1>3, <1>4, <3>1, SplitFacts
  <2> QED BY <1>0, <2>1 DEF Halves
<1>9. \A i \in 1 .. n : i \in 1 .. L
  BY <1>3, <1>8
<1>10. \A i \in 1 .. L - n : n + i \in 1 .. L
  BY <1>3, <1>8
<1>11. \A i, j \in 1 .. L : p.pData[i] = p.pData[j] => i = j
  BY <1>0, <1>1, <1>2, NoOther
<1>12. Apart(mv, rs)
  <2>1. ASSUME NEW i \in 1 .. n, NEW j \in 1 .. n, mv[i] = mv[j] PROVE i = j
    BY <1>8, <1>9, <1>11, <2>1
  <2>2. ASSUME NEW i \in 1 .. n, NEW j \in 1 .. L - n, mv[i] = rs[j] PROVE FALSE
    <3>1. p.pData[i] = p.pData[n + j]
      BY <1>8, <2>2
    <3>2. i = n + j
      BY <1>9, <1>10, <1>11, <3>1
    <3> QED BY <1>8, <3>2
  <2> QED BY <1>8, <2>1, <2>2 DEF Apart
<1>13. \A i \in 1 .. L : old[p.pData[i]] = [pBlock |-> p.id, nOffset |-> i - 1]
  <2>1. k + 1 \in k + 1 .. Len(q)
    BY <1>2
  <2> QED BY <1>0, <1>1, <2>1 DEF Known
<1>14. Staying(old, rs, p.id, Len(mv))
  BY <1>8, <1>10, <1>13 DEF Staying
<1>15. /\ en \in [Elems -> Entries \cup {None}]
       /\ \A i \in 1 .. Len(mv) : en[mv[i]] = [pBlock |-> to.id, nOffset |-> Len(to.pData) + i - 1]
       /\ \A i \in 1 .. Len(rs) : en[rs[i]] = [pBlock |-> p.id, nOffset |-> i - 1]
       /\ \A e \in Elems : (\A i \in 1 .. Len(mv) : mv[i] # e) /\ (\A i \in 1 .. Len(rs) : rs[i] # e)
                             => en[e] = old[e]
  <2>1. en = FilledEntries(old, to, mv, rs)
    BY <1>0, <1>6, <1>7
  <2>2. Refilled(old, to, mv, rs, p.id, en)
    BY <1>3, <1>5, <1>7, <1>12, <1>14, <2>1, FilledEntriesFacts
  <2> QED BY <2>2 DEF Refilled
<1>16. ASSUME NEW e \in Elems, \A i \in 1 .. L : p.pData[i] # e PROVE en[e] = old[e]
  <2>1. \A i \in 1 .. Len(mv) : mv[i] # e
    BY <1>8, <1>9, <1>16
  <2>2. \A i \in 1 .. Len(rs) : rs[i] # e
    BY SMTT(30), <1>8, <1>10, <1>16
  <2> QED BY <1>15, <2>1, <2>2
<1>17. ASSUME NEW j \in 1 .. m, NEW i \in 1 .. Len(B[j].pData)
       PROVE  en[B[j].pData[i]] = old[B[j].pData[i]]
  <2>1. PICK t : LaidUpTo(B, t, C, z)
    BY <1>4
  <2>2. PICK y \in 1 .. z : y = t[j] + i /\ C[y] = B[j].pData[i]
    <3>1. t[j] + i \in 1 .. z
      BY <1>0, <2>1, UpToRises
    <3>2. C[t[j] + i] = B[j].pData[i]
      BY <1>0, <2>1 DEF LaidUpTo
    <3> QED BY <3>1, <3>2
  <2>3. B[j].pData[i] \in Elems
    <3>1. B[j].pData \in Seq(Elems)
      BY <1>0, <2>1, UpToFacts
    <3> QED BY <3>1, ElementOfSeq
  <2>4. ASSUME NEW l \in 1 .. L, p.pData[l] = B[j].pData[i] PROVE FALSE
    <3>1. z + l \in 1 .. Len(C) /\ C[z + l] = p.pData[l] /\ Len(C) \in Nat
      <4>1. l \in 1 .. Len(q[k + 1].pData)
        BY <1>0
      <4>2. s[k + 1] + l \in 1 .. Len(C) /\ C[s[k + 1] + l] = q[k + 1].pData[l]
        BY <1>1, <1>2, <4>1, PlaceFacts
      <4> QED BY <1>0, <1>3, <4>2
    <3>2. y \in 1 .. Len(C) /\ y # z + l /\ y # 0 /\ z + l # 0
      BY SMTT(30), <1>3, <3>1
    <3> QED BY <1>1, <2>2, <2>4, <3>1, <3>2 DEF Distinct
  <2> QED BY <1>16, <2>3, <2>4
<1>18. MovedEntries(B, old, mv, en)
  BY <1>0, <1>7, <1>15, <1>17 DEF MovedEntries
<1>19. /\ Follows(C, z, mv) /\ Follows(C, z + n, rs)
  <2>1. ASSUME NEW i \in 1 .. L PROVE C[z + i] = p.pData[i]
    BY <1>0, <1>1, <1>2, PlaceFacts
  <2>2. ASSUME NEW i \in 1 .. n PROVE C[z + i] = mv[i]
    BY <1>8, <1>9, <2>1
  <2>3. ASSUME NEW i \in 1 .. L - n PROVE C[z + n + i] = rs[i]
    <3>1. z + n + i = z + (n + i) /\ n + i \in 1 .. L
      BY <1>3, <1>8, <1>10
    <3> QED BY <1>8, <2>1, <3>1
  <2> QED BY <1>8, <2>2, <2>3 DEF Follows
<1>20. CanFill(q, k, C, z, c, mv, en)
  BY <1>0, <1>1, <1>8, <1>18, <1>19 DEF CanFill
<1>21. Known(q, en, k + 2)
  <2>1. ASSUME NEW j \in k + 2 .. Len(q), NEW i \in 1 .. Len(q[j].pData)
        PROVE  en[q[j].pData[i]] = [pBlock |-> q[j].id, nOffset |-> i - 1]
    <3>1. j \in 1 .. Len(q) /\ j \in k + 1 .. Len(q) /\ j # k + 1
      BY <1>2
    <3>2. q[j].pData[i] \in Elems
      BY <1>1, <3>1, PlaceFacts
    <3>3. ASSUME NEW l \in 1 .. L PROVE p.pData[l] # q[j].pData[i]
      BY <1>0, <1>1, <1>2, <3>1, NoOther
    <3>4. en[q[j].pData[i]] = old[q[j].pData[i]]
      BY <1>16, <3>2, <3>3
    <3> QED BY <1>1, <3>1, <3>4 DEF Known
  <2> QED BY <2>1 DEF Known
<1> QED BY <1>0, <1>8, <1>15, <1>19, <1>20, <1>21 DEF HasSplit

LEMMA FillFromIs ==
  ASSUME NEW c, NEW p, NEW n, NEW mv, NEW rs, Split(c, p, n, mv, rs), Len(mv) = n,
         NEW en, en = FilledEntries(c.entry, c.blocks[c.into], mv, rs)
  PROVE  FillFrom(c, p) = IF rs = <<>> THEN Emptied(Filling(c, mv, en))
                          ELSE KeepBlock(Filling(c, mv, en), [p EXCEPT !.pData = rs])
<1>1. /\ n = IF Len(p.pData) > c.free THEN c.free ELSE Len(p.pData)
      /\ mv = SubSeq(p.pData, 1, n) /\ rs = SubSeq(p.pData, n + 1, Len(p.pData))
  BY DEF Split
<1> DEFINE to == c.blocks[c.into]
           f == [e \in Elems |->
                  IF e \in ToSet(mv)
                  THEN [pBlock |-> to.id,
                        nOffset |-> Len(to.pData) - 1 + CHOOSE i \in 1 .. n : mv[i] = e]
                  ELSE IF e \in ToSet(rs) THEN [c.entry[e] EXCEPT !.nOffset = @ - n]
                  ELSE c.entry[e]]
           w == [c EXCEPT !.blocks[c.into].pData = @ \o mv, !.free = @ - n,
                          !.entry = f, !.changed = IF @ = None THEN c.cur ELSE @]
<1>2. f = en
  BY DEF FilledEntries
<1>3. w = Filling(c, mv, en)
  BY <1>2 DEF Filling
<1>4. FillFrom(c, p) = IF rs = <<>> THEN [w EXCEPT !.deleted = TRUE, !.cur = @ + 1]
                       ELSE KeepBlock(w, [p EXCEPT !.pData = rs])
  BY <1>1, ZenonT(60) DEF FillFrom
<1> HIDE DEF w
<1> QED BY <1>3, <1>4 DEF Emptied

\* The block p is moved, as far as there is room for it.
LEMMA FilledRound ==
  ASSUME NEW q, NEW s, NEW C, Source(q, s, C), NEW k \in Nat, k < Len(q), NEW c,
         Pressed(q, s, C, k, c), c.free > 0
  PROVE  Pressed(q, s, C, k + 1, FillFrom(c, q[k + 1]))
<1>0. PICK p, z, n, mv, rs, en, f, w :
        /\ p = q[k + 1] /\ z = s[k + 1]
        /\ n = IF Len(p.pData) > c.free THEN c.free ELSE Len(p.pData)
        /\ mv = SubSeq(p.pData, 1, n) /\ rs = SubSeq(p.pData, n + 1, Len(p.pData))
        /\ en = FilledEntries(c.entry, c.blocks[c.into], mv, rs)
        /\ f = Filling(c, mv, en) /\ w = FillFrom(c, p)
  OBVIOUS
<1>1. Laid(q, s, C) /\ Ids(q) /\ Fit(q) /\ Built(q, k, C, z, c)
  BY <1>0 DEF Source, Pressed
<1>2. q \in Seq(BlockInfos) /\ Len(q) \in Nat /\ k + 1 \in 1 .. Len(q)
  <2>1. q \in Seq(BlockInfos) /\ Len(q) \in Nat
    BY <1>1, LaidFacts
  <2> QED BY <2>1
<1>3. /\ p \in BlockInfos /\ z \in Nat /\ Len(p.pData) \in Nat
      /\ s[k + 1 + 1] = z + Len(p.pData)
  BY <1>0, <1>1, <1>2, BlockFacts
<1>4. c \in Presses
  BY <1>1 DEF Built
<1>5. Split(c, p, n, mv, rs)
  BY <1>0 DEF Split
<1>6. Halves(p.pData, n, c.free, mv, rs)
  BY <1>3, <1>4, <1>5, SplitFacts
<1>7. /\ n \in Nat /\ n <= Len(p.pData) /\ Len(mv) = n /\ mv \in Seq(Elems) /\ rs \in Seq(Elems)
      /\ Len(rs) = Len(p.pData) - n
      /\ rs # <<>> => n = c.free
  BY <1>6 DEF Halves
<1>8. /\ CanFill(q, k, C, z, c, mv, en)
      /\ Follows(C, z + n, rs)
      /\ \A i \in 1 .. Len(rs) : en[rs[i]] = [pBlock |-> p.id, nOffset |-> i - 1]
      /\ Known(q, en, k + 2)
  <2>1. HasSplit(q, k, C, s[k + 1], c, mv, rs, en)
    <3>1. Split(c, q[k + 1], n, mv, rs)
      BY <1>0, <1>5
    <3>2. en = FilledEntries(c.entry, c.blocks[c.into], mv, rs)
      BY SMTT(30), <1>0
    <3> QED BY <3>1, <3>2, SplitEntries
  <2> QED BY ZenonT(60), <1>0, <1>7, <2>1 DEF HasSplit
<1>9. Built(q, k, C, z + n, f)
  <2>1. Built(q, k, C, z + Len(mv), Filling(c, mv, en))
    BY <1>8, FillStep
  <2> QED BY <1>0, <1>7, <2>1
<1>10. f \in Presses /\ f.entry = en /\ f.free = c.free - n /\ f.changed # None
  <2>1. f \in Presses
    BY SMTT(30), <1>9 DEF Built
  <2>2. PICK b, h : /\ f = [c EXCEPT !.blocks = b, !.free = c.free - n, !.entry = en, !.changed = h]
                    /\ h = IF c.changed = None THEN c.cur ELSE c.changed
    BY ZenonT(60), <1>0, <1>7 DEF Filling
  <2>3. f.entry = en /\ f.free = c.free - n /\ f.changed = h
    BY <1>4, <2>2 DEF Presses
  <2>4. c.cur \in Nat /\ h # None
    <3>1. c.cur \in Nat
      BY <1>4, PressFacts
    <3> QED BY <2>2, <3>1, NoneAssumption
  <2> QED BY <2>1, <2>3, <2>4
<1>11. w = IF rs = <<>> THEN Emptied(f) ELSE KeepBlock(f, [p EXCEPT !.pData = rs])
  <2>1. Len(mv) = n /\ en = FilledEntries(c.entry, c.blocks[c.into], mv, rs)
    BY <1>0, <1>7
  <2>2. FillFrom(c, p) = IF rs = <<>> THEN Emptied(Filling(c, mv, en))
                         ELSE KeepBlock(Filling(c, mv, en), [p EXCEPT !.pData = rs])
    BY <1>5, <2>1, FillFromIs
  <2>3. w = FillFrom(c, p) /\ f = Filling(c, mv, en)
    BY <1>0
  <2> QED BY <2>2, <2>3, Zenon
<1>12. k + 2 = k + 1 + 1
  BY SMTT(30)
<1>13. CASE rs = <<>>
  <2>1. z + n = s[k + 1 + 1]
    <3>1. Len(rs) = 0
      BY <1>13
    <3>2. Len(p.pData) = n
      BY <1>3, <1>7, <3>1
    <3> QED BY <1>3, <3>2
  <2>2. Built(q, k + 1, C, z + n, Emptied(f)) /\ Emptied(f).entry = f.entry
    BY <1>9, <1>10, EmptiedStep
  <2>3. Built(q, k + 1, C, s[k + 1 + 1], w) /\ w.entry = en
    BY <1>10, <1>11, <1>13, <2>1, <2>2
  <2> QED BY <1>0, <1>8, <1>12, <2>3 DEF Pressed
<1>14. CASE rs # <<>>
  <2>1. n = c.free /\ f.free = 0
    <3>1. n = c.free
      BY <1>7, <1>14
    <3> QED BY <1>7, <1>10, <3>1
  <2>2. PICK r : r = [p EXCEPT !.pData = rs]
    OBVIOUS
  <2>3. r \in BlockInfos /\ r.pData = rs /\ r.id = p.id
    BY <1>3, <1>7, <2>2 DEF BlockInfos
  <2>4. FreeRight(f) /\ Kept(q, k, f)
    BY <1>9 DEF Built
  <2>5. Len(f.blocks) # 0
    <3>1. f.changed \in 1 .. Len(f.blocks)
      BY SMTT(30), <1>10, <2>4 DEF Kept
    <3> QED BY <3>1
  <2>6. Fits(q, k, C, z + n, f, r)
    <3>1. Len(rs) <= MAXENTRY
      <4>1. Len(p.pData) <= MAXENTRY
        BY <1>0, <1>1, <1>2 DEF Fit
      <4>2. MAXENTRY \in Nat
        BY SizesAssumption
      <4> QED BY <1>3, <1>7, <4>1, <4>2
    <3>2. Closed(f.blocks[Len(f.blocks)], r)
      BY <2>1, <2>4, <2>5 DEF FreeRight, Closed
    <3>3. \A i \in 1 .. Len(r.pData) : f.entry[r.pData[i]] = [pBlock |-> r.id, nOffset |-> i - 1]
      BY <1>8, <1>10, <2>3
    <3> QED BY <1>0, <1>8, <1>10, <1>14, <2>3, <2>5, <3>1, <3>2, <3>3 DEF Fits
  <2>7. Built(q, k + 1, C, z + n + Len(rs), KeepBlock(f, r))
    <3>1. PICK y : y = z + n
      OBVIOUS
    <3>2. Built(q, k, C, y, f) /\ Fits(q, k, C, y, f, r)
      BY <1>9, <2>6, <3>1
    <3>3. Built(q, k + 1, C, y + Len(r.pData), KeepBlock(f, r))
      BY <1>1, <1>2, <3>2, KeepStep
    <3> QED BY <2>3, <3>1, <3>3
  <2>8. z + n + Len(rs) = s[k + 1 + 1]
    <3>1a. PICK L \in Nat : L = Len(p.pData)
      BY <1>3, <1>7
    <3>1. PICK x : L = Len(p.pData) /\ x = s[k + 1 + 1] /\ x = z + L /\ Len(rs) = L - n
      BY <1>3, <1>7, <3>1a
    <3>2. z \in Nat /\ n \in Nat
      BY <1>3, <1>7
    <3>3. z + n + (L - n) = z + L
      BY <3>2
    <3> QED BY <3>1, <3>3
  <2>9. KeepBlock(f, r).entry = en
    BY <1>10, KeepEntry
  <2>10. Built(q, k + 1, C, s[k + 1 + 1], w) /\ w.entry = en
    BY <1>11, <1>14, <2>2, <2>7, <2>8, <2>9
  <2> QED BY <1>0, <1>8, <1>12, <2>10 DEF Pressed
<1> QED BY <1>13, <1>14

LEMMA RoundFacts ==
  ASSUME NEW q, NEW s, NEW C, Source(q, s, C), NEW k \in Nat, k < Len(q), NEW c,
         Pressed(q, s, C, k, c)
  PROVE  Pressed(q, s, C, k + 1, CompressBlock(c, q[k + 1]))
<1>1. c.free \in Nat
  BY PressFacts DEF Pressed, Built
<1>2. CASE c.free = 0 \/ (Len(q[k + 1].pData) > c.free /\ c.free < nMax)
  BY <1>2, KeptRound DEF CompressBlock
<1>3. CASE ~(c.free = 0 \/ (Len(q[k + 1].pData) > c.free /\ c.free < nMax))
  <2>1. c.free > 0
    BY <1>1, <1>3
  <2> QED BY <1>3, <2>1, FilledRound DEF CompressBlock
<1> QED BY <1>2, <1>3

\* Where nothing is moved, the next block is kept as well.
LEMMA DenseRound ==
  ASSUME NEW q, NEW s, NEW C, Source(q, s, C), Dense(q), NEW k \in Nat, k < Len(q), NEW c,
         Pressed(q, s, C, k, c), c.changed = None
  PROVE  CompressBlock(c, q[k + 1]).changed = None
<1>1. c \in Presses /\ Kept(q, k, c) /\ FreeRight(c)
  BY DEF Pressed, Built
<1>2. Len(c.blocks) = k /\ \A j \in 1 .. k : c.blocks[j] = q[j]
  BY <1>1 DEF Kept
<1>3. Len(q) \in Nat
  BY LaidFacts DEF Source
<1>4. c.free = 0 \/ (Len(q[k + 1].pData) > c.free /\ c.free < nMax)
  <2>1. CASE k = 0
    BY <1>1, <1>2, <2>1 DEF FreeRight
  <2>2. CASE k # 0
    <3>1. k \in 1 .. Len(q) - 1 /\ k \in 1 .. k
      BY <1>3, <2>2
    <3>2. c.free = Room(q[k])
      BY <1>1, <1>2, <2>2, <3>1 DEF FreeRight
    <3>3. Closed(q[k], q[k + 1])
      BY <3>1 DEF Dense
    <3> QED BY <3>2, <3>3 DEF Closed
  <2> QED BY <2>1, <2>2
<1>5. CompressBlock(c, q[k + 1]) = KeepBlock(c, q[k + 1])
  BY <1>4 DEF CompressBlock
<1>6. PICK B, i1, f1, j1 :
        KeepBlock(c, q[k + 1]) = [c EXCEPT !.blocks = B, !.into = i1, !.free = f1, !.cur = j1]
  BY DEF KeepBlock
<1>7. KeepBlock(c, q[k + 1]).changed = c.changed
  BY <1>1, <1>6 DEF Presses
<1> QED BY <1>5, <1>7

\* The states of the loop, for the first m blocks.
Goes(f, a, m) ==
  f[0] = CompressStart(a) /\ \A k \in 1 .. m : f[k] = CompressBlock(f[k - 1], a.ppInf[k])

LEMMA LoopGoes ==
  ASSUME NEW a, NEW n \in Nat
  PROVE  \E f : f = [k \in 0 .. n |-> f[k]] /\ Goes(f, a, n)
<1> DEFINE T == {m \in 0 .. n : \E f : f = [k \in 0 .. m |-> f[k]] /\ Goes(f, a, m)}
<1>1. 0 \in T
  <2> DEFINE g == [k \in 0 .. 0 |-> CompressStart(a)]
  <2>1. g = [k \in 0 .. 0 |-> g[k]] /\ g[0] = CompressStart(a)
    OBVIOUS
  <2> HIDE DEF g
  <2>2. Goes(g, a, 0)
    BY <2>1 DEF Goes
  <2> QED BY <2>1, <2>2
<1>2. ASSUME NEW m \in 1 .. n, m - 1 \in T PROVE m \in T
  <2>1. PICK f : f = [k \in 0 .. m - 1 |-> f[k]] /\ Goes(f, a, m - 1)
    BY <1>2
  <2> DEFINE g == [k \in 0 .. m |-> IF k = m THEN CompressBlock(f[m - 1], a.ppInf[m]) ELSE f[k]]
  <2>2. g[m] = CompressBlock(f[m - 1], a.ppInf[m]) /\ \A k \in 0 .. m - 1 : g[k] = f[k]
    OBVIOUS
  <2>3. g = [k \in 0 .. m |-> g[k]]
    OBVIOUS
  <2> HIDE DEF g
  <2>4. g[0] = CompressStart(a)
    <3>1. 0 \in 0 .. m - 1
      OBVIOUS
    <3> QED BY <2>1, <2>2, <3>1 DEF Goes
  <2>5. ASSUME NEW k \in 1 .. m PROVE g[k] = CompressBlock(g[k - 1], a.ppInf[k])
    <3>1. k - 1 \in 0 .. m - 1 /\ m - 1 \in 0 .. m - 1
      OBVIOUS
    <3>2. CASE k = m
      BY <2>2, <3>1, <3>2
    <3>3. CASE k # m
      <4>1. k \in 1 .. m - 1 /\ k \in 0 .. m - 1
        BY <3>3
      <4> QED BY <2>1, <2>2, <3>1, <4>1 DEF Goes
    <3> QED BY <3>2, <3>3
  <2>6. Goes(g, a, m)
    BY <2>4, <2>5 DEF Goes
  <2> QED BY <2>3, <2>6
<1>3. n \in T
  <2> HIDE DEF T
  <2> QED BY <1>1, <1>2, Inductively
<1> QED BY <1>3

\* The function that Compress computes.
LoopOf(a) ==
  LET loop[k \in 0 .. nBlock(a)] ==
        IF k = 0 THEN CompressStart(a) ELSE CompressBlock(loop[k - 1], a.ppInf[k])
  IN loop

LEMMA LoopIs ==
  ASSUME NEW a, nBlock(a) \in Nat
  PROVE  Goes(LoopOf(a), a, nBlock(a))
<1> DEFINE n == nBlock(a)
           F(f) == [k \in 0 .. n |-> IF k = 0 THEN CompressStart(a)
                                     ELSE CompressBlock(f[k - 1], a.ppInf[k])]
<1>1. PICK g : g = [k \in 0 .. n |-> g[k]] /\ Goes(g, a, n)
  BY LoopGoes
<1>2. g = F(g)
  <2>1. ASSUME NEW k \in 0 .. n
        PROVE  g[k] = IF k = 0 THEN CompressStart(a) ELSE CompressBlock(g[k - 1], a.ppInf[k])
    <3>1. CASE k = 0
      BY <1>1, <3>1 DEF Goes
    <3>2. CASE k # 0
      <4>1. k \in 1 .. n
        BY <3>2
      <4> QED BY <1>1, <3>2, <4>1 DEF Goes
    <3> QED BY <3>1, <3>2
  <2> QED BY <1>1, <2>1
<1>3. PICK w : w = CHOOSE f : f = F(f)
  OBVIOUS
<1>4. w = F(w)
  <2> HIDE DEF F
  <2> QED BY <1>2, <1>3
<1>5. LoopOf(a) = w
  BY <1>3 DEF LoopOf
<1>6. Goes(w, a, n)
  <2>1. \A k \in 0 .. n : w[k] = IF k = 0 THEN CompressStart(a)
                                 ELSE CompressBlock(w[k - 1], a.ppInf[k])
    BY <1>4
  <2>2. w[0] = CompressStart(a)
    <3>1. 0 \in 0 .. n
      OBVIOUS
    <3> QED BY <2>1, <3>1
  <2>3. ASSUME NEW k \in 1 .. n PROVE w[k] = CompressBlock(w[k - 1], a.ppInf[k])
    <3>1. k \in 0 .. n /\ k # 0
      OBVIOUS
    <3> QED BY <2>1, <3>1
  <2> QED BY <2>2, <2>3 DEF Goes
<1> QED BY <1>5, <1>6

\* The start of the loop.
LEMMA StartPressed ==
  ASSUME NEW a, NEW s, NEW C, Source(a.ppInf, s, C), a.entry \in [Elems -> Entries \cup {None}],
         Known(a.ppInf, a.entry, 1)
  PROVE  Pressed(a.ppInf, s, C, 0, CompressStart(a)) /\ CompressStart(a).changed = None
<1>0. PICK q, c : q = a.ppInf /\ c = CompressStart(a)
  OBVIOUS
<1>1. c = [blocks |-> <<>>, into |-> 0, free |-> 0, deleted |-> FALSE, changed |-> None,
           cur |-> 0, entry |-> a.entry]
  BY <1>0 DEF CompressStart
<1>2. c \in Presses
  <2>1. <<>> \in Seq(BlockInfos)
    BY EmptySeq
  <2> QED BY <1>1, <2>1 DEF Presses
<1>3. Len(c.blocks) = 0 /\ c.blocks = <<>>
  BY <1>1
<1>4. s[0 + 1] = 0
  BY LaidFacts DEF Source
<1>5. Packed(q, 0, C, 0, c.blocks)
  <2>1. LaidUpTo(c.blocks, [k \in 1 .. 1 |-> 0], C, 0)
    <3>1. c.blocks \in Seq(BlockInfos)
      BY <1>2, PressFacts
    <3>2. [k \in 1 .. 1 |-> 0] \in [1 .. Len(c.blocks) + 1 -> Nat]
      BY <1>3
    <3> QED BY <1>3, <3>1, <3>2 DEF LaidUpTo
  <2>2. \E t : LaidUpTo(c.blocks, t, C, 0)
    BY <2>1
  <2>3. \A j \in 1 .. 0 : FALSE
    OBVIOUS
  <2>4. Fit(c.blocks) /\ Filled(c.blocks) /\ Ids(c.blocks) /\ Among(c.blocks, q, 0)
    BY <1>3, <2>3 DEF Fit, Filled, Ids, Among
  <2>5. Dense(c.blocks)
    <3>1. \A j \in 1 .. Len(c.blocks) - 1 : FALSE
      BY <1>3
    <3> QED BY <3>1 DEF Dense
  <2> QED BY <1>3, <2>2, <2>4, <2>5 DEF Packed
<1>6. Kept(q, 0, c) /\ FreeRight(c) /\ Known(c.blocks, c.entry, 1) /\ c.cur = 0 /\ Len(c.blocks) <= 0
  <2>1. Kept(q, 0, c)
    BY <1>1, <1>3 DEF Kept
  <2>2. FreeRight(c)
    BY <1>1, <1>3 DEF FreeRight
  <2>3. Known(c.blocks, c.entry, 1)
    BY <1>3 DEF Known
  <2> QED BY <1>1, <1>3, <2>1, <2>2, <2>3
<1>7. Built(q, 0, C, 0, c)
  BY <1>2, <1>5, <1>6 DEF Built
<1>8. Known(q, c.entry, 0 + 1)
  BY <1>0, <1>1
<1> QED BY <1>0, <1>1, <1>4, <1>7, <1>8 DEF Pressed

\* The loop ends with the whole of the elements in the new table.
LEMMA LoopFacts ==
  ASSUME NEW a, NEW s, NEW C, Source(a.ppInf, s, C), a.entry \in [Elems -> Entries \cup {None}],
         Known(a.ppInf, a.entry, 1)
  PROVE  /\ Pressed(a.ppInf, s, C, nBlock(a), LoopOf(a)[nBlock(a)])
         /\ Dense(a.ppInf) => LoopOf(a)[nBlock(a)].changed = None
<1>0. PICK q, n, f : q = a.ppInf /\ n = nBlock(a) /\ f = LoopOf(a)
  OBVIOUS
<1>1. n = Len(q) /\ n \in Nat
  BY <1>0, LaidFacts DEF Source, nBlock
<1>2. f[0] = CompressStart(a) /\ \A k \in 1 .. n : f[k] = CompressBlock(f[k - 1], q[k])
  BY <1>0, <1>1, LoopIs DEF Goes
<1> DEFINE T == {k \in 0 .. n : Pressed(q, s, C, k, f[k]) /\ (Dense(q) => f[k].changed = None)}
<1>3. 0 \in T
  BY <1>0, <1>1, <1>2, StartPressed
<1>4. ASSUME NEW k \in 1 .. n, k - 1 \in T PROVE k \in T
  <2>1. PICK j : j = k - 1 /\ j \in Nat /\ j < Len(q) /\ j + 1 = k
    BY <1>1
  <2>2. Pressed(q, s, C, j, f[j]) /\ (Dense(q) => f[j].changed = None)
    BY <1>4, <2>1
  <2>3. f[k] = CompressBlock(f[j], q[j + 1])
    BY <1>2, <2>1
  <2>4. Source(q, s, C)
    BY <1>0
  <2>5. Pressed(q, s, C, j + 1, f[k])
    BY <2>1, <2>2, <2>3, <2>4, RoundFacts
  <2>6. Dense(q) => f[k].changed = None
    BY <2>1, <2>2, <2>3, <2>4, DenseRound
  <2> QED BY <2>1, <2>5, <2>6
<1>5. n \in T
  <2> HIDE DEF T
  <2>1. n \in Nat
    BY <1>1
  <2>2. \A k \in 0 .. n : k \in T
    BY <1>3, <1>4, <2>1, Inductively
  <2> QED BY <2>1, <2>2
<1> QED BY <1>0, <1>5

-----------------------------------------------------------------------------
(* Compress.                                                                *)

\* The table that remains after blocks were deleted is large enough.
Left(a, B, b) == b = BlockDel(a, B) \/ b = [a EXCEPT !.ppInf = B]

HasTable(a, B, mx, b) ==
  mx \in Nat /\ Len(B) <= mx /\ b = [a EXCEPT !.ppInf = B, !.nMaxBlock = mx]

LEMMA BlockDelFacts ==
  ASSUME NEW a \in Arrays, NEW B \in Seq(BlockInfos), Len(B) <= a.nMaxBlock, NEW b, Left(a, B, b)
  PROVE  \E mx : HasTable(a, B, mx, b)
<1>1. PICK n, m, g : n = Len(B) /\ m = a.nMaxBlock /\ g = nBlockGrowSize
  OBVIOUS
<1>2. n \in Nat /\ m \in Nat /\ g \in Nat \ {0} /\ n <= m
  BY <1>1, LenProperties, SizesAssumption DEF Arrays
<1>3. PICK d : d = (n \div g + 1) * g
  OBVIOUS
<1>4. d \in Nat /\ n <= d
  <2>1. n \div g \in Nat /\ n < (n \div g + 1) * g
    BY <1>2
  <2> QED BY <1>2, <1>3, <2>1
<1>5. CASE b = [a EXCEPT !.ppInf = B]
  <2>1. b = [a EXCEPT !.ppInf = B, !.nMaxBlock = m]
    BY <1>1, <1>5 DEF Arrays
  <2> QED BY <1>1, <1>2, <2>1 DEF HasTable
<1>6. CASE b = BlockDel(a, B)
  <2>1. PICK mx : mx = IF m - n > g THEN d ELSE m
    OBVIOUS
  <2>2. b = [a EXCEPT !.ppInf = B, !.nMaxBlock = mx]
    BY <1>1, <1>3, <1>6, <2>1 DEF BlockDel
  <2>3. mx \in Nat /\ n <= mx
    BY <1>2, <1>4, <2>1
  <2> QED BY <1>1, <2>2, <2>3 DEF HasTable
<1> QED BY <1>5, <1>6 DEF Left

\* What Compress gives, and the number of the first block that it changed.
Compressed(a, C, r, ch) ==
  /\ Sound(r, C, 0) /\ Dense(r.ppInf) /\ ch \in Nat \cup {None}
  /\ ch # None => ch \in 1 .. Len(a.ppInf) /\ Room(a.ppInf[ch]) > 0
  /\ \A m \in 1 .. Len(a.ppInf) : ch = None \/ m < ch =>
       m <= Len(r.ppInf) /\ \A j \in 1 .. m : r.ppInf[j].pData = a.ppInf[j].pData

\* The first block gets its end, and the others their indices.
LEMMA FirstIndexed ==
  ASSUME NEW B, NEW t, NEW C, Laid(B, t, C), Len(B) # 0, B[1].nStart = 0,
         NEW u, u = UpdIndex([B EXCEPT ![1].nEnd = Len(B[1].pData) - 1], 0)
  PROVE  u \in Seq(BlockInfos) /\ SameBlocks(B, u) /\ Indexed(u, t, Len(u))
<1>0. PICK P, d, n : P = [B[1] EXCEPT !.nEnd = n - 1] /\ d = WithOne(B, 1, P) /\ n = Len(B[1].pData)
  OBVIOUS
<1>1. B \in Seq(BlockInfos) /\ Len(B) \in Nat /\ t[1] = 0 /\ 1 \in 1 .. Len(B)
  <2>1. B \in Seq(BlockInfos) /\ Len(B) \in Nat /\ t[1] = 0
    BY LaidFacts
  <2> QED BY <2>1
<1>2. n \in Nat /\ B[1] \in BlockInfos /\ t[1 + 1] = t[1] + n
  BY <1>0, <1>1, BlockFacts
<1>3. P \in BlockInfos /\ P.pData = B[1].pData /\ P.id = B[1].id /\ P.nStart = 0 /\ P.nEnd = n - 1
  <2>1. n - 1 \in Int
    BY <1>2
  <2> QED BY <1>0, <1>2, <2>1 DEF BlockInfos
<1>4. d \in Seq(BlockInfos) /\ Len(d) = Len(B) /\ d[1] = P /\ \A j \in 1 .. Len(B) : j # 1 => d[j] = B[j]
  <2>1. HasOne(B, 1, P, WithOne(B, 1, P))
    BY <1>1, <1>3, OneBlock
  <2> QED BY <1>0, <2>1 DEF HasOne
<1>5. SameBlocks(B, d)
  BY <1>3, <1>4 DEF SameBlocks
<1>6. Laid(d, t, C)
  BY <1>4, <1>5, SameLaid
<1>7. Indexed(d, t, 0 + 1)
  <2>1. t[1 + 1] = n /\ t[1] = 0
    BY <1>1, <1>2
  <2>2. d[1].nStart = t[1] /\ d[1].nEnd = t[1 + 1] - 1
    BY <1>3, <1>4, <2>1
  <2>3. \A k \in 1 .. 0 + 1 : k = 1
    OBVIOUS
  <2> QED BY <2>2, <2>3 DEF Indexed
<1>8. u = UpdIndex(d, 0)
  BY <1>0 DEF WithOne
<1>9. u \in Seq(BlockInfos) /\ SameBlocks(d, u) /\ Indexed(u, t, Len(d))
  <2>1. 0 \in 0 .. Len(d) - 1
    BY <1>1, <1>4
  <2> QED BY <1>6, <1>7, <1>8, <2>1, UpdIndexFacts
<1>10. SameBlocks(B, u) /\ Len(u) = Len(d)
  BY <1>4, <1>5, <1>9 DEF SameBlocks
<1> QED BY <1>9, <1>10

\* What the loop has made of all blocks.
PressEnd(q, C, t, c) ==
  /\ c \in Presses /\ Laid(c.blocks, t, C) /\ Right(c.blocks, c.entry, t, 0)
  /\ Fit(c.blocks) /\ Filled(c.blocks) /\ Dense(c.blocks) /\ Ids(c.blocks)
  /\ Len(c.blocks) # 0 /\ c.blocks[1].nStart = 0 /\ Len(c.blocks) <= Len(q)
  /\ Kept(q, Len(q), c)

LEMMA TidySource ==
  ASSUME NEW a, NEW s, NEW C, Tidy(a, s, C, 0)
  PROVE  Source(a.ppInf, s, C) /\ Known(a.ppInf, a.entry, 1)
<1>1. PICK q : q = a.ppInf
  OBVIOUS
<1>2. /\ Laid(q, s, C) /\ Ids(q) /\ Fit(q) /\ Filled(q) /\ Right(q, a.entry, s, 0)
      /\ Indexed(q, s, Len(q))
  BY <1>1 DEF Tidy, Holding
<1>3. Distinct(C, 0)
  BY <1>2, RightDistinct
<1>4. Len(q) # 0 => q[1].nStart = 0
  <2>1. s[1] = 0 /\ Len(q) \in Nat
    BY <1>2, LaidFacts
  <2>2. Len(q) # 0 => 1 \in 1 .. Len(q)
    BY <2>1
  <2> QED BY <1>2, <2>1, <2>2 DEF Indexed
<1>5. ASSUME NEW j \in 1 .. Len(q), NEW i \in 1 .. Len(q[j].pData)
      PROVE  a.entry[q[j].pData[i]] = [pBlock |-> q[j].id, nOffset |-> i - 1]
  BY <1>2, EntryFacts
<1>6. Known(q, a.entry, 1)
  BY <1>5 DEF Known
<1> QED BY <1>1, <1>2, <1>3, <1>4, <1>6 DEF Source

LEMMA PressEnds ==
  ASSUME NEW a, NEW s, NEW C, Tidy(a, s, C, 0), Len(a.ppInf) # 0
  PROVE  /\ \E t : PressEnd(a.ppInf, C, t, LoopOf(a)[nBlock(a)])
         /\ Dense(a.ppInf) => LoopOf(a)[nBlock(a)].changed = None
<1>0. PICK q, n, c, z, B : /\ q = a.ppInf /\ n = nBlock(a) /\ c = LoopOf(a)[n] /\ z = s[n + 1]
                           /\ B = c.blocks
  OBVIOUS
<1>1. Holding(a, s, C) /\ Filled(q)
  BY <1>0 DEF Tidy
<1>2. /\ q \in Seq(BlockInfos) /\ a.entry \in [Elems -> Entries \cup {None}] /\ Len(q) \in Nat
      /\ Laid(q, s, C) /\ n = Len(q) /\ C \in Seq(Elems)
  BY <1>0, <1>1, HoldingFacts
<1>3. Source(q, s, C) /\ Known(q, a.entry, 1)
  BY <1>0, TidySource
<1>4. Pressed(q, s, C, n, c) /\ (Dense(q) => c.changed = None)
  BY <1>0, <1>2, <1>3, LoopFacts
<1>5. /\ c \in Presses /\ Packed(q, n, C, z, B) /\ Kept(q, n, c) /\ Known(B, c.entry, 1)
      /\ Len(B) <= n
  BY <1>0, <1>4 DEF Pressed, Built
<1>6. PICK t : LaidUpTo(B, t, C, z)
  BY <1>5 DEF Packed
<1>7. z = Len(C)
  BY <1>0, <1>2, LaidFacts
<1>8. Laid(B, t, C)
  <2>1. /\ B \in Seq(BlockInfos) /\ t \in [1 .. Len(B) + 1 -> Nat] /\ t[1] = 0 /\ t[Len(B) + 1] = Len(C)
        /\ \A j \in 1 .. Len(B) : t[j + 1] = t[j] + Len(B[j].pData)
        /\ \A j \in 1 .. Len(B) : \A i \in 1 .. Len(B[j].pData) : C[t[j] + i] = B[j].pData[i]
    BY <1>6, <1>7 DEF LaidUpTo
  <2> QED BY <1>2, <2>1, LaidIf
<1>9. /\ Fit(B) /\ Filled(B) /\ Dense(B) /\ Ids(B) /\ (Len(B) # 0 => B[1].nStart = 0)
  BY <1>5 DEF Packed
<1>10. Len(B) # 0
  <2>1. SUFFICES ASSUME Len(B) = 0 PROVE FALSE
    OBVIOUS
  <2>2. t[1] = 0 /\ Len(C) = t[Len(B) + 1]
    BY <1>8, LaidFacts
  <2>3. Len(C) = 0
    BY <2>1, <2>2
  <2>4. 1 \in 1 .. Len(q)
    BY <1>0, <1>2
  <2>5. q[1].pData # <<>> /\ q[1].pData \in Seq(Elems)
    BY <1>1, <1>2, <2>4, BlockFacts DEF Filled
  <2>6. 1 \in 1 .. Len(q[1].pData)
    <3>1. Len(q[1].pData) \in Nat /\ Len(q[1].pData) # 0
      BY <2>5, EmptySeq, LenProperties
    <3> QED BY <3>1
  <2>7. s[1] + 1 \in 1 .. Len(C)
    BY <1>2, <2>4, <2>6, PlaceFacts
  <2> QED BY <2>3, <2>7
<1>11. Right(B, c.entry, t, 0)
  <2>1. ASSUME NEW j \in 1 .. Len(B), NEW i \in 1 .. Len(B[j].pData)
        PROVE  c.entry[B[j].pData[i]] = [pBlock |-> B[j].id, nOffset |-> i - 1]
    BY <1>5 DEF Known
  <2> QED BY <2>1 DEF Right
<1>12. PressEnd(q, C, t, c)
  BY <1>0, <1>2, <1>5, <1>8, <1>9, <1>10, <1>11 DEF PressEnd
<1> QED BY <1>0, <1>4, <1>12

\* Compress, from what the loop ends with.
Finished(b, c) ==
  [b EXCEPT !.ppInf = UpdIndex([b.ppInf EXCEPT ![1].nEnd = Len(b.ppInf[1].pData) - 1], 0),
            !.entry = c.entry,
            !.nCur = IF c.changed # None /\ @ >= c.changed THEN 0 ELSE @]

LEMMA CompressIs ==
  ASSUME NEW a, NEW c, c = LoopOf(a)[nBlock(a)]
  PROVE  /\ Compress(a).changed = c.changed
         /\ \E b : Left(a, c.blocks, b) /\ Compress(a).array = Finished(b, c)
<1>1. PICK b : b = IF c.deleted THEN BlockDel(a, c.blocks) ELSE [a EXCEPT !.ppInf = c.blocks]
  OBVIOUS
<1>2. Compress(a) = [array |-> Finished(b, c), changed |-> c.changed]
  BY <1>1 DEF Compress, LoopOf, Finished
<1>3. Compress(a).array = Finished(b, c) /\ Compress(a).changed = c.changed
  BY <1>2
<1> QED BY <1>1, <1>3 DEF Left

\* The fields of the result.
FieldsThen(a, B, u, c, mx, r) ==
  /\ mx \in Nat /\ Len(B) <= mx
  /\ r = [ppInf |-> u, nSize |-> a.nSize, nMaxBlock |-> mx,
          nCur |-> IF c.changed # None /\ a.nCur >= c.changed THEN 0 ELSE a.nCur,
          entry |-> c.entry]

LEMMA FinishedFields ==
  ASSUME NEW a \in Arrays, NEW B \in Seq(BlockInfos), Len(B) <= a.nMaxBlock, NEW b,
         Left(a, B, b), NEW c, NEW u,
         u = UpdIndex([B EXCEPT ![1].nEnd = Len(B[1].pData) - 1], 0)
  PROVE  \E mx : FieldsThen(a, B, u, c, mx, Finished(b, c))
<1>a. PICK mx : HasTable(a, B, mx, b)
  BY BlockDelFacts
<1>1. mx \in Nat /\ Len(B) <= mx /\ b = [a EXCEPT !.ppInf = B, !.nMaxBlock = mx]
  BY <1>a DEF HasTable
<1>2. PICK i1, z1, m1, c1, e1 :
        /\ a = [ppInf |-> i1, nSize |-> z1, nMaxBlock |-> m1, nCur |-> c1, entry |-> e1]
        /\ a.nSize = z1 /\ a.nCur = c1
  BY DEF Arrays
<1>3. b = [ppInf |-> B, nSize |-> z1, nMaxBlock |-> mx, nCur |-> c1, entry |-> e1]
  BY <1>1, <1>2
<1>4. b.ppInf = B /\ b.nCur = c1
  BY <1>3
<1>5. PICK h : h = IF c.changed # None /\ c1 >= c.changed THEN 0 ELSE c1
  OBVIOUS
<1>6. Finished(b, c) = [b EXCEPT !.ppInf = u, !.entry = c.entry, !.nCur = h]
  BY <1>4, <1>5 DEF Finished
<1>7. Finished(b, c) = [ppInf |-> u, nSize |-> z1, nMaxBlock |-> mx, nCur |-> h, entry |-> c.entry]
  BY <1>3, <1>6
<1>8. FieldsThen(a, B, u, c, mx, Finished(b, c))
  BY <1>1, <1>2, <1>5, <1>7 DEF FieldsThen
<1> QED BY <1>8

LEMMA CompressFacts ==
  ASSUME NEW a, NEW C, Sound(a, C, 0), Len(a.ppInf) # 0
  PROVE  /\ Compressed(a, C, Compress(a).array, Compress(a).changed)
         /\ Dense(a.ppInf) => Compress(a).changed = None
<1>0. PICK q, c, B, r, h : /\ q = a.ppInf /\ c = LoopOf(a)[nBlock(a)] /\ B = c.blocks
                           /\ r = Compress(a).array /\ h = Compress(a).changed
  OBVIOUS
<1>1. PICK s : Tidy(a, s, C, 0)
  BY DEF Sound
<1>2. Holding(a, s, C)
  BY <1>1 DEF Tidy
<1>3. /\ a \in Arrays /\ a.nSize = Len(C) /\ Len(q) <= a.nMaxBlock /\ a.nCur <= Len(q)
  BY <1>0, <1>2 DEF Holding
<1>4. a.nCur \in Nat /\ a.nSize \in Nat /\ a.nMaxBlock \in Nat /\ Len(q) \in Nat
  BY <1>0, <1>2, HoldingFacts
<1>5. /\ \E t : PressEnd(q, C, t, c)
      /\ Dense(q) => c.changed = None
  BY <1>0, <1>1, PressEnds
<1>6. PICK t : PressEnd(q, C, t, c)
  BY <1>5
<1>7. /\ c \in Presses /\ Laid(B, t, C) /\ Right(B, c.entry, t, 0)
      /\ Fit(B) /\ Filled(B) /\ Dense(B) /\ Ids(B)
      /\ Len(B) # 0 /\ B[1].nStart = 0 /\ Len(B) <= Len(q)
      /\ Kept(q, Len(q), c)
  BY <1>0, <1>6 DEF PressEnd
<1>8. /\ B \in Seq(BlockInfos) /\ Len(B) \in Nat /\ c.changed \in Nat \cup {None}
      /\ c.entry \in [Elems -> Entries \cup {None}]
  BY <1>0, <1>7, PressFacts
<1>9. h = c.changed /\ \E b : Left(a, B, b) /\ r = Finished(b, c)
  BY <1>0, CompressIs
<1>10. PICK b : Left(a, B, b) /\ r = Finished(b, c)
  BY <1>9
<1>11. PICK u : u = UpdIndex([B EXCEPT ![1].nEnd = Len(B[1].pData) - 1], 0)
  OBVIOUS
<1>12. u \in Seq(BlockInfos) /\ SameBlocks(B, u) /\ Indexed(u, t, Len(u))
  BY <1>7, <1>11, FirstIndexed
<1>13. Laid(u, t, C) /\ Ids(u) /\ Fit(u) /\ Filled(u) /\ Right(u, c.entry, t, 0)
  BY <1>7, <1>12, SameLaid
<1>14. Len(u) = Len(B) /\ \A j \in 1 .. Len(B) : u[j].pData = B[j].pData
  BY <1>12 DEF SameBlocks
<1>15. Len(B) <= a.nMaxBlock
  BY <1>3, <1>4, <1>7, <1>8
<1>16. PICK mx, cu :
         /\ mx \in Nat
         /\ Len(B) <= mx /\ cu = IF h # None /\ a.nCur >= h THEN 0 ELSE a.nCur
         /\ r = [ppInf |-> u, nSize |-> a.nSize, nMaxBlock |-> mx, nCur |-> cu, entry |-> c.entry]
  <2>1. PICK mx : FieldsThen(a, B, u, c, mx, Finished(b, c))
    BY <1>3, <1>8, <1>10, <1>11, <1>15, FinishedFields
  <2> QED BY <1>9, <1>10, <2>1 DEF FieldsThen
<1>17. h # None => /\ h \in 1 .. Len(B) /\ h <= Len(q) /\ Room(q[h]) > 0
                   /\ \A j \in 1 .. h - 1 : B[j] = q[j]
  BY <1>0, <1>7, <1>9 DEF Kept
<1>18. h = None => Len(B) = Len(q) /\ \A j \in 1 .. Len(q) : B[j] = q[j]
  BY <1>0, <1>7, <1>9 DEF Kept
<1>19. cu \in Nat /\ cu <= Len(u)
  <2>1. CASE h = None
    BY <1>3, <1>4, <1>14, <1>16, <1>18, <2>1
  <2>2. CASE h # None
    <3>1. h \in Nat /\ h <= Len(B)
      BY <1>8, <1>17, <2>2
    <3> QED BY <1>4, <1>8, <1>14, <1>16, <2>2, <3>1
  <2> QED BY <2>1, <2>2
<1>20. r \in Arrays
  BY <1>4, <1>8, <1>12, <1>16, <1>19 DEF Arrays
<1>21. r.ppInf = u /\ r.entry = c.entry /\ r.nSize = Len(C) /\ r.nMaxBlock = mx /\ r.nCur = cu
  BY <1>3, <1>16
<1>22. Holding(r, t, C)
  BY <1>13, <1>14, <1>16, <1>19, <1>20, <1>21 DEF Holding
<1>23. Sound(r, C, 0)
  BY <1>12, <1>13, <1>21, <1>22 DEF Sound, Tidy
<1>24. Dense(u)
  <2>1. \A j \in 1 .. Len(B) - 1 : Closed(B[j], B[j + 1])
    BY <1>7 DEF Dense
  <2>2. ASSUME NEW j \in 1 .. Len(B) - 1 PROVE Closed(u[j], u[j + 1])
    <3>1. j \in 1 .. Len(B) /\ j + 1 \in 1 .. Len(B)
      BY <1>8
    <3>2. u[j].pData = B[j].pData /\ u[j + 1].pData = B[j + 1].pData
      BY <1>14, <3>1
    <3>3. Closed(B[j], B[j + 1])
      BY <2>1
    <3> QED BY <3>2, <3>3 DEF Closed, Room
  <2> QED BY <1>14, <2>2 DEF Dense
<1>25. ASSUME NEW m \in 1 .. Len(q), h = None \/ m < h
       PROVE  m <= Len(u) /\ \A j \in 1 .. m : u[j].pData = q[j].pData
  <2>1. CASE h = None
    <3>1. m <= Len(u) /\ \A j \in 1 .. m : j \in 1 .. Len(q)
      BY <1>4, <1>14, <1>18, <2>1
    <3> QED BY <1>14, <1>18, <2>1, <3>1
  <2>2. CASE h # None
    <3>1. h \in 1 .. Len(B) /\ m < h
      BY <1>17, <1>25, <2>2
    <3>2. m <= Len(u) /\ \A j \in 1 .. m : j \in 1 .. h - 1 /\ j \in 1 .. Len(B)
      BY <1>4, <1>8, <1>14, <3>1
    <3> QED BY <1>14, <1>17, <2>2, <3>2
  <2> QED BY <2>1, <2>2
<1>26. h # None => h \in 1 .. Len(q) /\ Room(q[h]) > 0
  <2>1. ASSUME h # None PROVE h \in 1 .. Len(q)
    BY <1>4, <1>8, <1>17, <2>1
  <2> QED BY <1>17, <2>1
<1>27. Compressed(a, C, r, h)
  BY <1>0, <1>8, <1>9, <1>21, <1>23, <1>24, <1>25, <1>26 DEF Compressed
<1> QED BY <1>0, <1>5, <1>9, <1>27
==============================================================================
