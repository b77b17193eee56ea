-------------------------- MODULE BigPtrArrayProofs --------------------------
(***************************************************************************)
(* Proofs about BigPtrArray, for arrays, blocks and thresholds of any      *)
(* size: that the blocks fit their elements, that each element knows its   *)
(* position, that the search finds every position, and that the blocks     *)
(* behave as a plain array (PointerArray).  The lemmas about the blocks,   *)
(* the search and Compress are those of BigPtrArrayLemmas.                 *)
(***************************************************************************)
EXTENDS BigPtrArrayLemmas

-----------------------------------------------------------------------------
(* Insert.                                                                  *)

\* b, which holds the same, has the block of number cur for an insertion at pos.
Placed(a, s, C, pos, b, t, cur) ==
  /\ Holding(b, t, C) /\ Right(b.ppInf, b.entry, t, 0) /\ Indexed(b.ppInf, t, Len(b.ppInf))
  /\ cur \in Nat /\ cur + 1 <= Len(b.ppInf) /\ t[cur + 1] <= pos /\ pos <= t[cur + 2]
  /\ \A k \in 1 .. Len(b.ppInf) : k # cur + 1 => b.ppInf[k].pData # <<>>
  /\ (b = a /\ t = s) \/ b.ppInf[cur + 1].pData = <<>>
  /\ pos < t[cur + 2] \/ Len(b.ppInf[cur + 1].pData) < MAXENTRY

\* A new block behind the others.
LEMMA NewPlaced ==
  ASSUME NEW a, NEW s, NEW C, Tidy(a, s, C, 0)
  PROVE  \E t : Placed(a, s, C, Len(C), InsBlock(a, Len(a.ppInf)), t, Len(a.ppInf))
<1>0. PICK q, n, b, t : /\ q = a.ppInf /\ n = Len(q) /\ b = InsBlock(a, n) /\ t = Opened(s, n, n)
  OBVIOUS
<1>1. Holding(a, s, C) /\ Right(q, a.entry, s, 0) /\ Indexed(q, s, n) /\ Filled(q)
  BY <1>0 DEF Tidy
<1>2. n \in Nat /\ Laid(q, s, C) /\ Len(C) \in Nat
  BY <1>0, <1>1, HoldingFacts
<1>3. /\ Holding(b, t, C) /\ Right(b.ppInf, b.entry, t, 0) /\ Indexed(b.ppInf, t, Len(b.ppInf))
      /\ Len(b.ppInf) = n + 1 /\ b.ppInf[n + 1].pData = <<>>
      /\ \A k \in 1 .. n : b.ppInf[k] = q[k]
      /\ \A k \in 1 .. n + 1 : t[k] = s[k]
      /\ \A k \in n + 2 .. n + 2 : t[k] = s[k - 1]
  <2>1. n \in 0 .. Len(q)
    BY <1>0, <1>2
  <2> QED BY SMTT(30), <1>0, <1>1, <2>1, InsBlockFacts
<1>4. s[n + 1] = Len(C)
  BY <1>0, <1>2, LaidFacts
<1>5. t[n + 1] = Len(C) /\ t[n + 2] = Len(C)
  <2>1. n + 1 \in 1 .. n + 1 /\ n + 2 \in n + 2 .. n + 2 /\ n + 2 - 1 = n + 1
    BY <1>2
  <2>2. t[n + 1] = s[n + 1]
    BY <1>3, <2>1
  <2>3. PICK x \in Nat, y \in Nat : x = n + 2 /\ y = n + 1 /\ x - 1 = y /\ ~(x <= y) /\ x \in 1 .. x
    BY <1>2
  <2>4. t = [k \in 1 .. x |-> IF k <= y THEN s[k] ELSE s[k - 1]]
    BY <1>0, <2>3 DEF Opened
  <2>5. t[x] = s[x - 1]
    BY <2>3, <2>4
  <2> QED BY <1>4, <2>2, <2>3, <2>5
<1>6. ASSUME NEW k \in 1 .. Len(b.ppInf), k # n + 1 PROVE b.ppInf[k].pData # <<>>
  <2>1. k \in 1 .. n
    BY <1>2, <1>3, <1>6
  <2> QED BY <1>0, <1>1, <1>3, <2>1 DEF Filled
<1>7. Len(b.ppInf[n + 1].pData) < MAXENTRY
  BY <1>3, SizesAssumption
<1>8. Placed(a, s, C, Len(C), b, t, n)
  BY <1>2, <1>3, <1>5, <1>6, <1>7 DEF Placed
<1> QED BY <1>0, <1>8

\* A block that is there.
LEMMA OldPlaced ==
  ASSUME NEW a, NEW s, NEW C, Tidy(a, s, C, 0), NEW cur \in Nat, cur + 1 <= Len(a.ppInf),
         NEW pos, s[cur + 1] <= pos, pos <= s[cur + 2],
         pos < s[cur + 2] \/ Len(a.ppInf[cur + 1].pData) < MAXENTRY
  PROVE  Placed(a, s, C, pos, a, s, cur)
<1>1. /\ Holding(a, s, C) /\ Right(a.ppInf, a.entry, s, 0) /\ Indexed(a.ppInf, s, Len(a.ppInf))
      /\ Filled(a.ppInf)
  BY DEF Tidy
<1> QED BY <1>1 DEF Placed, Filled

LEMMA TidyEmpty ==
  ASSUME NEW a, NEW s, NEW C, Tidy(a, s, C, 0)
  PROVE  Len(a.ppInf) = 0 <=> Len(C) = 0
<1>1. Holding(a, s, C) /\ Filled(a.ppInf)
  BY DEF Tidy
<1>2. Len(a.ppInf) \in Nat /\ Laid(a.ppInf, s, C)
  BY <1>1, HoldingFacts
<1>3. s[1] = 0 /\ Len(C) = s[Len(a.ppInf) + 1]
  BY <1>2, LaidFacts
<1>4. ASSUME Len(a.ppInf) = 0 PROVE Len(C) = 0
  BY <1>3, <1>4
<1>5. ASSUME Len(a.ppInf) # 0, Len(C) = 0 PROVE FALSE
  <2>1. PICK q : q = a.ppInf
    OBVIOUS
  <2>2. 1 \in 1 .. Len(q)
    BY <1>2, <1>5, <2>1
  <2>3. q[1].pData # <<>> /\ q[1].pData \in Seq(Elems)
    BY <1>1, <1>2, <2>1, <2>2, BlockFacts DEF Filled
  <2>4. 1 \in 1 .. Len(q[1].pData)
    <3>1. Len(q[1].pData) \in Nat /\ Len(q[1].pData) # 0
      BY <2>3, EmptySeq, LenProperties
    <3> QED BY <3>1
  <2>5. s[1] + 1 \in 1 .. Len(C)
    BY <1>2, <2>1, <2>2, <2>4, PlaceFacts
  <2> QED BY <1>5, <2>5
<1> QED BY <1>4, <1>5

LEMMA InsertPlaced ==
  ASSUME NEW a, NEW s, NEW C, Tidy(a, s, C, 0), NEW pos \in 0 .. Len(C)
  PROVE  \E t : Placed(a, s, C, pos, InsertBlock(a, pos).array, t, InsertBlock(a, pos).cur)
<1>0. PICK q, n, place : q = a.ppInf /\ n = Len(q) /\ place = InsertBlock(a, pos)
  OBVIOUS
<1>1. Holding(a, s, C) /\ Indexed(q, s, n) /\ Filled(q)
  BY <1>0 DEF Tidy
<1>2. /\ n \in Nat /\ Laid(q, s, C) /\ Len(C) \in Nat /\ nBlock(a) = n
      /\ a.nCur \in Nat
  BY <1>0, <1>1, HoldingFacts
<1>3. a.nSize = Len(C) /\ a.nCur <= n
  BY <1>0, <1>1 DEF Holding
<1>4. n = 0 <=> Len(C) = 0
  BY <1>0, TidyEmpty
<1>5. pos \in Nat /\ pos <= Len(C)
  BY <1>2
<1>6. CASE a.nSize = 0
  <2>1. n = 0 /\ pos = Len(C)
    BY <1>2, <1>3, <1>4, <1>5, <1>6
  <2>2. place = [array |-> InsBlock(a, 0), cur |-> 0]
    BY <1>0, <1>6 DEF InsertBlock
  <2>3. place.array = InsBlock(a, n) /\ place.cur = n
    BY <2>1, <2>2
  <2>4. \E t : Placed(a, s, C, Len(C), InsBlock(a, n), t, n)
    BY <1>0, NewPlaced
  <2> QED BY <1>0, <2>1, <2>3, <2>4
<1>7. CASE a.nSize # 0 /\ pos # a.nSize
  <2>1. pos \in 0 .. Len(C) - 1
    BY <1>2, <1>3, <1>5, <1>7
  <2>2. PICK t \in 1 .. n : Target(q, pos, t) /\ s[t] <= pos /\ pos < s[t + 1]
    BY <1>0, <1>1, <1>2, <2>1, HasTarget
  <2>3. t = 1 \/ pos # 0
    <3>1. ASSUME t # 1, pos = 0 PROVE FALSE
      <4>1. s[1] = 0 /\ 1 \in 1 .. n
        BY <1>2, LaidFacts
      <4>2. q[1].nStart = s[1] /\ q[1].nEnd = s[1 + 1] - 1
        BY <1>1, <4>1 DEF Indexed
      <4>3. s[1 + 1] \in Nat /\ s[1 + 1] # 0
        <5>1. s[1 + 1] \in Nat /\ s[1 + 1] = s[1] + Len(q[1].pData) /\ Len(q[1].pData) \in Nat
              /\ q[1].pData \in Seq(Elems)
          BY <1>0, <1>2, <4>1, BlockFacts
        <5>2. q[1].pData # <<>>
          BY <1>0, <1>1, <4>1 DEF Filled
        <5>3. Len(q[1].pData) # 0
          BY <5>1, <5>2, EmptySeq
        <5> QED BY <4>1, <5>1, <5>3
      <4>4. Holds(q[1], pos)
        BY <3>1, <4>1, <4>2, <4>3 DEF Holds
      <4>5. 1 = t
        BY <1>0, <2>2, <4>1, <4>4 DEF Target
      <4> QED BY <3>1, <4>5
    <3> QED BY <3>1
  <2>4. Index2Block(a, pos) = t - 1
    <3>1. a.nSize \in Nat /\ pos < a.nSize
      BY <1>2, <1>3, <2>1
    <3> QED BY <1>0, <1>2, <1>3, <1>5, <2>2, <2>3, <3>1, BlockFound
  <2>5. place.array = a /\ place.cur = t - 1
    BY <1>0, <1>7, <2>4 DEF InsertBlock
  <2>6. PICK cur \in Nat : cur = t - 1 /\ cur + 1 = t /\ cur + 2 = t + 1 /\ cur + 1 <= n
    BY <1>2, <2>2
  <2>7. s[cur + 1] <= pos /\ pos < s[cur + 2] /\ pos <= s[cur + 2]
    <3>1. s[t + 1] \in Nat
      BY <1>0, <1>2, <2>2, BlockFacts
    <3>2. pos <= s[t + 1]
      BY <1>5, <2>2, <3>1
    <3> QED BY <2>2, <2>6, <3>2
  <2>8. Placed(a, s, C, pos, a, s, cur)
    BY <1>0, <2>6, <2>7, OldPlaced
  <2> QED BY <1>0, <2>5, <2>6, <2>8
<1>8. CASE a.nSize # 0 /\ pos = a.nSize
  <2>1. n # 0 /\ pos = Len(C) /\ n \in 1 .. n
    BY <1>2, <1>3, <1>4, <1>8
  <2>2. nBlock(a) - 1 + 1 = n
    BY <1>2
  <2>3. CASE Len(q[n].pData) < MAXENTRY
    <3>1. place.array = a /\ place.cur = n - 1
      BY <1>0, <1>2, <1>8, <2>2, <2>3 DEF InsertBlock
    <3>2. PICK cur \in Nat : cur = n - 1 /\ cur + 1 = n /\ cur + 2 = n + 1 /\ cur + 1 <= n
      BY <1>2, <2>1
    <3>3. s[cur + 1] <= pos /\ pos <= s[cur + 2]
      <4>1. s[n + 1] = Len(C) /\ s[n] \in Nat /\ s[n] <= s[n + 1]
        <5>1. s[n + 1] = Len(C)
          BY <1>0, <1>2, LaidFacts
        <5>2. s[n] \in Nat /\ s[n + 1] \in Nat /\ s[n + 1] = s[n] + Len(q[n].pData)
              /\ Len(q[n].pData) \in Nat
          BY SMTT(30), <1>0, <1>2, <2>1, BlockFacts
        <5> QED BY <5>1, <5>2
      <4> QED BY <1>2, <2>1, <3>2, <4>1
    <3>4. Placed(a, s, C, pos, a, s, cur)
      BY <1>0, <2>3, <3>2, <3>3, OldPlaced
    <3> QED BY <1>0, <3>1, <3>2, <3>4
  <2>4. CASE ~(Len(q[n].pData) < MAXENTRY)
    <3>1. place.array = InsBlock(a, n) /\ place.cur = n
      BY <1>0, <1>2, <1>8, <2>2, <2>4 DEF InsertBlock
    <3>2. \E t : Placed(a, s, C, Len(C), InsBlock(a, n), t, n)
      BY <1>0, NewPlaced
    <3> QED BY <1>0, <2>1, <3>1, <3>2
  <2> QED BY <2>3, <2>4
<1> QED BY <1>6, <1>7, <1>8

\* The last element of the full block moves on, and e is put into the block.
LEMMA MadePut ==
  ASSUME NEW a, NEW s, NEW C, NEW cur, RoomAt(a, s, C, cur),
         \A k \in 1 .. Len(a.ppInf) : k # cur + 2 => a.ppInf[k].pData # <<>>,
         NEW pos \in Nat, s[cur + 1] <= pos, pos < s[cur + 2],
         NEW e \in Elems, NEW x, OldPlace(C, e, pos, x)
  PROVE  \E t : PutAt(MakeRoom(a, cur), t, C, e, pos, cur, x)
<1>1. PICK t : RoomMade(a, s, C, cur, MakeRoom(a, cur), t)
  BY MakeRoomFacts
<1>2. PICK b : b = MakeRoom(a, cur)
  OBVIOUS
<1>3. /\ Holding(b, t, C) /\ Right(b.ppInf, b.entry, t, 0) /\ Indexed(b.ppInf, t, cur + 1)
      /\ Len(b.ppInf) = Len(a.ppInf) /\ Len(b.ppInf[cur + 1].pData) = MAXENTRY - 1
      /\ t[cur + 1] = s[cur + 1] /\ t[cur + 2] = s[cur + 2] - 1
      /\ \A k \in 1 .. Len(a.ppInf) :
           a.ppInf[k].pData # <<>> \/ k = cur + 2 => b.ppInf[k].pData # <<>>
  BY <1>1, <1>2 DEF RoomMade
<1>4. /\ cur \in Nat /\ cur + 2 <= Len(a.ppInf) /\ Holding(a, s, C)
  BY DEF RoomAt
<1>5. Len(a.ppInf) \in Nat /\ Laid(a.ppInf, s, C)
  BY <1>4, HoldingFacts
<1>6. cur + 1 <= Len(b.ppInf)
  BY <1>3, <1>4, <1>5
<1>7. pos <= t[cur + 2]
  <2>1. PICK y : y = s[cur + 2]
    OBVIOUS
  <2>2. y \in Nat
    <3>1. cur + 1 \in 1 .. Len(a.ppInf) /\ cur + 1 + 1 = cur + 2
      BY <1>4, <1>5
    <3>2. s[cur + 1 + 1] \in Nat
      BY <1>5, <3>1, BlockFacts
    <3> QED BY <2>1, <3>1, <3>2
  <2>3. pos < y /\ t[cur + 2] = y - 1
    BY <1>3, <2>1
  <2> QED BY <2>2, <2>3
<1>8. MAXENTRY - 1 < MAXENTRY
  BY SizesAssumption
<1>9. PutAt(b, t, C, e, pos, cur, x)
  BY <1>3, <1>4, <1>6, <1>7, <1>8 DEF PutAt
<1> QED BY <1>2, <1>9

\* The place is full, and so is the block behind it: there is a new block in between.
LEMMA BetweenPut ==
  ASSUME NEW c, NEW s, NEW C, Tidy(c, s, C, 0), NEW cur \in Nat, cur + 1 <= Len(c.ppInf),
         Len(c.ppInf[cur + 1].pData) = MAXENTRY,
         NEW pos \in Nat, s[cur + 1] <= pos, pos < s[cur + 2],
         NEW e \in Elems, NEW x, OldPlace(C, e, pos, x)
  PROVE  \E t : PutAt(MakeRoom(InsBlock(c, cur + 1), cur), t, C, e, pos, cur, x)
<1>0. PICK q, n, k, d, t : /\ q = c.ppInf /\ n = Len(q) /\ k = cur + 1 /\ d = InsBlock(c, k)
                           /\ t = Opened(s, n, k)
  OBVIOUS
<1>1. Holding(c, s, C) /\ Right(q, c.entry, s, 0) /\ Indexed(q, s, n) /\ Filled(q)
  BY <1>0 DEF Tidy
<1>2. n \in Nat /\ k \in 1 .. n /\ k \in 0 .. n /\ k \in Nat
  <2>1. n \in Nat
    BY <1>0, <1>1, HoldingFacts
  <2> QED BY <1>0, <2>1
<1>3. /\ Holding(d, t, C) /\ Right(d.ppInf, d.entry, t, 0) /\ Indexed(d.ppInf, t, Len(d.ppInf))
      /\ Len(d.ppInf) = n + 1 /\ d.ppInf[k + 1].pData = <<>>
      /\ \A j \in 1 .. k : d.ppInf[j] = q[j]
      /\ \A j \in k + 2 .. n + 1 : d.ppInf[j] = q[j - 1]
      /\ \A j \in 1 .. k + 1 : t[j] = s[j]
  <2>1. /\ Holding(c, s, C) /\ Right(c.ppInf, c.entry, s, 0)
        /\ Indexed(c.ppInf, s, Len(c.ppInf)) /\ k \in 0 .. Len(c.ppInf)
        /\ d = InsBlock(c, k) /\ t = Opened(s, Len(c.ppInf), k)
    BY <1>0, <1>1, <1>2
  <2>2. /\ Holding(d, t, C) /\ Right(d.ppInf, d.entry, t, 0) /\ Indexed(d.ppInf, t, Len(d.ppInf))
        /\ Len(d.ppInf) = Len(c.ppInf) + 1 /\ d.ppInf[k + 1].pData = <<>>
        /\ \A j \in 1 .. k : d.ppInf[j] = c.ppInf[j]
        /\ \A j \in k + 2 .. Len(c.ppInf) + 1 : d.ppInf[j] = c.ppInf[j - 1]
        /\ \A j \in 1 .. k + 1 : t[j] = s[j]
    BY <2>1, InsBlockFacts
  <2> QED BY <1>0, <2>2
<1>4. cur + 1 = k /\ cur + 2 = k + 1
  BY <1>0
<1>5. t[cur + 1] = s[cur + 1] /\ t[cur + 2] = s[cur + 2]
  <2>1. k \in 1 .. k + 1 /\ k + 1 \in 1 .. k + 1
    BY <1>2
  <2> QED BY <1>3, <1>4, <2>1
<1>6. RoomAt(d, t, C, cur)
  <2>1. Len(d.ppInf[k].pData) = MAXENTRY
    BY <1>0, <1>2, <1>3
  <2>2. Len(d.ppInf[k + 1].pData) < MAXENTRY
    BY <1>3, SizesAssumption
  <2>3. cur + 2 <= Len(d.ppInf) /\ \A j \in 1 .. cur + 2 : j \in 1 .. Len(d.ppInf)
    BY <1>2, <1>3, <1>4
  <2>4. Indexed(d.ppInf, t, cur + 2)
    BY <1>3, <2>3 DEF Indexed
  <2> QED BY <1>3, <1>4, <2>1, <2>2, <2>3, <2>4 DEF RoomAt
<1>7. ASSUME NEW j \in 1 .. Len(d.ppInf), j # cur + 2 PROVE d.ppInf[j].pData # <<>>
  <2>1. CASE j <= k
    <3>1. j \in 1 .. k /\ j \in 1 .. n
      BY <1>2, <1>3, <2>1
    <3> QED BY <1>0, <1>1, <1>3, <3>1 DEF Filled
  <2>2. CASE ~(j <= k)
    <3>1. j \in k + 2 .. n + 1 /\ j - 1 \in 1 .. n
      BY SMTT(30), <1>2, <1>3, <1>4, <1>7, <2>2
    <3>2. d.ppInf[j] = q[j - 1]
      BY <1>3, <3>1
    <3> QED BY <1>0, <1>1, <3>1, <3>2 DEF Filled
  <2> QED BY <2>1, <2>2
<1>8. t[cur + 1] <= pos /\ pos < t[cur + 2]
  BY <1>5
<1>9. \E u : PutAt(MakeRoom(d, cur), u, C, e, pos, cur, x)
  BY <1>6, <1>7, <1>8, MadePut
<1> QED BY <1>0, <1>9

\* Compress, when nothing is moved up to the place.
LEMMA KeptPlace ==
  ASSUME NEW a, NEW s, NEW C, Tidy(a, s, C, 0), NEW cur \in Nat, cur + 1 <= Len(a.ppInf),
         Len(a.ppInf[cur + 1].pData) = MAXENTRY,
         ~(Compress(a).changed # None /\ cur >= Compress(a).changed)
  PROVE  \E t : /\ Tidy(Compress(a).array, t, C, 0)
                /\ cur + 1 <= Len(Compress(a).array.ppInf)
                /\ Len(Compress(a).array.ppInf[cur + 1].pData) = MAXENTRY
                /\ t[cur + 1] = s[cur + 1] /\ t[cur + 2] = s[cur + 2]
<1>0. PICK q, r, h, m : q = a.ppInf /\ r = Compress(a).array /\ h = Compress(a).changed /\ m = cur + 1
  OBVIOUS
<1>1. Sound(a, C, 0)
  BY DEF Sound
<1>2. Laid(q, s, C) /\ Len(q) \in Nat
  <2>1. Holding(a, s, C)
    BY DEF Tidy
  <2> QED BY <1>0, <2>1, HoldingFacts
<1>3. m \in 1 .. Len(q) /\ Len(q) # 0
  BY <1>0, <1>2
<1>4. Compressed(a, C, r, h)
  BY <1>0, <1>1, <1>3, CompressFacts
<1>5. /\ Sound(r, C, 0) /\ h \in Nat \cup {None}
      /\ h # None => h \in 1 .. Len(q) /\ Room(q[h]) > 0
      /\ \A i \in 1 .. Len(q) : h = None \/ i < h =>
           i <= Len(r.ppInf) /\ \A j \in 1 .. i : r.ppInf[j].pData = q[j].pData
  BY <1>0, <1>4 DEF Compressed
<1>6. h = None \/ m < h
  <2>1. ASSUME h # None PROVE m < h
    <3>1. h \in 1 .. Len(q) /\ Room(q[h]) > 0 /\ cur < h
      BY <1>0, <1>2, <1>5, <2>1
    <3>2. m # h
      <4>1. Room(q[m]) = 0
        BY <1>0, SizesAssumption DEF Room
      <4> QED BY <3>1, <4>1
    <3> QED BY <1>0, <1>2, <3>1, <3>2
  <2> QED BY <2>1
<1>7. m <= Len(r.ppInf) /\ \A j \in 1 .. m : r.ppInf[j].pData = q[j].pData
  BY <1>3, <1>5, <1>6
<1>8. PICK t : Tidy(r, t, C, 0)
  BY <1>5 DEF Sound
<1>9. Laid(r.ppInf, t, C)
  BY <1>8 DEF Tidy, Holding
<1>10. \A k \in 1 .. m + 1 : t[k] = s[k]
  <2>1. m \in 0 .. Len(q)
    BY <1>2, <1>3
  <2>2. \A k \in 1 .. m : Len(r.ppInf[k].pData) = Len(q[k].pData)
    BY <1>7
  <2> QED BY <1>2, <1>7, <1>9, <2>1, <2>2, SameStarts
<1>11. m \in 1 .. m + 1 /\ m + 1 \in 1 .. m + 1 /\ m \in 1 .. m /\ cur + 2 = m + 1
  BY <1>0
<1>12. t[cur + 1] = s[cur + 1] /\ t[cur + 2] = s[cur + 2] /\ Len(r.ppInf[m].pData) = MAXENTRY
  BY <1>0, <1>7, <1>10, <1>11
<1> QED BY <1>0, <1>7, <1>8, <1>12

\* An insertion that does not start over.
LEMMA OnceFacts ==
  ASSUME NEW a, NEW C, Sound(a, C, 0), NEW pos \in 0 .. Len(C), ~StartsOver(a, pos),
         NEW e \in Elems, NEW x, OldPlace(C, e, pos, x), NEW D, WholeWith(C, pos, e, D)
  PROVE  Sound(InsertOnce(a, e, pos), D, x)
<1>0. PICK place, b, cur, r :
        /\ place = InsertBlock(a, pos) /\ b = place.array /\ cur = place.cur
        /\ r = InsertOnce(a, e, pos)
  OBVIOUS
<1>1. PICK s : Tidy(a, s, C, 0)
  BY DEF Sound
<1>2. PICK t : Placed(a, s, C, pos, b, t, cur)
  BY <1>0, <1>1, InsertPlaced
<1>3. /\ Holding(b, t, C) /\ Right(b.ppInf, b.entry, t, 0) /\ Indexed(b.ppInf, t, Len(b.ppInf))
      /\ cur \in Nat /\ cur + 1 <= Len(b.ppInf) /\ t[cur + 1] <= pos /\ pos <= t[cur + 2]
      /\ \A k \in 1 .. Len(b.ppInf) : k # cur + 1 => b.ppInf[k].pData # <<>>
      /\ (b = a /\ t = s) \/ b.ppInf[cur + 1].pData = <<>>
      /\ pos < t[cur + 2] \/ Len(b.ppInf[cur + 1].pData) < MAXENTRY
  BY <1>2 DEF Placed
<1>4. /\ Len(b.ppInf) \in Nat /\ Laid(b.ppInf, t, C) /\ nBlock(b) = Len(b.ppInf)
  BY <1>3, HoldingFacts
<1>5. pos \in Nat
  OBVIOUS
<1>6. cur + 1 \in 1 .. Len(b.ppInf)
  BY <1>3, <1>4
<1>7. Len(b.ppInf[cur + 1].pData) \in Nat /\ Len(b.ppInf[cur + 1].pData) <= MAXENTRY
  <2>1. Fit(b.ppInf)
    BY <1>3 DEF Holding
  <2> QED BY <1>4, <1>6, <2>1, BlockFacts DEF Fit
<1>8. CASE ~IsFull(b.ppInf[cur + 1])
  <2>1. r = PutElement(b, e, pos, cur)
    BY <1>0, <1>8 DEF InsertOnce
  <2>2. Len(b.ppInf[cur + 1].pData) < MAXENTRY
    BY <1>7, <1>8, SizesAssumption DEF IsFull
  <2>3. Indexed(b.ppInf, t, cur + 1)
    <3>1. \A j \in 1 .. cur + 1 : j \in 1 .. Len(b.ppInf)
      BY <1>3, <1>4
    <3> QED BY <1>3, <3>1 DEF Indexed
  <2>4. PutAt(b, t, C, e, pos, cur, x)
    BY <1>3, <1>5, <2>2, <2>3 DEF PutAt
  <2> QED BY <1>0, <2>1, <2>4, PutElementFacts
<1>9. CASE IsFull(b.ppInf[cur + 1])
  <2>1. Len(b.ppInf[cur + 1].pData) = MAXENTRY /\ b.ppInf[cur + 1].pData # <<>>
    BY <1>9, SizesAssumption DEF IsFull
  <2>2. b = a /\ t = s /\ pos < t[cur + 2]
    BY <1>3, <2>1, SizesAssumption
  <2>3. CASE ~NoRoom(b, cur)
    <3>1. r = PutElement(MakeRoom(b, cur), e, pos, cur)
      BY <1>0, <1>9, <2>3 DEF InsertOnce
    <3>2. cur < nBlock(b) - 1 /\ ~IsFull(b.ppInf[cur + 2])
      BY <1>9, <2>3 DEF NoRoom
    <3>3. cur + 2 \in 1 .. Len(b.ppInf) /\ cur + 2 <= Len(b.ppInf)
      BY <1>3, <1>4, <3>2
    <3>4. Len(b.ppInf[cur + 2].pData) < MAXENTRY
      <4>1. Fit(b.ppInf)
        BY <1>3 DEF Holding
      <4>2. Len(b.ppInf[cur + 2].pData) \in Nat /\ Len(b.ppInf[cur + 2].pData) <= MAXENTRY
        BY <1>4, <3>3, <4>1, BlockFacts DEF Fit
      <4> QED BY <3>2, <4>2, SizesAssumption DEF IsFull
    <3>5. Indexed(b.ppInf, t, cur + 2)
      <4>1. \A j \in 1 .. cur + 2 : j \in 1 .. Len(b.ppInf)
        BY <1>3, <1>4, <3>3
      <4> QED BY <1>3, <4>1 DEF Indexed
    <3>6. RoomAt(b, t, C, cur)
      BY <1>3, <2>1, <3>3, <3>4, <3>5 DEF RoomAt
    <3>7. \A k \in 1 .. Len(b.ppInf) : k # cur + 2 => b.ppInf[k].pData # <<>>
      BY <1>3, <2>1
    <3>8. PICK u : PutAt(MakeRoom(b, cur), u, C, e, pos, cur, x)
      BY <1>3, <1>5, <2>2, <3>6, <3>7, MadePut
    <3> QED BY <1>0, <3>1, <3>8, PutElementFacts
  <2>4. CASE NoRoom(b, cur)
    <3>1. PICK c : c = IF HalfEmpty(b) THEN Compress(b).array ELSE b
      OBVIOUS
    <3>2. r = PutElement(MakeRoom(InsBlock(c, cur + 1), cur), e, pos, cur)
      BY <1>0, <1>9, <2>4, <3>1 DEF InsertOnce
    <3>3. \E u : /\ Tidy(c, u, C, 0) /\ cur + 1 <= Len(c.ppInf)
                 /\ Len(c.ppInf[cur + 1].pData) = MAXENTRY
                 /\ u[cur + 1] = t[cur + 1] /\ u[cur + 2] = t[cur + 2]
      <4>1. CASE HalfEmpty(b)
        <5>1. ~(Compress(b).changed # None /\ cur >= Compress(b).changed)
          BY <1>0, <2>4, <4>1 DEF StartsOver
        <5>2. Tidy(b, t, C, 0)
          BY <1>1, <2>2
        <5> QED BY <1>3, <2>1, <3>1, <4>1, <5>1, <5>2, KeptPlace
      <4>2. CASE ~HalfEmpty(b)
        BY <1>1, <1>3, <2>1, <2>2, <3>1, <4>2
      <4> QED BY <4>1, <4>2
    <3>4. PICK u : /\ Tidy(c, u, C, 0) /\ cur + 1 <= Len(c.ppInf)
                   /\ Len(c.ppInf[cur + 1].pData) = MAXENTRY
                   /\ u[cur + 1] = t[cur + 1] /\ u[cur + 2] = t[cur + 2]
      BY <3>3
    <3>5. u[cur + 1] <= pos /\ pos < u[cur + 2]
      BY <1>3, <2>2, <3>4
    <3>6. PICK v : PutAt(MakeRoom(InsBlock(c, cur + 1), cur), v, C, e, pos, cur, x)
      BY <1>3, <1>5, <3>4, <3>5, BetweenPut
    <3> QED BY <1>0, <3>2, <3>6, PutElementFacts
  <2> QED BY <2>3, <2>4
<1> QED BY <1>8, <1>9

\* An insertion that starts over works on the array itself, whose place is full.
LEMMA StartsOverFacts ==
  ASSUME NEW a, NEW C, Sound(a, C, 0), NEW pos \in 0 .. Len(C), StartsOver(a, pos)
  PROVE  /\ InsertBlock(a, pos).array = a /\ Len(a.ppInf) # 0
         /\ Compress(a).changed # None
<1>1. PICK s : Tidy(a, s, C, 0)
  BY DEF Sound
<1>2. PICK b, cur : b = InsertBlock(a, pos).array /\ cur = InsertBlock(a, pos).cur
  OBVIOUS
<1>3. PICK t : Placed(a, s, C, pos, b, t, cur)
  BY <1>1, <1>2, InsertPlaced
<1>4. /\ cur \in Nat /\ cur + 1 <= Len(b.ppInf)
      /\ (b = a /\ t = s) \/ b.ppInf[cur + 1].pData = <<>>
  BY <1>3 DEF Placed
<1>5. /\ NoRoom(b, cur) /\ Compress(b).changed # None
  BY <1>2 DEF StartsOver
<1>6. b.ppInf[cur + 1].pData # <<>>
  BY <1>5, SizesAssumption DEF NoRoom, IsFull
<1>7. b = a
  BY <1>4, <1>6
<1>8. Len(a.ppInf) # 0
  BY <1>4, <1>7
<1> QED BY <1>2, <1>5, <1>7, <1>8

\* It starts over with an array that holds the same, and then it does not start over.
LEMMA RestartedFacts ==
  ASSUME NEW a, NEW C, Sound(a, C, 0), NEW pos \in 0 .. Len(C)
  PROVE  Sound(Restarted(a, pos), C, 0) /\ ~StartsOver(Restarted(a, pos), pos)
<1>1. CASE ~StartsOver(a, pos)
  <2>1. Restarted(a, pos) = a
    BY <1>1 DEF Restarted
  <2> QED BY <1>1, <2>1
<1>2. CASE StartsOver(a, pos)
  <2>1. InsertBlock(a, pos).array = a /\ Len(a.ppInf) # 0
    BY <1>2, StartsOverFacts
  <2>2. PICK r : r = Compress(a).array
    OBVIOUS
  <2>3. Restarted(a, pos) = r
    BY <1>2, <2>1, <2>2 DEF Restarted
  <2>4. Compressed(a, C, r, Compress(a).changed)
    BY <2>1, <2>2, CompressFacts
  <2>5. Sound(r, C, 0) /\ Dense(r.ppInf)
    BY <2>4 DEF Compressed
  <2>6. ASSUME StartsOver(r, pos) PROVE FALSE
    <3>1. Len(r.ppInf) # 0 /\ Compress(r).changed # None
      BY <2>5, <2>6, StartsOverFacts
    <3>2. Compress(r).changed = None
      BY <2>5, <3>1, CompressFacts
    <3> QED BY <3>1, <3>2
  <2> QED BY <2>3, <2>5, <2>6
<1> QED BY <1>1, <1>2

\* Insert.
LEMMA InsertIntoFacts ==
  ASSUME NEW a, NEW C, Sound(a, C, 0), NEW pos \in 0 .. Len(C),
         NEW e \in Elems, NEW x, OldPlace(C, e, pos, x), NEW D, WholeWith(C, pos, e, D)
  PROVE  Sound(InsertInto(a, e, pos), D, x)
<1>1. Sound(Restarted(a, pos), C, 0) /\ ~StartsOver(Restarted(a, pos), pos)
  BY RestartedFacts
<1>2. Sound(InsertOnce(Restarted(a, pos), e, pos), D, x)
  BY <1>1, OnceFacts
<1> QED BY <1>2 DEF InsertInto

-----------------------------------------------------------------------------
(* Remove.                                                                  *)

\* Where a start is when n elements behind pos are gone.
Squeezed(y, pos, n) == IF y <= pos THEN y ELSE IF y >= pos + n THEN y - n ELSE pos

\* The place in the old block of the i-th element of the new one.
Origin(i, keep, nel) == IF i <= keep THEN i ELSE i + nel

\* What Cut gives for a block with these bounds.
CutBounds(st, L, pos, n, from, to) ==
  /\ from = IF pos > st THEN pos - st ELSE 0
  /\ to = IF pos + n > st + L - 1 THEN L ELSE pos + n - st

CutValues(c, from, to) ==
  /\ to > from => c.keep = from /\ c.nel = to - from
  /\ ~(to > from) => c.keep = 0 /\ c.nel = 0

LEMMA CutIs ==
  ASSUME NEW p, NEW st \in Nat, NEW L \in Nat, NEW pos \in Nat, NEW n \in Nat,
         p.nStart = st, p.nEnd = st + L - 1, Len(p.pData) = L, L # 0, n # 0,
         NEW from, NEW to, CutBounds(st, L, pos, n, from, to)
  PROVE  CutValues(Cut(p, pos, n), from, to)
<1>1. Cut(p, pos, n) = IF to > from THEN [keep |-> from, nel |-> to - from]
                       ELSE [keep |-> 0, nel |-> 0]
  BY DEF Cut, CutBounds
<1> QED BY <1>1 DEF CutValues

\* The numbers of a block of L elements behind the first st.
CutRight(st, L, pos, n, keep, nel) ==
  /\ keep \in Nat /\ nel \in Nat /\ keep + nel <= L
  /\ Squeezed(st, pos, n) \in Nat
  /\ Squeezed(st + L, pos, n) = Squeezed(st, pos, n) + (L - nel)
  /\ \A i \in 1 .. L - nel :
       /\ Squeezed(st, pos, n) + i <= pos =>
            Squeezed(st, pos, n) + i = st + Origin(i, keep, nel)
       /\ ~(Squeezed(st, pos, n) + i <= pos) =>
            Squeezed(st, pos, n) + i + n = st + Origin(i, keep, nel)
  /\ nel = L <=> pos <= st /\ st + L <= pos + n

LEMMA CutNumbers ==
  ASSUME NEW p, NEW st \in Nat, NEW L \in Nat, NEW pos \in Nat, NEW n \in Nat,
         p.nStart = st, p.nEnd = st + L - 1, Len(p.pData) = L, L # 0, n # 0,
         NEW keep, keep = Cut(p, pos, n).keep, NEW nel, nel = Cut(p, pos, n).nel
  PROVE  CutRight(st, L, pos, n, keep, nel)
<1>1. PICK from, to : /\ from = IF pos > st THEN pos - st ELSE 0
                      /\ to = IF pos + n > st + L - 1 THEN L ELSE pos + n - st
  OBVIOUS
<1>2. /\ to > from => keep = from /\ nel = to - from
      /\ ~(to > from) => keep = 0 /\ nel = 0
  <2>1. CutBounds(st, L, pos, n, from, to)
    BY <1>1 DEF CutBounds
  <2>2. CutValues(Cut(p, pos, n), from, to)
    BY <2>1, CutIs
  <2> QED BY <2>2 DEF CutValues
<1>3. CASE pos >= st + L
  <2>1. keep = 0 /\ nel = 0
    BY <1>1, <1>2, <1>3
  <2>2. Squeezed(st, pos, n) = st /\ Squeezed(st + L, pos, n) = st + L
    BY <1>3 DEF Squeezed
  <2>3. \A i \in 1 .. L - nel : st + i <= pos /\ Origin(i, keep, nel) = i
    BY <1>3, <2>1 DEF Origin
  <2> QED BY <1>3, <2>1, <2>2, <2>3 DEF CutRight
<1>4. CASE st >= pos + n
  <2>1. keep = 0 /\ nel = 0
    BY <1>1, <1>2, <1>4
  <2>2. Squeezed(st, pos, n) = st - n /\ Squeezed(st + L, pos, n) = st + L - n
    BY <1>4 DEF Squeezed
  <2>3. \A i \in 1 .. L - nel : ~(st - n + i <= pos) /\ Origin(i, keep, nel) = i
    BY <1>4, <2>1 DEF Origin
  <2> QED BY <1>4, <2>1, <2>2, <2>3 DEF CutRight
<1>5. CASE pos < st + L /\ st < pos + n /\ pos >= st
  <2>1. to > from /\ keep = pos - st
    BY <1>1, <1>2, <1>5
  <2>2. Squeezed(st, pos, n) = st
    BY <1>5 DEF Squeezed
  <2>3. CASE pos + n >= st + L
    <3>1. nel = L - (pos - st)
      BY <1>1, <1>2, <1>5, <2>1, <2>3
    <3>2. Squeezed(st + L, pos, n) = pos
      BY <1>5, <2>3 DEF Squeezed
    <3>3. \A i \in 1 .. L - nel : st + i <= pos /\ Origin(i, keep, nel) = i
      BY <1>5, <2>1, <3>1 DEF Origin
    <3>4. nel = L <=> pos <= st /\ st + L <= pos + n
      BY <1>5, <2>3, <3>1
    <3> QED BY <1>5, <2>1, <2>2, <3>1, <3>2, <3>3, <3>4 DEF CutRight
  <2>4. CASE pos + n < st + L
    <3>1. nel = n
      BY <1>1, <1>2, <1>5, <2>1, <2>4
    <3>2. Squeezed(st + L, pos, n) = st + L - n
      BY <1>5, <2>4 DEF Squeezed
    <3>3. \A i \in 1 .. L - nel :
            /\ st + i <= pos => Origin(i, keep, nel) = i
            /\ ~(st + i <= pos) => Origin(i, keep, nel) = i + n
      BY <1>5, <2>1, <3>1 DEF Origin
    <3>4. nel # L /\ ~(st + L <= pos + n) /\ keep + nel <= L
      BY <1>5, <2>1, <2>4, <3>1
    <3> QED BY <1>5, <2>1, <2>2, <3>1, <3>2, <3>3, <3>4 DEF CutRight
  <2> QED BY <2>3, <2>4
<1>6. CASE pos < st + L /\ st < pos + n /\ pos < st
  <2>1. to > from /\ keep = 0
    BY <1>1, <1>2, <1>6
  <2>2. Squeezed(st, pos, n) = pos
    BY <1>6 DEF Squeezed
  <2>3. CASE pos + n >= st + L
    <3>1. nel = L
      BY <1>1, <1>2, <1>6, <2>1, <2>3
    <3>2. Squeezed(st + L, pos, n) = pos
      BY <1>6, <2>3 DEF Squeezed
    <3>3. \A i \in 1 .. L - nel : FALSE
      BY <3>1
    <3> QED BY <1>6, <2>1, <2>2, <2>3, <3>1, <3>2, <3>3 DEF CutRight
  <2>4. CASE pos + n < st + L
    <3>1. nel = pos + n - st
      BY <1>1, <1>2, <1>6, <2>1, <2>4
    <3>2. Squeezed(st + L, pos, n) = st + L - n
      BY <1>6, <2>4 DEF Squeezed
    <3>3. \A i \in 1 .. L - nel : ~(pos + i <= pos) /\ Origin(i, keep, nel) = i + nel
      BY <1>6, <2>1, <2>4, <3>1 DEF Origin
    <3>4. nel # L /\ nel \in Nat /\ nel <= L
      BY <1>6, <2>4, <3>1
    <3> QED BY <1>6, <2>1, <2>2, <2>4, <3>1, <3>2, <3>3, <3>4 DEF CutRight
  <2> QED BY <2>3, <2>4
<1> QED BY <1>3, <1>4, <1>5, <1>6

\* What Remove makes of the block p behind the first st elements.
Trimmed(p, d, st, pos, n, keep, nel) ==
  /\ CutRight(st, Len(p.pData), pos, n, keep, nel)
  /\ keep = Cut(p, pos, n).keep /\ nel = Cut(p, pos, n).nel
  /\ d \in BlockInfos /\ d.id = p.id /\ d.nStart = p.nStart /\ d.nEnd = p.nEnd - nel
  /\ Len(d.pData) = Len(p.pData) - nel
  /\ \A i \in 1 .. Len(p.pData) - nel : d.pData[i] = p.pData[Origin(i, keep, nel)]
  /\ After(p, pos, n) = SubSeq(p.pData, keep + nel + 1, Len(p.pData))

LEMMA ShortenedFacts ==
  ASSUME NEW p \in BlockInfos, NEW st \in Nat, NEW pos \in Nat, NEW n \in Nat,
         p.nStart = st, p.nEnd = st + Len(p.pData) - 1, Len(p.pData) # 0, n # 0
  PROVE  \E keep \in Nat, nel \in Nat : Trimmed(p, Shortened(p, pos, n), st, pos, n, keep, nel)
<1>1. PICK L, v, keep, nel : /\ L = Len(p.pData) /\ v = p.pData /\ keep = Cut(p, pos, n).keep
                             /\ nel = Cut(p, pos, n).nel
  OBVIOUS
<1>2. v \in Seq(Elems) /\ L \in Nat
  <2>1. v \in Seq(Elems)
    BY <1>1 DEF BlockInfos
  <2> QED BY <1>1, <2>1, LenProperties
<1>3. CutRight(st, L, pos, n, keep, nel)
  <2>1. p.nEnd = st + L - 1 /\ L # 0
    BY <1>1
  <2> QED BY <1>1, <1>2, <2>1, CutNumbers
<1>4. keep \in 0 .. L /\ nel \in 0 .. L - keep /\ keep \in Nat /\ nel \in Nat
  <2>1. keep \in Nat /\ nel \in Nat /\ keep + nel <= L
    BY <1>3 DEF CutRight
  <2> QED BY <1>2, <2>1
<1>5. PICK w : w = Without(v, keep, nel)
  OBVIOUS
<1>6. w \in Seq(Elems) /\ HasCut(v, keep, nel, w)
  BY <1>1, <1>2, <1>4, <1>5, CutFacts
<1>7. /\ Len(w) = L - nel
      /\ \A i \in 1 .. L - nel : w[i] = IF i <= keep THEN v[i] ELSE v[i + nel]
  BY <1>1, <1>6 DEF HasCut
<1>8. \A i \in 1 .. L - nel : w[i] = v[Origin(i, keep, nel)]
  BY <1>7 DEF Origin
<1>9. After(p, pos, n) = SubSeq(v, keep + nel + 1, L)
  BY <1>1 DEF After
<1>10. PICK d : d = Shortened(p, pos, n)
  OBVIOUS
<1>11. d = [p EXCEPT !.pData = w, !.nEnd = p.nEnd - nel]
  <2>1. w = SubSeq(v, 1, keep) \o SubSeq(v, keep + nel + 1, L)
    BY <1>1, <1>5 DEF Without
  <2>2. d = [p EXCEPT !.pData = SubSeq(v, 1, keep) \o After(p, pos, n), !.nEnd = p.nEnd - nel]
    BY <1>1, <1>10 DEF Shortened
  <2> QED BY <1>9, <2>1, <2>2
<1>12. p.nEnd - nel \in Int
  <2>1. p.nEnd \in Int
    BY DEF BlockInfos
  <2> QED BY <1>4, <2>1
<1>13. /\ d \in BlockInfos /\ d.id = p.id /\ d.nStart = p.nStart /\ d.nEnd = p.nEnd - nel
       /\ d.pData = w
  BY <1>6, <1>11, <1>12 DEF BlockInfos
<1>14. Trimmed(p, d, st, pos, n, keep, nel)
  BY <1>1, <1>3, <1>7, <1>8, <1>9, <1>13 DEF Trimmed
<1> QED BY <1>4, <1>10, <1>14

\* No element that stays lies in the cut.
LEMMA NotCut ==
  ASSUME NEW st \in Nat, NEW L \in Nat, NEW pos \in Nat, NEW n \in Nat, NEW keep, NEW nel,
         CutRight(st, L, pos, n, keep, nel)
  PROVE  /\ \A i \in 1 .. L - nel :
              /\ Origin(i, keep, nel) \in 1 .. L
              /\ st + Origin(i, keep, nel) \notin pos + 1 .. pos + n
         /\ \A m \in keep + nel + 1 .. L : st + m \notin pos + 1 .. pos + n
<1>1. PICK t : t = Squeezed(st, pos, n)
  OBVIOUS
<1>2. /\ keep \in Nat /\ nel \in Nat /\ keep + nel <= L /\ t \in Nat
      /\ \A i \in 1 .. L - nel :
           /\ t + i <= pos => t + i = st + Origin(i, keep, nel)
           /\ ~(t + i <= pos) => t + i + n = st + Origin(i, keep, nel)
  BY <1>1 DEF CutRight
<1>3. ASSUME NEW i \in 1 .. L - nel
      PROVE  /\ Origin(i, keep, nel) \in 1 .. L
             /\ st + Origin(i, keep, nel) \notin pos + 1 .. pos + n
  <2>1. PICK o : o = Origin(i, keep, nel)
    OBVIOUS
  <2>2. o \in 1 .. L /\ o \in Int
    BY <1>2, <2>1 DEF Origin
  <2>3. CASE t + i <= pos
    <3>1. st + o <= pos
      BY <1>2, <2>1, <2>3
    <3> QED BY <2>1, <2>2, <3>1
  <2>4. CASE ~(t + i <= pos)
    <3>1. t + i + n = st + o
      BY <1>2, <2>1, <2>4
    <3>2. st + o > pos + n
      BY <1>2, <2>2, <2>4, <3>1
    <3> QED BY <2>1, <2>2, <3>2
  <2> QED BY <2>3, <2>4
<1>4. ASSUME NEW m \in keep + nel + 1 .. L PROVE st + m \notin pos + 1 .. pos + n
  <2>1. PICK i : i = m - nel
    OBVIOUS
  <2>2. i \in 1 .. L - nel /\ ~(i <= keep) /\ i + nel = m
    BY <1>2, <2>1
  <2>3. Origin(i, keep, nel) = m
    BY <2>2 DEF Origin
  <2> QED BY <1>3, <2>2, <2>3
<1> QED BY <1>3, <1>4

\* The blocks that the elements behind pos are cut out of, and what remains of them.
Cutting(q, s, C, pos, n) ==
  /\ Laid(q, s, C) /\ Indexed(q, s, Len(q)) /\ Filled(q)
  /\ pos \in Nat /\ n \in Nat /\ n # 0 /\ pos + n <= Len(C)

Remains(q, pos, n) == [k \in DOMAIN q |-> Shortened(q[k], pos, n)]
RemainStarts(q, s, pos, n) == [k \in 1 .. Len(q) + 1 |-> Squeezed(s[k], pos, n)]

LEMMA CutBlock ==
  ASSUME NEW q, NEW s, NEW C, NEW pos, NEW n, Cutting(q, s, C, pos, n), NEW k \in 1 .. Len(q)
  PROVE  /\ \E keep \in Nat, nel \in Nat :
              Trimmed(q[k], Shortened(q[k], pos, n), s[k], pos, n, keep, nel)
         /\ Len(q[k].pData) # 0
<1>1. Laid(q, s, C) /\ pos \in Nat /\ n \in Nat /\ n # 0
  BY DEF Cutting
<1>2. PICK p, st, L, z : p = q[k] /\ st = s[k] /\ L = Len(p.pData) /\ z = s[k + 1]
  OBVIOUS
<1>3. /\ st \in Nat /\ L \in Nat /\ z = st + L /\ p \in BlockInfos /\ p.pData \in Seq(Elems)
  BY <1>1, <1>2, BlockFacts
<1>4. p.nStart = st /\ p.nEnd = z - 1 /\ p.pData # <<>>
  BY <1>2 DEF Cutting, Indexed, Filled
<1>5. L # 0
  BY <1>2, <1>3, <1>4, EmptySeq
<1>6. p.nEnd = st + Len(p.pData) - 1 /\ Len(p.pData) # 0
  BY SMTT(30), <1>2, <1>3, <1>4, <1>5
<1>7. \E keep \in Nat, nel \in Nat : Trimmed(p, Shortened(p, pos, n), st, pos, n, keep, nel)
  BY <1>1, <1>3, <1>4, <1>6, ShortenedFacts
<1> QED BY <1>2, <1>5, <1>7

\* A start lies in front of the cut, in it, or behind it.
LEMMA SqueezedFacts ==
  ASSUME NEW y \in Nat, NEW pos \in Nat, NEW n \in Nat
  PROVE  /\ Squeezed(y, pos, n) \in Nat /\ (y <= pos => Squeezed(y, pos, n) = y)
         /\ y >= pos + n => Squeezed(y, pos, n) = y - n
BY DEF Squeezed

\* The elements that stay are laid in what remains.
LEMMA RemainLaid ==
  ASSUME NEW q, NEW s, NEW C, NEW pos, NEW n, Cutting(q, s, C, pos, n), NEW left, NEW t,
         left = Remains(q, pos, n), t = RemainStarts(q, s, pos, n)
  PROVE  /\ Laid(left, t, Without(C, pos, n)) /\ Len(left) = Len(q)
         /\ \A k \in 1 .. Len(q) : left[k] = Shortened(q[k], pos, n)
<1>1. Laid(q, s, C) /\ pos \in Nat /\ n \in Nat /\ n # 0 /\ pos + n <= Len(C)
  BY DEF Cutting
<1>2. PICK N, z : N = Len(q) /\ z = Len(C)
  OBVIOUS
<1>3. /\ N \in Nat /\ DOMAIN q = 1 .. N /\ z \in Nat /\ C \in Seq(Elems) /\ z = s[N + 1]
      /\ s \in [1 .. N + 1 -> Nat] /\ s[1] = 0
  BY <1>1, <1>2, LaidFacts
<1>4. \A k \in 1 .. N + 1 : t[k] = Squeezed(s[k], pos, n) /\ s[k] \in Nat
  BY <1>2, <1>3 DEF RemainStarts
<1>5. t \in [1 .. N + 1 -> Nat]
  <2>1. \A k \in 1 .. N + 1 : Squeezed(s[k], pos, n) \in Nat
    BY <1>1, <1>4, SqueezedFacts
  <2>2. t = [k \in 1 .. N + 1 |-> Squeezed(s[k], pos, n)]
    BY <1>2 DEF RemainStarts
  <2> QED BY <2>1, <2>2
<1>6. \A k \in 1 .. N : left[k] = Shortened(q[k], pos, n)
  BY <1>3 DEF Remains
<1>7. \A k \in 1 .. N : left[k] \in BlockInfos
  <2>1. ASSUME NEW k \in 1 .. N PROVE left[k] \in BlockInfos
    <3>1. k \in 1 .. Len(q)
      BY <1>2
    <3>2. PICK keep \in Nat, nel \in Nat :
            Trimmed(q[k], Shortened(q[k], pos, n), s[k], pos, n, keep, nel)
      BY <3>1, CutBlock
    <3> QED BY <1>6, <3>2 DEF Trimmed
  <2> QED BY <2>1
<1>8. left \in Seq(BlockInfos) /\ Len(left) = N
  <2>1. left = [k \in 1 .. N |-> Shortened(q[k], pos, n)]
    BY <1>3 DEF Remains
  <2>2. left \in [1 .. N -> BlockInfos]
    BY <1>6, <1>7, <2>1
  <2> QED BY <1>3, <2>2, FunctionIsSeq
<1>9. PICK D : D = Without(C, pos, n)
  OBVIOUS
<1>10. pos \in 0 .. Len(C) /\ n \in 0 .. Len(C) - pos
  BY <1>1, <1>2, <1>3
<1>11. D \in Seq(Elems) /\ HasCut(C, pos, n, D)
  BY <1>3, <1>9, <1>10, CutFacts
<1>12. /\ Len(D) = z - n
       /\ \A i \in 1 .. z - n : D[i] = IF i <= pos THEN C[i] ELSE C[i + n]
  BY <1>2, <1>11 DEF HasCut
<1>13. t[1] = 0
  <2>1. 1 \in 1 .. N + 1 /\ 0 \in Nat /\ 0 <= pos
    BY <1>1, <1>3
  <2>2. t[1] = Squeezed(0, pos, n)
    BY <1>3, <1>4, <2>1
  <2> QED BY <1>1, <2>1, <2>2, SqueezedFacts
<1>14. t[N + 1] = Len(D)
  <2>1. N + 1 \in 1 .. N + 1 /\ z >= pos + n
    BY <1>1, <1>2, <1>3
  <2>2. t[N + 1] = Squeezed(z, pos, n)
    BY <1>3, <1>4, <2>1
  <2>3. Squeezed(z, pos, n) = z - n
    BY <1>1, <1>3, <2>1, SqueezedFacts
  <2> QED BY <1>12, <2>2, <2>3
<1>15. ASSUME NEW k \in 1 .. N
       PROVE  /\ t[k + 1] = t[k] + Len(left[k].pData)
              /\ \A i \in 1 .. Len(left[k].pData) : D[t[k] + i] = left[k].pData[i]
  <2>1. PICK p, d, st, L, y, tk :
          p = q[k] /\ d = left[k] /\ st = s[k] /\ L = Len(p.pData) /\ y = s[k + 1] /\ tk = t[k]
    OBVIOUS
  <2>2. k \in 1 .. Len(q) /\ k \in 1 .. N + 1 /\ k + 1 \in 1 .. N + 1
    BY <1>2, <1>3
  <2>3. st \in Nat /\ L \in Nat /\ y = st + L /\ y <= z /\ \A i \in 1 .. L : C[st + i] = p.pData[i]
    <3>1. st \in Nat /\ L \in Nat /\ y = st + L /\ y <= z
      BY <1>1, <1>2, <2>1, <2>2, BlockFacts
    <3>2. \A i \in 1 .. L : C[st + i] = p.pData[i]
      BY <1>1, <2>1, <2>2, PlaceFacts
    <3> QED BY <3>1, <3>2
  <2>4. PICK keep \in Nat, nel \in Nat :
          Trimmed(q[k], Shortened(q[k], pos, n), s[k], pos, n, keep, nel)
    BY <2>2, CutBlock
  <2>5. Trimmed(p, d, st, pos, n, keep, nel)
    BY <1>6, <2>1, <2>4
  <2>6. /\ CutRight(st, L, pos, n, keep, nel) /\ Len(d.pData) = L - nel
        /\ \A i \in 1 .. L - nel : d.pData[i] = p.pData[Origin(i, keep, nel)]
    BY <2>1, <2>5 DEF Trimmed
  <2>7. tk = Squeezed(st, pos, n) /\ t[k + 1] = Squeezed(st + L, pos, n)
    BY <1>4, <2>1, <2>2, <2>3
  <2>8. /\ nel <= L /\ tk \in Nat /\ t[k + 1] = tk + (L - nel)
        /\ \A i \in 1 .. L - nel :
             /\ tk + i <= pos => tk + i = st + Origin(i, keep, nel)
             /\ ~(tk + i <= pos) => tk + i + n = st + Origin(i, keep, nel)
    BY <2>3, <2>6, <2>7 DEF CutRight
  <2>9. t[k + 1] <= z - n
    <3>1. Squeezed(y, pos, n) <= z - n
      BY <1>1, <1>2, <1>3, <2>3 DEF Squeezed
    <3> QED BY <2>3, <2>7, <3>1
  <2>10. ASSUME NEW i \in 1 .. L - nel PROVE D[tk + i] = d.pData[i]
    <3>1. Origin(i, keep, nel) \in 1 .. L
      BY <1>1, <2>3, <2>6, NotCut
    <3>2. PICK o \in 1 .. L : o = Origin(i, keep, nel)
      BY <3>1
    <3>3. d.pData[i] = C[st + o]
      BY <2>3, <2>6, <3>2
    <3>4. tk + i \in 1 .. z - n
      BY <1>1, <1>3, <2>3, <2>8, <2>9
    <3>5. CASE tk + i <= pos
      <4>1. D[tk + i] = C[tk + i]
        BY <1>12, <3>4, <3>5
      <4>2. tk + i = st + o
        BY <2>8, <3>2, <3>5
      <4> QED BY <3>3, <4>1, <4>2
    <3>6. CASE ~(tk + i <= pos)
      <4>1. D[tk + i] = C[tk + i + n]
        BY <1>12, <3>4, <3>6
      <4>2. tk + i + n = st + o
        BY <2>8, <3>2, <3>6
      <4> QED BY <3>3, <4>1, <4>2
    <3> QED BY <3>5, <3>6
  <2> QED BY <2>1, <2>6, <2>8, <2>10
<1>16. Laid(left, t, D)
  <2>1. /\ \A k \in 1 .. Len(left) : t[k + 1] = t[k] + Len(left[k].pData)
        /\ \A k \in 1 .. Len(left) : \A i \in 1 .. Len(left[k].pData) : D[t[k] + i] = left[k].pData[i]
    BY <1>8, <1>15
  <2>2. t \in [1 .. Len(left) + 1 -> Nat] /\ Len(D) = t[Len(left) + 1]
    BY <1>5, <1>8, <1>14
  <2> QED BY <1>8, <1>11, <1>13, <2>1, <2>2, LaidIf
<1> QED BY <1>2, <1>6, <1>8, <1>9, <1>16

\* The blocks keep their addresses and do not grow; those up to the cut keep their indices.
LEMMA RemainKeeps ==
  ASSUME NEW q, NEW s, NEW C, NEW pos, NEW n, Cutting(q, s, C, pos, n), Ids(q), Fit(q),
         NEW left, NEW t, left = Remains(q, pos, n), t = RemainStarts(q, s, pos, n),
         NEW f \in 1 .. Len(q), s[f] <= pos
  PROVE  /\ Ids(left) /\ Fit(left) /\ Indexed(left, t, f)
         /\ \A k \in 1 .. Len(q) : left[k].pData = <<>> <=> pos <= s[k] /\ s[k + 1] <= pos + n
<1>0. Len(left) = Len(q) /\ \A k \in 1 .. Len(q) : left[k] = Shortened(q[k], pos, n)
  BY RemainLaid
<1>1. /\ Laid(q, s, C) /\ pos \in Nat /\ n \in Nat /\ Len(left) = Len(q)
      /\ \A k \in 1 .. Len(q) : left[k] = Shortened(q[k], pos, n)
  BY <1>0 DEF Cutting
<1>2. ASSUME NEW k \in 1 .. Len(q)
      PROVE  /\ left[k].id = q[k].id /\ Len(left[k].pData) <= MAXENTRY
             /\ (s[k] <= pos => left[k].nStart = t[k] /\ left[k].nEnd = t[k + 1] - 1)
             /\ (left[k].pData = <<>> <=> pos <= s[k] /\ s[k + 1] <= pos + n)
  <2>1. PICK p, d, st, L, y, N :
          p = q[k] /\ d = left[k] /\ st = s[k] /\ L = Len(p.pData) /\ y = s[k + 1] /\ N = Len(q)
    OBVIOUS
  <2>2. st \in Nat /\ L \in Nat /\ y = st + L
    BY <1>1, <2>1, BlockFacts
  <2>3. p.nStart = st /\ p.nEnd = y - 1 /\ L <= MAXENTRY
    BY <2>1 DEF Cutting, Indexed, Fit
  <2>4. PICK keep \in Nat, nel \in Nat :
          Trimmed(q[k], Shortened(q[k], pos, n), s[k], pos, n, keep, nel)
    BY CutBlock
  <2>5. Trimmed(p, d, st, pos, n, keep, nel)
    BY <1>1, <2>1, <2>4
  <2>6. /\ CutRight(st, L, pos, n, keep, nel) /\ Len(d.pData) = L - nel
        /\ d.id = p.id /\ d.nStart = p.nStart /\ d.nEnd = p.nEnd - nel
        /\ d.pData \in Seq(Elems)
    BY <2>1, <2>5 DEF Trimmed, BlockInfos
  <2>7. N \in Nat
    BY <1>1, <2>1, LaidFacts
  <2>8. k \in 1 .. N + 1 /\ k + 1 \in 1 .. N + 1
    BY <2>1, <2>7
  <2>9. t[k] = Squeezed(st, pos, n) /\ t[k + 1] = Squeezed(st + L, pos, n)
    BY <2>1, <2>2, <2>8 DEF RemainStarts
  <2>10. t[k] \in Nat /\ t[k + 1] = t[k] + (L - nel) /\ (nel = L <=> pos <= st /\ y <= pos + n)
    BY <2>2, <2>6, <2>9 DEF CutRight
  <2>11. Len(d.pData) <= MAXENTRY
    <3>1. MAXENTRY \in Nat
      BY SizesAssumption
    <3> QED BY <2>2, <2>3, <2>6, <3>1
  <2>12. ASSUME st <= pos PROVE d.nStart = t[k] /\ d.nEnd = t[k + 1] - 1
    <3>1. t[k] = st
      BY <1>1, <2>2, <2>9, <2>12, SqueezedFacts
    <3>2. d.nEnd = st + L - 1 - nel
      BY <2>2, <2>3, <2>6
    <3>3. t[k + 1] - 1 = st + L - 1 - nel
      BY <2>2, <2>10, <3>1
    <3> QED BY <2>3, <2>6, <3>1, <3>2, <3>3
  <2>13. d.pData = <<>> <=> pos <= st /\ y <= pos + n
    <3>1. d.pData = <<>> <=> Len(d.pData) = 0
      BY <2>6, EmptySeq
    <3>2. Len(d.pData) = 0 <=> nel = L
      BY <2>2, <2>6
    <3> QED BY <2>10, <3>1, <3>2
  <2> QED BY <2>1, <2>6, <2>11, <2>12, <2>13
<1>3. Ids(left) /\ Fit(left)
  <2>1. Ids(left)
    BY <1>1, <1>2 DEF Ids
  <2>2. Fit(left)
    BY <1>1, <1>2 DEF Fit
  <2> QED BY <2>1, <2>2
<1>4. ASSUME NEW k \in 1 .. f PROVE left[k].nStart = t[k] /\ left[k].nEnd = t[k + 1] - 1
  <2>1. PICK N : N = Len(q)
    OBVIOUS
  <2>2. N \in Nat
    BY <1>1, <2>1, LaidFacts
  <2>3. k \in 1 .. N /\ k \in 1 .. N + 1 /\ f \in k .. N + 1 /\ f \in 1 .. N
    BY <2>1, <2>2
  <2>4. s[k] <= s[f]
    BY <1>1, <2>1, <2>3, BlocksRise
  <2>5. s[k] \in Nat /\ s[f] \in Nat
    BY <1>1, <2>1, <2>3, BlockFacts
  <2>6. s[k] <= pos
    BY <1>1, <2>4, <2>5
  <2> QED BY <1>2, <2>1, <2>3, <2>6
<1>5. Indexed(left, t, f)
  BY <1>4 DEF Indexed
<1> QED BY <1>2, <1>3, <1>5

\* The elements that stay in the block d of what was p, which are not the x-th one.
StayIn(p, d, st, keep, nel, x, tail) ==
  /\ keep \in Nat /\ nel \in Nat /\ d.id = p.id /\ Len(d.pData) = Len(p.pData) - nel
  /\ \A i \in 1 .. Len(d.pData) :
       /\ Origin(i, keep, nel) \in 1 .. Len(p.pData)
       /\ d.pData[i] = p.pData[Origin(i, keep, nel)] /\ st + Origin(i, keep, nel) # x
  /\ \A e : e \in ToSet(tail) <=> \E m \in keep + nel + 1 .. Len(p.pData) : p.pData[m] = e
  /\ \A m \in keep + nel + 1 .. Len(p.pData) : m \in 1 .. Len(p.pData) /\ st + m # x

LEMMA TrimmedStay ==
  ASSUME NEW p, NEW d, NEW st \in Nat, NEW pos \in Nat, NEW n \in Nat, NEW keep, NEW nel,
         Trimmed(p, d, st, pos, n, keep, nel), p.pData \in Seq(Elems),
         NEW x, x = 0 \/ x \in pos + 1 .. pos + n
  PROVE  StayIn(p, d, st, keep, nel, x, After(p, pos, n))
<1>1. PICK L, v : v = p.pData /\ L = Len(v)
  OBVIOUS
<1>2. L \in Nat /\ v \in Seq(Elems)
  BY <1>1, LenProperties
<1>3. /\ CutRight(st, L, pos, n, keep, nel) /\ Len(d.pData) = L - nel /\ d.id = p.id
      /\ \A i \in 1 .. L - nel : d.pData[i] = v[Origin(i, keep, nel)]
      /\ After(p, pos, n) = SubSeq(v, keep + nel + 1, L)
  BY <1>1 DEF Trimmed
<1>4. /\ \A i \in 1 .. L - nel :
           /\ Origin(i, keep, nel) \in 1 .. L
           /\ st + Origin(i, keep, nel) \notin pos + 1 .. pos + n
      /\ \A m \in keep + nel + 1 .. L : st + m \notin pos + 1 .. pos + n
  BY <1>2, <1>3, NotCut
<1>5. keep \in Nat /\ nel \in Nat /\ keep + nel <= L
  BY <1>3 DEF CutRight
<1>6. PICK j : j = keep + nel + 1
  OBVIOUS
<1>7. j \in 1 .. L + 1 /\ j \in Nat
  BY <1>2, <1>5, <1>6
<1>8. ASSUME NEW e
      PROVE  e \in ToSet(SubSeq(v, j, L)) <=> \E m \in j .. L : v[m] = e
  BY <1>1, <1>2, <1>7, InPart
<1>9. \A y \in 1 .. L : st + y # 0
  BY <1>2
<1>10. \A m \in j .. L : m \in 1 .. L
  BY <1>2, <1>7
<1>11. \A i \in 1 .. L - nel : st + Origin(i, keep, nel) # x
  BY <1>4, <1>9
<1>12. \A m \in j .. L : st + m # x
  BY <1>4, <1>6, <1>9, <1>10
<1> QED BY <1>1, <1>3, <1>4, <1>5, <1>6, <1>8, <1>10, <1>11, <1>12 DEF StayIn

\* The elements that stay know where they are.
LEMMA RemainRight ==
  ASSUME NEW a, NEW q, q = a.ppInf, NEW s, NEW C, NEW pos, NEW n, Cutting(q, s, C, pos, n),
         Ids(q), NEW x, Right(q, a.entry, s, x), x = 0 \/ x \in pos + 1 .. pos + n,
         NEW left, NEW t, left = Remains(q, pos, n), t = RemainStarts(q, s, pos, n)
  PROVE  Right(left, EntriesWithout(a, pos, n), t, 0)
<1>0. Len(left) = Len(q) /\ \A k \in 1 .. Len(q) : left[k] = Shortened(q[k], pos, n)
  BY RemainLaid
<1>1. /\ Laid(q, s, C) /\ pos \in Nat /\ n \in Nat /\ Len(left) = Len(q)
      /\ \A k \in 1 .. Len(q) : left[k] = Shortened(q[k], pos, n)
  BY <1>0 DEF Cutting
<1>2. Distinct(C, x)
  BY <1>1, RightDistinct
<1>3. DOMAIN q = 1 .. Len(q)
  BY <1>1, LaidFacts
<1>4. ASSUME NEW l \in 1 .. Len(q)
      PROVE  \E keep, nel : /\ keep = Cut(q[l], pos, n).keep /\ nel = Cut(q[l], pos, n).nel
                            /\ StayIn(q[l], left[l], s[l], keep, nel, x, After(q[l], pos, n))
  <2>1. PICK keep \in Nat, nel \in Nat :
          Trimmed(q[l], Shortened(q[l], pos, n), s[l], pos, n, keep, nel)
    BY CutBlock
  <2>2. Trimmed(q[l], left[l], s[l], pos, n, keep, nel)
    BY <1>1, <2>1
  <2>3. s[l] \in Nat /\ q[l].pData \in Seq(Elems)
    BY <1>1, BlockFacts
  <2>4. StayIn(q[l], left[l], s[l], keep, nel, x, After(q[l], pos, n))
    BY <1>1, <2>2, <2>3, TrimmedStay
  <2>5. keep = Cut(q[l], pos, n).keep /\ nel = Cut(q[l], pos, n).nel
    BY <2>2 DEF Trimmed
  <2> QED BY <2>4, <2>5
<1>5. ASSUME NEW k \in 1 .. Len(left), NEW i \in 1 .. Len(left[k].pData)
      PROVE  EntriesWithout(a, pos, n)[left[k].pData[i]] =
               [pBlock |-> left[k].id, nOffset |-> i - 1]
  <2>1. k \in 1 .. Len(q)
    BY <1>1
  <2>2. PICK keep, nel : /\ keep = Cut(q[k], pos, n).keep /\ nel = Cut(q[k], pos, n).nel
                         /\ StayIn(q[k], left[k], s[k], keep, nel, x, After(q[k], pos, n))
    BY <1>4, <2>1
  <2>3. PICK e, o : e = left[k].pData[i] /\ o = Origin(i, keep, nel)
    OBVIOUS
  <2>4. /\ o \in 1 .. Len(q[k].pData) /\ e = q[k].pData[o] /\ s[k] + o # x
        /\ keep \in Nat /\ nel \in Nat /\ left[k].id = q[k].id
        /\ Len(left[k].pData) = Len(q[k].pData) - nel
    BY <2>2, <2>3 DEF StayIn
  <2>5. e \in Elems
    BY <1>1, <2>1, <2>4, PlaceFacts
  <2>6. a.entry[e] = [pBlock |-> q[k].id, nOffset |-> o - 1]
    BY <2>1, <2>4 DEF Right
  <2>7. PICK ks : ks = {l \in DOMAIN a.ppInf : e \in ToSet(After(a.ppInf[l], pos, n))
                                               /\ Cut(a.ppInf[l], pos, n).nel > 0}
    OBVIOUS
  <2>8. EntriesWithout(a, pos, n)[e] =
          IF ks = {} THEN a.entry[e]
          ELSE [a.entry[e] EXCEPT !.nOffset = @ - Cut(a.ppInf[CHOOSE l \in ks : TRUE], pos, n).nel]
    BY <2>5, <2>7 DEF EntriesWithout
  <2>9. ks = {l \in 1 .. Len(q) : e \in ToSet(After(q[l], pos, n)) /\ Cut(q[l], pos, n).nel > 0}
    BY <1>3, <2>7
  <2>10. ASSUME NEW l \in ks PROVE l = k /\ o > keep + nel /\ nel > 0
    <3>1. l \in 1 .. Len(q) /\ e \in ToSet(After(q[l], pos, n)) /\ Cut(q[l], pos, n).nel > 0
      BY <2>9
    <3>2. PICK keepl, nell : /\ keepl = Cut(q[l], pos, n).keep /\ nell = Cut(q[l], pos, n).nel
                             /\ StayIn(q[l], left[l], s[l], keepl, nell, x, After(q[l], pos, n))
      BY <1>4, <3>1
    <3>3. PICK m \in keepl + nell + 1 .. Len(q[l].pData) : q[l].pData[m] = e
      BY <3>1, <3>2 DEF StayIn
    <3>4. m \in 1 .. Len(q[l].pData) /\ s[l] + m # x /\ keepl \in Nat /\ nell \in Nat
      BY <3>2 DEF StayIn
    <3>5. q[l].pData[m] = q[k].pData[o]
      BY <2>4, <3>3
    <3>6. l = k /\ m = o
      <4>1. Laid(q, s, C) /\ o \in 1 .. Len(q[k].pData) /\ s[k] + o # x
        BY <1>1, <2>4
      <4>2. l \in 1 .. Len(q) /\ m \in 1 .. Len(q[l].pData) /\ s[l] + m # x
        BY <3>1, <3>4
      <4> QED BY SMTT(30), <1>2, <2>1, <3>5, <4>1, <4>2, OnePlace
    <3>7. keepl = keep /\ nell = nel
      BY <2>2, <3>2, <3>6
    <3>8. m > keepl + nell
      BY <3>4
    <3> QED BY <3>1, <3>2, <3>6, <3>7, <3>8
  <2>11. Len(q[k].pData) \in Nat /\ i \in Int /\ o \in Int
    <3>1. Len(q[k].pData) \in Nat
      BY <1>1, <2>1, BlockFacts
    <3> QED BY <2>4, <3>1
  <2>12. o = IF i <= keep THEN i ELSE i + nel
    BY <2>3 DEF Origin
  <2>13. CASE ks = {}
    <3>1. o = i
      <4>1. CASE i <= keep
        BY <2>12, <4>1
      <4>2. CASE nel = 0
        BY <2>11, <2>12, <4>2
      <4>3. CASE ~(i <= keep) /\ nel # 0
        <5>1. o = i + nel /\ nel > 0
          BY <2>4, <2>12, <4>3
        <5>2. o \in keep + nel + 1 .. Len(q[k].pData)
          BY <2>4, <2>11, <4>3, <5>1
        <5>3. e \in ToSet(After(q[k], pos, n))
          BY <2>2, <2>4, <5>2 DEF StayIn
        <5>4. k \in ks
          BY <2>1, <2>2, <2>9, <5>1, <5>3
        <5> QED BY <2>13, <5>4
      <4> QED BY <4>1, <4>2, <4>3
    <3>2. EntriesWithout(a, pos, n)[e] = [pBlock |-> q[k].id, nOffset |-> i - 1]
      BY <2>6, <2>8, <2>13, <3>1
    <3> QED BY <2>3, <2>4, <3>2
  <2>14. CASE ks # {}
    <3>1. PICK c : c = CHOOSE l \in ks : TRUE
      OBVIOUS
    <3>2. c \in ks
      BY <2>14, <3>1
    <3>3. c = k /\ o > keep + nel /\ nel > 0
      BY <2>10, <3>2
    <3>4. o - 1 - nel = i - 1
      <4>1. ~(o = i /\ i <= keep)
        BY <2>4, <2>11, <3>3
      <4>2. o = i + nel
        BY <2>12, <4>1
      <4> QED BY <2>4, <2>11, <4>2
    <3>5. EntriesWithout(a, pos, n)[e] = [a.entry[e] EXCEPT !.nOffset = @ - nel]
      <4>1. Cut(a.ppInf[c], pos, n).nel = nel
        BY <2>2, <3>3
      <4> QED BY <2>8, <2>14, <3>1, <4>1
    <3>6. [a.entry[e] EXCEPT !.nOffset = @ - nel] =
            [pBlock |-> q[k].id, nOffset |-> o - 1 - nel]
      BY <2>6
    <3>7. EntriesWithout(a, pos, n)[e] = [pBlock |-> q[k].id, nOffset |-> i - 1]
      BY <3>4, <3>5, <3>6
    <3> QED BY <2>3, <2>4, <3>7
  <2> QED BY <2>13, <2>14
<1> QED BY <1>5 DEF Right

\* A set of numbers without a hole is a range.
LEMMA RangeOfSet ==
  ASSUME NEW N \in Nat, NEW T \in SUBSET (1 .. N), T # {},
         \A k, l \in T : \A j \in k .. l : j \in T
  PROVE  \E lo \in 1 .. N : \E hi \in lo .. N : T = lo .. hi /\ Cardinality(T) = hi - lo + 1
<1>1. T \in SUBSET Nat /\ \A y \in T : y \in 1 .. N /\ y \in Int
  OBVIOUS
<1>2. PICK lo \in T : \A y \in T : lo <= y
  BY <1>1, LeastNumber
<1> DEFINE U == {N - k : k \in T}
<1>3. U \in SUBSET Nat /\ U # {}
  OBVIOUS
<1>4. PICK z \in U : \A y \in U : z <= y
  BY <1>3, LeastNumber
<1>5. PICK hi \in T : z = N - hi
  OBVIOUS
<1>6. \A y \in T : y <= hi
  <2>1. ASSUME NEW y \in T PROVE y <= hi
    <3>1. N - hi <= N - y
      BY <1>4, <1>5
    <3>2. y \in Int /\ hi \in Int
      BY <1>1
    <3> HIDE DEF U
    <3> QED BY <3>1, <3>2
  <2> QED BY <2>1
<1> HIDE DEF U
<1>7. lo \in 1 .. N /\ hi \in lo .. N
  <2>1. lo \in 1 .. N /\ hi \in 1 .. N /\ lo <= hi
    BY <1>1, <1>2
  <2> QED BY <2>1
<1>8. T = lo .. hi
  <2>1. \A y \in T : y \in lo .. hi
    <3>1. ASSUME NEW y \in T PROVE y \in lo .. hi
      <4>1. y \in Int /\ lo <= y /\ y <= hi /\ lo \in Int /\ hi \in Int
        BY <1>1, <1>2, <1>6
      <4> QED BY <4>1
    <3> QED BY <3>1
  <2>2. \A y \in lo .. hi : y \in T
    OBVIOUS
  <2> QED BY <2>1, <2>2
<1>9. Cardinality(T) = hi - lo + 1
  <2>1. lo \in Int /\ hi \in Int /\ ~(lo > hi)
    BY <1>7
  <2> QED BY <1>8, <2>1, FS_Interval
<1> QED BY <1>7, <1>8, <1>9

\* The table b without the blocks from lo on, of which there are g, and the starts of the
\* others.
Gap(b, lo, g) == [k \in 1 .. Len(b) - g |-> IF k < lo THEN b[k] ELSE b[k + g]]
GapStarts(t, N, lo, g) == [k \in 1 .. N - g + 1 |-> IF k < lo THEN t[k] ELSE t[k + g]]

\* The number that the block k of the remaining table had.
Before(k, lo, g) == IF k < lo THEN k ELSE k + g

\* Blocks without elements do not move on.
LEMMA FlatGap ==
  ASSUME NEW b, NEW t, NEW D, Laid(b, t, D), NEW lo \in 1 .. Len(b), NEW hi \in lo .. Len(b),
         \A k \in lo .. hi : b[k].pData = <<>>
  PROVE  t[hi + 1] = t[lo]
<1>1. Len(b) \in Nat
  BY LaidFacts
<1> DEFINE T == {d \in Nat : lo + d <= hi + 1 => t[lo + d] = t[lo]}
<1>2. 0 \in T
  BY <1>1
<1>3. PICK m \in Nat : m = hi + 1 - lo
  BY <1>1
<1>4. ASSUME NEW d \in 1 .. m, d - 1 \in T PROVE d \in T
  <2>1. SUFFICES ASSUME lo + d <= hi + 1 PROVE t[lo + d] = t[lo]
    OBVIOUS
  <2>2. PICK k : k = lo + (d - 1)
    OBVIOUS
  <2>3. k \in lo .. hi /\ k \in 1 .. Len(b) /\ k + 1 = lo + d /\ lo + (d - 1) <= hi + 1 /\ d - 1 \in Nat
    BY <1>1, <1>3, <2>1, <2>2
  <2>4. t[k] = t[lo]
    BY <1>4, <2>2, <2>3
  <2>5. t[k] \in Nat /\ t[k + 1] = t[k] + Len(b[k].pData)
    BY <2>3, BlockFacts
  <2>6. Len(b[k].pData) = 0
    BY <2>3
  <2>7. t[k + 1] = t[k]
    BY <2>5, <2>6
  <2> QED BY <2>3, <2>4, <2>7
<1>5. \A d \in 0 .. m : d \in T
  <2> HIDE DEF T
  <2> QED BY <1>2, <1>4, Inductively
<1>6. m \in 0 .. m /\ lo + m = hi + 1 /\ lo + m <= hi + 1
  BY <1>1, <1>3
<1>7. m \in T
  BY <1>5, <1>6
<1> QED BY <1>6, <1>7

\* What holds of the table without the blocks lo .. hi.
Gapped(b, t, D, lo, hi, g, r, u) ==
  /\ Laid(r, u, D) /\ Len(r) = Len(b) - g
  /\ (Ids(b) => Ids(r)) /\ (Fit(b) => Fit(r))
  /\ \A en : Right(b, en, t, 0) => Right(r, en, u, 0)
  /\ \A m \in 0 .. lo - 1 : Indexed(b, t, m) => Indexed(r, u, m)
  /\ (\A k \in 1 .. Len(b) : k \notin lo .. hi => b[k].pData # <<>>) => Filled(r)

LEMMA GapLaid ==
  ASSUME NEW b, NEW t, NEW D, Laid(b, t, D), NEW lo \in 1 .. Len(b), NEW hi \in lo .. Len(b),
         \A k \in lo .. hi : b[k].pData = <<>>, NEW g, g = hi - lo + 1,
         NEW r, NEW u, r = Gap(b, lo, g), u = GapStarts(t, Len(b), lo, g)
  PROVE  Gapped(b, t, D, lo, hi, g, r, u)
<1>1. PICK N, M : N = Len(b) /\ M = N - g
  OBVIOUS
<1>2. /\ N \in Nat /\ b \in [1 .. N -> BlockInfos] /\ D \in Seq(Elems) /\ Len(D) = t[N + 1]
      /\ t \in [1 .. N + 1 -> Nat] /\ t[1] = 0
  BY <1>1, LaidFacts
<1>3. g \in Nat /\ M \in Nat /\ lo \in Nat /\ hi \in Nat /\ lo - 1 <= M /\ hi = lo + g - 1 /\ g >= 1
  BY <1>1, <1>2
<1>4. t[hi + 1] = t[lo]
  <2>1. \A k \in lo .. hi : b[k].pData = <<>>
    OBVIOUS
  <2>2. Laid(b, t, D) /\ lo \in 1 .. Len(b) /\ hi \in lo .. Len(b)
    OBVIOUS
  <2> QED BY <2>1, <2>2, FlatGap
<1>5. r = [k \in 1 .. M |-> IF k < lo THEN b[k] ELSE b[k + g]]
  BY <1>1 DEF Gap
<1>6. u = [k \in 1 .. M + 1 |-> IF k < lo THEN t[k] ELSE t[k + g]]
  BY <1>1 DEF GapStarts
<1>7. ASSUME NEW k \in 1 .. M
      PROVE  /\ Before(k, lo, g) \in 1 .. N /\ Before(k, lo, g) \notin lo .. hi
             /\ r[k] = b[Before(k, lo, g)] /\ u[k] = t[Before(k, lo, g)]
             /\ u[k + 1] = t[Before(k, lo, g) + 1]
  <2>1. k \in Nat /\ k \in 1 .. M + 1 /\ k + 1 \in 1 .. M + 1 /\ k <= M
    BY <1>3
  <2>2. CASE k < lo
    <3>1. Before(k, lo, g) = k
      BY <2>2 DEF Before
    <3>2. k \in 1 .. N /\ k \notin lo .. hi
      BY <1>1, <1>2, <1>3, <2>1, <2>2
    <3>3. r[k] = b[k] /\ u[k] = t[k]
      BY <1>5, <1>6, <2>1, <2>2
    <3>4. u[k + 1] = t[k + 1]
      <4>1. CASE k + 1 < lo
        BY <1>6, <2>1, <4>1
      <4>2. CASE k + 1 = lo
        <5>1. u[k + 1] = t[lo + g] /\ lo + g = hi + 1
          BY <1>3, <1>6, <2>1, <4>2
        <5> QED BY <1>4, <4>2, <5>1
      <4> QED BY <1>3, <2>1, <2>2, <4>1, <4>2
    <3> QED BY <3>1, <3>2, <3>3, <3>4
  <2>3. CASE ~(k < lo)
    <3>1. Before(k, lo, g) = k + g
      BY <2>3 DEF Before
    <3>2. k + g \in 1 .. N /\ k + g \notin lo .. hi /\ ~(k + 1 < lo) /\ k + 1 + g = k + g + 1
      BY <1>1, <1>2, <1>3, <2>1, <2>3
    <3>3. r[k] = b[k + g] /\ u[k] = t[k + g] /\ u[k + 1] = t[k + 1 + g]
      BY <1>5, <1>6, <2>1, <2>3, <3>2
    <3> QED BY <3>1, <3>2, <3>3
  <2> QED BY <2>2, <2>3
<1>8. r \in Seq(BlockInfos) /\ Len(r) = M
  <2>1. \A k \in 1 .. M : r[k] \in BlockInfos
    BY <1>2, <1>7
  <2>2. r \in [1 .. M -> BlockInfos]
    BY <1>5, <2>1
  <2> QED BY <1>3, <2>2, FunctionIsSeq
<1>9. u \in [1 .. M + 1 -> Nat] /\ u[1] = 0 /\ u[M + 1] = Len(D)
  <2>1. ASSUME NEW k \in 1 .. M + 1 PROVE u[k] \in Nat
    <3>1. CASE k < lo
      <4>1. k \in 1 .. N + 1 /\ u[k] = t[k]
        BY <1>1, <1>2, <1>3, <1>6, <3>1
      <4> QED BY <1>2, <4>1
    <3>2. CASE ~(k < lo)
      <4>1. k + g \in 1 .. N + 1 /\ u[k] = t[k + g]
        BY SMTT(30), <1>1, <1>2, <1>3, <1>6, <3>2
      <4> QED BY <1>2, <4>1
    <3> QED BY <3>1, <3>2
  <2>2. u \in [1 .. M + 1 -> Nat]
    BY <1>6, <2>1
  <2>3. u[1] = 0
    <3>1. CASE 1 < lo
      BY <1>2, <1>3, <1>6, <3>1
    <3>2. CASE lo = 1
      <4>1. 1 \in 1 .. M + 1 /\ ~(1 < lo) /\ 1 + g = hi + 1
        BY <1>3, <3>2
      <4>2. u[1] = t[hi + 1]
        BY <1>6, <4>1
      <4> QED BY <1>2, <1>4, <3>2, <4>2
    <3> QED BY <1>3, <3>1, <3>2
  <2>4. u[M + 1] = Len(D)
    <3>1. M + 1 \in 1 .. M + 1 /\ ~(M + 1 < lo) /\ M + 1 + g = N + 1
      BY <1>1, <1>2, <1>3
    <3> QED BY <1>2, <1>6, <3>1
  <2> QED BY <2>2, <2>3, <2>4
<1>10. ASSUME NEW k \in 1 .. M
       PROVE  /\ u[k + 1] = u[k] + Len(r[k].pData)
              /\ \A i \in 1 .. Len(r[k].pData) : D[u[k] + i] = r[k].pData[i]
  <2>1. PICK o : o = Before(k, lo, g)
    OBVIOUS
  <2>2. o \in 1 .. Len(b) /\ r[k] = b[o] /\ u[k] = t[o] /\ u[k + 1] = t[o + 1]
    BY <1>1, <1>7, <2>1
  <2>3. t[o + 1] = t[o] + Len(b[o].pData)
    BY <2>2, BlockFacts
  <2>4. \A i \in 1 .. Len(b[o].pData) : D[t[o] + i] = b[o].pData[i]
    BY <2>2, PlaceFacts
  <2> QED BY <2>2, <2>3, <2>4
<1>11. Laid(r, u, D)
  <2>1. /\ \A k \in 1 .. Len(r) : u[k + 1] = u[k] + Len(r[k].pData)
        /\ \A k \in 1 .. Len(r) : \A i \in 1 .. Len(r[k].pData) : D[u[k] + i] = r[k].pData[i]
    BY <1>8, <1>10
  <2>2. u \in [1 .. Len(r) + 1 -> Nat] /\ Len(D) = u[Len(r) + 1] /\ u[1] = 0
    BY <1>8, <1>9
  <2> QED BY ZenonT(60), <1>2, <1>8, <2>1, <2>2, LaidIf
<1>12. ASSUME Ids(b) PROVE Ids(r)
  <2>1. ASSUME NEW k \in 1 .. M, NEW l \in 1 .. M, r[k].id = r[l].id PROVE k = l
    <3>1. PICK ok, ol : ok = Before(k, lo, g) /\ ol = Before(l, lo, g)
      OBVIOUS
    <3>2. ok \in 1 .. Len(b) /\ ol \in 1 .. Len(b) /\ r[k] = b[ok] /\ r[l] = b[ol]
      BY <1>1, <1>7, <3>1
    <3>3. ok = ol
      BY <1>12, <2>1, <3>2 DEF Ids
    <3> QED BY <1>3, <3>1, <3>3 DEF Before
  <2> QED BY <1>8, <2>1 DEF Ids
<1>13. ASSUME Fit(b) PROVE Fit(r)
  BY <1>1, <1>7, <1>8, <1>13 DEF Fit
<1>14. ASSUME NEW en, Right(b, en, t, 0) PROVE Right(r, en, u, 0)
  <2>1. ASSUME NEW k \in 1 .. M, NEW i \in 1 .. Len(r[k].pData), u[k] + i # 0
        PROVE  en[r[k].pData[i]] = [pBlock |-> r[k].id, nOffset |-> i - 1]
    <3>1. PICK o : o = Before(k, lo, g)
      OBVIOUS
    <3>2. o \in 1 .. Len(b) /\ r[k] = b[o] /\ u[k] = t[o]
      BY <1>1, <1>7, <3>1
    <3> QED BY <1>14, <2>1, <3>2 DEF Right
  <2> QED BY <1>8, <2>1 DEF Right
<1>15. ASSUME NEW m \in 0 .. lo - 1, Indexed(b, t, m) PROVE Indexed(r, u, m)
  <2>1. ASSUME NEW k \in 1 .. m PROVE r[k].nStart = u[k] /\ r[k].nEnd = u[k + 1] - 1
    <3>1. k \in 1 .. M /\ k < lo
      BY <1>3
    <3>2. Before(k, lo, g) = k
      BY <3>1 DEF Before
    <3>3. r[k] = b[k] /\ u[k] = t[k] /\ u[k + 1] = t[k + 1]
      BY <1>7, <3>1, <3>2
    <3> QED BY <1>15, <3>3 DEF Indexed
  <2> QED BY <2>1 DEF Indexed
<1>16. ASSUME \A k \in 1 .. Len(b) : k \notin lo .. hi => b[k].pData # <<>> PROVE Filled(r)
  <2>1. ASSUME NEW k \in 1 .. M PROVE r[k].pData # <<>>
    <3>1. PICK o : o = Before(k, lo, g)
      OBVIOUS
    <3>2. o \in 1 .. Len(b) /\ o \notin lo .. hi /\ r[k] = b[o]
      BY <1>1, <1>7, <3>1
    <3> QED BY <1>16, <3>2
  <2> QED BY <1>8, <2>1 DEF Filled
<1> QED BY <1>1, <1>8, <1>11, <1>12, <1>13, <1>14, <1>15, <1>16 DEF Gapped

\* The entries of the elements that stay are entries.
LEMMA RemainEntries ==
  ASSUME NEW a, NEW q, q = a.ppInf, NEW s, NEW C, NEW pos, NEW n, Cutting(q, s, C, pos, n),
         NEW x, Right(q, a.entry, s, x), x = 0 \/ x \in pos + 1 .. pos + n,
         a.entry \in [Elems -> Entries \cup {None}]
  PROVE  EntriesWithout(a, pos, n) \in [Elems -> Entries \cup {None}]
<1>1. Laid(q, s, C) /\ pos \in Nat /\ n \in Nat
  BY DEF Cutting
<1>2. DOMAIN q = 1 .. Len(q)
  BY <1>1, LaidFacts
<1>3. ASSUME NEW e \in Elems PROVE EntriesWithout(a, pos, n)[e] \in Entries \cup {None}
  <2>1. PICK ks : ks = {l \in DOMAIN a.ppInf : e \in ToSet(After(a.ppInf[l], pos, n))
                                               /\ Cut(a.ppInf[l], pos, n).nel > 0}
    OBVIOUS
  <2>2. EntriesWithout(a, pos, n)[e] =
          IF ks = {} THEN a.entry[e]
          ELSE [a.entry[e] EXCEPT !.nOffset = @ - Cut(a.ppInf[CHOOSE l \in ks : TRUE], pos, n).nel]
    BY <2>1 DEF EntriesWithout
  <2>3. CASE ks = {}
    BY <2>2, <2>3
  <2>4. CASE ks # {}
    <3>1. PICK l : l = CHOOSE j \in ks : TRUE
      OBVIOUS
    <3>2. l \in ks
      BY <2>4, <3>1
    <3>3. l \in 1 .. Len(q) /\ e \in ToSet(After(q[l], pos, n))
      BY <1>2, <2>1, <3>2
    <3>4. PICK keep \in Nat, nel \in Nat :
            Trimmed(q[l], Shortened(q[l], pos, n), s[l], pos, n, keep, nel)
      BY <3>3, CutBlock
    <3>5. s[l] \in Nat /\ q[l].pData \in Seq(Elems) /\ Len(q[l].pData) \in Nat
      BY <1>1, <3>3, BlockFacts
    <3>6. StayIn(q[l], Shortened(q[l], pos, n), s[l], keep, nel, x, After(q[l], pos, n))
      BY <1>1, <3>4, <3>5, TrimmedStay
    <3>7. nel = Cut(q[l], pos, n).nel
      BY <3>4 DEF Trimmed
    <3>8. PICK m \in keep + nel + 1 .. Len(q[l].pData) : q[l].pData[m] = e
      BY <3>3, <3>6 DEF StayIn
    <3>9. m \in 1 .. Len(q[l].pData) /\ s[l] + m # x
      BY <3>6, <3>8 DEF StayIn
    <3>10. a.entry[e] = [pBlock |-> q[l].id, nOffset |-> m - 1]
      BY <3>3, <3>8, <3>9 DEF Right
    <3>11. EntriesWithout(a, pos, n)[e] = [a.entry[e] EXCEPT !.nOffset = @ - nel]
      BY <2>2, <2>4, <3>1, <3>7
    <3>12. EntriesWithout(a, pos, n)[e] = [pBlock |-> q[l].id, nOffset |-> m - 1 - nel]
      BY <3>10, <3>11
    <3>13. m - 1 - nel \in Nat
      BY <3>5, <3>8
    <3>14. q[l].id \in Nat
      BY <1>1, <3>3, BlockFacts
    <3>15. [pBlock |-> q[l].id, nOffset |-> m - 1 - nel] \in Entries
      BY <3>13, <3>14 DEF Entries
    <3> QED BY <3>12, <3>15
  <2> QED BY <2>3, <2>4
<1>4. PICK en : en = EntriesWithout(a, pos, n)
  OBVIOUS
<1>5. en = [e \in Elems |-> en[e]]
  BY <1>4 DEF EntriesWithout
<1> QED BY <1>3, <1>4, <1>5

\* The table without the empty blocks.
LEMMA NonEmptyNone ==
  ASSUME NEW b \in Seq(BlockInfos), Filled(b)
  PROVE  NonEmpty(b) = b
<1>1. Len(b) \in Nat /\ DOMAIN b = 1 .. Len(b) /\ b = [k \in 1 .. Len(b) |-> b[k]]
  BY LenProperties
<1>2. PICK gone : gone = {k \in DOMAIN b : b[k].pData = <<>>}
  OBVIOUS
<1>3. gone = {}
  BY <1>1, <1>2 DEF Filled
<1>4. Cardinality(gone) = 0
  BY <1>3, FS_EmptySet
<1>5. NonEmpty(b) = [k \in 1 .. Len(b) - Cardinality(gone) |->
                       IF \A j \in gone : k < j THEN b[k] ELSE b[k + Cardinality(gone)]]
  BY <1>2 DEF NonEmpty
<1>6. NonEmpty(b) = [k \in 1 .. Len(b) |-> b[k]]
  BY <1>1, <1>3, <1>4, <1>5
<1> QED BY <1>1, <1>6

LEMMA NonEmptySome ==
  ASSUME NEW b \in Seq(BlockInfos), NEW lo \in 1 .. Len(b), NEW hi \in lo .. Len(b),
         \A k \in 1 .. Len(b) : b[k].pData = <<>> <=> k \in lo .. hi
  PROVE  NonEmpty(b) = Gap(b, lo, hi - lo + 1)
<1>1. Len(b) \in Nat /\ DOMAIN b = 1 .. Len(b)
  BY LenProperties
<1>2. PICK gone, g : gone = {k \in DOMAIN b : b[k].pData = <<>>} /\ g = hi - lo + 1
  OBVIOUS
<1>3. gone = lo .. hi
  <2>1. \A k \in lo .. hi : k \in 1 .. Len(b)
    BY <1>1
  <2> QED BY <1>1, <1>2, <2>1
<1>4. Cardinality(gone) = g
  <2>1. lo \in Int /\ hi \in Int /\ ~(lo > hi)
    BY <1>1
  <2> QED BY <1>2, <1>3, <2>1, FS_Interval
<1>5. NonEmpty(b) = [k \in 1 .. Len(b) - g |->
                       IF \A j \in gone : k < j THEN b[k] ELSE b[k + g]]
  BY <1>2, <1>4 DEF NonEmpty
<1>6. g \in Nat
  BY <1>1, <1>2
<1>7. ASSUME NEW k \in 1 .. Len(b) - g PROVE (\A j \in gone : k < j) <=> k < lo
  <2>1. lo \in gone /\ \A j \in gone : j \in Int /\ lo <= j
    BY <1>1, <1>3
  <2>2. k \in Int /\ lo \in Int
    BY <1>1, <1>6
  <2> QED BY <2>1, <2>2
<1>8. NonEmpty(b) = [k \in 1 .. Len(b) - g |-> IF k < lo THEN b[k] ELSE b[k + g]]
  BY <1>5, <1>7
<1> QED BY <1>2, <1>8 DEF Gap

-----------------------------------------------------------------------------
(* What Remove updates the indices of, from the block of number m on.       *)

Ready(B, u, D, en, m, M) ==
  /\ Laid(B, u, D) /\ Ids(B) /\ Fit(B) /\ Filled(B) /\ Right(B, en, u, 0) /\ Len(B) <= M
  /\ m \in Nat /\ m <= Len(B)
  /\ m + 1 <= Len(B) => Indexed(B, u, m + 1)
  /\ ~(m + 1 <= Len(B)) => Indexed(B, u, Len(B))

Inner(left) == NonEmpty(left) # left /\ left[Len(left)].pData # <<>>
Blk1(left, cur) == IF Inner(left) /\ cur > 0 THEN cur - 1 ELSE cur
FirstOf(left, cur) ==
  IF Inner(left) /\ cur = 0
  THEN [NonEmpty(left) EXCEPT ![1].nStart = 0, ![1].nEnd = Len(NonEmpty(left)[1].pData) - 1]
  ELSE NonEmpty(left)

\* The block F is the first that something was cut out of, if anything was.
Shrunk(left, t, D, en, F) ==
  /\ Laid(left, t, D) /\ Ids(left) /\ Fit(left) /\ Right(left, en, t, 0)
  /\ F \in 1 .. Len(left) /\ Indexed(left, t, F)
  /\ \A k \in 1 .. Len(left) : left[k].pData = <<>> => F <= k
  /\ \A k, l \in 1 .. Len(left) : left[k].pData = <<>> /\ left[l].pData = <<>> =>
       \A j \in k .. l : left[j].pData = <<>>

\* No block got empty.
LEMMA ReadyAll ==
  ASSUME NEW left, NEW t, NEW D, NEW en, NEW F, Shrunk(left, t, D, en, F), Filled(left)
  PROVE  Ready(FirstOf(left, F - 1), t, D, en, Blk1(left, F - 1), Len(left))
<1>1. Laid(left, t, D) /\ F \in 1 .. Len(left)
  BY DEF Shrunk
<1>2. left \in Seq(BlockInfos) /\ Len(left) \in Nat
  BY <1>1, LaidFacts
<1>3. NonEmpty(left) = left
  BY <1>2, NonEmptyNone
<1>4. FirstOf(left, F - 1) = left /\ Blk1(left, F - 1) = F - 1
  BY <1>3 DEF FirstOf, Blk1, Inner
<1>5. F - 1 \in Nat /\ F - 1 <= Len(left) /\ F - 1 + 1 <= Len(left) /\ F - 1 + 1 = F
      /\ Len(left) <= Len(left)
  BY <1>1, <1>2
<1> QED BY <1>4, <1>5 DEF Ready, Shrunk

\* The first block gets its indices.
LEMMA FirstSet ==
  ASSUME NEW B, NEW u, NEW D, Laid(B, u, D), Len(B) # 0, NEW d,
         d = [B EXCEPT ![1].nStart = 0, ![1].nEnd = Len(B[1].pData) - 1]
  PROVE  d \in Seq(BlockInfos) /\ SameBlocks(B, d) /\ Indexed(d, u, 1)
<1>1. B \in Seq(BlockInfos) /\ Len(B) \in Nat /\ B \in [1 .. Len(B) -> BlockInfos] /\ u[1] = 0
  BY LaidFacts
<1>2. 1 \in 1 .. Len(B)
  BY <1>1
<1>3. PICK p, f, L : p = B[1] /\ L = Len(p.pData) /\ f = [p EXCEPT !.nStart = 0, !.nEnd = L - 1]
  OBVIOUS
<1>4. p \in BlockInfos /\ L \in Nat /\ u[1 + 1] = u[1] + L
  BY <1>2, <1>3, BlockFacts
<1>5. f \in BlockInfos /\ f.nStart = 0 /\ f.nEnd = L - 1 /\ f.pData = p.pData /\ f.id = p.id
  <2>1. L - 1 \in Int /\ 0 \in Nat
    BY <1>4
  <2> QED BY <1>3, <1>4, <2>1 DEF BlockInfos
<1>6. d = [B EXCEPT ![1] = f]
  BY <1>1, <1>2, <1>3
<1>7. d \in [1 .. Len(B) -> BlockInfos]
  BY <1>1, <1>5, <1>6
<1>8. d \in Seq(BlockInfos) /\ Len(d) = Len(B)
  <2>1. PICK n \in Nat : n = Len(B)
    BY <1>1
  <2>2. d \in [1 .. n -> BlockInfos]
    BY <1>7, <2>1
  <2>3. d \in Seq(BlockInfos) /\ Len(d) = n
    BY <2>2, FunctionIsSeq
  <2> QED BY <2>1, <2>3
<1>9. ASSUME NEW k \in 1 .. Len(B) PROVE d[k].pData = B[k].pData /\ d[k].id = B[k].id
  <2>1. CASE k = 1
    BY <1>1, <1>2, <1>3, <1>5, <1>6, <2>1
  <2>2. CASE k # 1
    BY <1>1, <1>6, <2>2
  <2> QED BY <2>1, <2>2
<1>10. d[1].nStart = u[1] /\ d[1].nEnd = u[1 + 1] - 1
  <2>1. d[1] = f
    BY <1>1, <1>2, <1>6
  <2>2. u[1 + 1] - 1 = L - 1
    BY <1>1, <1>4
  <2> QED BY <1>1, <1>5, <2>1, <2>2
<1>11. Indexed(d, u, 1)
  <2>1. \A k \in 1 .. 1 : k = 1
    OBVIOUS
  <2> QED BY <1>10, <2>1 DEF Indexed
<1> QED BY <1>8, <1>9, <1>11 DEF SameBlocks

\* Fewer indices are right, too.
LEMMA IndexedLess ==
  ASSUME NEW b, NEW s, NEW m \in Int, NEW l \in Int, l <= m, Indexed(b, s, m)
  PROVE  Indexed(b, s, l)
<1>1. \A k \in 1 .. l : k \in 1 .. m
  OBVIOUS
<1> QED BY <1>1 DEF Indexed

\* Blocks got empty.
LEMMA ReadySome ==
  ASSUME NEW left, NEW t, NEW D, NEW en, NEW F, Shrunk(left, t, D, en, F), ~Filled(left)
  PROVE  \E u : /\ Ready(FirstOf(left, F - 1), u, D, en, Blk1(left, F - 1), Len(left))
                /\ NonEmpty(left) # left
<1>1. /\ Laid(left, t, D) /\ F \in 1 .. Len(left) /\ Indexed(left, t, F) /\ Right(left, en, t, 0)
      /\ Ids(left) /\ Fit(left)
  BY DEF Shrunk
<1>2. left \in Seq(BlockInfos) /\ Len(left) \in Nat
  BY <1>1, LaidFacts
<1>3. PICK N, T : N = Len(left) /\ T = {k \in 1 .. N : left[k].pData = <<>>}
  OBVIOUS
<1>4. /\ N \in Nat /\ T \in SUBSET (1 .. N) /\ T # {}
      /\ \A k, l \in T : \A j \in k .. l : j \in T
  <2>1. T # {}
    BY <1>3 DEF Filled
  <2>2. ASSUME NEW k \in T, NEW l \in T, NEW j \in k .. l PROVE j \in T
    <3>1. j \in 1 .. N
      BY <1>2, <1>3
    <3>2. left[j].pData = <<>>
      BY <1>3 DEF Shrunk
    <3> QED BY <1>3, <3>1, <3>2
  <2> QED BY <1>2, <1>3, <2>1, <2>2
<1>5. PICK lo \in 1 .. N : \E hi \in lo .. N : T = lo .. hi
  <2>1. \E lo \in 1 .. N : \E hi \in lo .. N : T = lo .. hi /\ Cardinality(T) = hi - lo + 1
    BY <1>4, RangeOfSet
  <2> QED BY <2>1
<1>6. PICK hi \in lo .. N : T = lo .. hi
  BY <1>5
<1>7. \A k \in 1 .. N : left[k].pData = <<>> <=> k \in lo .. hi
  BY <1>3, <1>6
<1>8. PICK g, R, u : g = hi - lo + 1 /\ R = Gap(left, lo, g) /\ u = GapStarts(t, N, lo, g)
  OBVIOUS
<1>9. NonEmpty(left) = R
  BY <1>2, <1>3, <1>7, <1>8, NonEmptySome
<1>10. /\ Laid(R, u, D) /\ Len(R) = N - g /\ Ids(R) /\ Fit(R) /\ Right(R, en, u, 0) /\ Filled(R)
       /\ \A m \in 0 .. lo - 1 : Indexed(left, t, m) => Indexed(R, u, m)
  <2>1. \A k \in lo .. hi : k \in 1 .. N
    BY <1>4
  <2>2. \A k \in lo .. hi : left[k].pData = <<>>
    BY <1>7, <2>1
  <2>3. lo \in 1 .. Len(left) /\ hi \in lo .. Len(left) /\ u = GapStarts(t, Len(left), lo, g)
    BY <1>3, <1>8
  <2>4. \A k \in 1 .. Len(left) : k \notin lo .. hi => left[k].pData # <<>>
    BY <1>3, <1>7
  <2>5. g = hi - lo + 1 /\ R = Gap(left, lo, g) /\ Laid(left, t, D)
    BY <1>1, <1>8
  <2>6. Gapped(left, t, D, lo, hi, g, R, u)
    BY <2>2, <2>3, <2>5, GapLaid
  <2> QED BY <1>1, <1>3, <2>4, <2>6 DEF Gapped
<1>11. /\ lo \in Nat /\ hi \in Nat /\ g \in Nat /\ g >= 1 /\ F \in Nat /\ F >= 1 /\ F <= lo
       /\ hi = lo + g - 1 /\ hi <= N /\ lo >= 1
  <2>1. lo \in T
    BY <1>4, <1>6
  <2>2. left[lo].pData = <<>> /\ lo \in 1 .. Len(left)
    BY <1>3, <2>1
  <2>3. F <= lo
    BY <2>2 DEF Shrunk
  <2> QED BY <1>1, <1>2, <1>4, <1>8, <2>3
<1>12. R # left
  <2>1. N - g # N
    BY <1>4, <1>11
  <2> QED BY <1>3, <1>10, <2>1
<1>13. Inner(left) <=> hi < N
  <2>1. N \in 1 .. N
    BY <1>4, <1>11
  <2>2. left[N].pData = <<>> <=> N \in lo .. hi
    BY <1>7, <2>1
  <2>3. N \in lo .. hi <=> ~(hi < N)
    BY <1>4, <1>11
  <2> QED BY <1>3, <1>9, <1>12, <2>2, <2>3 DEF Inner
<1>14. Len(R) \in Nat /\ Len(R) <= N
  BY <1>4, <1>10, <1>11
<1>15. CASE Inner(left) /\ F - 1 = 0
  <2>1. Len(R) # 0
    BY <1>4, <1>10, <1>11, <1>13, <1>15
  <2>2. PICK d : d = [R EXCEPT ![1].nStart = 0, ![1].nEnd = Len(R[1].pData) - 1]
    OBVIOUS
  <2>3. d \in Seq(BlockInfos) /\ SameBlocks(R, d) /\ Indexed(d, u, 1)
    BY <1>10, <2>1, <2>2, FirstSet
  <2>4. Laid(d, u, D) /\ Ids(d) /\ Fit(d) /\ Filled(d) /\ Right(d, en, u, 0)
    BY <1>10, <2>3, SameLaid
  <2>5. Len(d) = Len(R)
    BY <2>3 DEF SameBlocks
  <2>6. FirstOf(left, F - 1) = d
    BY <1>9, <1>15, <2>2 DEF FirstOf
  <2>7. Blk1(left, F - 1) = 0
    BY <1>15 DEF Blk1
  <2>8. 0 \in Nat /\ 0 <= Len(d) /\ 0 + 1 = 1 /\ 1 <= Len(d) /\ Len(d) <= Len(left)
    BY <1>3, <1>14, <2>1, <2>5
  <2>9. Ready(d, u, D, en, 0, Len(left))
    BY <2>3, <2>4, <2>8 DEF Ready
  <2> QED BY <1>9, <1>12, <2>6, <2>7, <2>9
<1>16. CASE Inner(left) /\ F - 1 > 0
  <2>1. PICK m \in Nat : m = F - 1 - 1
    BY <1>11, <1>16
  <2>2. FirstOf(left, F - 1) = R /\ Blk1(left, F - 1) = m
    BY <1>9, <1>11, <1>16, <2>1 DEF FirstOf, Blk1
  <2>3. m + 1 <= Len(R) /\ m <= Len(R) /\ m + 1 \in 0 .. lo - 1 /\ m + 1 <= F /\ m + 1 \in Int
    BY <1>4, <1>10, <1>11, <1>13, <1>16, <2>1
  <2>4. Indexed(left, t, m + 1)
    BY <1>1, <1>11, <2>3, IndexedLess
  <2>5. Indexed(R, u, m + 1)
    BY <1>10, <2>3, <2>4
  <2>6. Ready(R, u, D, en, m, Len(left))
    BY <1>3, <1>10, <1>14, <2>3, <2>5 DEF Ready
  <2> QED BY <1>9, <1>12, <2>2, <2>6
<1>17. CASE ~Inner(left)
  <2>1. PICK m \in Nat : m = F - 1
    BY <1>11
  <2>2. FirstOf(left, F - 1) = R /\ Blk1(left, F - 1) = m
    BY <1>9, <1>17, <2>1 DEF FirstOf, Blk1
  <2>3. Len(R) = lo - 1
    BY <1>4, <1>10, <1>11, <1>13, <1>17
  <2>4. m <= Len(R)
    BY <1>11, <2>1, <2>3
  <2>5. ASSUME m + 1 <= Len(R) PROVE Indexed(R, u, m + 1)
    <3>1. m + 1 = F /\ m + 1 \in 0 .. lo - 1
      BY <1>11, <2>1, <2>3, <2>5
    <3> QED BY <1>1, <1>10, <3>1
  <2>6. Indexed(R, u, Len(R)) \/ m + 1 <= Len(R)
    <3>1. SUFFICES ASSUME ~(m + 1 <= Len(R)) PROVE Indexed(R, u, Len(R))
      OBVIOUS
    <3>2. Len(R) \in 0 .. lo - 1 /\ Len(R) <= F /\ Len(R) \in Int
      BY <1>11, <2>1, <2>3, <3>1
    <3>3. Indexed(left, t, Len(R))
      BY <1>1, <1>11, <3>2, IndexedLess
    <3> QED BY <1>10, <3>2, <3>3
  <2>7. Ready(R, u, D, en, m, Len(left))
    BY <1>3, <1>10, <1>14, <2>4, <2>5, <2>6 DEF Ready
  <2> QED BY <1>9, <1>12, <2>2, <2>7
<1>18. F - 1 = 0 \/ F - 1 > 0
  BY <1>11
<1> QED BY <1>15, <1>16, <1>17, <1>18

\* Remove, from the table of the blocks that remain.
CutDown(b, n, en, m) ==
  [[b EXCEPT !.nSize = @ - n, !.entry = en, !.nCur = m]
     EXCEPT !.ppInf = UpdIndex(@, m)]

\* Behind the last block there is nothing to update.
LEMMA UpdIndexBeyond ==
  ASSUME NEW B \in Seq(BlockInfos), NEW m \in Nat, Len(B) <= m
  PROVE  UpdIndex(B, m) = B
<1>1. DOMAIN B = 1 .. Len(B) /\ Len(B) \in Nat /\ B = [k \in 1 .. Len(B) |-> B[k]]
  BY LenProperties
<1>2. \A k \in DOMAIN B : k <= m + 1
  BY <1>1
<1>3. UpdIndex(B, m) = [k \in DOMAIN B |-> B[k]]
  BY <1>2 DEF UpdIndex
<1> QED BY <1>1, <1>3

LEMMA RemoveIs ==
  ASSUME NEW a, NEW pos, NEW n, NEW left, left = Remains(a.ppInf, pos, n),
         NEW cur, cur = Index2Block(a, pos)
  PROVE  \E b : /\ Left(a, FirstOf(left, cur), b)
                /\ RemoveFrom(a, pos, n) =
                     LET c == CutDown(b, n, EntriesWithout(a, pos, n), Blk1(left, cur))
                     IN IF HalfEmpty(c) THEN Compress(c).array ELSE c
<1> DEFINE L == Remains(a.ppInf, pos, n)
           r == Index2Block(a, pos)
           B == FirstOf(L, r)
           b == IF NonEmpty(L) # L THEN BlockDel(a, B) ELSE [a EXCEPT !.ppInf = B]
           c == CutDown(b, n, EntriesWithout(a, pos, n), Blk1(L, r))
<1>1. Left(a, B, b)
  <2> HIDE DEF B, L
  <2> QED BY DEF Left
<1>2. RemoveFrom(a, pos, n) = IF HalfEmpty(c) THEN Compress(c).array ELSE c
  BY DEF RemoveFrom, Remains, Inner, CutDown, FirstOf, Blk1
<1> HIDE DEF b
<1>3. \E d : /\ Left(a, FirstOf(L, r), d)
             /\ RemoveFrom(a, pos, n) =
                  LET e == CutDown(d, n, EntriesWithout(a, pos, n), Blk1(L, r))
                  IN IF HalfEmpty(e) THEN Compress(e).array ELSE e
  BY <1>1, <1>2
<1>4. left = L /\ cur = r
  OBVIOUS
<1> HIDE DEF L, r, B, c
<1> QED BY <1>3, <1>4

\* Its fields.
LEMMA CutDownFields ==
  ASSUME NEW a \in Arrays, NEW B \in Seq(BlockInfos), Len(B) <= a.nMaxBlock, NEW b,
         Left(a, B, b), NEW n, NEW en, NEW m, NEW v,
         v = UpdIndex(B, m)
  PROVE  \E mx \in Nat :
           /\ Len(B) <= mx
           /\ CutDown(b, n, en, m) = [ppInf |-> v, nSize |-> a.nSize - n, nMaxBlock |-> mx,
                                      nCur |-> m, entry |-> en]
<1>a. PICK mx : HasTable(a, B, mx, b)
  BY BlockDelFacts
<1>1. mx \in Nat /\ Len(B) <= mx /\ b = [a EXCEPT !.ppInf = B, !.nMaxBlock = mx]
  BY <1>a DEF HasTable
<1>2. PICK i1, z1, m1, c1, e1 :
        /\ a = [ppInf |-> i1, nSize |-> z1, nMaxBlock |-> m1, nCur |-> c1, entry |-> e1]
        /\ a.nSize = z1
  BY DEF Arrays
<1>3. b = [ppInf |-> B, nSize |-> z1, nMaxBlock |-> mx, nCur |-> c1, entry |-> e1]
  BY <1>1, <1>2
<1>4. PICK d : d = [b EXCEPT !.nSize = @ - n, !.entry = en, !.nCur = m]
  OBVIOUS
<1>5. d = [ppInf |-> B, nSize |-> z1 - n, nMaxBlock |-> mx, nCur |-> m, entry |-> en]
  BY <1>3, <1>4
<1>6. CutDown(b, n, en, m) = [d EXCEPT !.ppInf = v]
  <2>1. d.ppInf = B
    BY <1>5
  <2>2. CutDown(b, n, en, m) =
          [d EXCEPT !.ppInf = UpdIndex(d.ppInf, m)]
    BY <1>4, Zenon DEF CutDown
  <2> QED BY <2>1, <2>2
<1>7. CutDown(b, n, en, m) = [ppInf |-> v, nSize |-> z1 - n, nMaxBlock |-> mx, nCur |-> m,
                              entry |-> en]
  BY <1>5, <1>6
<1> QED BY <1>1, <1>2, <1>7

\* The indices are right again.
LEMMA ReadyIndexed ==
  ASSUME NEW B, NEW u, NEW D, NEW en, NEW m, NEW M, Ready(B, u, D, en, m, M), NEW v,
         v = UpdIndex(B, m)
  PROVE  /\ Laid(v, u, D) /\ Ids(v) /\ Fit(v) /\ Filled(v) /\ Right(v, en, u, 0)
         /\ Indexed(v, u, Len(v)) /\ Len(v) = Len(B)
<1>1. /\ Laid(B, u, D) /\ Ids(B) /\ Fit(B) /\ Filled(B) /\ Right(B, en, u, 0) /\ Len(B) <= M
      /\ m \in Nat /\ m <= Len(B)
      /\ m + 1 <= Len(B) => Indexed(B, u, m + 1)
      /\ ~(m + 1 <= Len(B)) => Indexed(B, u, Len(B))
  BY DEF Ready
<1>2. DOMAIN B = 1 .. Len(B) /\ Len(B) \in Nat
  BY <1>1, LaidFacts
<1>3. CASE m + 1 <= Len(B)
  <2>1. m + 1 \in DOMAIN B /\ m \in 0 .. Len(B) - 1
    BY <1>1, <1>2, <1>3
  <2>2. v = UpdIndex(B, m)
    OBVIOUS
  <2>3. /\ v \in Seq(BlockInfos) /\ SameBlocks(B, v) /\ Indexed(v, u, Len(B))
    BY <1>1, <1>3, <2>1, <2>2, UpdIndexFacts
  <2>4. Laid(v, u, D) /\ Ids(v) /\ Fit(v) /\ Filled(v) /\ Right(v, en, u, 0)
    BY <1>1, <2>3, SameLaid
  <2>5. Len(v) = Len(B)
    BY <2>3 DEF SameBlocks
  <2> QED BY <2>3, <2>4, <2>5
<1>4. CASE ~(m + 1 <= Len(B))
  <2>1. Len(B) <= m /\ B \in Seq(BlockInfos)
    BY <1>1, <1>2, <1>4, LaidFacts
  <2>2. v = B
    BY <1>1, <2>1, UpdIndexBeyond
  <2> QED BY <1>1, <1>4, <2>2
<1> QED BY <1>3, <1>4

\* What Remove compresses or not.
LEMMA CutDownSound ==
  ASSUME NEW a \in Arrays, NEW B, NEW u, NEW D, NEW en \in [Elems -> Entries \cup {None}],
         NEW m, Ready(B, u, D, en, m, Len(a.ppInf)), Len(a.ppInf) <= a.nMaxBlock,
         NEW n \in Nat, a.nSize - n = Len(D), NEW b, Left(a, B, b)
  PROVE  Sound(CutDown(b, n, en, m), D, 0)
<1>1. Laid(B, u, D) /\ Len(B) <= Len(a.ppInf) /\ m \in Nat /\ m <= Len(B)
  BY DEF Ready
<1>2. B \in Seq(BlockInfos) /\ Len(B) \in Nat /\ Len(D) \in Nat
  BY <1>1, LaidFacts
<1>3. a.nMaxBlock \in Nat /\ Len(a.ppInf) \in Nat
  <2>1. a.nMaxBlock \in Nat /\ a.ppInf \in Seq(BlockInfos)
    BY DEF Arrays
  <2> QED BY <2>1, LenProperties
<1>4. Len(B) <= a.nMaxBlock
  BY <1>1, <1>2, <1>3
<1>5. PICK v : v = UpdIndex(B, m)
  OBVIOUS
<1>6. PICK c : c = CutDown(b, n, en, m)
  OBVIOUS
<1>7. PICK mx \in Nat :
        /\ Len(B) <= mx
        /\ c = [ppInf |-> v, nSize |-> a.nSize - n, nMaxBlock |-> mx, nCur |-> m, entry |-> en]
  BY <1>2, <1>4, <1>5, <1>6, CutDownFields
<1>8. /\ Laid(v, u, D) /\ Ids(v) /\ Fit(v) /\ Filled(v) /\ Right(v, en, u, 0)
      /\ Indexed(v, u, Len(v)) /\ Len(v) = Len(B)
  BY <1>5, ReadyIndexed
<1>9. v \in Seq(BlockInfos)
  BY <1>8, LaidFacts
<1>10. c = [ppInf |-> v, nSize |-> Len(D), nMaxBlock |-> mx, nCur |-> m, entry |-> en]
  BY <1>7
<1>11. c \in Arrays
  BY <1>1, <1>2, <1>9, <1>10 DEF Arrays
<1>12. /\ c.ppInf = v /\ c.nSize = Len(D) /\ c.nMaxBlock = mx /\ c.nCur = m /\ c.entry = en
  BY <1>10
<1>13. Holding(c, u, D)
  BY <1>1, <1>7, <1>8, <1>11, <1>12 DEF Holding
<1>14. Tidy(c, u, D, 0)
  BY <1>8, <1>12, <1>13 DEF Tidy
<1> QED BY <1>6, <1>14 DEF Sound

\* There is a block if the array is half empty.
LEMMA HalfEmptyBlocks ==
  ASSUME NEW a, NEW C, Sound(a, C, 0), HalfEmpty(a)
  PROVE  Len(a.ppInf) # 0
<1>1. PICK s : Holding(a, s, C)
  BY DEF Sound, Tidy
<1>2. a.nSize \in Nat /\ nBlock(a) = Len(a.ppInf)
  BY <1>1, HoldingFacts
<1>3. PICK h : h = MAXENTRY \div 2
  OBVIOUS
<1>4. h \in Nat /\ h >= 1
  <2>1. MAXENTRY \in Nat /\ MAXENTRY >= 2
    BY SizesAssumption
  <2> QED BY <1>3, <2>1
<1>5. PICK y : y = a.nSize \div h
  OBVIOUS
<1>6. y \in Int /\ y >= 0
  BY <1>2, <1>4, <1>5
<1>7. Len(a.ppInf) > y
  BY <1>2, <1>3, <1>5 DEF HalfEmpty
<1> QED BY <1>6, <1>7

\* Each position is found, whatever block was used last.
LEMMA PositionFound ==
  ASSUME NEW a, NEW s, NEW C, NEW x, Tidy(a, s, C, x), NEW pos \in 0 .. Len(C) - 1
  PROVE  \E k \in 1 .. Len(a.ppInf) :
           /\ Index2Block(a, pos) = k - 1 /\ k \in Nat
           /\ s[k] <= pos /\ pos < s[k + 1] /\ pos - s[k] + 1 \in 1 .. Len(a.ppInf[k].pData)
<1>1. PICK q : q = a.ppInf
  OBVIOUS
<1>2. Holding(a, s, C) /\ Indexed(q, s, Len(q)) /\ Filled(q)
  BY <1>1 DEF Tidy
<1>3. Laid(q, s, C) /\ a.nCur <= Len(q)
  BY <1>1, <1>2 DEF Holding
<1>4. a.nCur \in Nat /\ Len(C) \in Nat /\ Len(q) \in Nat
  BY <1>1, <1>2, HoldingFacts
<1>5. PICK F \in 1 .. Len(q) :
        /\ Target(q, pos, F) /\ s[F] <= pos /\ pos < s[F + 1]
        /\ pos - s[F] + 1 \in 1 .. Len(q[F].pData)
  BY <1>2, <1>3, HasTarget
<1>6. F = 1 \/ pos # 0
  <2>1. SUFFICES ASSUME pos = 0, F # 1 PROVE FALSE
    OBVIOUS
  <2>2. s[F] \in Nat /\ s[1] = 0
    BY <1>3, LaidFacts
  <2>3. s[F] = 0
    BY <1>5, <2>1, <2>2
  <2>4. 1 \in 1 .. Len(q) /\ F \in 1 + 1 .. Len(q) + 1 /\ 1 + 1 \in 1 .. Len(q) + 1
    BY <1>4, <1>5, <2>1
  <2>5. s[1 + 1] <= s[F]
    BY <1>3, <2>4, BlocksRise
  <2>6. /\ s[1] \in Nat /\ s[1 + 1] = s[1] + Len(q[1].pData) /\ Len(q[1].pData) \in Nat
        /\ q[1].pData \in Seq(Elems)
    BY <1>3, <2>4, BlockFacts
  <2>7. Len(q[1].pData) = 0
    BY <2>2, <2>3, <2>5, <2>6
  <2>8. q[1].pData # <<>>
    BY <1>2, <2>4 DEF Filled
  <2> QED BY <2>6, <2>7, <2>8, EmptySeq
<1>7. pos \in Nat
  BY <1>4
<1>8. Index2Block(a, pos) = F - 1
  <2>1. a.nSize \in Nat /\ pos < a.nSize
    BY <1>1, <1>2, <1>4 DEF Holding
  <2> QED BY <1>1, <1>3, <1>4, <1>5, <1>6, <1>7, <2>1, BlockFound
<1>9. F \in Nat
  BY <1>4, <1>5
<1> QED BY <1>1, <1>5, <1>8, <1>9

\* What is left of the blocks.
LEMMA RemainShrunk ==
  ASSUME NEW a, NEW s, NEW C, NEW x, Tidy(a, s, C, x), NEW pos \in Nat, NEW n \in Nat,
         n # 0, pos + n <= Len(C), x = 0 \/ x \in pos + 1 .. pos + n,
         NEW left, left = Remains(a.ppInf, pos, n)
  PROVE  \E t : /\ Shrunk(left, t, Without(C, pos, n), EntriesWithout(a, pos, n),
                          Index2Block(a, pos) + 1)
                /\ Len(left) = Len(a.ppInf) /\ Index2Block(a, pos) \in Nat
<1>1. PICK q, cur, en, D : /\ q = a.ppInf /\ cur = Index2Block(a, pos)
                           /\ en = EntriesWithout(a, pos, n) /\ D = Without(C, pos, n)
  OBVIOUS
<1>2. Holding(a, s, C) /\ Right(q, a.entry, s, x) /\ Indexed(q, s, Len(q)) /\ Filled(q)
  BY <1>1 DEF Tidy
<1>3. /\ Laid(q, s, C) /\ Ids(q) /\ Fit(q) /\ a.nCur <= Len(q)
  BY <1>1, <1>2 DEF Holding
<1>4. a.nCur \in Nat /\ Len(C) \in Nat /\ Len(q) \in Nat
  BY <1>1, <1>2, HoldingFacts
<1>5. Cutting(q, s, C, pos, n)
  BY <1>2, <1>3 DEF Cutting
<1>6. PICK t : t = RemainStarts(q, s, pos, n)
  OBVIOUS
<1>7. Laid(left, t, D) /\ Len(left) = Len(q)
  BY <1>1, <1>5, <1>6, RemainLaid
<1>8. pos \in 0 .. Len(C) - 1
  BY <1>4
<1>9. PICK F \in 1 .. Len(q) : cur = F - 1 /\ F \in Nat /\ s[F] <= pos /\ pos < s[F + 1]
  BY <1>1, <1>8, PositionFound
<1>12. cur + 1 = F /\ cur \in Nat
  BY <1>4, <1>9
<1>13. /\ Ids(left) /\ Fit(left) /\ Indexed(left, t, F)
       /\ \A k \in 1 .. Len(q) : left[k].pData = <<>> <=> pos <= s[k] /\ s[k + 1] <= pos + n
  BY <1>1, <1>3, <1>5, <1>6, <1>9, RemainKeeps
<1>14. Right(left, en, t, 0)
  BY <1>1, <1>2, <1>3, <1>5, <1>6, RemainRight
<1>15. \A k \in 1 .. Len(q) : s[k] \in Nat /\ s[k + 1] \in Nat
  BY <1>3, BlockFacts
<1>16. ASSUME NEW k \in 1 .. Len(left), left[k].pData = <<>> PROVE F <= k
  <2>1. SUFFICES ASSUME k < F PROVE FALSE
    BY <1>7, <1>9
  <2>2. k \in 1 .. Len(q) /\ k + 1 \in 1 .. Len(q) + 1 /\ F \in k + 1 .. Len(q) + 1
    BY <1>4, <1>7, <1>9, <2>1
  <2>3. s[k + 1] <= s[F]
    BY <1>3, <2>2, BlocksRise
  <2>4. pos <= s[k]
    BY <1>13, <1>16, <2>2
  <2>5. s[k + 1] = s[k] + Len(q[k].pData) /\ Len(q[k].pData) \in Nat /\ q[k].pData \in Seq(Elems)
    BY <1>3, <2>2, BlockFacts
  <2>6. s[k] \in Nat /\ s[k + 1] \in Nat /\ s[F] \in Nat
    BY <1>9, <1>15, <2>2
  <2>7. Len(q[k].pData) = 0
    <3>1. PICK y \in Nat, z \in Nat, w \in Nat, L \in Nat :
            y = s[k] /\ z = s[k + 1] /\ w = s[F] /\ L = Len(q[k].pData)
      BY <2>5, <2>6
    <3>2. z = y + L /\ z <= w /\ pos <= y /\ w <= pos
      BY <1>9, <2>3, <2>4, <2>5, <3>1
    <3> QED BY SMTT(30), <3>1, <3>2
  <2>8. q[k].pData # <<>>
    BY <1>2, <2>2 DEF Filled
  <2> QED BY <2>5, <2>7, <2>8, EmptySeq
<1>17. ASSUME NEW k \in 1 .. Len(left), NEW l \in 1 .. Len(left), left[k].pData = <<>>,
              left[l].pData = <<>>, NEW j \in k .. l
       PROVE  left[j].pData = <<>>
  <2>1. /\ k \in 1 .. Len(q) /\ l \in 1 .. Len(q) /\ j \in 1 .. Len(q)
        /\ k \in 1 .. Len(q) + 1 /\ j \in k .. Len(q) + 1
        /\ j + 1 \in 1 .. Len(q) + 1 /\ l + 1 \in j + 1 .. Len(q) + 1
    BY <1>4, <1>7
  <2>2. s[k] <= s[j] /\ s[j + 1] <= s[l + 1]
    BY <1>3, <2>1, BlocksRise
  <2>3. pos <= s[k] /\ s[l + 1] <= pos + n
    BY <1>13, <1>17, <2>1
  <2>4. s[k] \in Nat /\ s[j] \in Nat /\ s[j + 1] \in Nat /\ s[l + 1] \in Nat
    BY <1>15, <2>1
  <2>5. pos <= s[j] /\ s[j + 1] <= pos + n
    <3>1. PICK y \in Nat, z \in Nat, v \in Nat, w \in Nat :
            y = s[k] /\ z = s[j] /\ v = s[j + 1] /\ w = s[l + 1]
      BY <2>4
    <3>2. pos <= y /\ y <= z /\ v <= w /\ w <= pos + n
      BY <2>2, <2>3, <3>1
    <3>3. pos <= z /\ v <= pos + n
      BY <3>2
    <3> QED BY <3>1, <3>3
  <2> QED BY <1>13, <2>1, <2>5
<1>18. Shrunk(left, t, D, en, F)
  BY <1>7, <1>9, <1>13, <1>14, <1>16, <1>17 DEF Shrunk
<1> QED BY <1>1, <1>7, <1>12, <1>18

\* Remove, also of the place that an element had before it was inserted once more.
LEMMA RemoveFromFacts ==
  ASSUME NEW a, NEW C, NEW x, Sound(a, C, x), NEW pos \in Nat, NEW n \in Nat,
         n # 0, pos + n <= Len(C), x = 0 \/ x \in pos + 1 .. pos + n
  PROVE  Sound(RemoveFrom(a, pos, n), Without(C, pos, n), 0)
<1>1. PICK s : Tidy(a, s, C, x)
  BY DEF Sound
<1>2. PICK q, cur, en, D, left :
        /\ q = a.ppInf /\ cur = Index2Block(a, pos) /\ en = EntriesWithout(a, pos, n)
        /\ D = Without(C, pos, n) /\ left = Remains(q, pos, n)
  OBVIOUS
<1>3. PICK t : Shrunk(left, t, D, en, cur + 1) /\ Len(left) = Len(q) /\ cur \in Nat
  BY <1>1, <1>2, RemainShrunk
<1>4. Laid(left, t, D) /\ cur + 1 \in 1 .. Len(left)
  BY <1>3 DEF Shrunk
<1>5. PICK B, m : B = FirstOf(left, cur) /\ m = Blk1(left, cur)
  OBVIOUS
<1>6. \E u : Ready(B, u, D, en, m, Len(q))
  <2>1. PICK F : F = cur + 1
    OBVIOUS
  <2>2. F - 1 = cur
    BY <1>3, <2>1
  <2>3. Shrunk(left, t, D, en, F)
    BY <1>3, <2>1
  <2>4. CASE Filled(left)
    BY <1>3, <1>5, <2>2, <2>3, <2>4, ReadyAll
  <2>5. CASE ~Filled(left)
    <3>1. PICK u : Ready(FirstOf(left, F - 1), u, D, en, Blk1(left, F - 1), Len(left))
      BY <2>3, <2>5, ReadySome
    <3> QED BY <1>3, <1>5, <2>2, <3>1
  <2> QED BY <2>4, <2>5
<1>7. PICK u : Ready(B, u, D, en, m, Len(q))
  BY <1>6
<1>8. Holding(a, s, C) /\ Right(q, a.entry, s, x) /\ Indexed(q, s, Len(q)) /\ Filled(q)
  BY <1>1, <1>2 DEF Tidy
<1>9. a \in Arrays /\ Laid(q, s, C) /\ a.nSize = Len(C) /\ Len(q) <= a.nMaxBlock
  BY <1>2, <1>8 DEF Holding
<1>10. a.entry \in [Elems -> Entries \cup {None}] /\ Len(C) \in Nat /\ C \in Seq(Elems)
  BY <1>8, HoldingFacts
<1>11. Cutting(q, s, C, pos, n)
  BY <1>8, <1>9 DEF Cutting
<1>12. en \in [Elems -> Entries \cup {None}]
  BY <1>2, <1>8, <1>10, <1>11, RemainEntries
<1>13. a.nSize - n = Len(D)
  <2>1. pos \in 0 .. Len(C) /\ n \in 0 .. Len(C) - pos
    BY <1>10
  <2>2. HasCut(C, pos, n, D)
    BY <1>2, <1>10, <2>1, CutFacts
  <2> QED BY <1>9, <2>2 DEF HasCut
<1>14. PICK b : /\ Left(a, B, b)
                /\ RemoveFrom(a, pos, n) =
                     LET c == CutDown(b, n, en, m) IN IF HalfEmpty(c) THEN Compress(c).array ELSE c
  BY <1>2, <1>5, RemoveIs
<1>15. PICK c : c = CutDown(b, n, en, m)
  OBVIOUS
<1>16. RemoveFrom(a, pos, n) = IF HalfEmpty(c) THEN Compress(c).array ELSE c
  BY <1>14, <1>15
<1>17. Sound(c, D, 0)
  <2>1. Ready(B, u, D, en, m, Len(a.ppInf)) /\ Len(a.ppInf) <= a.nMaxBlock
    BY <1>2, <1>7, <1>9
  <2> QED BY <1>9, <1>12, <1>13, <1>14, <1>15, <2>1, CutDownSound
<1>18. CASE HalfEmpty(c)
  <2>1. Len(c.ppInf) # 0
    BY <1>17, <1>18, HalfEmptyBlocks
  <2>2. Compressed(c, D, Compress(c).array, Compress(c).changed)
    BY <1>17, <2>1, CompressFacts
  <2>3. Sound(Compress(c).array, D, 0)
    BY <2>2 DEF Compressed
  <2> QED BY <1>2, <1>16, <1>18, <2>3
<1>19. CASE ~HalfEmpty(c)
  BY <1>2, <1>16, <1>17, <1>19
<1> QED BY <1>18, <1>19

-----------------------------------------------------------------------------
(* A step ends with the blocks renumbered.                                  *)

Inside(q) == UNION {ToSet(q[k].pData) : k \in DOMAIN q}
Address(q, i) == {k \in DOMAIN q : q[k].id = i}
Number(q, i) == IF Address(q, i) = {} THEN Freed ELSE CHOOSE k \in Address(q, i) : TRUE

RenumberedBlocks(q) == [k \in DOMAIN q |-> [q[k] EXCEPT !.id = k]]
RenumberedEntries(q, en) ==
  [e \in Elems |-> IF e \in Inside(q) THEN [en[e] EXCEPT !.pBlock = Number(q, @)] ELSE None]

Renumbered(a) ==
  [ppInf |-> RenumberedBlocks(a.ppInf), nSize |-> a.nSize, nMaxBlock |-> a.nMaxBlock,
   nCur |-> a.nCur, entry |-> RenumberedEntries(a.ppInf, a.entry)]

LEMMA BecomesIs ==
  ASSUME NEW a, Becomes(a)
  PROVE  Array' = Renumbered(a)
<1>1. /\ ppInf' = RenumberedBlocks(a.ppInf)
      /\ nSize' = a.nSize /\ nMaxBlock' = a.nMaxBlock /\ nCur' = a.nCur
      /\ entry' = RenumberedEntries(a.ppInf, a.entry)
  BY DEF Becomes, RenumberedBlocks, RenumberedEntries, Inside, Number, Address
<1> QED BY <1>1 DEF Array, Renumbered

LEMMA RenumberedLaid ==
  ASSUME NEW q, NEW s, NEW C, Laid(q, s, C), Fit(q), Filled(q), Indexed(q, s, Len(q)),
         NEW d, d = RenumberedBlocks(q)
  PROVE  /\ Laid(d, s, C) /\ Fit(d) /\ Filled(d) /\ Indexed(d, s, Len(d)) /\ Ids(d)
         /\ Len(d) = Len(q)
         /\ \A k \in 1 .. Len(q) : d[k].id = k /\ d[k].pData = q[k].pData
<1>1. /\ q \in Seq(BlockInfos) /\ Len(q) \in Nat /\ DOMAIN q = 1 .. Len(q)
      /\ C \in Seq(Elems) /\ Len(C) = s[Len(q) + 1] /\ s \in [1 .. Len(q) + 1 -> Nat] /\ s[1] = 0
  BY SMTT(30), LaidFacts
<1>2. PICK N \in Nat : N = Len(q)
  BY <1>1
<1>3. d = [k \in 1 .. N |-> [q[k] EXCEPT !.id = k]]
  BY <1>1, <1>2 DEF RenumberedBlocks
<1>4. ASSUME NEW k \in 1 .. N
      PROVE  /\ d[k] \in BlockInfos /\ d[k].id = k /\ d[k].pData = q[k].pData
             /\ d[k].nStart = q[k].nStart /\ d[k].nEnd = q[k].nEnd
  <2>1. PICK p : p = q[k]
    OBVIOUS
  <2>2. p \in BlockInfos /\ k \in Nat
    BY <1>2, <2>1, BlockFacts
  <2>3. d[k] = [p EXCEPT !.id = k]
    BY <1>3, <2>1
  <2>4. /\ [p EXCEPT !.id = k] \in BlockInfos /\ [p EXCEPT !.id = k].id = k
        /\ [p EXCEPT !.id = k].pData = p.pData
        /\ [p EXCEPT !.id = k].nStart = p.nStart /\ [p EXCEPT !.id = k].nEnd = p.nEnd
    BY <2>2 DEF BlockInfos
  <2> QED BY <2>1, <2>3, <2>4
<1>5. d \in Seq(BlockInfos) /\ Len(d) = N
  <2>1. d \in [1 .. N -> BlockInfos]
    BY <1>3, <1>4
  <2> QED BY <2>1, FunctionIsSeq
<1>6. Laid(d, s, C)
  <2>1. ASSUME NEW k \in 1 .. Len(d)
        PROVE  /\ s[k + 1] = s[k] + Len(d[k].pData)
               /\ \A i \in 1 .. Len(d[k].pData) : C[s[k] + i] = d[k].pData[i]
    <3>1. k \in 1 .. Len(q) /\ d[k].pData = q[k].pData
      BY <1>2, <1>4, <1>5
    <3>2. s[k + 1] = s[k] + Len(q[k].pData)
      BY <3>1, BlockFacts
    <3>3. \A i \in 1 .. Len(q[k].pData) : C[s[k] + i] = q[k].pData[i]
      BY <3>1, PlaceFacts
    <3> QED BY <3>1, <3>2, <3>3
  <2>2. s \in [1 .. Len(d) + 1 -> Nat] /\ Len(C) = s[Len(d) + 1]
    BY <1>1, <1>2, <1>5
  <2> QED BY <1>1, <1>5, <2>1, <2>2, LaidIf
<1>7. Fit(d) /\ Filled(d) /\ Indexed(d, s, Len(d)) /\ Ids(d)
  <2>1. Fit(d)
    BY <1>2, <1>4, <1>5 DEF Fit
  <2>2. Filled(d)
    BY <1>2, <1>4, <1>5 DEF Filled
  <2>3. Indexed(d, s, Len(d))
    BY <1>2, <1>4, <1>5 DEF Indexed
  <2>4. Ids(d)
    BY <1>4, <1>5 DEF Ids
  <2> QED BY <2>1, <2>2, <2>3, <2>4
<1> QED BY <1>2, <1>4, <1>5, <1>6, <1>7

LEMMA RenumberedRight ==
  ASSUME NEW q, NEW s, NEW C, NEW en, Laid(q, s, C), Ids(q), Right(q, en, s, 0),
         NEW d, Len(d) = Len(q), \A k \in 1 .. Len(q) : d[k].id = k /\ d[k].pData = q[k].pData
  PROVE  /\ Right(d, RenumberedEntries(q, en), s, 0)
         /\ RenumberedEntries(q, en) \in [Elems -> Entries \cup {None}]
<1>1. PICK f : f = RenumberedEntries(q, en)
  OBVIOUS
<1>2. f = [e \in Elems |-> IF e \in Inside(q) THEN [en[e] EXCEPT !.pBlock = Number(q, @)] ELSE None]
  BY <1>1 DEF RenumberedEntries
<1>3. DOMAIN q = 1 .. Len(q)
  BY LaidFacts
<1>4. ASSUME NEW k \in 1 .. Len(q) PROVE Number(q, q[k].id) = k
  <2>1. Address(q, q[k].id) = {k}
    BY <1>3 DEF Address, Ids
  <2> QED BY <2>1 DEF Number
<1>5. ASSUME NEW k \in 1 .. Len(q), NEW i \in 1 .. Len(q[k].pData)
      PROVE  /\ f[q[k].pData[i]] = [pBlock |-> k, nOffset |-> i - 1]
             /\ i - 1 \in Nat /\ k \in Nat
  <2>1. /\ en[q[k].pData[i]] = [pBlock |-> q[k].id, nOffset |-> i - 1]
        /\ q[k].pData[i] \in Elems /\ i - 1 \in Nat
    BY EntryFacts
  <2>2. q[k].pData[i] \in Inside(q)
    <3>1. DOMAIN q[k].pData = 1 .. Len(q[k].pData)
      BY BlockFacts
    <3>2. q[k].pData[i] \in ToSet(q[k].pData)
      BY <3>1 DEF ToSet
    <3> QED BY <1>3, <3>2 DEF Inside
  <2>3. PICK e, w : e = q[k].pData[i] /\ w = en[e]
    OBVIOUS
  <2>4. f[e] = [w EXCEPT !.pBlock = Number(q, w.pBlock)]
    BY <1>2, <2>1, <2>2, <2>3
  <2>5. w = [pBlock |-> q[k].id, nOffset |-> i - 1] /\ w.pBlock = q[k].id
    BY <2>1, <2>3
  <2>6. f[e] = [w EXCEPT !.pBlock = k]
    BY <1>4, <2>4, <2>5
  <2>7. f[e] = [pBlock |-> k, nOffset |-> i - 1]
    BY <2>5, <2>6
  <2>8. k \in Nat
    <3>1. Len(q) \in Nat
      BY LaidFacts
    <3> QED BY <3>1
  <2> QED BY <2>1, <2>3, <2>7, <2>8
<1>6. Right(d, f, s, 0)
  BY <1>5 DEF Right
<1>7. ASSUME NEW e \in Elems PROVE f[e] \in Entries \cup {None}
  <2>1. CASE e \in Inside(q)
    <3>1. PICK k \in 1 .. Len(q) : e \in ToSet(q[k].pData)
      BY <1>3, <2>1 DEF Inside
    <3>2. DOMAIN q[k].pData = 1 .. Len(q[k].pData)
      BY BlockFacts
    <3>3. PICK i \in 1 .. Len(q[k].pData) : e = q[k].pData[i]
      BY <3>1, <3>2 DEF ToSet
    <3>4. f[e] = [pBlock |-> k, nOffset |-> i - 1] /\ i - 1 \in Nat /\ k \in Nat
      BY <1>5, <3>3
    <3> QED BY <3>4 DEF Entries
  <2>2. CASE e \notin Inside(q)
    BY <1>2, <2>2
  <2> QED BY <2>1, <2>2
<1>8. f \in [Elems -> Entries \cup {None}]
  <2>1. f = [e \in Elems |-> f[e]]
    BY <1>2
  <2> QED BY <1>7, <2>1
<1> QED BY <1>1, <1>6, <1>8

LEMMA RenumberedSound ==
  ASSUME NEW a, NEW C, Sound(a, C, 0)
  PROVE  Sound(Renumbered(a), C, 0)
<1>1. PICK s : Tidy(a, s, C, 0)
  BY DEF Sound
<1>2. PICK q, d, f, r : /\ q = a.ppInf /\ d = RenumberedBlocks(q)
                        /\ f = RenumberedEntries(q, a.entry) /\ r = Renumbered(a)
  OBVIOUS
<1>3. /\ Holding(a, s, C) /\ Right(q, a.entry, s, 0) /\ Indexed(q, s, Len(q)) /\ Filled(q)
  BY <1>1, <1>2 DEF Tidy
<1>4. /\ Laid(q, s, C) /\ Ids(q) /\ Fit(q) /\ a.nSize = Len(C) /\ Len(q) <= a.nMaxBlock
      /\ a.nCur <= Len(q)
  BY <1>2, <1>3 DEF Holding
<1>5. a.nSize \in Nat /\ a.nMaxBlock \in Nat /\ a.nCur \in Nat
  BY <1>3, HoldingFacts
<1>6. /\ Laid(d, s, C) /\ Fit(d) /\ Filled(d) /\ Indexed(d, s, Len(d)) /\ Ids(d)
      /\ Len(d) = Len(q)
      /\ \A k \in 1 .. Len(q) : d[k].id = k /\ d[k].pData = q[k].pData
  BY <1>2, <1>3, <1>4, RenumberedLaid
<1>7. Right(d, f, s, 0) /\ f \in [Elems -> Entries \cup {None}]
  BY <1>2, <1>3, <1>4, <1>6, RenumberedRight
<1>8. r = [ppInf |-> d, nSize |-> a.nSize, nMaxBlock |-> a.nMaxBlock, nCur |-> a.nCur, entry |-> f]
  BY <1>2 DEF Renumbered
<1>9. d \in Seq(BlockInfos)
  BY <1>6, LaidFacts
<1>10. r \in Arrays
  BY <1>5, <1>7, <1>8, <1>9 DEF Arrays
<1>11. /\ r.ppInf = d /\ r.nSize = a.nSize /\ r.nMaxBlock = a.nMaxBlock /\ r.nCur = a.nCur
       /\ r.entry = f
  BY <1>8
<1>12. Holding(r, s, C)
  BY <1>4, <1>6, <1>10, <1>11 DEF Holding
<1>13. Tidy(r, s, C, 0)
  BY <1>6, <1>7, <1>11, <1>12 DEF Tidy
<1> QED BY <1>2, <1>13 DEF Sound

LEMMA BecomesSound ==
  ASSUME NEW a, NEW C, Sound(a, C, 0), Becomes(a)
  PROVE  Sound(Array', C, 0)
<1>1. Array' = Renumbered(a)
  BY BecomesIs
<1>2. Sound(Renumbered(a), C, 0)
  BY RenumberedSound
<1> QED BY <1>1, <1>2

-----------------------------------------------------------------------------
(* Replace and operator[].                                                  *)

\* The block that was used last does not matter for what is held.
LEMMA AnyLast ==
  ASSUME NEW a, NEW C, NEW x, Sound(a, C, x), NEW m \in Nat, m <= Len(a.ppInf)
  PROVE  Sound([a EXCEPT !.nCur = m], C, x)
<1>1. PICK s : Tidy(a, s, C, x)
  BY DEF Sound
<1>2. /\ Holding(a, s, C) /\ Right(a.ppInf, a.entry, s, x)
      /\ Indexed(a.ppInf, s, Len(a.ppInf)) /\ Filled(a.ppInf)
  BY <1>1 DEF Tidy
<1>3. /\ a \in Arrays /\ Laid(a.ppInf, s, C) /\ Ids(a.ppInf) /\ Fit(a.ppInf)
      /\ a.nSize = Len(C) /\ Len(a.ppInf) <= a.nMaxBlock
  BY <1>2 DEF Holding
<1>4. PICK r : r = [a EXCEPT !.nCur = m]
  OBVIOUS
<1>5. /\ r \in Arrays /\ r.ppInf = a.ppInf /\ r.nSize = a.nSize /\ r.nMaxBlock = a.nMaxBlock
      /\ r.nCur = m /\ r.entry = a.entry
  BY <1>3, <1>4 DEF Arrays
<1>6. Holding(r, s, C)
  BY <1>3, <1>5 DEF Holding
<1>7. Tidy(r, s, C, x)
  BY <1>2, <1>5, <1>6 DEF Tidy
<1> QED BY <1>4, <1>7 DEF Sound

\* The blocks with the element e in the place i of the block k.
WithElement(q, k, i, e) == [q EXCEPT ![k].pData[i] = e]

ElementLaid(q, s, C, k, i, e, d, D) ==
  /\ Laid(d, s, D) /\ Len(d) = Len(q) /\ Len(D) = Len(C)
  /\ \A l \in 1 .. Len(q) :
       /\ d[l].id = q[l].id /\ d[l].nStart = q[l].nStart /\ d[l].nEnd = q[l].nEnd
       /\ Len(d[l].pData) = Len(q[l].pData)
       /\ \A j \in 1 .. Len(q[l].pData) :
            d[l].pData[j] = IF l = k /\ j = i THEN e ELSE q[l].pData[j]

LEMMA WithElementLaid ==
  ASSUME NEW q, NEW s, NEW C, Laid(q, s, C), NEW k \in 1 .. Len(q),
         NEW i \in 1 .. Len(q[k].pData), NEW e \in Elems, NEW pos, pos + 1 = s[k] + i,
         NEW d, d = WithElement(q, k, i, e), NEW D, D = [C EXCEPT ![pos + 1] = e]
  PROVE  ElementLaid(q, s, C, k, i, e, d, D)
<1>1. /\ Len(q) \in Nat /\ q \in [1 .. Len(q) -> BlockInfos] /\ C \in Seq(Elems)
      /\ Len(C) \in Nat /\ C \in [1 .. Len(C) -> Elems] /\ Len(C) = s[Len(q) + 1]
      /\ s \in [1 .. Len(q) + 1 -> Nat] /\ s[1] = 0
  BY SMTT(30), LaidFacts
<1>2a. PICK N \in Nat, z \in Nat : N = Len(q) /\ z = Len(C)
  BY <1>1
<1>2. PICK y : N = Len(q) /\ z = Len(C) /\ y = pos + 1
  BY <1>2a
<1>3. y = s[k] + i /\ y \in 1 .. z
  <2>1. s[k] + i \in 1 .. Len(C)
    BY PlaceFacts
  <2> QED BY <1>2, <2>1
<1>4. D = [C EXCEPT ![y] = e]
  BY <1>2
<1>5. D \in [1 .. z -> Elems] /\ \A p \in 1 .. z : D[p] = IF p = y THEN e ELSE C[p]
  BY <1>1, <1>2, <1>3, <1>4
<1>6. D \in Seq(Elems) /\ Len(D) = z
  BY <1>5, FunctionIsSeq
<1>7. PICK p, v, w : p = q[k] /\ v = p.pData /\ w = [v EXCEPT ![i] = e]
  OBVIOUS
<1>8. p \in BlockInfos /\ v \in Seq(Elems) /\ Len(v) \in Nat /\ i \in 1 .. Len(v)
  BY <1>7, BlockFacts
<1>9. w \in Seq(Elems) /\ Len(w) = Len(v) /\ \A j \in 1 .. Len(v) : w[j] = IF j = i THEN e ELSE v[j]
  <2>1. v \in [1 .. Len(v) -> Elems]
    BY <1>8, LenProperties
  <2>2. w \in [1 .. Len(v) -> Elems] /\ \A j \in 1 .. Len(v) : w[j] = IF j = i THEN e ELSE v[j]
    BY <1>7, <1>8, <2>1
  <2>3. PICK n \in Nat : n = Len(v)
    BY <1>8
  <2>4. w \in Seq(Elems) /\ Len(w) = n
    BY <2>2, <2>3, FunctionIsSeq
  <2> QED BY <2>2, <2>3, <2>4
<1>10. PICK g : g = [p EXCEPT !.pData = w]
  OBVIOUS
<1>11. /\ g \in BlockInfos /\ g.id = p.id /\ g.nStart = p.nStart /\ g.nEnd = p.nEnd /\ g.pData = w
  BY <1>8, <1>9, <1>10 DEF BlockInfos
<1>12. d = [q EXCEPT ![k] = g]
  BY <1>7, <1>10 DEF WithElement
<1>13. d \in [1 .. N -> BlockInfos] /\ d[k] = g /\ \A l \in 1 .. N : l # k => d[l] = q[l]
  BY <1>1, <1>2, <1>11, <1>12
<1>14. d \in Seq(BlockInfos) /\ Len(d) = N
  BY <1>13, FunctionIsSeq
<1>15. ASSUME NEW l \in 1 .. N
       PROVE  /\ d[l].id = q[l].id /\ d[l].nStart = q[l].nStart /\ d[l].nEnd = q[l].nEnd
              /\ Len(d[l].pData) = Len(q[l].pData)
              /\ \A j \in 1 .. Len(q[l].pData) :
                   d[l].pData[j] = IF l = k /\ j = i THEN e ELSE q[l].pData[j]
  <2>1. CASE l = k
    BY <1>7, <1>9, <1>11, <1>13, <2>1
  <2>2. CASE l # k
    BY <1>13, <2>2
  <2> QED BY <2>1, <2>2
<1>16. ASSUME NEW l \in 1 .. N
       PROVE  /\ s[l + 1] = s[l] + Len(d[l].pData)
              /\ \A j \in 1 .. Len(d[l].pData) : D[s[l] + j] = d[l].pData[j]
  <2>1. l \in 1 .. Len(q) /\ Len(d[l].pData) = Len(q[l].pData)
    BY <1>2, <1>15
  <2>2. s[l + 1] = s[l] + Len(q[l].pData)
    BY <2>1, BlockFacts
  <2>3. ASSUME NEW j \in 1 .. Len(q[l].pData) PROVE D[s[l] + j] = d[l].pData[j]
    <3>1. s[l] + j \in 1 .. Len(C) /\ C[s[l] + j] = q[l].pData[j] /\ j \in Int /\ s[l] \in Nat
          /\ s[l] < s[l] + j /\ s[l] + j <= s[l + 1]
      BY <2>1, PlaceFacts
    <3>2. i \in Int /\ s[k] \in Nat /\ s[k] + i \in Nat /\ s[k] < s[k] + i /\ s[k] + i <= s[k + 1]
      BY PlaceFacts
    <3>3. CASE l = k /\ j = i
      BY <1>2, <1>3, <1>5, <1>15, <3>1, <3>3
    <3>4. CASE ~(l = k /\ j = i)
      <4>1. s[l] + j # y
        <5>1. SUFFICES ASSUME s[l] + j = y PROVE FALSE
          OBVIOUS
        <5>2. y \in Nat /\ s[l] < y /\ y <= s[l + 1] /\ s[k] < y /\ y <= s[k + 1]
          BY <1>3, <3>1, <3>2, <5>1
        <5>3. l = k
          BY <2>1, <5>2, InOneBlock
        <5>4. s[k] + j = s[k] + i
          BY <1>3, <5>1, <5>3
        <5>5. j = i
          BY <3>1, <3>2, <5>4
        <5> QED BY <3>4, <5>3, <5>5
      <4>2. D[s[l] + j] = C[s[l] + j]
        BY <1>2, <1>5, <3>1, <4>1
      <4>3. d[l].pData[j] = q[l].pData[j]
        BY <1>15, <3>4
      <4> QED BY <3>1, <4>2, <4>3
    <3> QED BY <3>3, <3>4
  <2> QED BY <2>1, <2>2, <2>3
<1>17. Laid(d, s, D)
  <2>1. /\ \A l \in 1 .. Len(d) : s[l + 1] = s[l] + Len(d[l].pData)
        /\ \A l \in 1 .. Len(d) : \A j \in 1 .. Len(d[l].pData) : D[s[l] + j] = d[l].pData[j]
    BY <1>14, <1>16
  <2>2. s \in [1 .. Len(d) + 1 -> Nat] /\ Len(D) = s[Len(d) + 1]
    BY <1>1, <1>2, <1>6, <1>14
  <2> QED BY <1>1, <1>6, <1>14, <2>1, <2>2, LaidIf
<1> QED BY <1>2, <1>6, <1>14, <1>15, <1>17 DEF ElementLaid

\* Replace.
LEMMA ReplaceSound ==
  ASSUME NEW a, NEW C, Sound(a, C, 0), NEW pos \in 0 .. Len(C) - 1, NEW e \in Elems,
         a.entry[e] = None, NEW cur, cur = Index2Block(a, pos), NEW p, p = a.ppInf[cur + 1],
         NEW off, off = pos - p.nStart
  PROVE  Sound([a EXCEPT !.nCur = cur, !.ppInf[cur + 1].pData[off + 1] = e,
                         !.entry[e] = [pBlock |-> p.id, nOffset |-> off]],
               [C EXCEPT ![pos + 1] = e], 0)
<1>1. PICK s : Tidy(a, s, C, 0)
  BY DEF Sound
<1>2. PICK q, en, D : q = a.ppInf /\ en = a.entry /\ D = [C EXCEPT ![pos + 1] = e]
  OBVIOUS
<1>3. PICK k \in 1 .. Len(q) : /\ cur = k - 1 /\ k \in Nat /\ s[k] <= pos
                               /\ pos - s[k] + 1 \in 1 .. Len(q[k].pData)
  BY <1>1, <1>2, PositionFound
<1>4. Holding(a, s, C) /\ Right(q, en, s, 0) /\ Indexed(q, s, Len(q)) /\ Filled(q)
  BY <1>1, <1>2 DEF Tidy
<1>5. /\ a \in Arrays /\ Laid(q, s, C) /\ Ids(q) /\ Fit(q) /\ a.nSize = Len(C)
      /\ Len(q) <= a.nMaxBlock
  BY <1>2, <1>4 DEF Holding
<1>6. /\ en \in [Elems -> Entries \cup {None}] /\ a.nMaxBlock \in Nat /\ a.nSize \in Nat
      /\ Len(q) \in Nat /\ Len(C) \in Nat
  BY <1>2, <1>4, HoldingFacts
<1>7. cur + 1 = k /\ p = q[k] /\ cur \in Nat /\ cur <= Len(q)
  <2>1. cur + 1 = k /\ cur \in Nat /\ cur <= Len(q)
    BY <1>3, <1>6
  <2> QED BY <1>2, <2>1
<1>8. s[k] \in Nat /\ p.nStart = s[k] /\ p.id \in Nat
  <2>1. s[k] \in Nat /\ q[k].id \in Nat
    BY <1>5, BlockFacts
  <2>2. q[k].nStart = s[k]
    BY <1>4 DEF Indexed
  <2> QED BY <1>7, <2>1, <2>2
<1>9. PICK i \in 1 .. Len(q[k].pData) : i = pos - s[k] + 1
  BY <1>3
<1>10. off + 1 = i /\ off = i - 1 /\ off \in Nat /\ pos + 1 = s[k] + i
  <2>1. pos \in Nat
    OBVIOUS
  <2>2. PICK x \in Nat, y \in Nat : x = s[k] /\ y = pos
    BY <1>8, <2>1
  <2>3. x <= y
    BY <1>3, <2>2
  <2>4. off = y - x
    BY <1>8, <2>2
  <2>5. i = y - x + 1
    BY <1>9, <2>2
  <2>6. off + 1 = i /\ off = i - 1 /\ off \in Nat /\ y + 1 = x + i
    BY SMTT(30), <2>3, <2>4, <2>5
  <2> QED BY <2>2, <2>6
<1>11. PICK d : d = WithElement(q, k, i, e)
  OBVIOUS
<1>12. /\ Laid(d, s, D) /\ Len(d) = Len(q) /\ Len(D) = Len(C)
       /\ \A l \in 1 .. Len(q) :
            /\ d[l].id = q[l].id /\ d[l].nStart = q[l].nStart /\ d[l].nEnd = q[l].nEnd
            /\ Len(d[l].pData) = Len(q[l].pData)
            /\ \A j \in 1 .. Len(q[l].pData) :
                 d[l].pData[j] = IF l = k /\ j = i THEN e ELSE q[l].pData[j]
  <2>1. Laid(q, s, C) /\ pos + 1 = s[k] + i /\ D = [C EXCEPT ![pos + 1] = e]
    BY <1>2, <1>5, <1>10
  <2>2. ElementLaid(q, s, C, k, i, e, d, D)
    BY <1>11, <2>1, WithElementLaid
  <2> QED BY <2>2 DEF ElementLaid
<1>13. PICK f : f = [en EXCEPT ![e] = [pBlock |-> p.id, nOffset |-> off]]
  OBVIOUS
<1>14. /\ f \in [Elems -> Entries \cup {None}] /\ f[e] = [pBlock |-> p.id, nOffset |-> off]
       /\ \A y \in Elems : y # e => f[y] = en[y]
  <2>1. [pBlock |-> p.id, nOffset |-> off] \in Entries
    BY <1>8, <1>10 DEF Entries
  <2> QED BY <1>6, <1>13, <2>1
<1>15. PICK r : r = [a EXCEPT !.nCur = cur, !.ppInf = d, !.entry = f]
  OBVIOUS
<1>16. [a EXCEPT !.nCur = cur, !.ppInf[cur + 1].pData[off + 1] = e,
                 !.entry[e] = [pBlock |-> p.id, nOffset |-> off]] = r
  <2>1. d = [q EXCEPT ![k].pData[i] = e]
    BY <1>11 DEF WithElement
  <2>2. d = [a.ppInf EXCEPT ![cur + 1].pData[off + 1] = e]
    BY <1>2, <1>7, <1>10, <2>1
  <2>3. f = [a.entry EXCEPT ![e] = [pBlock |-> p.id, nOffset |-> off]]
    BY <1>2, <1>13
  <2> QED BY <1>5, <1>15, <2>2, <2>3 DEF Arrays
<1>17. d \in Seq(BlockInfos)
  BY <1>12, LaidFacts
<1>18. /\ r \in Arrays /\ r.ppInf = d /\ r.nSize = a.nSize /\ r.nMaxBlock = a.nMaxBlock
       /\ r.nCur = cur /\ r.entry = f
  BY <1>5, <1>7, <1>14, <1>15, <1>17 DEF Arrays
<1>19. Ids(d) /\ Fit(d) /\ Indexed(d, s, Len(d))
  <2>1. Ids(d)
    BY <1>5, <1>12 DEF Ids
  <2>2. Fit(d)
    BY <1>5, <1>12 DEF Fit
  <2>3. Indexed(d, s, Len(d))
    BY <1>4, <1>12 DEF Indexed
  <2> QED BY <2>1, <2>2, <2>3
<1>20. Filled(d)
  <2>1. ASSUME NEW l \in 1 .. Len(d) PROVE d[l].pData # <<>>
    <3>1. l \in 1 .. Len(q) /\ Len(d[l].pData) = Len(q[l].pData)
      BY <1>12
    <3>2. q[l].pData # <<>>
      BY <1>4, <3>1 DEF Filled
    <3>3. q[l].pData \in Seq(Elems)
      BY <1>5, <3>1, BlockFacts
    <3> QED BY <3>1, <3>2, <3>3, EmptySeq
  <2> QED BY <2>1 DEF Filled
<1>21. Right(d, f, s, 0)
  <2>1. ASSUME NEW l \in 1 .. Len(d), NEW j \in 1 .. Len(d[l].pData)
        PROVE  f[d[l].pData[j]] = [pBlock |-> d[l].id, nOffset |-> j - 1]
    <3>1. /\ l \in 1 .. Len(q) /\ j \in 1 .. Len(q[l].pData) /\ d[l].id = q[l].id
          /\ d[l].pData[j] = IF l = k /\ j = i THEN e ELSE q[l].pData[j]
      BY <1>12
    <3>2. CASE l = k /\ j = i
      BY <1>7, <1>10, <1>14, <3>1, <3>2
    <3>3. CASE ~(l = k /\ j = i)
      <4>1. /\ en[q[l].pData[j]] = [pBlock |-> q[l].id, nOffset |-> j - 1]
            /\ en[q[l].pData[j]] \in Entries /\ q[l].pData[j] \in Elems
        BY <1>4, <1>5, <3>1, EntryFacts
      <4>2. q[l].pData[j] # e
        BY <1>2, <4>1, NoneAssumption
      <4> QED BY <1>14, <3>1, <3>3, <4>1, <4>2
    <3> QED BY <3>2, <3>3
  <2> QED BY <2>1 DEF Right
<1>22. Holding(r, s, D)
  BY <1>5, <1>7, <1>12, <1>18, <1>19 DEF Holding
<1>23. Tidy(r, s, D, 0)
  BY <1>18, <1>19, <1>20, <1>21, <1>22 DEF Tidy
<1> QED BY <1>2, <1>16, <1>23 DEF Sound

\* An element that is not in the array has no place in it.
LEMMA NotThere ==
  ASSUME NEW a, NEW C, Sound(a, C, 0), NEW e, a.entry[e] = None
  PROVE  \A p \in 1 .. Len(C) : C[p] # e
<1>1. PICK s : Holding(a, s, C) /\ Right(a.ppInf, a.entry, s, 0)
  BY DEF Sound, Tidy
<1>2. PICK q : q = a.ppInf
  OBVIOUS
<1>3. Laid(q, s, C) /\ Right(q, a.entry, s, 0)
  BY <1>1, <1>2 DEF Holding
<1>4. ASSUME NEW p \in 1 .. Len(C), C[p] = e PROVE FALSE
  <2>1. PICK k \in 1 .. Len(q) : \E i \in 1 .. Len(q[k].pData) : s[k] + i = p /\ C[p] = q[k].pData[i]
    BY <1>3, PlaceOf
  <2>2. PICK i \in 1 .. Len(q[k].pData) : C[p] = q[k].pData[i]
    BY <2>1
  <2>3. a.entry[q[k].pData[i]] \in Entries
    BY <1>3, EntryFacts
  <2> QED BY <1>4, <2>2, <2>3, NoneAssumption
<1> QED BY <1>4

-----------------------------------------------------------------------------
(* Move: the element is there twice, but not for long.                      *)

\* C with the element of the position from in front of the one of the position to.
HasMoved(C, from, to, E) ==
  /\ Len(E) = Len(C)
  /\ to <= from =>
       \A i \in 1 .. Len(C) : E[i] = IF i <= to THEN C[i] ELSE IF i = to + 1 THEN C[from + 1]
                                     ELSE IF i <= from + 1 THEN C[i - 1] ELSE C[i]
  /\ ~(to <= from) =>
       \A i \in 1 .. Len(C) : E[i] = IF i <= from THEN C[i] ELSE IF i < to THEN C[i + 1]
                                     ELSE IF i = to THEN C[from + 1] ELSE C[i]

LEMMA MoveIs ==
  ASSUME NEW C \in Seq(Elems), NEW from \in 0 .. Len(C) - 1, NEW to \in 0 .. Len(C), from # to,
         NEW D, WholeWith(C, to, C[from + 1], D),
         NEW pos, pos = IF to < from THEN from + 1 ELSE from
  PROVE  HasMoved(C, from, to, Without(D, pos, 1)) /\ Without(D, pos, 1) \in Seq(Elems)
<1>1a. PICK z \in Nat : z = Len(C)
  BY LenProperties
<1>1. PICK e, E : z = Len(C) /\ e = C[from + 1] /\ E = Without(D, pos, 1)
  BY <1>1a
<1>2. /\ D \in Seq(Elems) /\ Len(D) = z + 1
      /\ \A p \in 1 .. to : D[p] = C[p]
      /\ D[to + 1] = e
      /\ \A p \in to + 1 .. z : D[p + 1] = C[p]
  BY <1>1 DEF WholeWith
<1>3. from \in Nat /\ to \in Nat /\ from < z /\ to <= z /\ pos \in Nat /\ pos <= z
  BY <1>1
<1>4. pos \in 0 .. Len(D) /\ 1 \in 0 .. Len(D) - pos
  BY <1>2, <1>3
<1>5. E \in Seq(Elems) /\ HasCut(D, pos, 1, E)
  BY <1>1, <1>2, <1>4, CutFacts
<1>6. Len(E) = z /\ \A i \in 1 .. z : E[i] = IF i <= pos THEN D[i] ELSE D[i + 1]
  <2>1. Len(D) - 1 = z
    BY <1>2
  <2> QED BY <1>5, <2>1 DEF HasCut
<1>7. ASSUME NEW i \in 1 .. z, to <= from
      PROVE  E[i] = IF i <= to THEN C[i] ELSE IF i = to + 1 THEN e
                    ELSE IF i <= from + 1 THEN C[i - 1] ELSE C[i]
  <2>1. pos = from + 1 /\ to < from /\ i \in Nat
    BY <1>3, <1>7
  <2>2. CASE i <= to
    BY <1>2, <1>3, <1>6, <2>1, <2>2
  <2>3. CASE i = to + 1
    BY <1>2, <1>3, <1>6, <2>1, <2>3
  <2>4. CASE i > to + 1 /\ i <= from + 1
    <3>1. i - 1 \in to + 1 .. z /\ (i - 1) + 1 = i /\ i <= pos
      BY <1>3, <2>1, <2>4
    <3>2. E[i] = D[i] /\ D[i] = C[i - 1]
      BY <1>2, <1>6, <3>1
    <3> QED BY <1>3, <2>1, <2>4, <3>2
  <2>5. CASE i > from + 1
    <3>1. i \in to + 1 .. z /\ ~(i <= pos)
      BY <1>3, <2>1, <2>5
    <3>2. E[i] = D[i + 1] /\ D[i + 1] = C[i]
      BY <1>2, <1>6, <3>1
    <3> QED BY <1>3, <2>1, <2>5, <3>2
  <2> QED BY <1>3, <2>1, <2>2, <2>3, <2>4, <2>5
<1>8. ASSUME NEW i \in 1 .. z, ~(to <= from)
      PROVE  E[i] = IF i <= from THEN C[i] ELSE IF i < to THEN C[i + 1]
                    ELSE IF i = to THEN e ELSE C[i]
  <2>1. pos = from /\ from < to /\ i \in Nat
    BY <1>3, <1>8
  <2>2. CASE i <= from
    <3>1. E[i] = D[i] /\ i \in 1 .. to
      BY <1>3, <1>6, <2>1, <2>2
    <3> QED BY <1>2, <2>2, <3>1
  <2>3. CASE i > from /\ i < to
    <3>1. i + 1 \in 1 .. to /\ ~(i <= pos)
      BY <1>3, <2>1, <2>3
    <3>2. E[i] = D[i + 1] /\ D[i + 1] = C[i + 1]
      BY <1>2, <1>6, <3>1
    <3> QED BY <2>3, <2>1, <3>2, <1>3
  <2>4. CASE i = to
    <3>1. E[i] = D[i + 1]
      BY <1>3, <1>6, <2>1, <2>4
    <3> QED BY <1>2, <1>3, <2>1, <2>4, <3>1
  <2>5. CASE i > to
    <3>1. i \in to + 1 .. z /\ ~(i <= pos)
      BY <1>3, <2>1, <2>5
    <3>2. E[i] = D[i + 1] /\ D[i + 1] = C[i]
      BY <1>2, <1>6, <3>1
    <3> QED BY <1>3, <2>1, <2>5, <3>2
  <2> QED BY <1>3, <2>1, <2>2, <2>3, <2>4, <2>5
<1> QED BY <1>1, <1>5, <1>6, <1>7, <1>8 DEF HasMoved

\* The element of a position is the one in its place.
LEMMA ElementAt ==
  ASSUME NEW a, NEW C, NEW x, Sound(a, C, x), NEW pos \in 0 .. Len(C) - 1,
         NEW p, p = a.ppInf[Index2Block(a, pos) + 1]
  PROVE  p.pData[pos - p.nStart + 1] = C[pos + 1] /\ C[pos + 1] \in Elems
<1>1. PICK s : Tidy(a, s, C, x)
  BY DEF Sound
<1>2. PICK q, cur : q = a.ppInf /\ cur = Index2Block(a, pos)
  OBVIOUS
<1>3. PICK k \in 1 .. Len(q) : /\ cur = k - 1 /\ k \in Nat
                               /\ s[k] <= pos /\ pos - s[k] + 1 \in 1 .. Len(q[k].pData)
  BY <1>1, <1>2, PositionFound
<1>4. Laid(q, s, C) /\ Indexed(q, s, Len(q))
  BY <1>1, <1>2 DEF Tidy, Holding
<1>5. cur + 1 = k
  BY <1>3
<1>6. p = q[k] /\ p.nStart = s[k]
  BY <1>2, <1>4, <1>5 DEF Indexed
<1>7. PICK i \in 1 .. Len(q[k].pData) : i = pos - s[k] + 1
  BY <1>3
<1>8. s[k] \in Nat /\ i \in Int /\ C[s[k] + i] = q[k].pData[i] /\ q[k].pData[i] \in Elems
  BY <1>4, PlaceFacts
<1>9. s[k] + i = pos + 1
  <2>1. PICK y \in Nat, z \in Int : y = s[k] /\ z = pos
    BY <1>8
  <2>2. i = z - y + 1
    BY <1>7, <2>1
  <2>3. y + i = z + 1
    BY <2>1, <2>2
  <2> QED BY <2>1, <2>3
<1> QED BY <1>6, <1>7, <1>8, <1>9

LEMMA MoveSound ==
  ASSUME NEW a, NEW C, Sound(a, C, 0), NEW from \in 0 .. Len(C) - 1, NEW to \in 0 .. Len(C),
         from # to, NEW e, e = C[from + 1], NEW pos, pos = IF to < from THEN from + 1 ELSE from
  PROVE  \E E \in Seq(Elems) : /\ Sound(RemoveFrom(InsertInto(a, e, to), pos, 1), E, 0)
                               /\ HasMoved(C, from, to, E)
<1>1. PICK s : Tidy(a, s, C, 0)
  BY DEF Sound
<1>2. Laid(a.ppInf, s, C) /\ Ids(a.ppInf) /\ Right(a.ppInf, a.entry, s, 0)
  BY <1>1 DEF Tidy, Holding
<1>3. Distinct(C, 0)
  BY <1>2, RightDistinct
<1>4. C \in Seq(Elems) /\ Len(C) \in Nat
  BY <1>2, LaidFacts
<1>5. PICK z \in Nat, f \in Nat, t \in Nat : z = Len(C) /\ f = from /\ t = to
  BY <1>4
<1>6. f < z /\ t <= z /\ f # t /\ pos = IF t < f THEN f + 1 ELSE f
  BY <1>5
<1>7. from + 1 \in 1 .. Len(C) /\ e \in Elems
  <2>1. from + 1 \in 1 .. Len(C)
    BY <1>5, <1>6
  <2>2. C[from + 1] \in Elems
    BY <1>4, <2>1, ElementOfSeq
  <2> QED BY <2>1, <2>2
<1>8. PICK D : D = InsertAt(C, to + 1, e)
  OBVIOUS
<1>9. WholeWith(C, to, e, D)
  BY <1>4, <1>7, <1>8, InsertedWhole
<1>10. PICK x : x = pos + 1
  OBVIOUS
<1>11. x = Behind(f + 1, t) /\ pos \in Nat /\ pos <= z /\ x \in pos + 1 .. pos + 1
  BY <1>5, <1>6, <1>10 DEF Behind
<1>12. OldPlace(C, e, to, x)
  <2>1. ASSUME NEW p \in 1 .. Len(C), C[p] = e PROVE x = Behind(p, to)
    <3>1. p # 0 /\ from + 1 # 0
      BY <1>4, <1>7
    <3>2. p = from + 1
      BY <1>3, <1>7, <2>1, <3>1 DEF Distinct
    <3> QED BY <1>5, <1>11, <3>2
  <2> QED BY <2>1 DEF OldPlace
<1>13. PICK b : b = InsertInto(a, e, to)
  OBVIOUS
<1>14. Sound(b, D, x)
  BY <1>7, <1>9, <1>12, <1>13, InsertIntoFacts
<1>15. Len(D) = z + 1
  BY <1>5, <1>9 DEF WholeWith
<1>16. pos + 1 <= Len(D) /\ 1 \in Nat /\ 1 # 0 /\ pos \in Nat
  BY <1>5, <1>11, <1>15
<1>17. Sound(RemoveFrom(b, pos, 1), Without(D, pos, 1), 0)
  BY <1>11, <1>14, <1>16, RemoveFromFacts
<1>18. WholeWith(C, to, C[from + 1], D)
  BY <1>9
<1>19. HasMoved(C, from, to, Without(D, pos, 1)) /\ Without(D, pos, 1) \in Seq(Elems)
  BY <1>4, <1>18, MoveIs
<1> QED BY <1>13, <1>17, <1>19

-----------------------------------------------------------------------------
(* The operations as PointerArray has them.                                 *)

\* E starts with u, which ends at m.
Begins(E, u, m) == m \in 0 .. Len(E) /\ u = SubSeq(E, 1, m)

LEMMA PrefixGrows ==
  ASSUME NEW E \in Seq(Elems), NEW u, NEW m, Begins(E, u, m), NEW v \in Seq(Elems),
         NEW n, n = m + Len(v), n <= Len(E), \A i \in 1 .. Len(v) : E[m + i] = v[i]
  PROVE  Begins(E, u \o v, n)
<1>1. PICK z \in Nat, l \in Nat : z = Len(E) /\ l = Len(v)
  BY LenProperties
<1>2. m \in Nat /\ m <= z /\ u = SubSeq(E, 1, m)
  BY <1>1 DEF Begins
<1>3. n \in Nat /\ n = m + l /\ n \in 0 .. z
  BY <1>1, <1>2
<1>4. u \in Seq(Elems) /\ Len(u) = m /\ \A k \in 1 .. m : u[k] = E[k]
  <2>1. m \in 0 .. Len(E)
    BY <1>1, <1>2
  <2> QED BY <1>2, <2>1, FrontOfSeq
<1>5. PICK g : g = SubSeq(E, 1, n)
  OBVIOUS
<1>6. g \in Seq(Elems) /\ Len(g) = n /\ \A k \in 1 .. n : g[k] = E[k]
  <2>1. n \in 0 .. Len(E)
    BY <1>1, <1>3
  <2> QED BY <1>5, <2>1, FrontOfSeq
<1>7. PICK w : w = u \o v
  OBVIOUS
<1>8. /\ w \in Seq(Elems) /\ Len(w) = m + l
      /\ \A k \in 1 .. m + l : w[k] = IF k <= m THEN u[k] ELSE v[k - m]
  <2>1. /\ w \in Seq(Elems) /\ Len(w) = Len(u) + Len(v)
        /\ \A k \in 1 .. Len(u) + Len(v) : w[k] = IF k <= Len(u) THEN u[k] ELSE v[k - Len(u)]
    BY <1>4, <1>7, ConcatProperties
  <2> QED BY <1>1, <1>4, <2>1
<1>9. ASSUME NEW k \in 1 .. n PROVE w[k] = g[k]
  <2>1. CASE k <= m
    <3>1. k \in 1 .. m /\ k \in 1 .. m + l
      BY <1>2, <1>3, <2>1
    <3> QED BY <1>4, <1>6, <1>8, <2>1, <3>1
  <2>2. CASE ~(k <= m)
    <3>1. k - m \in 1 .. l /\ m + (k - m) = k /\ k \in 1 .. m + l
      BY <1>2, <1>3, <2>2
    <3>2. E[m + (k - m)] = v[k - m]
      BY <1>1, <3>1
    <3> QED BY <1>6, <1>8, <2>2, <3>1, <3>2
  <2> QED BY <2>1, <2>2
<1>10. w = g
  BY <1>3, <1>6, <1>8, <1>9, SameSeq
<1> QED BY <1>1, <1>3, <1>5, <1>7, <1>10 DEF Begins

LEMMA PrefixWhole ==
  ASSUME NEW E \in Seq(Elems), NEW u, Begins(E, u, Len(E))
  PROVE  u = E
<1>1. Len(E) \in Nat /\ Len(E) \in 0 .. Len(E) /\ u = SubSeq(E, 1, Len(E))
  BY LenProperties DEF Begins
<1>2. u \in Seq(Elems) /\ Len(u) = Len(E) /\ \A k \in 1 .. Len(E) : u[k] = E[k]
  BY <1>1, FrontOfSeq
<1> QED BY <1>2, SameSeq

\* The elements of C at from .. to - 1.
SliceOf(C, from, to) == SubSeq(C, from + 1, to)

LEMMA SliceFacts ==
  ASSUME NEW C \in Seq(Elems), NEW from \in Nat, NEW to \in Nat, from <= to, to <= Len(C)
  PROVE  /\ SliceOf(C, from, to) \in Seq(Elems) /\ Len(SliceOf(C, from, to)) = to - from
         /\ \A i \in 1 .. to - from : SliceOf(C, from, to)[i] = C[from + i]
<1>1. Len(C) \in Nat
  BY LenProperties
<1>2. PICK j : j = from + 1
  OBVIOUS
<1>3. j \in 1 .. Len(C) + 1 /\ to \in j - 1 .. Len(C) /\ to - j + 1 = to - from
  BY <1>1, <1>2
<1>4. /\ SubSeq(C, j, to) \in Seq(Elems) /\ Len(SubSeq(C, j, to)) = to - j + 1
      /\ \A i \in 1 .. to - j + 1 : SubSeq(C, j, to)[i] = C[j + i - 1]
  BY <1>3, PartOfSeq
<1>5. \A i \in 1 .. to - from : j + i - 1 = from + i
  BY <1>2
<1> QED BY <1>2, <1>3, <1>4, <1>5 DEF SliceOf

\* Insert.
LEMMA InsertSlices ==
  ASSUME NEW C, NEW pos \in Int, NEW e
  PROVE  InsertAt(C, pos + 1, e) = SliceOf(C, 0, pos) \o <<e>> \o SliceOf(C, pos, Len(C))
<1>1. PICK j : j = pos + 1 /\ j - 1 = pos
  OBVIOUS
<1>2. InsertAt(C, j, e) = SubSeq(C, 1, j - 1) \o <<e>> \o SubSeq(C, j, Len(C))
  BY DEF InsertAt
<1>3. SliceOf(C, 0, pos) = SubSeq(C, 1, j - 1)
  BY <1>1 DEF SliceOf
<1>4. SliceOf(C, pos, Len(C)) = SubSeq(C, j, Len(C))
  BY <1>1 DEF SliceOf
<1> QED BY <1>1, <1>2, <1>3, <1>4

\* Remove.
LEMMA RemoveSlices ==
  ASSUME NEW C, NEW pos, NEW n
  PROVE  Without(C, pos, n) = SliceOf(C, 0, pos) \o SliceOf(C, pos + n, Len(C))
BY DEF Without, SliceOf

\* Move.
MovedForward(C, from, to) ==
  SliceOf(C, 0, to) \o <<C[from + 1]>> \o SliceOf(C, to, from) \o SliceOf(C, from + 1, Len(C))
MovedBackward(C, from, to) ==
  SliceOf(C, 0, from) \o SliceOf(C, from + 1, to) \o <<C[from + 1]>> \o SliceOf(C, to, Len(C))

LEMMA ForwardSlices ==
  ASSUME NEW C \in Seq(Elems), NEW from \in 0 .. Len(C) - 1, NEW to \in 0 .. Len(C), to <= from,
         NEW E \in Seq(Elems), HasMoved(C, from, to, E)
  PROVE  E = MovedForward(C, from, to)
<1>1. PICK z \in Nat, f \in Nat, t \in Nat : z = Len(C) /\ f = from /\ t = to
  BY LenProperties
<1>2. f < z /\ t <= f /\ f + 1 \in 1 .. z
  BY <1>1
<1>3. /\ Len(E) = z
      /\ \A i \in 1 .. z : E[i] = IF i <= t THEN C[i] ELSE IF i = t + 1 THEN C[f + 1]
                                  ELSE IF i <= f + 1 THEN C[i - 1] ELSE C[i]
  BY <1>1, <1>2 DEF HasMoved
<1>4. PICK e, a, b, c : /\ e = C[f + 1] /\ a = SliceOf(C, 0, t) /\ b = SliceOf(C, t, f)
                        /\ c = SliceOf(C, f + 1, z)
  OBVIOUS
<1>5. a \in Seq(Elems) /\ Len(a) = t /\ \A i \in 1 .. t : a[i] = C[i]
  <2>1. 0 \in Nat /\ 0 <= t /\ t <= Len(C)
    BY <1>1, <1>2
  <2>2. /\ a \in Seq(Elems) /\ Len(a) = t - 0
        /\ \A i \in 1 .. t - 0 : a[i] = C[0 + i]
    BY <1>4, <2>1, SliceFacts
  <2>3. t - 0 = t /\ \A i \in 1 .. t : 0 + i = i
    OBVIOUS
  <2> QED BY <2>2, <2>3
<1>6. b \in Seq(Elems) /\ Len(b) = f - t /\ \A i \in 1 .. f - t : b[i] = C[t + i]
  <2>1. t <= f /\ f <= Len(C)
    BY <1>1, <1>2
  <2> QED BY <1>4, <2>1, SliceFacts
<1>7. c \in Seq(Elems) /\ Len(c) = z - (f + 1) /\ \A i \in 1 .. z - (f + 1) : c[i] = C[f + 1 + i]
  <2>1. f + 1 \in Nat /\ f + 1 <= z /\ z <= Len(C)
    BY <1>1, <1>2
  <2> QED BY <1>4, <2>1, SliceFacts
<1>8. e \in Elems
  <2>1. f + 1 \in 1 .. Len(C)
    BY <1>1, <1>2
  <2> QED BY <1>4, <2>1, ElementOfSeq
<1>9. Begins(E, a, t)
  <2>1. t \in 0 .. Len(E)
    BY <1>2, <1>3
  <2>2. /\ SubSeq(E, 1, t) \in Seq(Elems) /\ Len(SubSeq(E, 1, t)) = t
        /\ \A k \in 1 .. t : SubSeq(E, 1, t)[k] = E[k]
    BY <2>1, FrontOfSeq
  <2>3. \A k \in 1 .. t : E[k] = C[k]
    BY <1>2, <1>3
  <2>4. a = SubSeq(E, 1, t)
    BY <1>5, <2>2, <2>3, SameSeq
  <2> QED BY <2>1, <2>4 DEF Begins
<1>10. Begins(E, a \o <<e>>, t + 1)
  <2>1. <<e>> \in Seq(Elems) /\ Len(<<e>>) = 1 /\ <<e>>[1] = e
    BY <1>8
  <2>2. E[t + 1] = e
    <3>1. t + 1 \in 1 .. z /\ ~(t + 1 <= t)
      BY <1>2
    <3> QED BY <1>3, <1>4, <3>1
  <2>3. t + 1 = t + Len(<<e>>) /\ t + 1 <= Len(E)
    BY <1>2, <1>3, <2>1
  <2>4. \A i \in 1 .. Len(<<e>>) : E[t + i] = <<e>>[i]
    BY <2>1, <2>2
  <2> QED BY <1>9, <2>1, <2>3, <2>4, PrefixGrows
<1>11. Begins(E, a \o <<e>> \o b, f + 1)
  <2>1. f + 1 = (t + 1) + Len(b) /\ f + 1 <= Len(E)
    BY <1>2, <1>3, <1>6
  <2>2. ASSUME NEW i \in 1 .. Len(b) PROVE E[(t + 1) + i] = b[i]
    <3>1. /\ (t + 1) + i \in 1 .. z /\ ~((t + 1) + i <= t) /\ (t + 1) + i # t + 1
          /\ (t + 1) + i <= f + 1 /\ ((t + 1) + i) - 1 = t + i /\ i \in 1 .. f - t
      BY <1>2, <1>6
    <3>2. E[(t + 1) + i] = C[((t + 1) + i) - 1]
      BY <1>3, <3>1
    <3> QED BY <1>6, <3>1, <3>2
  <2> QED BY <1>6, <1>10, <2>1, <2>2, PrefixGrows
<1>12. Begins(E, a \o <<e>> \o b \o c, Len(E))
  <2>1. Len(E) = (f + 1) + Len(c) /\ Len(E) <= Len(E)
    BY <1>2, <1>3, <1>7
  <2>2. ASSUME NEW i \in 1 .. Len(c) PROVE E[(f + 1) + i] = c[i]
    <3>1. /\ (f + 1) + i \in 1 .. z /\ ~((f + 1) + i <= t) /\ (f + 1) + i # t + 1
          /\ ~((f + 1) + i <= f + 1) /\ i \in 1 .. z - (f + 1)
      BY <1>2, <1>7
    <3>2. E[(f + 1) + i] = C[(f + 1) + i]
      BY <1>3, <3>1
    <3> QED BY <1>7, <3>1, <3>2
  <2> QED BY <1>7, <1>11, <2>1, <2>2, PrefixGrows
<1>13. a \o <<e>> \o b \o c = E
  BY <1>12, PrefixWhole
<1> QED BY <1>1, <1>4, <1>13 DEF MovedForward

LEMMA BackwardSlices ==
  ASSUME NEW C \in Seq(Elems), NEW from \in 0 .. Len(C) - 1, NEW to \in 0 .. Len(C), ~(to <= from),
         NEW E \in Seq(Elems), HasMoved(C, from, to, E)
  PROVE  E = MovedBackward(C, from, to)
<1>1. PICK z \in Nat, f \in Nat, t \in Nat : z = Len(C) /\ f = from /\ t = to
  BY LenProperties
<1>2. f < t /\ t <= z /\ f + 1 \in 1 .. z
  BY <1>1
<1>3. /\ Len(E) = z
      /\ \A i \in 1 .. z : E[i] = IF i <= f THEN C[i] ELSE IF i < t THEN C[i + 1]
                                  ELSE IF i = t THEN C[f + 1] ELSE C[i]
  BY <1>1, <1>2 DEF HasMoved
<1>4. PICK e, a, b, c : /\ e = C[f + 1] /\ a = SliceOf(C, 0, f) /\ b = SliceOf(C, f + 1, t)
                        /\ c = SliceOf(C, t, z)
  OBVIOUS
<1>5. a \in Seq(Elems) /\ Len(a) = f /\ \A i \in 1 .. f : a[i] = C[i]
  <2>1. 0 \in Nat /\ 0 <= f /\ f <= Len(C)
    BY <1>1, <1>2
  <2>2. /\ a \in Seq(Elems) /\ Len(a) = f - 0
        /\ \A i \in 1 .. f - 0 : a[i] = C[0 + i]
    BY <1>4, <2>1, SliceFacts
  <2>3. f - 0 = f /\ \A i \in 1 .. f : 0 + i = i
    OBVIOUS
  <2> QED BY <2>2, <2>3
<1>6. b \in Seq(Elems) /\ Len(b) = t - (f + 1) /\ \A i \in 1 .. t - (f + 1) : b[i] = C[f + 1 + i]
  <2>1. f + 1 \in Nat /\ f + 1 <= t /\ t <= Len(C)
    BY <1>1, <1>2
  <2> QED BY <1>4, <2>1, SliceFacts
<1>7. c \in Seq(Elems) /\ Len(c) = z - t /\ \A i \in 1 .. z - t : c[i] = C[t + i]
  <2>1. t <= z /\ z <= Len(C)
    BY <1>1, <1>2
  <2> QED BY <1>4, <2>1, SliceFacts
<1>8. e \in Elems
  <2>1. f + 1 \in 1 .. Len(C)
    BY <1>1, <1>2
  <2> QED BY <1>4, <2>1, ElementOfSeq
<1>9. Begins(E, a, f)
  <2>1. f \in 0 .. Len(E)
    BY <1>2, <1>3
  <2>2. /\ SubSeq(E, 1, f) \in Seq(Elems) /\ Len(SubSeq(E, 1, f)) = f
        /\ \A k \in 1 .. f : SubSeq(E, 1, f)[k] = E[k]
    BY <2>1, FrontOfSeq
  <2>3. \A k \in 1 .. f : E[k] = C[k]
    BY <1>2, <1>3
  <2>4. a = SubSeq(E, 1, f)
    BY <1>5, <2>2, <2>3, SameSeq
  <2> QED BY <2>1, <2>4 DEF Begins
<1>10. Begins(E, a \o b, t - 1)
  <2>1. t - 1 = f + Len(b) /\ t - 1 <= Len(E)
    BY <1>2, <1>3, <1>6
  <2>2. ASSUME NEW i \in 1 .. Len(b) PROVE E[f + i] = b[i]
    <3>1. /\ f + i \in 1 .. z /\ ~(f + i <= f) /\ f + i < t /\ (f + i) + 1 = f + 1 + i
          /\ i \in 1 .. t - (f + 1)
      BY <1>2, <1>6
    <3>2. E[f + i] = C[(f + i) + 1]
      BY <1>3, <3>1
    <3> QED BY <1>6, <3>1, <3>2
  <2> QED BY <1>6, <1>9, <2>1, <2>2, PrefixGrows
<1>11. Begins(E, a \o b \o <<e>>, t)
  <2>1. <<e>> \in Seq(Elems) /\ Len(<<e>>) = 1 /\ <<e>>[1] = e
    BY <1>8
  <2>2. E[(t - 1) + 1] = e
    <3>1. (t - 1) + 1 = t /\ t \in 1 .. z /\ ~(t <= f) /\ ~(t < t)
      BY <1>2
    <3> QED BY <1>3, <1>4, <3>1
  <2>3. t = (t - 1) + Len(<<e>>) /\ t <= Len(E)
    BY <1>2, <1>3, <2>1
  <2>4. \A i \in 1 .. Len(<<e>>) : E[(t - 1) + i] = <<e>>[i]
    BY <2>1, <2>2
  <2> QED BY <1>10, <2>1, <2>3, <2>4, PrefixGrows
<1>12. Begins(E, a \o b \o <<e>> \o c, Len(E))
  <2>1. Len(E) = t + Len(c) /\ Len(E) <= Len(E)
    BY <1>2, <1>3, <1>7
  <2>2. ASSUME NEW i \in 1 .. Len(c) PROVE E[t + i] = c[i]
    <3>1. /\ t + i \in 1 .. z /\ ~(t + i <= f) /\ ~(t + i < t) /\ t + i # t
          /\ i \in 1 .. z - t
      BY <1>2, <1>7
    <3>2. E[t + i] = C[t + i]
      BY <1>3, <3>1
    <3> QED BY <1>7, <3>1, <3>2
  <2> QED BY <1>7, <1>11, <2>1, <2>2, PrefixGrows
<1>13. a \o b \o <<e>> \o c = E
  BY <1>12, PrefixWhole
<1> QED BY <1>1, <1>4, <1>13 DEF MovedBackward

-----------------------------------------------------------------------------
(* What the array starts with.                                              *)

\* Every sequence of sequences can be put together, one after the other.
LEMMA JoinOneMore ==
  ASSUME NEW D \in Seq(Seq(Elems)), NEW m \in 1 .. Len(D),
         NEW s, NEW C, Joined(SubSeq(D, 1, m - 1), s, C)
  PROVE  \E t, E : Joined(SubSeq(D, 1, m), t, E)
<1>1a. PICK N \in Nat : N = Len(D)
  BY LenProperties
<1>1. PICK B, G, v : N = Len(D) /\ B = SubSeq(D, 1, m - 1) /\ G = SubSeq(D, 1, m) /\ v = D[m]
  BY <1>1a
<1>2. m \in Nat /\ m # 0 /\ m <= N /\ m - 1 \in 0 .. Len(D) /\ m \in 0 .. Len(D)
  BY <1>1
<1>3. B \in Seq(Seq(Elems)) /\ Len(B) = m - 1 /\ \A k \in 1 .. m - 1 : B[k] = D[k]
  BY <1>1, <1>2, FrontOfSeq
<1>4. G \in Seq(Seq(Elems)) /\ Len(G) = m /\ \A k \in 1 .. m : G[k] = D[k]
  BY <1>1, <1>2, FrontOfSeq
<1>5. v \in Seq(Elems) /\ Len(v) \in Nat
  <2>1. v \in Seq(Elems)
    BY <1>1, ElementOfSeq
  <2> QED BY <2>1, LenProperties
<1>6. /\ s \in [1 .. (m - 1) + 1 -> Nat] /\ s[1] = 0 /\ \A k \in 1 .. m - 1 : s[k + 1] = s[k] + Len(D[k])
      /\ C \in Seq(Elems) /\ Len(C) = s[(m - 1) + 1]
      /\ \A k \in 1 .. m - 1 : \A i \in 1 .. Len(D[k]) : C[s[k] + i] = D[k][i]
  <2>1. Joined(B, s, C)
    BY <1>1
  <2> QED BY SMTT(30), <1>3, <2>1 DEF Joined, Starts
<1>7. (m - 1) + 1 = m
  BY <1>2
<1>8. s \in [1 .. m -> Nat] /\ Len(C) = s[m] /\ s[m] \in Nat
  BY <1>2, <1>6, <1>7
<1>9. PICK x \in Nat, l \in Nat : x = s[m] /\ l = Len(v)
  BY <1>5, <1>8
<1>10. PICK t : t = [k \in 1 .. m + 1 |-> IF k <= m THEN s[k] ELSE x + l]
  OBVIOUS
<1>11. PICK E : E = C \o v
  OBVIOUS
<1>12. /\ E \in Seq(Elems) /\ Len(E) = x + l
       /\ \A p \in 1 .. x + l : E[p] = IF p <= x THEN C[p] ELSE v[p - x]
  <2>1. /\ E \in Seq(Elems) /\ Len(E) = Len(C) + Len(v)
        /\ \A p \in 1 .. Len(C) + Len(v) : E[p] = IF p <= Len(C) THEN C[p] ELSE v[p - Len(C)]
    BY ZenonT(60), <1>5, <1>6, <1>11, ConcatProperties
  <2> QED BY <1>8, <1>9, <2>1
<1>13. /\ t \in [1 .. m + 1 -> Nat] /\ t[m + 1] = x + l /\ \A k \in 1 .. m : t[k] = s[k]
  <2>1. x + l \in Nat /\ ~(m + 1 <= m) /\ m + 1 \in 1 .. m + 1
    BY <1>2
  <2>2. \A k \in 1 .. m : k \in 1 .. m + 1 /\ k <= m
    BY <1>2
  <2>3. \A k \in 1 .. m + 1 : k <= m => k \in 1 .. m
    BY <1>2
  <2>4. t \in [1 .. m + 1 -> Nat]
    BY <1>8, <1>10, <2>1, <2>3
  <2> QED BY <1>10, <2>1, <2>2, <2>4
<1>14. t[1] = 0
  <2>1. 1 \in 1 .. m
    BY <1>2
  <2> QED BY <1>6, <1>13, <2>1
<1>15. ASSUME NEW k \in 1 .. m PROVE t[k + 1] = t[k] + Len(G[k])
  <2>1. CASE k = m
    BY <1>1, <1>4, <1>9, <1>13, <2>1
  <2>2. CASE k # m
    <3>1. k \in 1 .. m - 1 /\ k + 1 \in 1 .. m
      BY <1>2, <2>2
    <3> QED BY <1>4, <1>6, <1>13, <3>1
  <2> QED BY <2>1, <2>2
<1>16. ASSUME NEW k \in 1 .. m, NEW i \in 1 .. Len(G[k]) PROVE E[t[k] + i] = G[k][i]
  <2>1. CASE k = m
    <3>1. t[k] = x /\ G[k] = v /\ i \in 1 .. l
      BY <1>1, <1>4, <1>9, <1>13, <2>1
    <3>2. x + i \in 1 .. x + l /\ ~(x + i <= x) /\ (x + i) - x = i
      BY <3>1
    <3> QED BY <1>12, <3>1, <3>2
  <2>2. CASE k # m
    <3>1. k \in 1 .. m - 1 /\ k \in 1 .. Len(B)
      BY <1>2, <1>3, <2>2
    <3>2. Joined(B, s, C) /\ Starts(B, s) /\ Len(C) = s[Len(B) + 1] /\ B[k] = D[k] /\ G[k] = D[k]
      BY <1>1, <1>3, <1>4, <3>1 DEF Joined
    <3>3. i \in 1 .. Len(B[k])
      BY <3>2
    <3>4. s[k] + i \in 1 .. s[Len(B) + 1]
      BY <3>1, <3>2, <3>3, PlaceInWhole
    <3>5. s[k] + i \in 1 .. x
      BY <1>3, <1>7, <1>9, <3>4
    <3>6. C[s[k] + i] = G[k][i]
      BY <1>6, <3>1, <3>2, <3>3
    <3>7. s[k] + i \in 1 .. x + l /\ s[k] + i <= x
      BY <3>5
    <3> QED BY <1>12, <1>13, <3>6, <3>7
  <2> QED BY <2>1, <2>2
<1>17. Starts(G, t)
  BY <1>4, <1>13, <1>14, <1>15 DEF Starts
<1>18. Joined(G, t, E)
  BY <1>4, <1>12, <1>13, <1>16, <1>17 DEF Joined
<1> QED BY <1>1, <1>18

LEMMA CanJoin ==
  ASSUME NEW D \in Seq(Seq(Elems))
  PROVE  \E s, C : Joined(D, s, C)
<1> DEFINE T == {m \in 0 .. Len(D) : \E s, C : Joined(SubSeq(D, 1, m), s, C)}
<1>1. PICK N \in Nat : N = Len(D)
  BY LenProperties
<1>2. 0 \in T
  <2>1. 0 \in 0 .. Len(D)
    BY <1>1
  <2>2. PICK B : B = SubSeq(D, 1, 0)
    OBVIOUS
  <2>3. B \in Seq(Seq(Elems)) /\ Len(B) = 0
    BY <2>1, <2>2, FrontOfSeq
  <2>4. PICK s : s = [k \in 1 .. 0 + 1 |-> 0]
    OBVIOUS
  <2>5. s \in [1 .. 0 + 1 -> Nat] /\ s[1] = 0 /\ s[0 + 1] = 0
    BY <2>4
  <2>6. <<>> \in Seq(Elems) /\ Len(<<>>) = 0
    BY EmptySeq
  <2>7. Starts(B, s)
    BY <2>3, <2>5 DEF Starts
  <2>8. Joined(B, s, <<>>)
    BY <2>3, <2>5, <2>6, <2>7 DEF Joined
  <2> QED BY <2>1, <2>2, <2>8
<1>3. ASSUME NEW m \in 1 .. N, m - 1 \in T PROVE m \in T
  <2>1. m \in 1 .. Len(D) /\ m \in 0 .. Len(D)
    BY <1>1
  <2>2. PICK s, C : Joined(SubSeq(D, 1, m - 1), s, C)
    BY <1>3
  <2>3. \E t, E : Joined(SubSeq(D, 1, m), t, E)
    BY <2>1, <2>2, JoinOneMore
  <2> QED BY <2>1, <2>3
<1>4. N \in T
  <2> HIDE DEF T
  <2>1. N \in Nat
    OBVIOUS
  <2>2. \A k \in 0 .. N : k \in T
    BY <1>2, <1>3, <2>1, Inductively
  <2> QED BY <2>2
<1>5. PICK s, C : Joined(SubSeq(D, 1, N), s, C)
  BY <1>4
<1>6. SubSeq(D, 1, N) = D
  <2>1. N \in 0 .. Len(D)
    BY <1>1
  <2>2. PICK B : B = SubSeq(D, 1, N)
    OBVIOUS
  <2>3. B \in Seq(Seq(Elems)) /\ Len(B) = N /\ \A k \in 1 .. N : B[k] = D[k]
    BY <2>1, <2>2, FrontOfSeq
  <2> QED BY <1>1, <2>2, <2>3, SameSeq
<1> QED BY <1>5, <1>6

\* How many elements are in front of a piece.
LEMMA JoinedFront ==
  ASSUME NEW D, NEW s, NEW C, Joined(D, s, C), NEW m \in 0 .. Len(D)
  PROVE  Len(FlattenSeq(SubSeq(D, 1, m))) = s[m + 1]
<1>1. Starts(D, s) /\ C \in Seq(Elems) /\ Len(C) = s[Len(D) + 1]
  BY DEF Joined
<1>2. /\ D \in Seq(Seq(Elems)) /\ s \in [1 .. Len(D) + 1 -> Nat] /\ s[1] = 0
      /\ \A k \in 1 .. Len(D) : s[k + 1] = s[k] + Len(D[k])
      /\ \A k \in 1 .. Len(D) : \A i \in 1 .. Len(D[k]) : C[s[k] + i] = D[k][i]
  BY <1>1 DEF Joined, Starts
<1>3a. PICK N \in Nat : N = Len(D)
  BY <1>2, LenProperties
<1>3. PICK B, x, t, E : /\ N = Len(D) /\ B = SubSeq(D, 1, m) /\ x = s[m + 1]
                        /\ t = [k \in 1 .. m + 1 |-> s[k]] /\ E = SubSeq(C, 1, x)
  BY <1>3a
<1>4. /\ m \in Nat /\ m <= N /\ m + 1 \in 1 .. N + 1
      /\ \A k \in 1 .. m + 1 : k \in 1 .. N + 1
      /\ \A k \in 1 .. m : k \in 1 .. N /\ k \in 1 .. m + 1 /\ k + 1 \in 1 .. m + 1
  BY <1>3
<1>5. B \in Seq(Seq(Elems)) /\ Len(B) = m /\ \A k \in 1 .. m : B[k] = D[k]
  BY <1>2, <1>3, FrontOfSeq
<1>6. t \in [1 .. m + 1 -> Nat] /\ \A k \in 1 .. m + 1 : t[k] = s[k]
  BY <1>2, <1>3, <1>4
<1>7. x \in Nat /\ x <= Len(C) /\ Len(C) \in Nat
  <2>1. m + 1 \in 1 .. Len(D) + 1 /\ Len(D) + 1 \in m + 1 .. Len(D) + 1
    BY <1>3, <1>4
  <2>2. s[m + 1] <= s[Len(D) + 1]
    BY <1>1, <2>1, Rising
  <2> QED BY <1>1, <1>2, <1>3, <2>1, <2>2, LenProperties
<1>8. E \in Seq(Elems) /\ Len(E) = x /\ \A k \in 1 .. x : E[k] = C[k]
  <2>1. x \in 0 .. Len(C)
    BY <1>7
  <2> QED BY <1>1, <1>3, <2>1, FrontOfSeq
<1>9. Starts(B, t)
  <2>1. t[1] = 0
    BY <1>2, <1>4, <1>6
  <2>2. ASSUME NEW k \in 1 .. m PROVE t[k + 1] = t[k] + Len(B[k])
    BY <1>2, <1>3, <1>4, <1>5, <1>6
  <2> QED BY <1>5, <1>6, <2>1, <2>2 DEF Starts
<1>10. ASSUME NEW k \in 1 .. m, NEW i \in 1 .. Len(B[k]) PROVE E[t[k] + i] = B[k][i]
  <2>1. t[k] + i \in 1 .. t[Len(B) + 1]
    BY <1>5, <1>9, PlaceInWhole
  <2>2. t[k] + i \in 1 .. x /\ t[k] = s[k] /\ B[k] = D[k] /\ k \in 1 .. Len(D)
    BY <1>3, <1>4, <1>5, <1>6, <2>1
  <2> QED BY <1>2, <1>8, <2>2
<1>11. Joined(B, t, E)
  <2>1. Len(E) = t[Len(B) + 1]
    BY <1>3, <1>4, <1>5, <1>6, <1>8
  <2> QED BY <1>5, <1>8, <1>9, <1>10, <2>1 DEF Joined
<1>12. FlattenSeq(B) = E
  BY <1>11, FlattenJoins
<1> QED BY <1>3, <1>8, <1>12

\* The array with the elements data in its blocks.
FirstBlocks(data) == [k \in DOMAIN data |->
  LET before == Len(FlattenSeq(SubSeq(data, 1, k - 1)))
  IN [id |-> k, nStart |-> before, nEnd |-> before + Len(data[k]) - 1, pData |-> data[k]]]
FirstPlaces(data, e) ==
  {w \in (DOMAIN data) \X (0 .. MAXENTRY - 1) : w[2] < Len(data[w[1]]) /\ data[w[1]][w[2] + 1] = e}
FirstEntries(data) == [e \in Elems |->
  IF FirstPlaces(data, e) = {} THEN None
  ELSE LET w == CHOOSE w \in FirstPlaces(data, e) : TRUE IN [pBlock |-> w[1], nOffset |-> w[2]]]
FirstArray(data) ==
  [ppInf |-> FirstBlocks(data), nSize |-> Len(FlattenSeq(data)),
   nMaxBlock |-> (Len(data) \div nBlockGrowSize + 1) * nBlockGrowSize, nCur |-> 0,
   entry |-> FirstEntries(data)]

\* No element is twice in the blocks, and no block is empty or too large.
Proper(data) ==
  /\ data \in Seq(Seq(Elems))
  /\ \A k \in 1 .. Len(data) : Len(data[k]) \in 1 .. MAXENTRY
  /\ \A k, l \in 1 .. Len(data) : \A i \in 1 .. Len(data[k]), j \in 1 .. Len(data[l]) :
       data[k][i] = data[l][j] => k = l /\ i = j

LEMMA InitIs ==
  ASSUME Init
  PROVE  \E data : /\ Array = FirstArray(data) /\ Proper(data)
                   /\ Len(FlattenSeq(data)) <= MaxSize
                   /\ pool \subseteq Elems /\ steps \in Nat \cup {None}
<1>1. PICK first \in FirstTables :
        /\ ppInf = FirstBlocks(first.blocks) /\ nSize = Len(FlattenSeq(first.blocks)) /\ nCur = 0
        /\ nMaxBlock = (Len(first.blocks) \div nBlockGrowSize + 1) * nBlockGrowSize
        /\ entry = FirstEntries(first.blocks) /\ pool = first.elems /\ steps = first.steps
  BY DEF Init, FirstBlocks, FirstEntries, FirstPlaces
<1>2. PICK data : data = first.blocks
  OBVIOUS
<1>3. Array = FirstArray(data)
  BY <1>1, <1>2 DEF Array, FirstArray
<1>4. /\ \A k \in DOMAIN data : Len(data[k]) \in 1 .. MAXENTRY
      /\ first.elems \subseteq Elems /\ data \in Seq(Seq(first.elems))
      /\ \A k, l \in DOMAIN data :
           \A i \in DOMAIN data[k], j \in DOMAIN data[l] : data[k][i] = data[l][j] => k = l /\ i = j
      /\ Len(FlattenSeq(data)) <= MaxSize
      /\ first.steps \in Nat \cup {None}
  BY <1>2, FirstTablesAssumption
<1>5. PICK N \in Nat : N = Len(data) /\ DOMAIN data = 1 .. N
  BY <1>4, LenProperties
<1>6. \A k \in 1 .. N : data[k] \in Seq(first.elems)
  BY <1>4, <1>5, ElementOfSeq
<1>7. ASSUME NEW k \in 1 .. N PROVE data[k] \in Seq(Elems) /\ DOMAIN data[k] = 1 .. Len(data[k])
  <2>1. PICK v : v = data[k]
    OBVIOUS
  <2>2. v \in Seq(first.elems)
    BY <1>6, <2>1
  <2>3. Len(v) \in Nat /\ DOMAIN v = 1 .. Len(v) /\ v \in [1 .. Len(v) -> first.elems]
    BY SMTT(30), <2>2, LenProperties
  <2>4. PICK n \in Nat : n = Len(v)
    BY <2>3
  <2>5. v \in [1 .. n -> Elems]
    BY <1>4, <2>3, <2>4
  <2>6. v \in Seq(Elems)
    BY <2>5, FunctionIsSeq
  <2> QED BY <2>1, <2>3, <2>6
<1>8. data \in Seq(Seq(Elems))
  <2>1. data \in [1 .. N -> Seq(first.elems)]
    BY <1>4, <1>5, LenProperties
  <2>2. data \in [1 .. N -> Seq(Elems)]
    BY <1>7, <2>1
  <2> QED BY <2>2, FunctionIsSeq
<1>9. Proper(data)
  <2>1. \A k \in 1 .. N : Len(data[k]) \in 1 .. MAXENTRY
    BY <1>4, <1>5
  <2>2. ASSUME NEW k \in 1 .. N, NEW l \in 1 .. N, NEW i \in 1 .. Len(data[k]),
               NEW j \in 1 .. Len(data[l]), data[k][i] = data[l][j]
        PROVE  k = l /\ i = j
    <3>1. k \in DOMAIN data /\ l \in DOMAIN data /\ i \in DOMAIN data[k] /\ j \in DOMAIN data[l]
      BY <1>5, <1>7
    <3> QED BY <1>4, <2>2, <3>1
  <2> QED BY <1>5, <1>8, <2>1, <2>2 DEF Proper
<1>10. pool \subseteq Elems /\ steps \in Nat \cup {None}
  BY <1>1, <1>4
<1> QED BY SMTT(30), <1>3, <1>4, <1>9, <1>10

\* The place of an element in the first blocks.
LEMMA FirstEntry ==
  ASSUME NEW data, Proper(data), NEW k \in 1 .. Len(data), NEW i \in 1 .. Len(data[k])
  PROVE  FirstEntries(data)[data[k][i]] = [pBlock |-> k, nOffset |-> i - 1]
<1>1a. PICK N \in Nat : N = Len(data)
  BY LenProperties DEF Proper
<1>1. PICK e, W : N = Len(data) /\ e = data[k][i] /\ W = FirstPlaces(data, e)
  BY <1>1a
<1>2. /\ data \in Seq(Seq(Elems)) /\ DOMAIN data = 1 .. N
      /\ \A l \in 1 .. N : Len(data[l]) \in 1 .. MAXENTRY
      /\ \A l \in 1 .. N : \A j \in 1 .. Len(data[l]) : data[k][i] = data[l][j] => k = l /\ i = j
  BY <1>1, LenProperties DEF Proper
<1>3. MAXENTRY \in Nat
  BY SizesAssumption
<1>4. Len(data[k]) \in Nat /\ Len(data[k]) <= MAXENTRY /\ e \in Elems
  <2>1. data[k] \in Seq(Elems)
    BY <1>2, ElementOfSeq
  <2>2. data[k][i] \in Elems
    BY <2>1, ElementOfSeq
  <2> QED BY <1>1, <1>2, <1>3, <2>2
<1>5. i - 1 \in 0 .. MAXENTRY - 1 /\ i - 1 < Len(data[k]) /\ (i - 1) + 1 = i
  BY <1>3, <1>4
<1>6. <<k, i - 1>> \in W
  BY <1>1, <1>2, <1>5 DEF FirstPlaces
<1>7. ASSUME NEW w \in W PROVE w[1] = k /\ w[2] = i - 1
  <2>1. /\ w[1] \in 1 .. N /\ w[2] \in 0 .. MAXENTRY - 1 /\ w[2] < Len(data[w[1]])
        /\ data[w[1]][w[2] + 1] = e
    BY <1>1, <1>2 DEF FirstPlaces
  <2>2. PICK l \in 1 .. N, j \in Nat : l = w[1] /\ j = w[2] + 1
    BY <1>3, <2>1
  <2>3. Len(data[l]) \in Nat
    BY <1>2, <1>3
  <2>4. j \in 1 .. Len(data[l])
    BY SMTT(30), <1>3, <2>1, <2>2, <2>3
  <2>5. k = l /\ i = j
    BY <1>1, <1>2, <2>1, <2>2, <2>4
  <2> QED BY <1>3, <2>1, <2>2, <2>5
<1>8. PICK w : w = CHOOSE y \in W : TRUE
  OBVIOUS
<1>9. w \in W
  BY <1>6, <1>8
<1>10. FirstEntries(data)[e] = [pBlock |-> w[1], nOffset |-> w[2]]
  BY <1>1, <1>4, <1>6, <1>8 DEF FirstEntries
<1> QED BY <1>1, <1>7, <1>9, <1>10

LEMMA FirstEntriesType ==
  ASSUME NEW data, Proper(data)
  PROVE  FirstEntries(data) \in [Elems -> Entries \cup {None}]
<1>1. PICK N \in Nat : N = Len(data) /\ DOMAIN data = 1 .. N
  BY LenProperties DEF Proper
<1>2. ASSUME NEW e \in Elems PROVE FirstEntries(data)[e] \in Entries \cup {None}
  <2>1. PICK W, w : W = FirstPlaces(data, e) /\ w = CHOOSE y \in W : TRUE
    OBVIOUS
  <2>2. FirstEntries(data)[e] = IF W = {} THEN None ELSE [pBlock |-> w[1], nOffset |-> w[2]]
    BY <2>1 DEF FirstEntries
  <2>3. CASE W = {}
    BY <2>2, <2>3
  <2>4. CASE W # {}
    <3>0. PICK y \in W : TRUE
      BY <2>4
    <3>1. w \in W
      BY <2>1, <3>0
    <3>2. w[1] \in 1 .. N /\ w[2] \in 0 .. MAXENTRY - 1
      <4>1. W = FirstPlaces(data, e)
        BY <2>1
      <4>2. w \in (1 .. N) \X (0 .. MAXENTRY - 1)
        BY <1>1, <3>1, <4>1 DEF FirstPlaces
      <4> QED BY <4>2
    <3>3. w[1] \in Nat /\ w[2] \in Nat
      BY <3>2, SizesAssumption
    <3> QED BY <2>2, <2>4, <3>3 DEF Entries
  <2> QED BY <2>3, <2>4
<1>3. FirstEntries(data) = [e \in Elems |-> FirstEntries(data)[e]]
  BY DEF FirstEntries
<1> QED BY <1>2, <1>3

LEMMA FirstSound ==
  ASSUME NEW data, Proper(data)
  PROVE  \E C : Sound(FirstArray(data), C, 0)
<1>1. PICK s, C : Joined(data, s, C)
  BY CanJoin DEF Proper
<1>2a. PICK N \in Nat : N = Len(data)
  BY LenProperties DEF Proper
<1>2. PICK q, en, a : /\ N = Len(data) /\ q = FirstBlocks(data)
                      /\ en = FirstEntries(data) /\ a = FirstArray(data)
  BY <1>2a
<1>3. /\ data \in Seq(Seq(Elems)) /\ s \in [1 .. N + 1 -> Nat] /\ s[1] = 0 /\ C \in Seq(Elems)
      /\ Len(C) = s[N + 1]
      /\ \A k \in 1 .. N : s[k + 1] = s[k] + Len(data[k])
      /\ \A k \in 1 .. N : \A i \in 1 .. Len(data[k]) : C[s[k] + i] = data[k][i]
  BY <1>1, <1>2 DEF Joined, Starts
<1>4. DOMAIN data = 1 .. N
  BY <1>2, <1>3, LenProperties
<1>5. \A k \in 1 .. N : data[k] \in Seq(Elems) /\ Len(data[k]) \in Nat /\ k \in Nat /\ s[k] \in Nat
  <2>1. Starts(data, s)
    BY <1>1 DEF Joined
  <2> QED BY <1>2, <2>1, PieceFacts
<1>6. ASSUME NEW k \in 1 .. N
      PROVE  q[k] = [id |-> k, nStart |-> s[k], nEnd |-> s[k] + Len(data[k]) - 1, pData |-> data[k]]
  <2>1. k - 1 \in 0 .. Len(data) /\ (k - 1) + 1 = k
    BY <1>2
  <2>2. Len(FlattenSeq(SubSeq(data, 1, k - 1))) = s[k]
    BY <1>1, <2>1, JoinedFront
  <2> QED BY <1>2, <1>4, <2>2 DEF FirstBlocks
<1>7. ASSUME NEW k \in 1 .. N
      PROVE  /\ q[k] \in BlockInfos /\ q[k].id = k /\ q[k].nStart = s[k]
             /\ q[k].nEnd = s[k] + Len(data[k]) - 1 /\ q[k].pData = data[k]
  <2>1. PICK p, x, v, n : /\ p = q[k] /\ x = s[k] /\ v = data[k] /\ n = s[k] + Len(data[k]) - 1
    OBVIOUS
  <2>2. x \in Nat /\ v \in Seq(Elems) /\ k \in Nat
    BY <1>5, <2>1
  <2>3. n \in Int
    BY <1>5, <2>1
  <2>4. p = [id |-> k, nStart |-> x, nEnd |-> n, pData |-> v]
    BY <1>6, <2>1
  <2>5. p \in BlockInfos /\ p.id = k /\ p.nStart = x /\ p.nEnd = n /\ p.pData = v
    BY <2>2, <2>3, <2>4 DEF BlockInfos
  <2> QED BY <2>1, <2>5
<1>8. q \in [1 .. N -> BlockInfos]
  <2>1. q = [k \in 1 .. N |-> q[k]]
    BY <1>2, <1>4 DEF FirstBlocks
  <2> QED BY <1>7, <2>1
<1>9. q \in Seq(BlockInfos) /\ Len(q) = N
  BY <1>8, FunctionIsSeq
<1>10. Laid(q, s, C)
  <2>1. s \in [1 .. Len(q) + 1 -> Nat] /\ Len(C) = s[Len(q) + 1]
    BY <1>3, <1>9
  <2>2. ASSUME NEW k \in 1 .. Len(q) PROVE s[k + 1] = s[k] + Len(q[k].pData)
    <3>1. k \in 1 .. N
      BY <1>9
    <3>2. q[k].pData = data[k]
      BY <1>7, <3>1
    <3>3. s[k + 1] = s[k] + Len(data[k])
      BY <1>3, <3>1
    <3> QED BY <3>2, <3>3
  <2>3. ASSUME NEW k \in 1 .. Len(q), NEW i \in 1 .. Len(q[k].pData)
        PROVE  C[s[k] + i] = q[k].pData[i]
    <3>1. k \in 1 .. N
      BY <1>9
    <3>2. q[k].pData = data[k]
      BY <1>7, <3>1
    <3>3. C[s[k] + i] = data[k][i]
      BY <1>3, <3>1, <3>2
    <3> QED BY <3>2, <3>3
  <2> QED BY <1>3, <1>9, <2>1, <2>2, <2>3, LaidIf
<1>11. Ids(q)
  BY <1>7, <1>9 DEF Ids
<1>12. Fit(q) /\ Filled(q)
  <2>1. ASSUME NEW k \in 1 .. Len(q) PROVE Len(q[k].pData) <= MAXENTRY /\ q[k].pData # <<>>
    <3>1. Len(data[k]) \in 1 .. MAXENTRY /\ q[k].pData = data[k]
      BY <1>2, <1>7, <1>9 DEF Proper
    <3>2. Len(<<>>) = 0
      BY EmptySeq
    <3> QED BY <3>1, <3>2, SizesAssumption
  <2> QED BY <2>1 DEF Fit, Filled
<1>13. Indexed(q, s, Len(q))
  <2>1. ASSUME NEW k \in 1 .. N PROVE q[k].nStart = s[k] /\ q[k].nEnd = s[k + 1] - 1
    <3>1. q[k].nStart = s[k] /\ q[k].nEnd = s[k] + Len(data[k]) - 1
      BY <1>7
    <3>2. s[k + 1] = s[k] + Len(data[k])
      BY <1>3
    <3>3. PICK x \in Nat, y \in Nat : x = s[k] /\ y = Len(data[k])
      BY <1>5
    <3>4. s[k + 1] = x + y /\ q[k].nEnd = x + y - 1
      BY <3>1, <3>2, <3>3
    <3>5. PICK z : z = s[k + 1]
      OBVIOUS
    <3>6. q[k].nEnd = z - 1
      BY <3>4, <3>5
    <3> QED BY <3>1, <3>5, <3>6
  <2> QED BY <1>9, <2>1 DEF Indexed
<1>14. Right(q, en, s, 0)
  <2>1. ASSUME NEW k \in 1 .. N, NEW i \in 1 .. Len(q[k].pData)
        PROVE  en[q[k].pData[i]] = [pBlock |-> q[k].id, nOffset |-> i - 1]
    <3>1. q[k].pData = data[k] /\ q[k].id = k /\ k \in 1 .. Len(data) /\ i \in 1 .. Len(data[k])
      BY <1>2, <1>7
    <3>2. FirstEntries(data)[data[k][i]] = [pBlock |-> k, nOffset |-> i - 1]
      BY <3>1, FirstEntry
    <3> QED BY <1>2, <3>1, <3>2
  <2> QED BY <1>9, <2>1 DEF Right
<1>15. PICK mx, g : g = nBlockGrowSize /\ mx = (N \div g + 1) * g
  OBVIOUS
<1>16. mx \in Nat /\ N <= mx
  <2>1. g \in Nat \ {0}
    BY <1>15, SizesAssumption
  <2>2. N \div g \in Nat /\ N < (N \div g + 1) * g
    BY <2>1
  <2> QED BY <1>15, <2>1, <2>2
<1>17. FlattenSeq(data) = C
  BY <1>1, FlattenJoins
<1>18. a = [ppInf |-> q, nSize |-> Len(C), nMaxBlock |-> mx, nCur |-> 0, entry |-> en]
  BY <1>2, <1>15, <1>17 DEF FirstArray
<1>19. en \in [Elems -> Entries \cup {None}]
  BY <1>2, FirstEntriesType
<1>20. Len(C) \in Nat /\ 0 \in Nat
  BY <1>3, LenProperties
<1>21. /\ a \in Arrays /\ a.ppInf = q /\ a.nSize = Len(C) /\ a.nMaxBlock = mx /\ a.nCur = 0
       /\ a.entry = en
  BY <1>9, <1>16, <1>18, <1>19, <1>20 DEF Arrays
<1>22. Holding(a, s, C)
  BY <1>9, <1>10, <1>11, <1>12, <1>16, <1>21 DEF Holding
<1>23. Tidy(a, s, C, 0)
  BY <1>12, <1>13, <1>14, <1>21, <1>22 DEF Tidy
<1> QED BY <1>2, <1>23 DEF Sound

-----------------------------------------------------------------------------
(* The operations.                                                          *)

\* What the blocks hold, one after the other.
LEMMA WholeIs ==
  ASSUME NEW a, NEW C, NEW x, Sound(a, C, x)
  PROVE  FlattenSeq(Datas(a.ppInf)) = C
<1>1. PICK s : Laid(a.ppInf, s, C)
  BY DEF Sound, Tidy, Holding
<1> QED BY <1>1, FlattenJoins DEF Laid

LEMMA SizeIs ==
  ASSUME NEW a, NEW C, NEW x, Sound(a, C, x)
  PROVE  a.nSize = Len(C) /\ Len(C) \in Nat /\ C \in Seq(Elems)
<1>1. PICK s : Holding(a, s, C)
  BY DEF Sound, Tidy
<1> QED BY <1>1, HoldingFacts DEF Holding

LEMMA InsertStep ==
  ASSUME NEW C, Sound(Array, C, 0), NEW e \in Elems, NEW pos \in 0 .. nSize, Insert(e, pos)
  PROVE  Sound(Array', InsertAt(C, pos + 1, e), 0)
<1>1. Array.nSize = nSize /\ Array.entry = entry
  BY DEF Array
<1>2. nSize = Len(C) /\ C \in Seq(Elems)
  BY <1>1, SizeIs
<1>3. PICK a, D, b : /\ a = Array /\ D = InsertAt(C, pos + 1, e) /\ b = InsertInto(a, e, pos)
  OBVIOUS
<1>4. a.entry[e] = None
  BY <1>1, <1>3 DEF Insert
<1>5. Sound(a, C, 0) /\ pos \in 0 .. Len(C)
  BY <1>2, <1>3
<1>6. \A p \in 1 .. Len(C) : C[p] # e
  BY <1>4, <1>5, NotThere
<1>7. OldPlace(C, e, pos, 0)
  BY <1>6 DEF OldPlace
<1>8. WholeWith(C, pos, e, D)
  BY <1>2, <1>3, <1>5, InsertedWhole
<1>9. Sound(b, D, 0)
  BY <1>3, <1>5, <1>7, <1>8, InsertIntoFacts
<1>10. Becomes(b)
  BY <1>3 DEF Insert
<1>11. Sound(Array', D, 0)
  BY <1>9, <1>10, BecomesSound
<1> QED BY <1>3, <1>11

LEMMA RemoveStep ==
  ASSUME NEW C, Sound(Array, C, 0), NEW pos \in Positions, NEW n \in 1 .. nSize,
         RemoveElements(pos, n)
  PROVE  Sound(Array', Without(C, pos, n), 0)
<1>1. Array.nSize = nSize
  BY DEF Array
<1>2. nSize = Len(C) /\ Len(C) \in Nat
  BY <1>1, SizeIs
<1>3. PICK a, D, b : /\ a = Array /\ D = Without(C, pos, n) /\ b = RemoveFrom(a, pos, n)
  OBVIOUS
<1>4. pos \in Nat /\ n \in Nat /\ n # 0
  BY <1>2 DEF Positions
<1>5. pos + n <= Len(C)
  BY <1>2 DEF RemoveElements
<1>6. Sound(a, C, 0)
  BY <1>3
<1>7. Sound(b, D, 0)
  BY <1>3, <1>4, <1>5, <1>6, RemoveFromFacts
<1>8. Becomes(b)
  BY <1>3 DEF RemoveElements
<1>9. Sound(Array', D, 0)
  BY <1>7, <1>8, BecomesSound
<1> QED BY <1>3, <1>9

LEMMA MoveStep ==
  ASSUME NEW C, Sound(Array, C, 0), NEW from \in Positions, NEW to \in 0 .. nSize, Move(from, to)
  PROVE  \E E \in Seq(Elems) : Sound(Array', E, 0) /\ HasMoved(C, from, to, E)
<1>1. Array.nSize = nSize /\ Array.ppInf = ppInf
  BY DEF Array
<1>2. nSize = Len(C) /\ Len(C) \in Nat
  BY <1>1, SizeIs
<1>3. PICK a, p, e, pos, b : /\ a = Array /\ p = ppInf[Index2Block(Array, from) + 1]
                             /\ e = p.pData[from - p.nStart + 1]
                             /\ pos = IF to < from THEN from + 1 ELSE from
                             /\ b = RemoveFrom(InsertInto(a, e, to), pos, 1)
  OBVIOUS
<1>4. Becomes(b) /\ from # to
  BY <1>3 DEF Move, InsertedAgain, WasAt
<1>5. Sound(a, C, 0) /\ from \in 0 .. Len(C) - 1 /\ to \in 0 .. Len(C)
  BY <1>2, <1>3 DEF Positions
<1>6. p = a.ppInf[Index2Block(a, from) + 1]
  BY <1>1, <1>3
<1>7. e = C[from + 1]
  BY <1>3, <1>5, <1>6, ElementAt
<1>8. pos = IF to < from THEN from + 1 ELSE from
  BY <1>3
<1>9. \E E \in Seq(Elems) : /\ Sound(RemoveFrom(InsertInto(a, e, to), pos, 1), E, 0)
                            /\ HasMoved(C, from, to, E)
  BY <1>4, <1>5, <1>7, <1>8, MoveSound
<1>10. PICK E \in Seq(Elems) : Sound(b, E, 0) /\ HasMoved(C, from, to, E)
  BY <1>3, <1>9
<1>11. Sound(Array', E, 0)
  BY <1>4, <1>10, BecomesSound
<1> QED BY <1>10, <1>11

LEMMA ReplaceStep ==
  ASSUME NEW C, Sound(Array, C, 0), NEW idx \in Positions, NEW e \in Elems, Replace(idx, e)
  PROVE  Sound(Array', [C EXCEPT ![idx + 1] = e], 0)
<1>1. Array.nSize = nSize /\ Array.ppInf = ppInf /\ Array.entry = entry
  BY DEF Array
<1>2. nSize = Len(C) /\ Len(C) \in Nat
  BY <1>1, SizeIs
<1>3. PICK a, cur, p, off, b, D :
        /\ a = Array /\ cur = Index2Block(Array, idx) /\ p = ppInf[cur + 1] /\ off = idx - p.nStart
        /\ b = [a EXCEPT !.nCur = cur, !.ppInf[cur + 1].pData[off + 1] = e,
                         !.entry[e] = [pBlock |-> p.id, nOffset |-> off]]
        /\ D = [C EXCEPT ![idx + 1] = e]
  OBVIOUS
<1>4. Becomes(b) /\ entry[e] = None
  BY <1>3 DEF Replace
<1>5. Sound(a, C, 0) /\ idx \in 0 .. Len(C) - 1 /\ a.entry[e] = None
  BY <1>1, <1>2, <1>3, <1>4 DEF Positions
<1>6. cur = Index2Block(a, idx) /\ p = a.ppInf[cur + 1] /\ off = idx - p.nStart
  BY <1>1, <1>3
<1>7. Sound([a EXCEPT !.nCur = cur, !.ppInf[cur + 1].pData[off + 1] = e,
                      !.entry[e] = [pBlock |-> p.id, nOffset |-> off]],
            [C EXCEPT ![idx + 1] = e], 0)
  BY <1>5, <1>6, ReplaceSound
<1>8. Sound(b, D, 0)
  BY <1>3, <1>7
<1>9. Sound(Array', D, 0)
  BY <1>4, <1>8, BecomesSound
<1> QED BY <1>3, <1>9

LEMMA ReadStep ==
  ASSUME NEW C, Sound(Array, C, 0), NEW idx \in Positions, Read(idx)
  PROVE  Sound(Array', C, 0) /\ call' = <<"Read", idx, C[idx + 1]>>
<1>1. Array.nSize = nSize /\ Array.ppInf = ppInf
  BY DEF Array
<1>2. nSize = Len(C) /\ Len(C) \in Nat
  BY <1>1, SizeIs
<1>3. PICK a, m : a = Array /\ m = Index2Block(Array, idx)
  OBVIOUS
<1>4. Sound(a, C, 0) /\ idx \in 0 .. Len(C) - 1
  BY <1>2, <1>3 DEF Positions
<1>5. PICK s : Tidy(a, s, C, 0)
  BY <1>4 DEF Sound
<1>6. PICK k \in 1 .. Len(a.ppInf) : m = k - 1 /\ k \in Nat
  BY <1>3, <1>4, <1>5, PositionFound
<1>7. Len(a.ppInf) \in Nat
  BY <1>5, HoldingFacts DEF Tidy
<1>8. m \in Nat /\ m <= Len(a.ppInf)
  BY <1>6, <1>7
<1>9. Sound([a EXCEPT !.nCur = m], C, 0)
  BY <1>4, <1>8, AnyLast
<1>10. Array' = [a EXCEPT !.nCur = m]
  BY <1>3 DEF Array, Read
<1>11. PICK p : p = a.ppInf[Index2Block(a, idx) + 1]
  OBVIOUS
<1>12. p.pData[idx - p.nStart + 1] = C[idx + 1]
  BY <1>4, <1>11, ElementAt
<1>13. call' = <<"Read", idx, p.pData[idx - p.nStart + 1]>>
  BY <1>1, <1>3, <1>11 DEF Read
<1> QED BY <1>9, <1>10, <1>12, <1>13

-----------------------------------------------------------------------------
(* The inductive invariant: the array holds some elements, in order.        *)

IInv ==
  /\ \E C : Sound(Array, C, 0)
  /\ nSize <= MaxSize /\ pool \subseteq Elems /\ steps \in Nat \cup {None}
  /\ astray \in BOOLEAN

\* What the operation c makes of the elements C.
Stepped(C, E, c) ==
  \/ \E e \in Elems, pos \in 0 .. Len(C) :
       /\ c = <<"Insert", e, pos>> /\ Len(C) < MaxSize
       /\ E = SliceOf(C, 0, pos) \o <<e>> \o SliceOf(C, pos, Len(C))
  \/ \E pos \in 0 .. Len(C) - 1, n \in 1 .. Len(C) :
       /\ c = <<"Remove", pos, n>> /\ n \in 1 .. Len(C) - pos
       /\ E = SliceOf(C, 0, pos) \o SliceOf(C, pos + n, Len(C))
  \/ \E from \in 0 .. Len(C) - 1, to \in 0 .. Len(C) :
       /\ c = <<"Move", from, to>>
       /\ E = IF to <= from THEN MovedForward(C, from, to) ELSE MovedBackward(C, from, to)
  \/ \E pos \in 0 .. Len(C) - 1, e \in Elems :
       c = <<"Replace", pos, e>> /\ E = [C EXCEPT ![pos + 1] = e]
  \/ \E pos \in 0 .. Len(C) - 1 : c = <<"Read", pos, C[pos + 1]>> /\ E = C

Reached(C, E) == Sound(Array', E, 0) /\ Stepped(C, E, call') /\ Len(E) <= MaxSize

LEMMA OperationStep ==
  ASSUME NEW C, Sound(Array, C, 0), nSize <= MaxSize, pool \subseteq Elems, Operation
  PROVE  \E E : Reached(C, E)
<1>1. Array.nSize = nSize
  BY DEF Array
<1>2. nSize = Len(C) /\ Len(C) \in Nat /\ C \in Seq(Elems)
  BY <1>1, SizeIs
<1>3. MaxSize \in Nat
  BY SizesAssumption
<1>4. CASE \E e \in pool, pos \in 0 .. nSize : Insert(e, pos)
  <2>1. PICK e \in pool, pos \in 0 .. nSize : Insert(e, pos)
    BY <1>4
  <2>2. e \in Elems /\ pos \in 0 .. Len(C) /\ pos \in Int
    BY <1>2
  <2>3. PICK E : E = InsertAt(C, pos + 1, e)
    OBVIOUS
  <2>4. Sound(Array', E, 0)
    BY <2>1, <2>2, <2>3, InsertStep
  <2>5. Len(C) < MaxSize
    BY <1>2, <2>1 DEF Insert
  <2>6. Len(E) = Len(C) + 1
    BY <1>2, <2>2, <2>3, InsertedWhole DEF WholeWith
  <2>7. E = SliceOf(C, 0, pos) \o <<e>> \o SliceOf(C, pos, Len(C))
    BY <2>2, <2>3, InsertSlices
  <2>8. Stepped(C, E, call')
    <3>1. call' = <<"Insert", e, pos>>
      BY <2>1 DEF Insert
    <3> QED BY <2>2, <2>5, <2>7, <3>1 DEF Stepped
  <2>9. Len(E) <= MaxSize
    BY <1>2, <1>3, <2>5, <2>6
  <2> QED BY <2>4, <2>8, <2>9 DEF Reached
<1>5. CASE \E pos \in Positions, n \in 1 .. nSize : RemoveElements(pos, n)
  <2>1. PICK pos \in Positions, n \in 1 .. nSize : RemoveElements(pos, n)
    BY <1>5
  <2>2. PICK E : E = Without(C, pos, n)
    OBVIOUS
  <2>3. Sound(Array', E, 0)
    BY <2>1, <2>2, RemoveStep
  <2>4. pos \in 0 .. Len(C) - 1 /\ n \in 1 .. Len(C) /\ n \in 1 .. Len(C) - pos
    BY <1>2, <2>1 DEF Positions, RemoveElements
  <2>5. E = SliceOf(C, 0, pos) \o SliceOf(C, pos + n, Len(C))
    BY <2>2, RemoveSlices
  <2>6. Stepped(C, E, call')
    <3>1. call' = <<"Remove", pos, n>>
      BY <2>1 DEF RemoveElements
    <3> QED BY <2>4, <2>5, <3>1 DEF Stepped
  <2>7. Len(E) = Len(C) - n
    <3>1. pos \in 0 .. Len(C) /\ n \in 0 .. Len(C) - pos
      BY <1>2, <2>4
    <3> QED BY <1>2, <2>2, <3>1, CutFacts DEF HasCut
  <2>8. Len(E) <= MaxSize
    BY <1>2, <1>3, <2>4, <2>7
  <2> QED BY <2>3, <2>6, <2>8 DEF Reached
<1>6. CASE \E from \in Positions, to \in 0 .. nSize : Move(from, to)
  <2>1. PICK from \in Positions, to \in 0 .. nSize : Move(from, to)
    BY <1>6
  <2>2. PICK E \in Seq(Elems) : Sound(Array', E, 0) /\ HasMoved(C, from, to, E)
    BY <2>1, MoveStep
  <2>3. from \in 0 .. Len(C) - 1 /\ to \in 0 .. Len(C)
    BY <1>2 DEF Positions
  <2>4. E = IF to <= from THEN MovedForward(C, from, to) ELSE MovedBackward(C, from, to)
    <3>1. CASE to <= from
      BY <1>2, <2>2, <2>3, <3>1, ForwardSlices
    <3>2. CASE ~(to <= from)
      BY <1>2, <2>2, <2>3, <3>2, BackwardSlices
    <3> QED BY <3>1, <3>2
  <2>5. Stepped(C, E, call')
    <3>1. call' = <<"Move", from, to>>
      BY <2>1 DEF Move
    <3> QED BY <2>3, <2>4, <3>1 DEF Stepped
  <2>6. Len(E) <= MaxSize
    BY <1>2, <2>2 DEF HasMoved
  <2> QED BY <2>2, <2>5, <2>6 DEF Reached
<1>7. CASE \E idx \in Positions, e \in pool : Replace(idx, e)
  <2>1. PICK idx \in Positions, e \in pool : Replace(idx, e)
    BY <1>7
  <2>2. e \in Elems /\ idx \in 0 .. Len(C) - 1
    BY <1>2 DEF Positions
  <2>3. PICK E : E = [C EXCEPT ![idx + 1] = e]
    OBVIOUS
  <2>4. Sound(Array', E, 0)
    BY <2>1, <2>2, <2>3, ReplaceStep
  <2>5. Stepped(C, E, call')
    <3>1. call' = <<"Replace", idx, e>>
      BY <2>1 DEF Replace
    <3> QED BY <2>2, <2>3, <3>1 DEF Stepped
  <2>6. Len(E) = Len(C)
    BY <1>2, <2>2, <2>3, ExceptSeq
  <2> QED BY <1>2, <2>4, <2>5, <2>6 DEF Reached
<1>8. CASE \E idx \in Positions : Read(idx)
  <2>1. PICK idx \in Positions : Read(idx)
    BY <1>8
  <2>2. Sound(Array', C, 0) /\ call' = <<"Read", idx, C[idx + 1]>>
    BY <2>1, ReadStep
  <2>3. idx \in 0 .. Len(C) - 1
    BY <1>2 DEF Positions
  <2>4. Stepped(C, C, call')
    BY <2>2, <2>3 DEF Stepped
  <2> QED BY <1>2, <2>2, <2>4 DEF Reached
<1> QED BY <1>4, <1>5, <1>6, <1>7, <1>8 DEF Operation

LEMMA NextStep ==
  ASSUME NEW C, Sound(Array, C, 0), nSize <= MaxSize, pool \subseteq Elems, [Next]_vars
  PROVE  \E E : /\ Sound(Array', E, 0) /\ nSize' <= MaxSize
                /\ (E = C /\ call' = call) \/ Stepped(C, E, call')
<1>1. CASE Operation
  <2>1. Operation
    BY <1>1
  <2>2. PICK E : Reached(C, E)
    BY <2>1, OperationStep
  <2>3. PICK a : a = Array'
    OBVIOUS
  <2>4. Sound(a, E, 0)
    BY <2>2, <2>3 DEF Reached
  <2>5. a.nSize = Len(E)
    BY <2>4, SizeIs
  <2>6. a.nSize = nSize'
    BY <2>3 DEF Array
  <2> QED BY <2>2, <2>5, <2>6 DEF Reached
<1>2. CASE Strays \/ UNCHANGED vars
  <2>1. Array' = Array /\ nSize' = nSize /\ call' = call
    BY <1>2 DEF Strays, vars, Array
  <2>2. Sound(Array', C, 0)
    BY <2>1
  <2> QED BY <2>1, <2>2
<1> QED BY <1>1, <1>2 DEF Next

\* The elements of the array, before and after a step.
LEMMA ContentsAre ==
  ASSUME NEW C, Sound(Array, C, 0)
  PROVE  Contents = C
<1>1. FlattenSeq(Datas(Array.ppInf)) = C
  BY WholeIs
<1>2. Array.ppInf = ppInf
  BY DEF Array
<1>3. Contents = FlattenSeq(Datas(Array.ppInf))
  BY <1>2 DEF Contents, Datas
<1> QED BY <1>1, <1>3

LEMMA ContentsBecome ==
  ASSUME NEW E, Sound(Array', E, 0)
  PROVE  Contents' = E
<1>1. PICK a : a = Array'
  OBVIOUS
<1>2. FlattenSeq(Datas(a.ppInf)) = E
  BY <1>1, WholeIs
<1>3. a.ppInf = ppInf'
  BY <1>1 DEF Array
<1>4. Contents' = FlattenSeq(Datas(a.ppInf))
  BY <1>3 DEF Contents, Datas
<1> QED BY <1>2, <1>4

LEMMA PointerStep ==
  ASSUME Stepped(Contents, Contents', call')
  PROVE  PA!Next
<1>1. CASE \E e \in Elems, pos \in 0 .. Len(Contents) :
             /\ call' = <<"Insert", e, pos>> /\ Len(Contents) < MaxSize
             /\ Contents' = SliceOf(Contents, 0, pos) \o <<e>> \o SliceOf(Contents, pos, Len(Contents))
  <2>1. \E e \in Elems, pos \in 0 .. Len(Contents) : PA!Insert(e, pos)
    BY <1>1 DEF PA!Insert, PA!Slice, SliceOf
  <2> QED BY <2>1 DEF PA!Next
<1>2. CASE \E pos \in 0 .. Len(Contents) - 1, n \in 1 .. Len(Contents) :
             /\ call' = <<"Remove", pos, n>> /\ n \in 1 .. Len(Contents) - pos
             /\ Contents' = SliceOf(Contents, 0, pos) \o SliceOf(Contents, pos + n, Len(Contents))
  <2>1. PICK pos \in 0 .. Len(Contents) - 1, n \in 1 .. Len(Contents) :
             /\ call' = <<"Remove", pos, n>> /\ n \in 1 .. Len(Contents) - pos
             /\ Contents' = SliceOf(Contents, 0, pos) \o SliceOf(Contents, pos + n, Len(Contents))
    BY <1>2
  <2>2. n <= Len(Contents) - pos
    <3>1. PICK r : r = Len(Contents) - pos
      OBVIOUS
    <3>2. n \in 1 .. r
      BY <2>1, <3>1
    <3>3. n <= r
      BY <3>2
    <3> QED BY <3>1, <3>3
  <2>3. PA!Remove(pos, n)
    BY <2>1, <2>2 DEF PA!Remove, PA!Slice, SliceOf
  <2>4. \E p \in 0 .. Len(Contents) - 1, m \in 1 .. Len(Contents) : PA!Remove(p, m)
    BY <2>3
  <2> QED BY <2>4 DEF PA!Next, PA!Positions
<1>3. CASE \E from \in 0 .. Len(Contents) - 1, to \in 0 .. Len(Contents) :
             /\ call' = <<"Move", from, to>>
             /\ Contents' = IF to <= from THEN MovedForward(Contents, from, to)
                             ELSE MovedBackward(Contents, from, to)
  <2>1. \E from \in 0 .. Len(Contents) - 1, to \in 0 .. Len(Contents) : PA!Move(from, to)
    BY <1>3 DEF PA!Move, PA!Slice, PA!Positions, SliceOf, MovedForward, MovedBackward
  <2> QED BY <2>1 DEF PA!Next, PA!Positions
<1>4. CASE \E pos \in 0 .. Len(Contents) - 1, e \in Elems :
             call' = <<"Replace", pos, e>> /\ Contents' = [Contents EXCEPT ![pos + 1] = e]
  <2>1. \E pos \in 0 .. Len(Contents) - 1, e \in Elems : PA!Replace(pos, e)
    BY <1>4 DEF PA!Replace, PA!Positions
  <2> QED BY <2>1 DEF PA!Next, PA!Positions
<1>5. CASE \E pos \in 0 .. Len(Contents) - 1 :
             call' = <<"Read", pos, Contents[pos + 1]>> /\ Contents' = Contents
  <2>1. \E pos \in 0 .. Len(Contents) - 1 : PA!Read(pos)
    BY <1>5 DEF PA!Read
  <2> QED BY <2>1 DEF PA!Next, PA!Positions
<1> QED BY <1>1, <1>2, <1>3, <1>4, <1>5 DEF Stepped

\* The invariant holds always: it holds at first, and every operation keeps it.
THEOREM Inductive == Spec => []IInv
<1>1. Init => IInv
  <2>1. SUFFICES ASSUME Init PROVE IInv
    OBVIOUS
  <2>2. PICK data : /\ Array = FirstArray(data) /\ Proper(data)
                    /\ Len(FlattenSeq(data)) <= MaxSize
                    /\ pool \subseteq Elems /\ steps \in Nat \cup {None}
    BY <2>1, InitIs
  <2>a. astray \in BOOLEAN
    BY <2>1 DEF Init
  <2>3. \E C : Sound(Array, C, 0)
    BY <2>2, FirstSound
  <2>4. nSize = Len(FlattenSeq(data))
    <3>1. Array.nSize = Len(FlattenSeq(data))
      BY <2>2 DEF FirstArray
    <3>2. Array.nSize = nSize
      BY DEF Array
    <3> QED BY <3>1, <3>2
  <2> QED BY <2>2, <2>3, <2>4, <2>a DEF IInv
<1>2. IInv /\ [Next]_vars => IInv'
  <2>1. SUFFICES ASSUME IInv, [Next]_vars PROVE IInv'
    OBVIOUS
  <2>2. PICK C : Sound(Array, C, 0)
    BY <2>1 DEF IInv
  <2>3. nSize <= MaxSize /\ pool \subseteq Elems /\ steps \in Nat \cup {None}
    BY <2>1 DEF IInv
  <2>4. PICK E : Sound(Array', E, 0) /\ nSize' <= MaxSize
    BY <2>1, <2>2, <2>3, NextStep
  <2>5. pool' \subseteq Elems /\ steps' \in Nat \cup {None} /\ astray' \in BOOLEAN
    <3>0. astray \in BOOLEAN
      BY <2>1 DEF IInv
    <3>1. CASE Next
      <4>1. pool' \subseteq Elems /\ steps' \in Nat \cup {None}
        BY <2>3, <3>1, NoneAssumption DEF Next, CountsStep
      <4>2. astray' = astray \/ astray' = TRUE
        BY <3>1 DEF Next, Strays
      <4> QED BY <3>0, <4>1, <4>2
    <3>2. CASE UNCHANGED vars
      BY <2>3, <3>0, <3>2 DEF vars
    <3> QED BY <2>1, <3>1, <3>2
  <2>6. (\E X : Sound(Array, X, 0))'
    BY <2>4
  <2> QED BY <2>4, <2>5, <2>6 DEF IInv
<1> QED BY <1>1, <1>2, PTL DEF Spec

\* The array behaves as an array of pointers: each operation changes the elements, at
\* the position it was given, and returns what it reads, as PointerArray says, whatever
\* blocks they are in.
THEOREM ImplementsAnArray == Spec => ImplementsPointerArray
<1>1. IInv /\ [Next]_vars => [PA!Next]_<<Contents, call>>
  <2>1. SUFFICES ASSUME IInv, [Next]_vars
                 PROVE  PA!Next \/ (Contents' = Contents /\ call' = call)
    OBVIOUS
  <2>2. PICK C : Sound(Array, C, 0)
    BY <2>1 DEF IInv
  <2>3. nSize <= MaxSize /\ pool \subseteq Elems
    BY <2>1 DEF IInv
  <2>4. PICK E : Sound(Array', E, 0) /\ ((E = C /\ call' = call) \/ Stepped(C, E, call'))
    BY <2>1, <2>2, <2>3, NextStep
  <2>5. Contents = C
    BY <2>2, ContentsAre
  <2>6. Contents' = E
    BY <2>4, ContentsBecome
  <2>7. CASE Stepped(C, E, call')
    BY <2>5, <2>6, <2>7, PointerStep
  <2> QED BY <2>4, <2>5, <2>6, <2>7
<1> QED BY <1>1, Inductive, PTL DEF Spec, ImplementsPointerArray

\* The blocks have consecutive indices that fit their elements, in a table with room
\* for them, and an insertion that starts over finds nothing to compress then.
THEOREM BlocksAlwaysFit == Spec => []BlocksFit
<1>1. IInv => BlocksFit
  <2>1. SUFFICES ASSUME IInv PROVE BlocksFit
    OBVIOUS
  <2>2. PICK C : Sound(Array, C, 0)
    BY <2>1 DEF IInv
  <2>3. PICK a, q : a = Array /\ q = ppInf
    OBVIOUS
  <2>4. /\ a.ppInf = q /\ a.nSize = nSize /\ a.nMaxBlock = nMaxBlock /\ a.nCur = nCur
        /\ a.entry = entry
    BY <2>3 DEF Array
  <2>5. PICK s : Holding(a, s, C) /\ Indexed(q, s, Len(q)) /\ Filled(q)
    BY <2>2, <2>3, <2>4 DEF Sound, Tidy
  <2>6. /\ a \in Arrays /\ Laid(q, s, C) /\ Fit(q) /\ nSize = Len(C) /\ Len(q) <= nMaxBlock
    BY <2>4, <2>5 DEF Holding
  <2>7. /\ q \in Seq(BlockInfos) /\ nSize \in Nat /\ nMaxBlock \in Nat /\ nCur \in Nat
        /\ entry \in [Elems -> Entries \cup {None}]
    BY <2>4, <2>6 DEF Arrays
  <2>8. DOMAIN q = 1 .. Len(q) /\ Len(q) \in Nat /\ s[1] = 0 /\ Len(C) \in Nat
    BY <2>6, LaidFacts
  <2>9. nSize <= MaxSize /\ pool \subseteq Elems /\ steps \in Nat \cup {None} /\ MaxSize \in Nat
        /\ MAXENTRY \in Nat /\ astray \in BOOLEAN
    BY <2>1, SizesAssumption DEF IInv
  <2>10. ASSUME NEW k \in 1 .. Len(q)
         PROVE  /\ q[k].nStart <= MaxSize /\ q[k].nEnd <= MaxSize
                /\ Len(q[k].pData) \in 1 .. MAXENTRY
                /\ q[k].nEnd + 1 = q[k].nStart + Len(q[k].pData)
    <3>1. PICK x \in Nat, y \in Nat, l \in Nat :
            x = s[k] /\ y = s[k + 1] /\ l = Len(q[k].pData) /\ y = x + l /\ y <= Len(C)
      BY <2>6, BlockFacts
    <3>2. q[k].nStart = x /\ q[k].nEnd = y - 1
      BY <2>5, <3>1 DEF Indexed
    <3>3. l <= MAXENTRY
      BY <2>6, <3>1 DEF Fit
    <3>4. l # 0
      <4>1. q[k].pData # <<>>
        BY <2>5 DEF Filled
      <4>2. q[k].pData \in Seq(Elems)
        BY <2>6, BlockFacts
      <4> QED BY <3>1, <4>1, <4>2, EmptySeq
    <3>5. y <= MaxSize
      BY <2>6, <2>8, <2>9, <3>1
    <3> QED BY SMTT(30), <2>9, <3>1, <3>2, <3>3, <3>4, <3>5
  <2>11. ASSUME NEW k \in 1 .. Len(q)
         PROVE  q[k].nStart = IF k = 1 THEN 0 ELSE q[k - 1].nEnd + 1
    <3>1. q[k].nStart = s[k] /\ s[k] \in Nat
      BY <2>5, <2>6, BlockFacts DEF Indexed
    <3>2. CASE k = 1
      BY <2>8, <3>1, <3>2
    <3>3. CASE k # 1
      <4>1. k - 1 \in 1 .. Len(q) /\ (k - 1) + 1 = k
        BY <2>8, <3>3
      <4>2. q[k - 1].nEnd = s[k] - 1
        BY <2>5, <4>1 DEF Indexed
      <4> QED BY <3>1, <3>3, <4>2
    <3> QED BY <3>2, <3>3
  <2>12. TypeOK
    <3>1. nSize \in 0 .. MaxSize
      BY <2>7, <2>9
    <3> QED BY <2>3, <2>7, <2>8, <2>9, <2>10, <3>1 DEF TypeOK
  <2>13. nSize = Len(Contents)
    BY <2>2, <2>6, ContentsAre
  <2>14. ASSUME NEW pos \in 0 .. nSize PROVE ~StartsOver(Restarted(Array, pos), pos)
    <3>1. pos \in 0 .. Len(C)
      BY <2>6
    <3> QED BY <2>2, <3>1, RestartedFacts
  <2> QED BY <2>3, <2>6, <2>8, <2>10, <2>11, <2>12, <2>13, <2>14 DEF BlocksFit
<1> QED BY <1>1, Inductive, PTL

\* Each element knows its block and its offset there: GetPos is right.
THEOREM PositionsStayRight == Spec => []GetPosRight
<1>1. IInv => GetPosRight
  <2>1. SUFFICES ASSUME IInv, NEW i \in 1 .. nSize
                 PROVE  /\ entry[Contents[i]] # None
                        /\ \E k \in DOMAIN ppInf :
                             /\ ppInf[k].id = entry[Contents[i]].pBlock
                             /\ ppInf[k].nStart + entry[Contents[i]].nOffset = i - 1
    BY DEF GetPosRight
  <2>2. PICK C : Sound(Array, C, 0)
    BY <2>1 DEF IInv
  <2>3. Array.ppInf = ppInf /\ Array.nSize = nSize /\ Array.entry = entry
    BY DEF Array
  <2>4. PICK s : Holding(Array, s, C) /\ Right(ppInf, entry, s, 0) /\ Indexed(ppInf, s, Len(ppInf))
    BY <2>2, <2>3 DEF Sound, Tidy
  <2>5. Laid(ppInf, s, C) /\ nSize = Len(C)
    BY <2>3, <2>4 DEF Holding
  <2>6. DOMAIN ppInf = 1 .. Len(ppInf) /\ Len(C) \in Nat
    BY <2>5, LaidFacts
  <2>7. i \in 1 .. Len(C)
    BY <2>5
  <2>8. PICK k \in 1 .. Len(ppInf) : \E j \in 1 .. Len(ppInf[k].pData) :
               s[k] + j = i /\ C[i] = ppInf[k].pData[j]
    <3>1. PICK q, r : q = ppInf /\ r = i /\ r \in 1 .. Len(C)
      BY <2>7
    <3>2. Laid(q, s, C)
      BY <2>5, <3>1
    <3>3. \E k \in 1 .. Len(q) : \E j \in 1 .. Len(q[k].pData) : s[k] + j = r /\ C[r] = q[k].pData[j]
      BY <3>1, <3>2, PlaceOf
    <3> QED BY <3>1, <3>3
  <2>9. PICK j \in 1 .. Len(ppInf[k].pData) : s[k] + j = i /\ C[i] = ppInf[k].pData[j]
    BY <2>8
  <2>10. PICK at : at = entry[C[i]]
    OBVIOUS
  <2>11. at = [pBlock |-> ppInf[k].id, nOffset |-> j - 1] /\ at \in Entries
    BY <2>4, <2>5, <2>9, <2>10, EntryFacts
  <2>12. at # None
    BY <2>11, NoneAssumption
  <2>13. ppInf[k].nStart = s[k] /\ s[k] \in Nat /\ j \in Int
    BY <2>4, <2>5, PlaceFacts DEF Indexed
  <2>14. ppInf[k].id = at.pBlock /\ ppInf[k].nStart + at.nOffset = i - 1
    <3>1. PICK x \in Nat : x = s[k]
      BY <2>13
    <3>2. at.pBlock = ppInf[k].id /\ at.nOffset = j - 1
      BY <2>11
    <3>3. x + (j - 1) = i - 1
      BY SMTT(30), <2>9, <2>13, <3>1
    <3> QED BY <2>13, <3>1, <3>2, <3>3
  <2>15. Contents = C
    BY <2>2, ContentsAre
  <2> QED BY <2>6, <2>10, <2>12, <2>14, <2>15
<1> QED BY <1>1, Inductive, PTL

\* Whatever block of the table was used last, Index2Block finds the block of a position;
\* and so does its binary search when there are two blocks.
THEOREM SearchIsRight == Spec => []SearchRight
<1>1. IInv => SearchRight
  <2>1. SUFFICES ASSUME IInv, NEW pos \in Positions
                 PROVE  /\ Holds(ppInf[Index2Block(Array, pos) + 1], pos)
                        /\ Len(ppInf) > 1 => Holds(ppInf[Search(Array, pos) + 1], pos)
    BY DEF SearchRight
  <2>2. PICK C : Sound(Array, C, 0)
    BY <2>1 DEF IInv
  <2>3. Array.ppInf = ppInf /\ Array.nSize = nSize
    BY DEF Array
  <2>4. PICK s : Tidy(Array, s, C, 0)
    BY <2>2 DEF Sound
  <2>5. PICK q : /\ q = ppInf /\ Laid(q, s, C) /\ nSize = Len(C) /\ Indexed(q, s, Len(q))
                 /\ Filled(q)
    BY <2>3, <2>4 DEF Tidy, Holding
  <2>6. pos \in 0 .. Len(C) - 1
    BY <2>5 DEF Positions
  <2>7. PICK m : m = Index2Block(Array, pos)
    OBVIOUS
  <2>8. PICK k \in 1 .. Len(q) : m = k - 1 /\ k \in Nat /\ s[k] <= pos /\ pos < s[k + 1]
    BY <2>3, <2>4, <2>5, <2>6, <2>7, PositionFound
  <2>9. m + 1 = k
    BY <2>8
  <2>10. q[k].nStart = s[k] /\ q[k].nEnd = s[k + 1] - 1
    BY <2>5 DEF Indexed
  <2>11. s[k] \in Nat /\ s[k + 1] \in Nat /\ pos \in Int
    BY <2>5, <2>6, BlockFacts
  <2>12. Holds(q[k], pos)
    <3>1. PICK y \in Nat : y = s[k + 1]
      BY <2>11
    <3>2. q[k].nEnd = y - 1 /\ pos < y
      BY <2>8, <2>10, <3>1
    <3>3. y - 1 >= pos
      BY <2>11, <3>2
    <3> QED BY <2>8, <2>10, <3>2, <3>3 DEF Holds
  <2>13. ASSUME Len(q) > 1 PROVE Holds(q[Search(Array, pos) + 1], pos)
    <3>1. PICK F \in 1 .. Len(q) : Target(q, pos, F)
      BY <2>5, <2>6, HasTarget
    <3>2. Search(Array, pos) = F - 1
      <4>1. PICK a : a = Array
        OBVIOUS
      <4>2. a.ppInf = q
        BY <2>3, <2>5, <4>1
      <4>3. Target(a.ppInf, pos, F)
        BY <3>1, <4>2
      <4>4. Len(a.ppInf) # 1
        <5>1. Len(q) # 1
          <6>1. PICK n \in Nat : n = Len(q)
            BY <2>5, LaidFacts
          <6>2. n > 1
            BY <2>13, <6>1
          <6> QED BY <6>1, <6>2
        <5> QED BY <4>2, <5>1
      <4>5. Search(a, pos) = F - 1
        BY <4>3, <4>4, SearchFinds
      <4> QED BY <4>1, <4>5
    <3>3. Search(Array, pos) + 1 = F
      BY <3>2
    <3> QED BY <3>1, <3>3 DEF Target
  <2> QED BY <2>5, <2>7, <2>9, <2>12, <2>13
<1> QED BY <1>1, Inductive, PTL
==============================================================================
