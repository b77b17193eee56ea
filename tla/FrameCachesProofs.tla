-------------------------- MODULE FrameCachesProofs --------------------------
(***************************************************************************)
(* Proofs about FrameCaches: that the chain of a cache stays sound, that   *)
(* an owner finds its own object and no other, that an access keeps its    *)
(* object, and that a layout action keeps the objects in front of it.      *)
(***************************************************************************)
EXTENDS FrameCaches, FiniteSetTheorems, SequenceTheorems, NaturalsInduction,
        WellFoundedInduction, TLAPS

(* Least and greatest numbers of a set.                                     *)

LessThan == {p \in Nat \X Nat : p[1] < p[2]}

\* A set of naturals has a least number.
LEMMA LeastNumber ==
  ASSUME NEW T \in SUBSET Nat, T # {}
  PROVE  \E k \in T : \A y \in T : k <= y
<1>1. IsWellFoundedOn(LessThan, Nat)
  BY NatLessThanWellFounded DEF OpToRel, LessThan
<1>2. PICK k \in T : \A y \in T : ~ (<<y, k>> \in LessThan)
  BY <1>1, WFMin
<1>3. ASSUME NEW y \in T PROVE k <= y
  <2>1. k \in Nat /\ y \in Nat
    OBVIOUS
  <2>2. ~ (y < k)
    BY <1>2, <2>1 DEF LessThan
  <2> QED BY <2>1, <2>2
<1> QED BY <1>3

\* One with a bound has a greatest number.
LEMMA GreatestNumber ==
  ASSUME NEW n \in Nat, NEW T \in SUBSET (1 .. n), T # {}
  PROVE  \E k \in T : \A y \in T : y <= k
<1> DEFINE U == {n - k : k \in T}
<1>1. U \in SUBSET Nat /\ U # {}
  <2>1. \A k \in T : k \in Nat /\ n - k \in Nat
    OBVIOUS
  <2> QED BY <2>1
<1>2. PICK u \in U : \A y \in U : u <= y
  BY <1>1, LeastNumber
<1>3. PICK k \in T : u = n - k
  BY <1>2
<1>4. ASSUME NEW y \in T PROVE y <= k
  <2>1. n - y \in U
    OBVIOUS
  <2>2. n - k <= n - y
    BY <1>2, <1>3, <2>1
  <2> QED BY <2>2
<1> QED BY <1>4

\* The operators Min and Max choose them.
LEMMA MinOfSet ==
  ASSUME NEW T \in SUBSET Nat, T # {}
  PROVE  Min(T) \in T /\ \A y \in T : Min(T) <= y
<1>1. PICK k \in T : \A y \in T : k <= y
  BY LeastNumber
<1> QED BY <1>1 DEF Min

LEMMA MaxOfSet ==
  ASSUME NEW n \in Nat, NEW T \in SUBSET (1 .. n), T # {}
  PROVE  Max(T) \in T /\ \A y \in T : y <= Max(T)
<1>1. PICK k \in T : \A y \in T : y <= k
  BY GreatestNumber
<1>2. \A y \in T : k >= y
  BY <1>1
<1>3. Max(T) \in T /\ \A y \in T : Max(T) >= y
  BY <1>2 DEF Max
<1> QED BY <1>3

-----------------------------------------------------------------------------
(* Sequences from which an element is taken, or to which one is added.      *)

Without(s, n, k) == [i \in 1 .. n - 1 |-> IF i < k THEN s[i] ELSE s[i + 1]]
With(s, n, h, x) == [i \in 1 .. n + 1 |-> IF i < h THEN s[i] ELSE IF i = h THEN x ELSE s[i - 1]]

\* The objects D, chained in the order s of length n.
ChainOn(c, s, n, D) ==
  /\ n \in Nat /\ s \in [1 .. n -> D] /\ IsInjective(s) /\ D = {s[i] : i \in 1 .. n}
  /\ D \subseteq Cached(c) /\ None \notin D
  /\ c.pRealFirst = (IF n > 0 THEN s[1] ELSE None)
  /\ c.pLast = (IF n > 0 THEN s[n] ELSE None)
  /\ \A i \in 1 .. n : /\ GetNext(c, s[i]) = IF i < n THEN s[i + 1] ELSE None
                       /\ GetPrev(c, s[i]) = IF i > 1 THEN s[i - 1] ELSE None

\* What it is when x is taken out of the chain.
LEMMA TakenOut ==
  ASSUME NEW c, NEW d, NEW s, NEW n, NEW D, ChainOn(c, s, n, D), NEW k \in 1 .. n,
         NEW x, x = s[k], D \ {x} \subseteq Cached(d),
         \A y \in D \ {x} :
           /\ GetNext(d, y) = IF y = GetPrev(c, x) THEN GetNext(c, x) ELSE GetNext(c, y)
           /\ GetPrev(d, y) = IF y = GetNext(c, x) THEN GetPrev(c, x) ELSE GetPrev(c, y),
         d.pRealFirst = IF c.pRealFirst = x THEN GetNext(c, x) ELSE c.pRealFirst,
         d.pLast = IF c.pLast = x THEN GetPrev(c, x) ELSE c.pLast
  PROVE  ChainOn(d, Without(s, n, k), n - 1, D \ {x})
<1> DEFINE t == Without(s, n, k)
<1>1. /\ n \in Nat \ {0} /\ n - 1 \in Nat /\ k \in Nat /\ s \in [1 .. n -> D]
      /\ \A i, j \in 1 .. n : s[i] = s[j] => i = j
  BY DEF ChainOn, IsInjective
<1>2. \A i \in 1 .. n - 1 : t[i] = (IF i < k THEN s[i] ELSE s[i + 1])
  BY DEF Without
<1>3. \A i \in 1 .. n - 1 : t[i] \in D \ {x}
  BY <1>1, <1>2
<1>4. t \in [1 .. n - 1 -> D \ {x}]
  BY <1>2, <1>3 DEF Without
<1>5. IsInjective(t)
  <2>1. \A i, j \in 1 .. n - 1 : t[i] = t[j] => i = j
    BY <1>1, <1>2
  <2>2. DOMAIN t = 1 .. n - 1
    BY DEF Without
  <2> QED BY <2>1, <2>2 DEF IsInjective
<1>6. D \ {x} = {t[i] : i \in 1 .. n - 1}
  <2>1. ASSUME NEW y \in D \ {x} PROVE \E i \in 1 .. n - 1 : y = t[i]
    <3>1. PICK j \in 1 .. n : y = s[j]
      BY DEF ChainOn
    <3>2. j # k
      BY <3>1
    <3>3. CASE j < k
      <4>1. j \in 1 .. n - 1 /\ t[j] = y
        BY <1>1, <1>2, <3>1, <3>3
      <4> QED BY <4>1
    <3>4. CASE j > k
      <4>1. j - 1 \in 1 .. n - 1 /\ ~(j - 1 < k) /\ j - 1 + 1 = j
        BY <1>1, <3>1, <3>4
      <4>2. t[j - 1] = y
        BY <1>2, <3>1, <4>1
      <4> QED BY <4>1, <4>2
    <3> QED BY <1>1, <3>2, <3>3, <3>4
  <2> QED BY <1>3, <2>1
<1>7. None \notin D \ {x}
  <2>1. None \notin D
    BY DEF ChainOn
  <2> QED BY <2>1
<1>8. \A i \in 1 .. n : /\ GetNext(c, s[i]) = IF i < n THEN s[i + 1] ELSE None
                        /\ GetPrev(c, s[i]) = IF i > 1 THEN s[i - 1] ELSE None
                        /\ s[i] # None
  <2>1. ASSUME NEW i \in 1 .. n PROVE s[i] # None
    BY <1>1 DEF ChainOn
  <2> QED BY <2>1 DEF ChainOn
<1>9. d.pRealFirst = (IF n - 1 > 0 THEN t[1] ELSE None)
  <2>1. c.pRealFirst = s[1]
    BY <1>1 DEF ChainOn
  <2>2. c.pRealFirst = x <=> k = 1
    BY <1>1, <2>1
  <2>3. CASE k = 1
    BY <1>1, <1>2, <1>8, <2>2, <2>3
  <2>4. CASE k # 1
    BY <1>1, <1>2, <2>1, <2>2, <2>4
  <2> QED BY <2>3, <2>4
<1>10. d.pLast = (IF n - 1 > 0 THEN t[n - 1] ELSE None)
  <2>1. c.pLast = s[n]
    BY <1>1 DEF ChainOn
  <2>2. c.pLast = x <=> k = n
    BY <1>1, <2>1
  <2>3. CASE k = n
    BY <1>1, <1>2, <1>8, <2>2, <2>3
  <2>4. CASE k # n
    BY <1>1, <1>2, <2>1, <2>2, <2>4
  <2> QED BY <2>3, <2>4
<1>11. ASSUME NEW i \in 1 .. n - 1
       PROVE  /\ GetNext(d, t[i]) = IF i < n - 1 THEN t[i + 1] ELSE None
              /\ GetPrev(d, t[i]) = IF i > 1 THEN t[i - 1] ELSE None
  <2>1. /\ GetNext(d, t[i]) = IF t[i] = GetPrev(c, x) THEN GetNext(c, x) ELSE GetNext(c, t[i])
        /\ GetPrev(d, t[i]) = IF t[i] = GetNext(c, x) THEN GetPrev(c, x) ELSE GetPrev(c, t[i])
    BY <1>3
  <2>a. /\ GetNext(c, x) = IF k < n THEN s[k + 1] ELSE None
        /\ GetPrev(c, x) = IF k > 1 THEN s[k - 1] ELSE None
    BY <1>8
  <2>b. t[i] = (IF i < k THEN s[i] ELSE s[i + 1]) /\ t[i] # None
    BY <1>1, <1>2, <1>8
  <2>2. t[i] = GetPrev(c, x) <=> i = k - 1
    <3>1. CASE k > 1
      <4>1. t[i] = s[k - 1] <=> i = k - 1
        BY <1>1, <2>b, <3>1
      <4> QED BY <2>a, <3>1, <4>1
    <3>2. CASE ~(k > 1)
      BY <1>1, <2>a, <2>b, <3>2
    <3> QED BY <3>1, <3>2
  <2>3. t[i] = GetNext(c, x) <=> i = k
    <3>1. CASE k < n
      <4>1. t[i] = s[k + 1] <=> i = k
        BY <1>1, <2>b, <3>1
      <4> QED BY <2>a, <3>1, <4>1
    <3>2. CASE ~(k < n)
      BY <1>1, <2>a, <2>b, <3>2
    <3> QED BY <3>1, <3>2
  <2>4. i < n - 1 => t[i + 1] = (IF i + 1 < k THEN s[i + 1] ELSE s[i + 2])
    <3>1. i < n - 1 => i + 1 \in 1 .. n - 1 /\ i + 1 + 1 = i + 2
      BY <1>1
    <3> QED BY <1>2, <3>1
  <2>5. i > 1 => t[i - 1] = (IF i - 1 < k THEN s[i - 1] ELSE s[i])
    <3>1. i > 1 => i - 1 \in 1 .. n - 1 /\ i - 1 + 1 = i
      BY <1>1
    <3> QED BY <1>2, <3>1
  <2>6. GetNext(d, t[i]) = IF i < n - 1 THEN t[i + 1] ELSE None
    BY <1>1, <1>2, <1>8, <2>1, <2>2, <2>4
  <2>7. GetPrev(d, t[i]) = IF i > 1 THEN t[i - 1] ELSE None
    BY <1>1, <1>2, <1>8, <2>1, <2>3, <2>5
  <2> QED BY <2>6, <2>7
<1> QED BY <1>1, <1>4, <1>5, <1>6, <1>7, <1>9, <1>10, <1>11 DEF ChainOn

\* What it is when x is put in front of p, which is at h.
LEMMA PutIn ==
  ASSUME NEW c, NEW d, NEW s, NEW n, NEW D, ChainOn(c, s, n, D), NEW x, x \notin D, x # None,
         x \in Cached(d), D \subseteq Cached(d),
         NEW h \in 1 .. n + 1, n > 0 => h <= n,
         NEW p, p = IF n > 0 THEN s[h] ELSE None,
         NEW before, before = IF h > 1 THEN s[h - 1] ELSE None,
         \A y \in D \cup {x} :
           /\ GetNext(d, y) = IF y = x THEN p ELSE IF y = before THEN x ELSE GetNext(c, y)
           /\ GetPrev(d, y) = IF y = x THEN before ELSE IF y = p THEN x ELSE GetPrev(c, y),
         d.pRealFirst = IF p = c.pRealFirst THEN x ELSE c.pRealFirst,
         d.pLast = IF p = None THEN x ELSE c.pLast
  PROVE  ChainOn(d, With(s, n, h, x), n + 1, D \cup {x})
<1> DEFINE t == With(s, n, h, x)
<1>1. /\ n \in Nat /\ n + 1 \in Nat /\ h \in Nat \ {0} /\ s \in [1 .. n -> D]
      /\ \A i, j \in 1 .. n : s[i] = s[j] => i = j
      /\ \A i \in 1 .. n : s[i] # x /\ s[i] \in D
  BY DEF ChainOn, IsInjective
<1>2. \A i \in 1 .. n + 1 : t[i] = (IF i < h THEN s[i] ELSE IF i = h THEN x ELSE s[i - 1])
  BY DEF With
<1>3. \A i \in 1 .. n + 1 : t[i] \in D \cup {x}
  BY <1>1, <1>2
<1>4. t \in [1 .. n + 1 -> D \cup {x}]
  BY <1>2, <1>3 DEF With
<1>5. IsInjective(t)
  <2>1. \A i, j \in 1 .. n + 1 : t[i] = t[j] => i = j
    BY <1>1, <1>2
  <2>2. DOMAIN t = 1 .. n + 1
    BY DEF With
  <2> QED BY <2>1, <2>2 DEF IsInjective
<1>6. D \cup {x} = {t[i] : i \in 1 .. n + 1}
  <2>1. ASSUME NEW y \in D \cup {x} PROVE \E i \in 1 .. n + 1 : y = t[i]
    <3>1. CASE y = x
      <4>1. t[h] = x
        BY <1>1, <1>2
      <4> QED BY <3>1, <4>1
    <3>2. CASE y # x
      <4>1. PICK j \in 1 .. n : y = s[j]
        BY <3>2 DEF ChainOn
      <4>2. CASE j < h
        <5>1. j \in 1 .. n + 1 /\ t[j] = y
          BY <1>1, <1>2, <4>1, <4>2
        <5> QED BY <5>1
      <4>3. CASE ~(j < h)
        <5>1. j + 1 \in 1 .. n + 1 /\ ~(j + 1 < h) /\ j + 1 # h /\ j + 1 - 1 = j
          BY <1>1, <4>1, <4>3
        <5>2. t[j + 1] = y
          BY <1>2, <4>1, <5>1
        <5> QED BY <5>1, <5>2
      <4> QED BY <4>2, <4>3
    <3> QED BY <3>1, <3>2
  <2> QED BY <1>3, <2>1
<1>7. D \cup {x} \subseteq Cached(d) /\ None \notin D \cup {x}
  <2>1. None \notin D
    BY DEF ChainOn
  <2> QED BY <2>1
<1>8. \A i \in 1 .. n : /\ GetNext(c, s[i]) = IF i < n THEN s[i + 1] ELSE None
                        /\ GetPrev(c, s[i]) = IF i > 1 THEN s[i - 1] ELSE None
                        /\ s[i] # None
  <2>1. ASSUME NEW i \in 1 .. n PROVE s[i] # None
    BY <1>1 DEF ChainOn
  <2> QED BY <2>1 DEF ChainOn
<1>9. d.pRealFirst = t[1]
  <2>1. c.pRealFirst = (IF n > 0 THEN s[1] ELSE None)
    BY DEF ChainOn
  <2>2. CASE h = 1
    <3>1. p = c.pRealFirst /\ t[1] = x
      BY <1>1, <1>2, <2>1, <2>2
    <3> QED BY <3>1
  <2>3. CASE h # 1
    <3>1. n > 0 /\ h <= n /\ h > 1
      BY <1>1, <2>3
    <3>2. p # c.pRealFirst /\ t[1] = s[1] /\ c.pRealFirst = s[1]
      BY <1>1, <1>2, <2>1, <3>1
    <3> QED BY <3>2
  <2> QED BY <2>2, <2>3
<1>10. d.pLast = t[n + 1]
  <2>1. CASE n = 0
    <3>1. h = 1 /\ p = None
      BY <1>1, <2>1
    <3> QED BY <1>1, <1>2, <2>1, <3>1
  <2>2. CASE n # 0
    <3>1. n > 0 /\ h <= n /\ n + 1 - 1 = n /\ ~(n + 1 < h) /\ n + 1 # h /\ n + 1 \in 1 .. n + 1
      BY <1>1, <2>2
    <3>2. p # None /\ t[n + 1] = s[n]
      BY <1>1, <1>2, <1>8, <3>1
    <3>3. c.pLast = s[n]
      BY <3>1 DEF ChainOn
    <3> QED BY <3>2, <3>3
  <2> QED BY <2>1, <2>2
<1>11. ASSUME NEW i \in 1 .. n + 1
       PROVE  /\ GetNext(d, t[i]) = IF i < n + 1 THEN t[i + 1] ELSE None
              /\ GetPrev(d, t[i]) = IF i > 1 THEN t[i - 1] ELSE None
  <2>1. /\ GetNext(d, t[i]) = IF t[i] = x THEN p ELSE IF t[i] = before THEN x ELSE GetNext(c, t[i])
        /\ GetPrev(d, t[i]) = IF t[i] = x THEN before ELSE IF t[i] = p THEN x ELSE GetPrev(c, t[i])
    BY <1>3
  <2>2. t[i] = (IF i < h THEN s[i] ELSE IF i = h THEN x ELSE s[i - 1])
    BY <1>2
  <2>3. i < n + 1 => t[i + 1] = (IF i + 1 < h THEN s[i + 1] ELSE IF i + 1 = h THEN x ELSE s[i])
    <3>1. i < n + 1 => i + 1 \in 1 .. n + 1 /\ i + 1 - 1 = i
      BY <1>1
    <3> QED BY <1>2, <3>1
  <2>4. i > 1 => t[i - 1] = (IF i - 1 < h THEN s[i - 1] ELSE IF i - 1 = h THEN x ELSE s[i - 2])
    <3>1. i > 1 => i - 1 \in 1 .. n + 1 /\ i - 1 - 1 = i - 2
      BY <1>1
    <3> QED BY <1>2, <3>1
  <2>5. CASE i < h
    <3>a. n > 0 /\ h <= n /\ i \in 1 .. n /\ h > 1 /\ i # h /\ h - 1 \in 1 .. n
      BY <1>1, <2>5
    <3>1. /\ n > 0 /\ h <= n /\ i \in 1 .. n /\ p = s[h] /\ t[i] = s[i] /\ s[i] # x
          /\ h > 1 /\ before = s[h - 1] /\ i # h /\ h - 1 \in 1 .. n
      BY <1>1, <2>2, <2>5, <3>a
    <3>2. (t[i] = before <=> i = h - 1) /\ t[i] # p
      BY <1>1, <3>1
    <3>3. /\ GetNext(d, t[i]) = IF i = h - 1 THEN x ELSE s[i + 1]
          /\ GetPrev(d, t[i]) = IF i > 1 THEN s[i - 1] ELSE None
      <4>1. i < n
        BY <1>1, <2>5, <3>a
      <4>2. /\ GetNext(d, t[i]) = IF t[i] = before THEN x ELSE GetNext(c, s[i])
            /\ GetPrev(d, t[i]) = GetPrev(c, s[i])
        BY <2>1, <3>1, <3>2
      <4>3. /\ GetNext(c, s[i]) = s[i + 1]
            /\ GetPrev(c, s[i]) = IF i > 1 THEN s[i - 1] ELSE None
        BY <1>8, <3>a, <4>1
      <4> QED BY <3>2, <4>2, <4>3
    <3> QED BY <1>1, <2>3, <2>4, <2>5, <3>1, <3>3
  <2>6. CASE i = h
    <3>1. t[i] = x /\ GetNext(d, t[i]) = p /\ GetPrev(d, t[i]) = before
      BY <2>1, <2>2, <2>6
    <3> QED BY <1>1, <2>3, <2>4, <2>6, <3>1
  <2>7. CASE i > h
    <3>1. /\ n > 0 /\ h <= n /\ i - 1 \in 1 .. n /\ p = s[h] /\ t[i] = s[i - 1] /\ s[i - 1] # x
          /\ h \in 1 .. n
      BY <1>1, <2>2, <2>7
    <3>2. (t[i] = p <=> i - 1 = h) /\ t[i] # before
      <4>1. h > 1 => h - 1 \in 1 .. n /\ before = s[h - 1] /\ h - 1 # i - 1
        BY <1>1, <2>7, <3>1
      <4>2. ~(h > 1) => before = None
        OBVIOUS
      <4> QED BY <1>1, <1>8, <3>1, <4>1, <4>2
    <3>3. /\ GetNext(d, t[i]) = IF i - 1 < n THEN s[i] ELSE None
          /\ GetPrev(d, t[i]) = IF i - 1 = h THEN x ELSE IF i - 1 > 1 THEN s[i - 2] ELSE None
      <4>1. i - 1 + 1 = i /\ i - 1 - 1 = i - 2
        BY <1>1
      <4> QED BY <1>8, <2>1, <3>1, <3>2, <4>1
    <3> QED BY <1>1, <2>3, <2>4, <2>7, <3>1, <3>3
  <2> QED BY <1>1, <2>5, <2>6, <2>7
<1> QED
  <2>1. n + 1 > 0 /\ IsInjective(t)
    BY <1>1, <1>5
  <2> HIDE DEF t
  <2>2. ChainOn(d, t, n + 1, D \cup {x})
    BY <1>1, <1>4, <1>6, <1>7, <1>9, <1>10, <1>11, <2>1 DEF ChainOn
  <2> QED BY <2>2 DEF t

-----------------------------------------------------------------------------
(* The chain that the links make up.                                        *)

\* All objects of the cache are chained in the order s, and pFirst is the one at h.
Chained(c, s, n, h) ==
  /\ ChainOn(c, s, n, Cached(c))
  /\ h \in 1 .. n + 1 /\ (n > 0 => h <= n)
  /\ c.pFirst = (IF n > 0 THEN s[h] ELSE None)

\* A chain is as long as there are objects.
LEMMA ChainLength ==
  ASSUME NEW c, NEW s, NEW n, NEW D, ChainOn(c, s, n, D)
  PROVE  IsFiniteSet(D) /\ Cardinality(D) = n
<1>1. n \in Nat /\ s \in [1 .. n -> D] /\ D = {s[i] : i \in 1 .. n}
      /\ \A i, j \in 1 .. n : s[i] = s[j] => i = j
  BY DEF ChainOn, IsInjective
<1>2. s \in Bijection(1 .. n, D)
  <2>1. s \in Injection(1 .. n, D)
    <3>1. IsInjective(s)
      BY DEF ChainOn
    <3> QED BY <1>1, <3>1 DEF Injection
  <2>2. \A y \in D : \E i \in 1 .. n : s[i] = y
    BY <1>1
  <2>3. s \in Surjection(1 .. n, D)
    <3>1. s \in [1 .. n -> D]
      BY <1>1
    <3> QED BY <2>2, <3>1 DEF Surjection
  <2> QED BY <2>1, <2>3 DEF Bijection
<1>3. IsFiniteSet(1 .. n) /\ Cardinality(1 .. n) = n
  <2>1. /\ IsFiniteSet(1 .. n)
        /\ Cardinality(1 .. n) = IF 1 > n THEN 0 ELSE n - 1 + 1
    BY <1>1, FS_Interval
  <2> QED BY <1>1, <2>1
<1>4. ExistsBijection(1 .. n, D)
  BY <1>2 DEF ExistsBijection
<1> QED BY <1>3, <1>4, FS_Bijection

\* Following the links gives that order.
LEMMA ChainIsOrder ==
  ASSUME NEW c, NEW s, NEW n, ChainOn(c, s, n, Cached(c))
  PROVE  Chain(c) = s
<1> DEFINE F(f) == [i \in 1 .. Cardinality(Cached(c)) |->
                      IF i = 1 THEN c.pRealFirst ELSE GetNext(c, f[i - 1])]
<1>1. n \in Nat /\ s \in [1 .. n -> Cached(c)] /\ n = Cardinality(Cached(c))
  BY ChainLength DEF ChainOn
<1>2. \A i \in 1 .. n : s[i] = IF i = 1 THEN c.pRealFirst ELSE GetNext(c, s[i - 1])
  <2>1. ASSUME NEW i \in 1 .. n PROVE s[i] = IF i = 1 THEN c.pRealFirst ELSE GetNext(c, s[i - 1])
    <3>1. CASE i = 1
      <4>1. n > 0
        BY <1>1, <3>1
      <4> QED BY <3>1, <4>1 DEF ChainOn
    <3>2. CASE i # 1
      <4>1. i - 1 \in 1 .. n /\ i - 1 < n /\ i - 1 + 1 = i
        BY <1>1, <3>2
      <4>2. GetNext(c, s[i - 1]) = s[i]
        <5>1. \A j \in 1 .. n : j < n => GetNext(c, s[j]) = s[j + 1]
          BY DEF ChainOn
        <5> QED BY <4>1, <5>1
      <4> QED BY <3>2, <4>1, <4>2
    <3> QED BY <3>1, <3>2
  <2> QED BY <2>1
<1>3. s = F(s)
  <2>1. s = [i \in 1 .. n |-> s[i]]
    BY <1>1
  <2>2. [i \in 1 .. n |-> s[i]] = [i \in 1 .. n |-> IF i = 1 THEN c.pRealFirst ELSE GetNext(c, s[i - 1])]
    BY <1>2
  <2> QED BY <1>1, <2>1, <2>2
<1>4. PICK w : w = CHOOSE f : f = F(f)
  OBVIOUS
<1>5. w = F(w)
  <2> HIDE DEF F
  <2> QED BY <1>3, <1>4
<1>6. \A i \in 1 .. n : w[i] = IF i = 1 THEN c.pRealFirst ELSE GetNext(c, w[i - 1])
  BY <1>1, <1>5
<1>7. \A i \in 1 .. n : w[i] = s[i]
  <2> DEFINE T == {i \in 1 .. n : w[i] # s[i]}
  <2>1. SUFFICES ASSUME T # {} PROVE FALSE
    OBVIOUS
  <2>2. T \in SUBSET Nat
    OBVIOUS
  <2>3. PICK i \in T : \A j \in T : i <= j
    BY <2>1, <2>2, LeastNumber
  <2>4. i \in 1 .. n /\ w[i] # s[i]
    OBVIOUS
  <2>5. i # 1
    BY <1>2, <1>6, <2>4
  <2>6. i - 1 \in 1 .. n /\ i - 1 \notin T
    BY <1>1, <2>3, <2>4, <2>5
  <2>7. w[i - 1] = s[i - 1]
    BY <2>6
  <2> QED BY <1>2, <1>6, <2>4, <2>5, <2>7
<1>8. w = s
  <2>1. w = [i \in 1 .. n |-> IF i = 1 THEN c.pRealFirst ELSE GetNext(c, w[i - 1])]
    BY <1>1, <1>5
  <2>2. DOMAIN w = 1 .. n /\ w = [i \in DOMAIN w |-> w[i]]
    BY <2>1
  <2> QED BY <1>1, <1>7, <2>2
<1>9. Chain(c) = CHOOSE f : f = F(f)
  BY DEF Chain
<1> QED BY <1>4, <1>8, <1>9

\* That is what Consistent asks of the chain.
LEMMA OrderIsChain ==
  ASSUME NEW c, NEW s, NEW n, ChainOn(c, s, n, Cached(c))
  PROVE  IsChain(c, s) /\ Len(s) = n /\ DOMAIN s = 1 .. n
<1>1. /\ n \in Nat /\ s \in [1 .. n -> Cached(c)] /\ IsInjective(s)
      /\ Cached(c) = {s[i] : i \in 1 .. n}
  BY DEF ChainOn
<1>2. Len(s) = n /\ DOMAIN s = 1 .. n
  BY <1>1
<1>3. ToSet(s) = Cached(c)
  BY <1>1, <1>2 DEF ToSet
<1>4. c.pRealFirst = At(s, 1) /\ c.pLast = At(s, n)
  BY <1>1, <1>2 DEF ChainOn, At
<1>5. ASSUME NEW i \in 1 .. n
      PROVE  GetNext(c, s[i]) = At(s, i + 1) /\ GetPrev(c, s[i]) = At(s, i - 1)
  <2>1. /\ GetNext(c, s[i]) = IF i < n THEN s[i + 1] ELSE None
        /\ GetPrev(c, s[i]) = IF i > 1 THEN s[i - 1] ELSE None
    BY DEF ChainOn
  <2>a. n \in Nat /\ i \in Nat /\ i >= 1 /\ i <= n
    BY <1>1
  <2>2. (i + 1 \in 1 .. n <=> i < n) /\ (i - 1 \in 1 .. n <=> i > 1)
    BY <2>a
  <2>3. At(s, i + 1) = (IF i < n THEN s[i + 1] ELSE None)
    BY <1>2, <2>2 DEF At
  <2>4. At(s, i - 1) = (IF i > 1 THEN s[i - 1] ELSE None)
    BY <1>2, <2>2 DEF At
  <2> QED BY <2>1, <2>3, <2>4
<1> QED BY <1>1, <1>2, <1>3, <1>4, <1>5 DEF IsChain

-----------------------------------------------------------------------------
(* What the assignments do to the members of the objects.                   *)

Locks(c, x) == c.m_aCacheObjects[x].nLock

\* The caches have the same objects, but for the links.
Keeps(c, d) ==
  /\ d \in Caches(Owners) /\ Cached(d) = Cached(c)
  /\ DOMAIN d.m_aCacheObjects = DOMAIN c.m_aCacheObjects
  /\ d.aFreePositions = c.aFreePositions /\ d.nCurMax = c.nCurMax
  /\ \A x \in Cached(c) : Owner(d, x) = Owner(c, x) /\ Locks(d, x) = Locks(c, x)

SameEnds(c, d) == d.pRealFirst = c.pRealFirst /\ d.pFirst = c.pFirst /\ d.pLast = c.pLast

\* The members of an object that is in the cache.
LEMMA CachedObject ==
  ASSUME NEW c \in Caches(Owners), NEW x \in Cached(c)
  PROVE  /\ c.m_aCacheObjects[x] \in Objects(Owners) /\ x \in Nat \ {0} /\ x # None /\ x # Dangling
         /\ x \in DOMAIN c.m_aCacheObjects
         /\ Owner(c, x) \in Owners /\ Locks(c, x) \in Nat
         /\ GetNext(c, x) = c.m_aCacheObjects[x].pNext /\ GetNext(c, x) \in Pointers
         /\ GetPrev(c, x) = c.m_aCacheObjects[x].pPrev /\ GetPrev(c, x) \in Pointers
<1>1. c.m_aCacheObjects \in Seq(Objects(Owners) \cup {None})
  BY DEF Caches
<1>2. x \in DOMAIN c.m_aCacheObjects /\ c.m_aCacheObjects[x] # None
  BY DEF Cached
<1>3. c.m_aCacheObjects[x] \in Objects(Owners) \cup {None} /\ x \in Nat \ {0}
  BY <1>1, <1>2, ElementOfSeq, LenProperties
<1>4. c.m_aCacheObjects[x] \in Objects(Owners)
  BY <1>2, <1>3
<1>5. x # None /\ x # Dangling
  BY <1>3, PointersAssumption
<1> QED BY <1>2, <1>3, <1>4, <1>5 DEF Objects, Owner, Locks, GetNext, GetPrev

\* What is no object has no links.
LEMMA NoLinks ==
  ASSUME NEW c, NEW x, x \notin Cached(c)
  PROVE  GetNext(c, x) = None /\ GetPrev(c, x) = None
BY DEF GetNext, GetPrev

WithObject(c, x, r) == [c EXCEPT !.m_aCacheObjects[x] = r]

\* A record is written to a position.
LEMMA ObjectSet ==
  ASSUME NEW c \in Caches(Owners), NEW x \in DOMAIN c.m_aCacheObjects,
         NEW r \in Objects(Owners), NEW d, d = WithObject(c, x, r)
  PROVE  /\ d \in Caches(Owners) /\ Cached(d) = Cached(c) \cup {x} /\ SameEnds(c, d)
         /\ DOMAIN d.m_aCacheObjects = DOMAIN c.m_aCacheObjects
         /\ d.aFreePositions = c.aFreePositions /\ d.nCurMax = c.nCurMax
         /\ d.m_aCacheObjects[x] = r
         /\ \A z \in DOMAIN c.m_aCacheObjects : z # x => d.m_aCacheObjects[z] = c.m_aCacheObjects[z]
<1>1. PICK a : a = c.m_aCacheObjects
  OBVIOUS
<1>2. PICK b : b = [a EXCEPT ![x] = r]
  OBVIOUS
<1>3. a \in Seq(Objects(Owners) \cup {None}) /\ x \in DOMAIN a
  BY <1>1 DEF Caches
<1>4. b \in Seq(Objects(Owners) \cup {None}) /\ Len(b) = Len(a) /\ DOMAIN b = DOMAIN a
  <2>1. x \in 1 .. Len(a) /\ r \in Objects(Owners) \cup {None}
    BY <1>3, LenProperties
  <2> QED BY <1>2, <1>3, <2>1, ExceptSeq, LenProperties
<1>5. b[x] = r /\ \A z \in DOMAIN a : z # x => b[z] = a[z]
  BY <1>2, <1>3
<1>6. d = [c EXCEPT !.m_aCacheObjects = b]
  BY <1>1, <1>2 DEF WithObject
<1>7. /\ d.m_aCacheObjects = b /\ SameEnds(c, d) /\ d \in Caches(Owners)
      /\ d.aFreePositions = c.aFreePositions /\ d.nCurMax = c.nCurMax
  BY <1>4, <1>6 DEF Caches, SameEnds
<1>8. r # None
  BY OwnersAssumption
<1>9. Cached(d) = Cached(c) \cup {x}
  BY <1>1, <1>3, <1>4, <1>5, <1>7, <1>8 DEF Cached
<1> QED BY <1>1, <1>4, <1>5, <1>7, <1>9

\* SetNext changes this link.
LEMMA SetNextKeeps ==
  ASSUME NEW c \in Caches(Owners), NEW x, NEW y \in Pointers, NEW d, d = SetNext(c, x, y)
  PROVE  /\ Keeps(c, d) /\ SameEnds(c, d)
         /\ \A z : /\ GetNext(d, z) = IF z = x /\ x \in Cached(c) THEN y ELSE GetNext(c, z)
                   /\ GetPrev(d, z) = GetPrev(c, z)
<1>1. CASE x \notin Cached(c)
  BY <1>1 DEF SetNext, Keeps, SameEnds
<1>2. CASE x \in Cached(c)
  <2>1. PICK o : o = c.m_aCacheObjects[x]
    OBVIOUS
  <2>2. PICK r : r = [o EXCEPT !.pNext = y]
    OBVIOUS
  <2>3. o \in Objects(Owners) /\ x \in DOMAIN c.m_aCacheObjects
    BY <1>2, <2>1, CachedObject
  <2>4. /\ r \in Objects(Owners) /\ r.pNext = y /\ r.pPrev = o.pPrev /\ r.pOwner = o.pOwner
        /\ r.nLock = o.nLock
    BY <2>2, <2>3 DEF Objects
  <2>5. d = WithObject(c, x, r)
    BY <1>2, <2>1, <2>2 DEF SetNext, WithObject
  <2>6. /\ d \in Caches(Owners) /\ Cached(d) = Cached(c) \cup {x} /\ SameEnds(c, d)
        /\ DOMAIN d.m_aCacheObjects = DOMAIN c.m_aCacheObjects
        /\ d.aFreePositions = c.aFreePositions /\ d.nCurMax = c.nCurMax
        /\ d.m_aCacheObjects[x] = r
        /\ \A z \in DOMAIN c.m_aCacheObjects : z # x => d.m_aCacheObjects[z] = c.m_aCacheObjects[z]
    BY <2>3, <2>4, <2>5, ObjectSet
  <2>7. Cached(d) = Cached(c) /\ \A z \in Cached(c) : z \in DOMAIN c.m_aCacheObjects
    BY <1>2, <2>6 DEF Cached
  <2>8. Keeps(c, d)
    BY <2>1, <2>4, <2>6, <2>7 DEF Keeps, Owner, Locks
  <2>9. ASSUME NEW z
        PROVE  /\ GetNext(d, z) = IF z = x /\ x \in Cached(c) THEN y ELSE GetNext(c, z)
               /\ GetPrev(d, z) = GetPrev(c, z)
    BY <1>2, <2>1, <2>4, <2>6, <2>7 DEF GetNext, GetPrev
  <2> QED BY <2>6, <2>8, <2>9
<1> QED BY <1>1, <1>2

\* And SetPrev that one.
LEMMA SetPrevKeeps ==
  ASSUME NEW c \in Caches(Owners), NEW x, NEW y \in Pointers, NEW d, d = SetPrev(c, x, y)
  PROVE  /\ Keeps(c, d) /\ SameEnds(c, d)
         /\ \A z : /\ GetPrev(d, z) = IF z = x /\ x \in Cached(c) THEN y ELSE GetPrev(c, z)
                   /\ GetNext(d, z) = GetNext(c, z)
<1>1. CASE x \notin Cached(c)
  BY <1>1 DEF SetPrev, Keeps, SameEnds
<1>2. CASE x \in Cached(c)
  <2>1. PICK o : o = c.m_aCacheObjects[x]
    OBVIOUS
  <2>2. PICK r : r = [o EXCEPT !.pPrev = y]
    OBVIOUS
  <2>3. o \in Objects(Owners) /\ x \in DOMAIN c.m_aCacheObjects
    BY <1>2, <2>1, CachedObject
  <2>4. /\ r \in Objects(Owners) /\ r.pPrev = y /\ r.pNext = o.pNext /\ r.pOwner = o.pOwner
        /\ r.nLock = o.nLock
    BY <2>2, <2>3 DEF Objects
  <2>5. d = WithObject(c, x, r)
    BY <1>2, <2>1, <2>2 DEF SetPrev, WithObject
  <2>6. /\ d \in Caches(Owners) /\ Cached(d) = Cached(c) \cup {x} /\ SameEnds(c, d)
        /\ DOMAIN d.m_aCacheObjects = DOMAIN c.m_aCacheObjects
        /\ d.aFreePositions = c.aFreePositions /\ d.nCurMax = c.nCurMax
        /\ d.m_aCacheObjects[x] = r
        /\ \A z \in DOMAIN c.m_aCacheObjects : z # x => d.m_aCacheObjects[z] = c.m_aCacheObjects[z]
    BY <2>3, <2>4, <2>5, ObjectSet
  <2>7. Cached(d) = Cached(c) /\ \A z \in Cached(c) : z \in DOMAIN c.m_aCacheObjects
    BY <1>2, <2>6 DEF Cached
  <2>8. Keeps(c, d)
    BY <2>1, <2>4, <2>6, <2>7 DEF Keeps, Owner, Locks
  <2>9. ASSUME NEW z
        PROVE  /\ GetPrev(d, z) = IF z = x /\ x \in Cached(c) THEN y ELSE GetPrev(c, z)
               /\ GetNext(d, z) = GetNext(c, z)
    BY <1>2, <2>1, <2>4, <2>6, <2>7 DEF GetNext, GetPrev
  <2> QED BY <2>6, <2>8, <2>9
<1> QED BY <1>1, <1>2

\* Two changes of links are one.
LEMMA KeepsTransitive ==
  ASSUME NEW b, NEW c, NEW d, Keeps(b, c), Keeps(c, d)
  PROVE  Keeps(b, d)
BY DEF Keeps

\* Unchained links the neighbours of x with each other.
LEMMA UnchainedKeeps ==
  ASSUME NEW c \in Caches(Owners), NEW x \in Cached(c), NEW d, d = Unchained(c, x)
  PROVE  /\ Keeps(c, d) /\ SameEnds(c, d)
         /\ \A y \in Cached(c) :
              /\ GetNext(d, y) = IF y = GetPrev(c, x) THEN GetNext(c, x) ELSE GetNext(c, y)
              /\ GetPrev(d, y) = IF y = GetNext(c, x) THEN GetPrev(c, x) ELSE GetPrev(c, y)
<1>1. PICK nx : nx = GetNext(c, x)
  OBVIOUS
<1>2. PICK pv : pv = GetPrev(c, x)
  OBVIOUS
<1>3. nx \in Pointers /\ pv \in Pointers
  BY <1>1, <1>2, CachedObject
<1>4. PICK b : b = SetNext(c, pv, nx)
  OBVIOUS
<1>5. /\ Keeps(c, b) /\ SameEnds(c, b) /\ b \in Caches(Owners) /\ Cached(b) = Cached(c)
      /\ \A z : /\ GetNext(b, z) = IF z = pv /\ pv \in Cached(c) THEN nx ELSE GetNext(c, z)
                /\ GetPrev(b, z) = GetPrev(c, z)
  <2>1. /\ Keeps(c, b) /\ SameEnds(c, b)
        /\ \A z : /\ GetNext(b, z) = IF z = pv /\ pv \in Cached(c) THEN nx ELSE GetNext(c, z)
                  /\ GetPrev(b, z) = GetPrev(c, z)
    BY <1>3, <1>4, SetNextKeeps
  <2> QED BY <2>1 DEF Keeps
<1>6. d = SetPrev(b, nx, pv)
  BY <1>1, <1>2, <1>4 DEF Unchained
<1>7. /\ Keeps(b, d) /\ SameEnds(b, d)
      /\ \A z : /\ GetPrev(d, z) = IF z = nx /\ nx \in Cached(b) THEN pv ELSE GetPrev(b, z)
                /\ GetNext(d, z) = GetNext(b, z)
  BY <1>3, <1>5, <1>6, SetPrevKeeps
<1>8. Keeps(c, d)
  BY <1>5, <1>7, KeepsTransitive
<1>9. SameEnds(c, d)
  BY <1>5, <1>7 DEF SameEnds
<1>10. ASSUME NEW y \in Cached(c)
       PROVE  /\ GetNext(d, y) = IF y = pv THEN nx ELSE GetNext(c, y)
              /\ GetPrev(d, y) = IF y = nx THEN pv ELSE GetPrev(c, y)
  BY <1>5, <1>7
<1> QED BY <1>1, <1>2, <1>8, <1>9, <1>10

\* The accessors read the array only.
LEMMA SameObjects ==
  ASSUME NEW c, NEW d, d.m_aCacheObjects = c.m_aCacheObjects
  PROVE  /\ Cached(d) = Cached(c)
         /\ \A z : /\ Owner(d, z) = Owner(c, z) /\ Locks(d, z) = Locks(c, z)
                   /\ GetNext(d, z) = GetNext(c, z) /\ GetPrev(d, z) = GetPrev(c, z)
<1>1. Cached(d) = Cached(c)
  BY DEF Cached
<1>2. \A z : Owner(d, z) = Owner(c, z) /\ Locks(d, z) = Locks(c, z)
  BY DEF Owner, Locks
<1>3. \A z : GetNext(d, z) = GetNext(c, z) /\ GetPrev(d, z) = GetPrev(c, z)
  BY <1>1 DEF GetNext, GetPrev
<1> QED BY <1>1, <1>2, <1>3

\* Other ends leave the objects alone.
LEMMA OtherEnds ==
  ASSUME NEW c \in Caches(Owners), NEW d \in Caches(Owners),
         d.m_aCacheObjects = c.m_aCacheObjects, d.aFreePositions = c.aFreePositions,
         d.nCurMax = c.nCurMax
  PROVE  Keeps(c, d) /\ \A z : GetNext(d, z) = GetNext(c, z) /\ GetPrev(d, z) = GetPrev(c, z)
BY SameObjects DEF Keeps

\* Cut takes x out and moves the last one.
LEMMA CutKeeps ==
  ASSUME NEW c \in Caches(Owners), NEW x \in Cached(c), NEW d, d = Cut(c, x)
  PROVE  /\ Keeps(c, d) /\ d.pRealFirst = c.pRealFirst /\ d.pFirst = c.pFirst
         /\ d.pLast = IF c.pLast = x THEN GetPrev(c, x) ELSE c.pLast
         /\ \A y \in Cached(c) :
              /\ GetNext(d, y) = IF y = GetPrev(c, x) THEN GetNext(c, x) ELSE GetNext(c, y)
              /\ GetPrev(d, y) = IF y = GetNext(c, x) THEN GetPrev(c, x) ELSE GetPrev(c, y)
<1>1. PICK b : b = Unchained(c, x)
  OBVIOUS
<1>2. PICK l : l = IF c.pLast = x THEN GetPrev(c, x) ELSE c.pLast
  OBVIOUS
<1>3. /\ Keeps(c, b) /\ SameEnds(c, b)
      /\ \A y \in Cached(c) :
           /\ GetNext(b, y) = IF y = GetPrev(c, x) THEN GetNext(c, x) ELSE GetNext(c, y)
           /\ GetPrev(b, y) = IF y = GetNext(c, x) THEN GetPrev(c, x) ELSE GetPrev(c, y)
  BY <1>1, UnchainedKeeps
<1>4. b \in Caches(Owners) /\ l \in Pointers /\ b.pRealFirst \in Pointers /\ b.pFirst \in Pointers
  <2>1. b \in Caches(Owners)
    BY <1>3 DEF Keeps
  <2>2. GetPrev(c, x) \in Pointers
    BY CachedObject
  <2> QED BY <1>2, <2>1, <2>2 DEF Caches
<1>5. d = [b EXCEPT !.pLast = l]
  <2>1. d = [b EXCEPT !.pLast = IF b.pLast = x THEN GetPrev(c, x) ELSE b.pLast]
    BY <1>1 DEF Cut
  <2> QED BY <1>2, <1>3, <2>1 DEF SameEnds
<1>6. /\ Keeps(b, d) /\ d.pRealFirst = b.pRealFirst /\ d.pFirst = b.pFirst /\ d.pLast = l
      /\ \A z : GetNext(d, z) = GetNext(b, z) /\ GetPrev(d, z) = GetPrev(b, z)
  <2>1. /\ d \in Caches(Owners) /\ d.m_aCacheObjects = b.m_aCacheObjects
        /\ d.aFreePositions = b.aFreePositions /\ d.nCurMax = b.nCurMax
        /\ d.pRealFirst = b.pRealFirst /\ d.pFirst = b.pFirst /\ d.pLast = l
    BY <1>4, <1>5 DEF Caches
  <2> QED BY <1>4, <2>1, OtherEnds
<1>7. Keeps(c, d)
  BY <1>3, <1>6, KeepsTransitive
<1> QED BY <1>2, <1>3, <1>6, <1>7 DEF SameEnds

\* PutFirst links x in front of the virtual first one.
LEMMA PutFirstKeeps ==
  ASSUME NEW c \in Caches(Owners), NEW x \in Cached(c), c.pFirst # x,
         NEW d, d = PutFirst(c, x), NEW before, before = GetPrev(c, c.pFirst)
  PROVE  /\ Keeps(c, d) /\ d.pFirst = x
         /\ d.pRealFirst = IF c.pFirst = c.pRealFirst THEN x ELSE c.pRealFirst
         /\ d.pLast = IF c.pFirst = None THEN x ELSE c.pLast
         /\ \A y \in Cached(c) :
              /\ GetNext(d, y) = IF y = x THEN c.pFirst
                                 ELSE IF y = before THEN x ELSE GetNext(c, y)
              /\ GetPrev(d, y) = IF y = x THEN before
                                 ELSE IF y = c.pFirst THEN x ELSE GetPrev(c, y)
<1>1. PICK f : f = c.pFirst
  OBVIOUS
<1>2. f \in Pointers /\ x \in Pointers /\ before \in Pointers
  <2>1. f \in Pointers /\ x \in Pointers
    BY <1>1, CachedObject DEF Caches, Pointers
  <2>2. CASE f \in Cached(c)
    BY <1>1, <2>1, <2>2, CachedObject
  <2>3. CASE f \notin Cached(c)
    BY <1>1, <2>1, <2>3, NoLinks DEF Pointers
  <2> QED BY <2>1, <2>2, <2>3
<1>3. PICK b1 : b1 = SetNext(c, before, x)
  OBVIOUS
<1>4. /\ Keeps(c, b1) /\ SameEnds(c, b1)
      /\ \A z : /\ GetNext(b1, z) = IF z = before /\ before \in Cached(c) THEN x ELSE GetNext(c, z)
                /\ GetPrev(b1, z) = GetPrev(c, z)
  BY <1>2, <1>3, SetNextKeeps
<1>5. b1 \in Caches(Owners) /\ Cached(b1) = Cached(c)
  BY <1>4 DEF Keeps
<1>6. PICK b2 : b2 = SetPrev(b1, f, x)
  OBVIOUS
<1>7. /\ Keeps(b1, b2) /\ SameEnds(b1, b2)
      /\ \A z : /\ GetPrev(b2, z) = IF z = f /\ f \in Cached(b1) THEN x ELSE GetPrev(b1, z)
                /\ GetNext(b2, z) = GetNext(b1, z)
  BY <1>2, <1>5, <1>6, SetPrevKeeps
<1>8. b2 \in Caches(Owners) /\ Cached(b2) = Cached(c)
  BY <1>5, <1>7 DEF Keeps
<1>9. PICK b3 : b3 = SetNext(b2, x, f)
  OBVIOUS
<1>10. /\ Keeps(b2, b3) /\ SameEnds(b2, b3)
       /\ \A z : /\ GetNext(b3, z) = IF z = x /\ x \in Cached(b2) THEN f ELSE GetNext(b2, z)
                 /\ GetPrev(b3, z) = GetPrev(b2, z)
  BY <1>2, <1>8, <1>9, SetNextKeeps
<1>11. b3 \in Caches(Owners) /\ Cached(b3) = Cached(c)
  BY <1>8, <1>10 DEF Keeps
<1>12. PICK b4 : b4 = SetPrev(b3, x, before)
  OBVIOUS
<1>13. /\ Keeps(b3, b4) /\ SameEnds(b3, b4)
       /\ \A z : /\ GetPrev(b4, z) = IF z = x /\ x \in Cached(b3) THEN before ELSE GetPrev(b3, z)
                 /\ GetNext(b4, z) = GetNext(b3, z)
  BY <1>2, <1>11, <1>12, SetPrevKeeps
<1>14. b4 \in Caches(Owners) /\ Cached(b4) = Cached(c)
  BY <1>11, <1>13 DEF Keeps
<1>15. SameEnds(c, b4)
  BY <1>4, <1>7, <1>10, <1>13 DEF SameEnds
<1>16. Keeps(c, b4)
  BY <1>4, <1>7, <1>10, <1>13, KeepsTransitive
<1>17. PICK r : r = IF c.pFirst = c.pRealFirst THEN x ELSE c.pRealFirst
  OBVIOUS
<1>18. PICK l : l = IF c.pFirst = None THEN x ELSE c.pLast
  OBVIOUS
<1>19. r \in Pointers /\ l \in Pointers
  BY <1>2, <1>17, <1>18 DEF Caches
<1>20. d = [b4 EXCEPT !.pLast = l, !.pRealFirst = r, !.pFirst = x]
  <2>1. d = [b4 EXCEPT !.pLast = IF c.pFirst = None THEN x ELSE b4.pLast,
                       !.pRealFirst = IF c.pFirst = b4.pRealFirst THEN x ELSE b4.pRealFirst,
                       !.pFirst = x]
    BY <1>1, <1>3, <1>6, <1>9, <1>12 DEF PutFirst
  <2> QED BY <1>15, <1>17, <1>18, <2>1 DEF SameEnds
<1>21. /\ Keeps(b4, d) /\ d.pRealFirst = r /\ d.pFirst = x /\ d.pLast = l
       /\ \A z : GetNext(d, z) = GetNext(b4, z) /\ GetPrev(d, z) = GetPrev(b4, z)
  <2>1. /\ d \in Caches(Owners) /\ d.m_aCacheObjects = b4.m_aCacheObjects
        /\ d.aFreePositions = b4.aFreePositions /\ d.nCurMax = b4.nCurMax
        /\ d.pRealFirst = r /\ d.pFirst = x /\ d.pLast = l
    BY <1>2, <1>14, <1>19, <1>20 DEF Caches
  <2> QED BY <1>14, <2>1, OtherEnds
<1>22. Keeps(c, d)
  BY <1>16, <1>21, KeepsTransitive
<1>23. ASSUME NEW y \in Cached(c)
       PROVE  /\ GetNext(d, y) = IF y = x THEN f ELSE IF y = before THEN x ELSE GetNext(c, y)
              /\ GetPrev(d, y) = IF y = x THEN before ELSE IF y = f THEN x ELSE GetPrev(c, y)
  <2>1. GetNext(d, y) = IF y = x THEN f ELSE IF y = before THEN x ELSE GetNext(c, y)
    BY <1>4, <1>7, <1>8, <1>10, <1>13, <1>21
  <2>2. GetPrev(d, y) = IF y = x THEN before ELSE IF y = f THEN x ELSE GetPrev(c, y)
    BY <1>4, <1>5, <1>7, <1>10, <1>11, <1>13, <1>21
  <2> QED BY <2>1, <2>2
<1> QED BY <1>1, <1>17, <1>18, <1>21, <1>22, <1>23

-----------------------------------------------------------------------------
(* What the operations do to the chain.                                     *)

\* The chain of some objects, whose links and ends are the same.
LEMMA SameLinks ==
  ASSUME NEW c, NEW d, NEW s, NEW n, NEW D, ChainOn(c, s, n, D), D \subseteq Cached(d),
         \A y \in D : GetNext(d, y) = GetNext(c, y) /\ GetPrev(d, y) = GetPrev(c, y),
         d.pRealFirst = c.pRealFirst, d.pLast = c.pLast
  PROVE  ChainOn(d, s, n, D)
<1>1. \A i \in 1 .. n : s[i] \in D
  BY DEF ChainOn
<1> QED BY <1>1 DEF ChainOn

\* PutFirst completes the chain that lacks x.
LEMMA PutFirstChains ==
  ASSUME NEW c \in Caches(Owners), NEW s, NEW n, NEW D, ChainOn(c, s, n, D),
         NEW x, x \notin D, Cached(c) = D \cup {x},
         NEW h \in 1 .. n + 1, n > 0 => h <= n, c.pFirst = IF n > 0 THEN s[h] ELSE None,
         NEW d, d = PutFirst(c, x)
  PROVE  Keeps(c, d) /\ Chained(d, With(s, n, h, x), n + 1, h)
<1>1. /\ n \in Nat /\ h \in Nat \ {0} /\ s \in [1 .. n -> D] /\ None \notin D
      /\ \A i \in 1 .. n : GetPrev(c, s[i]) = IF i > 1 THEN s[i - 1] ELSE None
  <2>1. n \in Nat /\ s \in [1 .. n -> D] /\ None \notin D
    BY DEF ChainOn
  <2>2. \A i \in 1 .. n : GetPrev(c, s[i]) = IF i > 1 THEN s[i - 1] ELSE None
    BY DEF ChainOn
  <2>3. h \in Nat \ {0}
    BY <2>1
  <2> QED BY <2>1, <2>2, <2>3
<1>2. x \in Cached(c) /\ x # None /\ None \notin Cached(c)
  BY <1>1, CachedObject
<1>3. c.pFirst # x
  <2>1. n > 0 => s[h] \in D
    BY <1>1
  <2> QED BY <1>2, <2>1
<1>4. PICK before : before = GetPrev(c, c.pFirst)
  OBVIOUS
<1>5. before = IF h > 1 THEN s[h - 1] ELSE None
  <2>1. CASE n > 0
    BY <1>1, <1>4, <2>1
  <2>2. CASE ~(n > 0)
    <3>1. before = None
      BY <1>2, <1>4, <2>2, NoLinks
    <3>2. h = 1
      BY <1>1, <2>2
    <3> QED BY <3>1, <3>2
  <2> QED BY <2>1, <2>2
<1>6. /\ Keeps(c, d) /\ d.pFirst = x
      /\ d.pRealFirst = IF c.pFirst = c.pRealFirst THEN x ELSE c.pRealFirst
      /\ d.pLast = IF c.pFirst = None THEN x ELSE c.pLast
      /\ \A y \in Cached(c) :
           /\ GetNext(d, y) = IF y = x THEN c.pFirst ELSE IF y = before THEN x ELSE GetNext(c, y)
           /\ GetPrev(d, y) = IF y = x THEN before ELSE IF y = c.pFirst THEN x ELSE GetPrev(c, y)
  BY <1>2, <1>3, <1>4, PutFirstKeeps
<1>7. Cached(d) = D \cup {x}
  BY <1>6 DEF Keeps
<1>8. PICK p : p = c.pFirst
  OBVIOUS
<1>9. ChainOn(d, With(s, n, h, x), n + 1, D \cup {x})
  <2>1. \A y \in D \cup {x} :
           /\ GetNext(d, y) = IF y = x THEN p ELSE IF y = before THEN x ELSE GetNext(c, y)
           /\ GetPrev(d, y) = IF y = x THEN before ELSE IF y = p THEN x ELSE GetPrev(c, y)
    BY <1>6, <1>8
  <2>2. p = IF n > 0 THEN s[h] ELSE None
    BY <1>8
  <2>3. /\ d.pRealFirst = IF p = c.pRealFirst THEN x ELSE c.pRealFirst
        /\ d.pLast = IF p = None THEN x ELSE c.pLast
    BY <1>6, <1>8
  <2>4. x \in Cached(d) /\ D \subseteq Cached(d)
    BY <1>7
  <2> QED BY <1>2, <1>5, <2>1, <2>2, <2>3, <2>4, PutIn
<1>10. With(s, n, h, x)[h] = x /\ n + 1 > 0 /\ h <= n + 1 /\ h \in 1 .. n + 1 + 1
  BY <1>1 DEF With
<1> QED BY <1>6, <1>7, <1>9, <1>10 DEF Chained

\* Cut leaves the chain of the others.
LEMMA CutChains ==
  ASSUME NEW c \in Caches(Owners), NEW s, NEW n, NEW h, Chained(c, s, n, h), NEW k \in 2 .. n,
         NEW x, x = s[k], NEW d, d = Cut(c, x)
  PROVE  /\ Keeps(c, d) /\ d.pRealFirst = c.pRealFirst /\ d.pFirst = c.pFirst
         /\ ChainOn(d, Without(s, n, k), n - 1, Cached(c) \ {x})
<1>1. ChainOn(c, s, n, Cached(c))
  BY DEF Chained
<1>2. n \in Nat /\ k \in 1 .. n /\ n > 0 /\ s \in [1 .. n -> Cached(c)] /\ x \in Cached(c)
  BY <1>1 DEF ChainOn
<1>3. c.pRealFirst # x
  <2>1. c.pRealFirst = s[1] /\ \A i, j \in 1 .. n : s[i] = s[j] => i = j
    BY <1>1, <1>2 DEF ChainOn, IsInjective
  <2> QED BY <1>2, <2>1
<1>4. /\ Keeps(c, d) /\ d.pRealFirst = c.pRealFirst /\ d.pFirst = c.pFirst
      /\ d.pLast = IF c.pLast = x THEN GetPrev(c, x) ELSE c.pLast
      /\ \A y \in Cached(c) :
           /\ GetNext(d, y) = IF y = GetPrev(c, x) THEN GetNext(c, x) ELSE GetNext(c, y)
           /\ GetPrev(d, y) = IF y = GetNext(c, x) THEN GetPrev(c, x) ELSE GetPrev(c, y)
  BY <1>2, CutKeeps
<1>5. Cached(c) \ {x} \subseteq Cached(d)
  BY <1>4 DEF Keeps
<1>6. d.pRealFirst = IF c.pRealFirst = x THEN GetNext(c, x) ELSE c.pRealFirst
  BY <1>3, <1>4
<1> QED BY <1>1, <1>2, <1>4, <1>5, <1>6, TakenOut

\* Where the virtual first one is when an object is taken out.
LEMMA FirstInWithout ==
  ASSUME NEW n \in Nat, NEW s, NEW h \in 1 .. n, NEW k \in 1 .. n, k # h
  PROVE  /\ k < h => h - 1 \in 1 .. n - 1 /\ Without(s, n, k)[h - 1] = s[h]
         /\ k > h => h \in 1 .. n - 1 /\ Without(s, n, k)[h] = s[h]
<1>1. CASE k < h
  <2>1. h - 1 \in 1 .. n - 1 /\ ~(h - 1 < k) /\ h - 1 + 1 = h
    BY <1>1
  <2> QED BY <1>1, <2>1 DEF Without
<1>2. CASE k > h
  <2>1. h \in 1 .. n - 1 /\ h < k
    BY <1>2
  <2> QED BY <1>2, <2>1 DEF Without
<1> QED BY <1>1, <1>2

\* An object that is used comes in front of the virtual first one; there are no
\* more in front of that than before.
LEMMA UsedChains ==
  ASSUME NEW c \in Caches(Owners), NEW s, NEW n, NEW h, Chained(c, s, n, h), NEW x \in Cached(c),
         NEW d, d = Used(c, x)
  PROVE  Keeps(c, d) /\ \E t, g : Chained(d, t, n, g) /\ g <= h
<1>1. /\ ChainOn(c, s, n, Cached(c)) /\ h \in 1 .. n + 1 /\ (n > 0 => h <= n)
      /\ c.pFirst = IF n > 0 THEN s[h] ELSE None
  BY DEF Chained
<1>2. /\ n \in Nat /\ s \in [1 .. n -> Cached(c)] /\ Cached(c) = {s[i] : i \in 1 .. n}
      /\ \A i, j \in 1 .. n : s[i] = s[j] => i = j
  BY <1>1 DEF ChainOn, IsInjective
<1>3. PICK k \in 1 .. n : x = s[k]
  BY <1>2
<1>4. n > 0 /\ h \in 1 .. n /\ c.pFirst = s[h] /\ c.pRealFirst = s[1]
  <2>1. n > 0
    BY <1>2, <1>3
  <2>2. c.pRealFirst = s[1]
    BY <1>1, <2>1 DEF ChainOn
  <2> QED BY <1>1, <1>2, <2>1, <2>2
<1>5. CASE k = h \/ k = 1
  <2>1. d = c
    BY <1>3, <1>4, <1>5 DEF Used, ToTop
  <2>2. Keeps(c, c)
    BY DEF Keeps
  <2>3. h <= h
    BY <1>4
  <2> QED BY <2>1, <2>2, <2>3
<1>6. CASE k # h /\ k # 1
  <2>1. x # c.pFirst /\ x # c.pRealFirst /\ 1 \in 1 .. n
    BY <1>2, <1>3, <1>4, <1>6
  <2>2. PICK b : b = Cut(c, x)
    OBVIOUS
  <2>3. d = PutFirst(b, x)
    BY <2>1, <2>2 DEF Used, ToTop
  <2>4. k \in 2 .. n
    BY <1>2, <1>3, <1>6
  <2>5. /\ Keeps(c, b) /\ b.pRealFirst = c.pRealFirst /\ b.pFirst = c.pFirst
        /\ ChainOn(b, Without(s, n, k), n - 1, Cached(c) \ {x})
    BY <1>3, <2>2, <2>4, CutChains
  <2>6. b \in Caches(Owners) /\ Cached(b) = (Cached(c) \ {x}) \cup {x}
    BY <2>5 DEF Keeps
  <2>7. PICK g : g = IF k < h THEN h - 1 ELSE h
    OBVIOUS
  <2>8. g \in 1 .. n - 1 /\ Without(s, n, k)[g] = s[h] /\ g <= h
    <3>1. CASE k < h
      BY <1>2, <1>3, <1>4, <1>6, <2>7, <3>1, FirstInWithout
    <3>2. CASE k > h
      BY <1>2, <1>3, <1>4, <1>6, <2>7, <3>2, FirstInWithout
    <3> QED BY <1>2, <1>3, <1>4, <1>6, <3>1, <3>2
  <2>9. /\ n - 1 + 1 = n /\ g \in 1 .. n - 1 + 1 /\ (n - 1 > 0 => g <= n - 1)
        /\ b.pFirst = IF n - 1 > 0 THEN Without(s, n, k)[g] ELSE None
    BY <1>2, <1>4, <2>5, <2>8
  <2>10. x \notin Cached(c) \ {x}
    OBVIOUS
  <2>11. Keeps(b, d) /\ Chained(d, With(Without(s, n, k), n - 1, g, x), n - 1 + 1, g)
    BY <2>3, <2>5, <2>6, <2>9, <2>10, PutFirstChains
  <2>12. Keeps(c, d)
    BY <2>5, <2>11, KeepsTransitive
  <2> QED BY <2>8, <2>9, <2>11, <2>12
<1> QED BY <1>5, <1>6

\* LastUnlocked is the last object of the chain that is not locked.
LEMMA LastUnlockedIs ==
  ASSUME NEW c \in Caches(Owners), NEW s, NEW n, ChainOn(c, s, n, Cached(c))
  PROVE  /\ (\A x \in Cached(c) : IsLocked(c, x)) => LastUnlocked(c) = None
         /\ \A j \in 1 .. n : ~IsLocked(c, s[j]) =>
              \E k \in j .. n : LastUnlocked(c) = s[k] /\ ~IsLocked(c, s[k])
<1> DEFINE T == {i \in 1 .. n : ~IsLocked(c, s[i])}
<1>1. n \in Nat /\ s \in [1 .. n -> Cached(c)] /\ Chain(c) = s /\ DOMAIN s = 1 .. n
  BY ChainIsOrder DEF ChainOn
<1>2. LastUnlocked(c) = IF T = {} THEN None ELSE s[Max(T)]
  BY <1>1 DEF LastUnlocked
<1>3. (\A x \in Cached(c) : IsLocked(c, x)) => LastUnlocked(c) = None
  <2>1. (\A x \in Cached(c) : IsLocked(c, x)) => T = {}
    BY <1>1
  <2> QED BY <1>2, <2>1
<1>4. ASSUME NEW j \in 1 .. n, ~IsLocked(c, s[j])
      PROVE  \E k \in j .. n : LastUnlocked(c) = s[k] /\ ~IsLocked(c, s[k])
  <2>1. j \in T /\ T # {} /\ T \in SUBSET (1 .. n)
    BY <1>4
  <2>2. Max(T) \in T /\ j <= Max(T)
    <3> HIDE DEF T
    <3> QED BY <1>1, <2>1, MaxOfSet
  <2>3. PICK k : k = Max(T)
    OBVIOUS
  <2>4. k \in 1 .. n /\ ~IsLocked(c, s[k]) /\ j <= k
    BY <2>2, <2>3
  <2>5. k \in j .. n
    BY <1>1, <2>4
  <2> QED BY <1>2, <2>1, <2>3, <2>4, <2>5
<1> QED BY <1>3, <1>4

\* A new object has a place, without one that is locked, of a layout action or the
\* virtual first one going for it.
CanInsert(c, s, n, h) ==
  HasSpace(c) \/ c.aFreePositions # <<>> \/
  \E k \in h + 1 .. n : LastUnlocked(c) = s[k] /\ ~IsLocked(c, s[k])

\* The free positions are those without an object.
FreeSound(c) ==
  /\ IsInjective(c.aFreePositions)
  /\ ToSet(c.aFreePositions) = DOMAIN c.m_aCacheObjects \ Cached(c)

\* The place that is made for a new object in front of which nothing is done yet:
\* the others are as they were, chained without it.
RoomFor(c, d, x, o, h) ==
  /\ d \in Caches(Owners) /\ x \in Nat /\ Cached(d) = Cached(c) \cup {x}
  /\ Owner(d, x) = o /\ Locks(d, x) = 0
  /\ \A y \in Cached(c) : y # x => Owner(d, y) = Owner(c, y) /\ Locks(d, y) = Locks(c, y)
  /\ d.nCurMax = c.nCurMax /\ FreeSound(d)
  /\ (c.aFreePositions = <<>> => d.aFreePositions = <<>>)
  /\ \E s, n : /\ ChainOn(d, s, n, Cached(c) \ {x}) /\ h \in 1 .. n + 1 /\ (n > 0 => h <= n)
               /\ d.pFirst = IF n > 0 THEN s[h] ELSE None

NewObject(o) == [pOwner |-> o, pNext |-> None, pPrev |-> None, nLock |-> 0]

\* It is one of the objects.
LEMMA NewObjectType ==
  ASSUME NEW o \in Owners
  PROVE  /\ NewObject(o) \in Objects(Owners) /\ NewObject(o) # None
         /\ NewObject(o).pOwner = o /\ NewObject(o).nLock = 0
<1>1. NewObject(o) \in Objects(Owners)
  BY DEF NewObject, Objects, Pointers
<1>2. NewObject(o).pOwner = o /\ NewObject(o).nLock = 0
  BY DEF NewObject
<1> QED BY <1>1, <1>2, OwnersAssumption

\* A new position at the end.
LEMMA RoomAtEnd ==
  ASSUME NEW c \in Caches(Owners), NEW s, NEW n, NEW h, Chained(c, s, n, h), FreeSound(c),
         NEW o \in Owners, NEW d, d = [c EXCEPT !.m_aCacheObjects = Append(@, NewObject(o))]
  PROVE  RoomFor(c, d, Len(c.m_aCacheObjects) + 1, o, h)
         /\ Len(c.m_aCacheObjects) + 1 \notin Cached(c)
         /\ Len(d.m_aCacheObjects) = Len(c.m_aCacheObjects) + 1
<1>1. PICK a : a = c.m_aCacheObjects
  OBVIOUS
<1>2. PICK b : b = Append(a, NewObject(o))
  OBVIOUS
<1>3. PICK x : x = Len(a) + 1
  OBVIOUS
<1>4. a \in Seq(Objects(Owners) \cup {None}) /\ Len(a) \in Nat /\ DOMAIN a = 1 .. Len(a)
      /\ Cached(c) \subseteq 1 .. Len(a)
  <2>1. a \in Seq(Objects(Owners) \cup {None})
    BY <1>1 DEF Caches
  <2> QED BY <1>1, <2>1, LenProperties DEF Cached
<1>5. /\ b \in Seq(Objects(Owners) \cup {None}) /\ Len(b) = Len(a) + 1 /\ b[x] = NewObject(o)
      /\ \A i \in 1 .. Len(a) : b[i] = a[i]
      /\ DOMAIN b = 1 .. Len(a) + 1
  <2>1. NewObject(o) \in Objects(Owners) \cup {None}
    BY NewObjectType
  <2>2. /\ b \in Seq(Objects(Owners) \cup {None}) /\ Len(b) = Len(a) + 1 /\ b[Len(a) + 1] = NewObject(o)
        /\ \A i \in 1 .. Len(a) : b[i] = a[i]
    BY <1>2, <1>4, <2>1, AppendProperties
  <2> QED BY <1>3, <2>2, LenProperties
<1>6. /\ d.m_aCacheObjects = b /\ SameEnds(c, d) /\ d \in Caches(Owners)
      /\ d.aFreePositions = c.aFreePositions /\ d.nCurMax = c.nCurMax
  <2>1. d = [c EXCEPT !.m_aCacheObjects = b]
    BY <1>1, <1>2
  <2> QED BY <1>5, <2>1 DEF Caches, SameEnds
<1>7. x \notin Cached(c) /\ x \in Nat
  BY <1>3, <1>4
<1>8. Cached(d) = Cached(c) \cup {x}
  <2>1. ASSUME NEW y PROVE y \in Cached(d) <=> y \in Cached(c) \cup {x}
    <3>1. y \in Cached(d) <=> y \in 1 .. Len(a) + 1 /\ b[y] # None
      BY <1>5, <1>6 DEF Cached
    <3>2. y \in Cached(c) <=> y \in 1 .. Len(a) /\ a[y] # None
      BY <1>1, <1>4 DEF Cached
    <3>3. y \in 1 .. Len(a) + 1 <=> y \in 1 .. Len(a) \/ y = x
      BY <1>3, <1>4
    <3>4. b[x] # None /\ x \notin 1 .. Len(a)
      BY <1>3, <1>4, <1>5, NewObjectType
    <3> QED BY <1>5, <3>1, <3>2, <3>3, <3>4
  <2> QED BY <2>1
<1>a. \A y \in Cached(c) : d.m_aCacheObjects[y] = c.m_aCacheObjects[y]
  BY <1>1, <1>4, <1>5, <1>6
<1>9. /\ Owner(d, x) = o /\ Locks(d, x) = 0
      /\ \A y \in Cached(c) : Owner(d, y) = Owner(c, y) /\ Locks(d, y) = Locks(c, y)
  <2>1. Owner(d, x) = o /\ Locks(d, x) = 0
    <3>1. d.m_aCacheObjects[x] = NewObject(o)
      BY <1>5, <1>6, Zenon
    <3> QED BY <3>1, NewObjectType, Zenon DEF Owner, Locks
  <2>2. ASSUME NEW y \in Cached(c) PROVE Owner(d, y) = Owner(c, y) /\ Locks(d, y) = Locks(c, y)
    BY <1>a, Zenon DEF Owner, Locks
  <2> QED BY <2>1, <2>2
<1>10. \A y \in Cached(c) : GetNext(d, y) = GetNext(c, y) /\ GetPrev(d, y) = GetPrev(c, y)
  <2>1. ASSUME NEW y \in Cached(c)
        PROVE  GetNext(d, y) = GetNext(c, y) /\ GetPrev(d, y) = GetPrev(c, y)
    <3>1. d.m_aCacheObjects[y] = c.m_aCacheObjects[y] /\ y \in Cached(d)
      BY <1>a, <1>8
    <3>2. /\ GetNext(d, y) = d.m_aCacheObjects[y].pNext /\ GetNext(c, y) = c.m_aCacheObjects[y].pNext
          /\ GetPrev(d, y) = d.m_aCacheObjects[y].pPrev /\ GetPrev(c, y) = c.m_aCacheObjects[y].pPrev
      BY <3>1, Zenon DEF GetNext, GetPrev
    <3> QED BY <3>1, <3>2, Zenon
  <2> QED BY <2>1
<1>11. FreeSound(d)
  <2>1. DOMAIN d.m_aCacheObjects \ Cached(d) = DOMAIN c.m_aCacheObjects \ Cached(c)
    <3>1. 1 .. Len(a) + 1 = (1 .. Len(a)) \cup {x} /\ x \notin 1 .. Len(a)
      BY <1>3, <1>4
    <3> QED BY <1>1, <1>4, <1>5, <1>6, <1>8, <3>1
  <2> QED BY <1>6, <2>1 DEF FreeSound
<1>12. ChainOn(d, s, n, Cached(c))
  BY <1>6, <1>8, <1>10, SameLinks DEF Chained, SameEnds
<1>13. Cached(c) \ {x} = Cached(c)
  BY <1>7
<1>14. /\ h \in 1 .. n + 1 /\ (n > 0 => h <= n)
       /\ d.pFirst = IF n > 0 THEN s[h] ELSE None
  BY <1>6 DEF Chained, SameEnds
<1>15. RoomFor(c, d, x, o, h)
  BY <1>6, <1>7, <1>8, <1>9, <1>11, <1>12, <1>13, <1>14 DEF RoomFor
<1> QED BY <1>1, <1>3, <1>5, <1>6, <1>7, <1>15

\* A new object at a position that there is already.
LEMMA NewAt ==
  ASSUME NEW c \in Caches(Owners), NEW x \in DOMAIN c.m_aCacheObjects, NEW o \in Owners,
         NEW d, d = WithObject(c, x, NewObject(o))
  PROVE  /\ d \in Caches(Owners) /\ Cached(d) = Cached(c) \cup {x} /\ SameEnds(c, d)
         /\ DOMAIN d.m_aCacheObjects = DOMAIN c.m_aCacheObjects
         /\ d.aFreePositions = c.aFreePositions /\ d.nCurMax = c.nCurMax
         /\ Owner(d, x) = o /\ Locks(d, x) = 0
         /\ \A y \in Cached(c) \ {x} :
              /\ Owner(d, y) = Owner(c, y) /\ Locks(d, y) = Locks(c, y)
              /\ GetNext(d, y) = GetNext(c, y) /\ GetPrev(d, y) = GetPrev(c, y)
<1>1. PICK r : r = NewObject(o)
  OBVIOUS
<1>2. r \in Objects(Owners) /\ r.pOwner = o /\ r.nLock = 0
  BY <1>1, NewObjectType
<1>3. /\ d \in Caches(Owners) /\ Cached(d) = Cached(c) \cup {x} /\ SameEnds(c, d)
      /\ DOMAIN d.m_aCacheObjects = DOMAIN c.m_aCacheObjects
      /\ d.aFreePositions = c.aFreePositions /\ d.nCurMax = c.nCurMax
      /\ d.m_aCacheObjects[x] = r
      /\ \A z \in DOMAIN c.m_aCacheObjects : z # x => d.m_aCacheObjects[z] = c.m_aCacheObjects[z]
  BY <1>1, <1>2, ObjectSet
<1>4. Owner(d, x) = o /\ Locks(d, x) = 0
  BY <1>2, <1>3, Zenon DEF Owner, Locks
<1>5. ASSUME NEW y \in Cached(c) \ {x}
      PROVE  /\ Owner(d, y) = Owner(c, y) /\ Locks(d, y) = Locks(c, y)
             /\ GetNext(d, y) = GetNext(c, y) /\ GetPrev(d, y) = GetPrev(c, y)
  <2>1. y \in Cached(c) /\ y \in Cached(d) /\ d.m_aCacheObjects[y] = c.m_aCacheObjects[y]
    BY <1>3 DEF Cached
  <2>2. /\ GetNext(d, y) = d.m_aCacheObjects[y].pNext /\ GetNext(c, y) = c.m_aCacheObjects[y].pNext
        /\ GetPrev(d, y) = d.m_aCacheObjects[y].pPrev /\ GetPrev(c, y) = c.m_aCacheObjects[y].pPrev
    BY <2>1, Zenon DEF GetNext, GetPrev
  <2>3. Owner(d, y) = Owner(c, y) /\ Locks(d, y) = Locks(c, y)
    BY <2>1, Zenon DEF Owner, Locks
  <2> QED BY <2>1, <2>2, <2>3, Zenon
<1> QED BY <1>3, <1>4, <1>5

\* What Front leaves of a list.
LEMMA FrontIs ==
  ASSUME NEW f \in Seq(Nat), f # <<>>
  PROVE  \E n \in Nat : /\ n + 1 = Len(f) /\ Last(f) = f[n + 1] /\ DOMAIN f = 1 .. n + 1
                        /\ Front(f) \in Seq(Nat) /\ Len(Front(f)) = n /\ DOMAIN Front(f) = 1 .. n
                        /\ \A i \in 1 .. n : Front(f)[i] = f[i]
<1>1. Len(f) \in Nat /\ Len(f) > 0 /\ DOMAIN f = 1 .. Len(f)
  BY EmptySeq, LenProperties
<1>2. PICK n : n = Len(f) - 1
  OBVIOUS
<1>3. PICK g : g = Front(f)
  OBVIOUS
<1>4. n \in Nat /\ n + 1 = Len(f) /\ g = SubSeq(f, 1, n)
  BY <1>1, <1>2, <1>3 DEF Front
<1>5. g \in Seq(Nat) /\ Len(g) = n /\ DOMAIN g = 1 .. n /\ \A i \in 1 .. n : g[i] = f[i]
  <2>1. \A i \in 1 .. n : f[i] \in Nat
    BY <1>1, <1>4, ElementOfSeq
  <2>2. /\ SubSeq(f, 1, n) \in Seq(Nat)
        /\ Len(SubSeq(f, 1, n)) = IF 1 <= n THEN n - 1 + 1 ELSE 0
        /\ \A i \in 1 .. n - 1 + 1 : SubSeq(f, 1, n)[i] = f[1 + i - 1]
    BY <1>4, <2>1, SubSeqProperties
  <2>3. n - 1 + 1 = n /\ (IF 1 <= n THEN n - 1 + 1 ELSE 0) = n /\ \A i \in 1 .. n : 1 + i - 1 = i
    BY <1>4
  <2>4. g \in Seq(Nat) /\ Len(g) = n /\ \A i \in 1 .. n : g[i] = f[i]
    BY <1>4, <2>2, <2>3
  <2> QED BY <2>4, LenProperties
<1>6. Last(f) = f[n + 1]
  BY <1>4 DEF Last
<1> QED BY <1>1, <1>3, <1>4, <1>5, <1>6

\* The last free position is taken from the list.
LEMMA FrontFacts ==
  ASSUME NEW f \in Seq(Nat), f # <<>>, IsInjective(f)
  PROVE  /\ Last(f) \in ToSet(f) /\ Front(f) \in Seq(Nat) /\ IsInjective(Front(f))
         /\ ToSet(Front(f)) = ToSet(f) \ {Last(f)}
<1>1. PICK g : g = Front(f)
  OBVIOUS
<1>2. PICK n \in Nat : /\ n + 1 = Len(f) /\ Last(f) = f[n + 1] /\ DOMAIN f = 1 .. n + 1
                       /\ g \in Seq(Nat) /\ Len(g) = n /\ DOMAIN g = 1 .. n
                       /\ \A i \in 1 .. n : g[i] = f[i]
  BY <1>1, FrontIs
<1>3. f \in Seq(Nat) /\ n + 1 \in DOMAIN f
  BY <1>2
<1>4. \A i, j \in 1 .. n + 1 : f[i] = f[j] => i = j
  BY <1>2 DEF IsInjective
<1>5. IsInjective(g)
  <2>1. \A i, j \in 1 .. n : g[i] = g[j] => i = j
    BY <1>2, <1>4
  <2> QED BY <1>2, <2>1 DEF IsInjective
<1>6. ToSet(g) = ToSet(f) \ {Last(f)}
  <2>1. ASSUME NEW x \in ToSet(g) PROVE x \in ToSet(f) \ {Last(f)}
    <3>1. PICK i \in 1 .. n : x = g[i]
      BY <1>2 DEF ToSet
    <3>2. i \in 1 .. n + 1 /\ i # n + 1 /\ n + 1 \in 1 .. n + 1 /\ x = f[i]
      BY <1>2, <3>1
    <3>3. x # f[n + 1] /\ i \in DOMAIN f
      BY <1>2, <1>4, <3>2
    <3> QED BY <1>2, <3>2, <3>3 DEF ToSet
  <2>2. ASSUME NEW x \in ToSet(f) \ {Last(f)} PROVE x \in ToSet(g)
    <3>1. PICK i \in 1 .. n + 1 : x = f[i]
      BY <1>2 DEF ToSet
    <3>2. i \in 1 .. n /\ x = g[i]
      BY <1>2, <3>1
    <3> QED BY <1>2, <3>2 DEF ToSet
  <2> QED BY <2>1, <2>2
<1>7. Last(f) \in ToSet(f)
  BY <1>2, <1>3 DEF ToSet
<1> QED BY <1>1, <1>2, <1>5, <1>6, <1>7

FreeFilled(c, x, o) == [c EXCEPT !.aFreePositions = Front(@), !.m_aCacheObjects[x] = NewObject(o)]

\* A free position is filled.
LEMMA RoomInFree ==
  ASSUME NEW c \in Caches(Owners), NEW s, NEW n, NEW h, Chained(c, s, n, h), FreeSound(c),
         c.aFreePositions # <<>>, NEW x, x = Last(c.aFreePositions), NEW o \in Owners,
         NEW d, d = FreeFilled(c, x, o)
  PROVE  /\ RoomFor(c, d, x, o, h) /\ x \notin Cached(c)
         /\ Len(d.m_aCacheObjects) = Len(c.m_aCacheObjects)
<1>1. PICK f : f = Front(c.aFreePositions)
  OBVIOUS
<1>2. /\ f \in Seq(Nat) /\ IsInjective(f) /\ x \in ToSet(c.aFreePositions)
      /\ ToSet(f) = ToSet(c.aFreePositions) \ {x}
  BY <1>1, FrontFacts DEF FreeSound, Caches
<1>3. x \in DOMAIN c.m_aCacheObjects /\ x \notin Cached(c)
  BY <1>2 DEF FreeSound
<1>4. PICK b : b = WithObject(c, x, NewObject(o))
  OBVIOUS
<1>5. /\ b \in Caches(Owners) /\ Cached(b) = Cached(c) \cup {x} /\ SameEnds(c, b)
      /\ DOMAIN b.m_aCacheObjects = DOMAIN c.m_aCacheObjects
      /\ b.aFreePositions = c.aFreePositions /\ b.nCurMax = c.nCurMax
      /\ Owner(b, x) = o /\ Locks(b, x) = 0
      /\ \A y \in Cached(c) \ {x} :
           /\ Owner(b, y) = Owner(c, y) /\ Locks(b, y) = Locks(c, y)
           /\ GetNext(b, y) = GetNext(c, y) /\ GetPrev(b, y) = GetPrev(c, y)
  BY <1>3, <1>4, NewAt
<1>6. d = [b EXCEPT !.aFreePositions = f]
  BY <1>1, <1>4, <1>5 DEF Caches, FreeFilled, WithObject
<1>7. /\ d \in Caches(Owners) /\ d.m_aCacheObjects = b.m_aCacheObjects /\ d.aFreePositions = f
      /\ d.nCurMax = b.nCurMax /\ SameEnds(b, d)
  BY <1>2, <1>5, <1>6 DEF Caches, SameEnds
<1>8. /\ Cached(d) = Cached(b) /\ Owner(d, x) = o /\ Locks(d, x) = 0
      /\ \A y \in Cached(c) :
           /\ Owner(d, y) = Owner(c, y) /\ Locks(d, y) = Locks(c, y)
           /\ GetNext(d, y) = GetNext(c, y) /\ GetPrev(d, y) = GetPrev(c, y)
  <2>1. /\ Cached(d) = Cached(b)
        /\ \A y : /\ Owner(d, y) = Owner(b, y) /\ Locks(d, y) = Locks(b, y)
                  /\ GetNext(d, y) = GetNext(b, y) /\ GetPrev(d, y) = GetPrev(b, y)
    <3>1. d.m_aCacheObjects = b.m_aCacheObjects
      BY <1>7
    <3> QED BY <3>1, SameObjects
  <2> QED BY <1>3, <1>5, <2>1
<1>9. FreeSound(d)
  BY <1>2, <1>5, <1>7, <1>8 DEF FreeSound
<1>10. ChainOn(d, s, n, Cached(c))
  BY <1>5, <1>7, <1>8, SameLinks DEF Chained, SameEnds
<1>11. /\ h \in 1 .. n + 1 /\ (n > 0 => h <= n)
       /\ d.pFirst = IF n > 0 THEN s[h] ELSE None
  BY <1>5, <1>7 DEF Chained, SameEnds
<1>12. x \in Nat /\ Cached(c) \ {x} = Cached(c)
  BY <1>3, LenProperties DEF Caches
<1>13. RoomFor(c, d, x, o, h)
  BY <1>5, <1>7, <1>8, <1>9, <1>10, <1>11, <1>12 DEF RoomFor
<1>14. Len(d.m_aCacheObjects) = Len(c.m_aCacheObjects)
  <2>1. /\ d.m_aCacheObjects \in Seq(Objects(Owners) \cup {None})
        /\ c.m_aCacheObjects \in Seq(Objects(Owners) \cup {None})
    BY <1>7 DEF Caches
  <2>2. 1 .. Len(d.m_aCacheObjects) = 1 .. Len(c.m_aCacheObjects)
    BY <1>5, <1>7, <2>1, LenProperties
  <2> QED BY <2>1, <2>2, LenProperties
<1> QED BY <1>3, <1>13, <1>14

PlaceTaken(c, x, o) == WithObject(Replaced(c, x), x, NewObject(o))

\* The last unlocked object goes.
LEMMA RoomOfLast ==
  ASSUME NEW c \in Caches(Owners), NEW s, NEW n, NEW h, Chained(c, s, n, h), FreeSound(c),
         NEW k \in h + 1 .. n, NEW x, x = s[k], NEW o \in Owners,
         NEW d, d = PlaceTaken(c, x, o)
  PROVE  /\ RoomFor(c, d, x, o, h) /\ x \in Cached(c)
         /\ Len(d.m_aCacheObjects) = Len(c.m_aCacheObjects)
<1>1. PICK b : b = Cut(c, x)
  OBVIOUS
<1>2. /\ ChainOn(c, s, n, Cached(c)) /\ h \in 1 .. n + 1 /\ (n > 0 => h <= n)
      /\ c.pFirst = IF n > 0 THEN s[h] ELSE None
  BY DEF Chained
<1>3. /\ n \in Nat /\ s \in [1 .. n -> Cached(c)]
      /\ \A i, j \in 1 .. n : s[i] = s[j] => i = j
  BY <1>2 DEF ChainOn, IsInjective
<1>4. /\ n > 0 /\ h \in 1 .. n /\ k \in 2 .. n /\ k \in 1 .. n /\ h < k /\ c.pFirst = s[h]
      /\ 1 \in 1 .. n
  BY <1>2, <1>3
<1>5. c.pRealFirst = s[1] /\ x \in Cached(c)
  BY <1>2, <1>3, <1>4 DEF ChainOn
<1>6. x # c.pFirst /\ x # c.pRealFirst
  BY <1>3, <1>4, <1>5
<1>7. /\ Keeps(c, b) /\ b.pRealFirst = c.pRealFirst /\ b.pFirst = c.pFirst
      /\ ChainOn(b, Without(s, n, k), n - 1, Cached(c) \ {x})
  <2>1. k \in 2 .. n
    BY <1>4
  <2> QED BY <1>1, <2>1, CutChains
<1>8. b \in Caches(Owners) /\ Cached(b) = Cached(c)
  BY <1>7 DEF Keeps
<1>9. Replaced(c, x) = b
  <2>1. Replaced(c, x) = [b EXCEPT !.pFirst = b.pFirst, !.pRealFirst = b.pRealFirst]
    BY <1>1, <1>6, <1>7 DEF Replaced
  <2>2. [b EXCEPT !.pFirst = b.pFirst, !.pRealFirst = b.pRealFirst] = b
    BY <1>8 DEF Caches
  <2> QED BY <2>1, <2>2
<1>10. x \in DOMAIN b.m_aCacheObjects
  BY <1>5, <1>8 DEF Cached
<1>11. /\ d \in Caches(Owners) /\ Cached(d) = Cached(b) \cup {x} /\ SameEnds(b, d)
       /\ DOMAIN d.m_aCacheObjects = DOMAIN b.m_aCacheObjects
       /\ d.aFreePositions = b.aFreePositions /\ d.nCurMax = b.nCurMax
       /\ Owner(d, x) = o /\ Locks(d, x) = 0
       /\ \A y \in Cached(b) \ {x} :
            /\ Owner(d, y) = Owner(b, y) /\ Locks(d, y) = Locks(b, y)
            /\ GetNext(d, y) = GetNext(b, y) /\ GetPrev(d, y) = GetPrev(b, y)
  <2>1. d = WithObject(b, x, NewObject(o))
    BY <1>9 DEF PlaceTaken
  <2> QED BY <1>8, <1>10, <2>1, NewAt
<1>12. Cached(d) = Cached(c) /\ Cached(d) = Cached(c) \cup {x}
  BY <1>5, <1>8, <1>11
<1>13. /\ DOMAIN d.m_aCacheObjects = DOMAIN c.m_aCacheObjects
       /\ d.aFreePositions = c.aFreePositions /\ d.nCurMax = c.nCurMax
       /\ \A y \in Cached(c) : y # x => Owner(d, y) = Owner(c, y) /\ Locks(d, y) = Locks(c, y)
  BY <1>7, <1>8, <1>11 DEF Keeps
<1>14. FreeSound(d)
  BY <1>12, <1>13 DEF FreeSound
<1>15. ChainOn(d, Without(s, n, k), n - 1, Cached(c) \ {x})
  <2>1. Cached(c) \ {x} \subseteq Cached(d)
    BY <1>12
  <2> QED BY <1>7, <1>8, <1>11, <2>1, SameLinks DEF SameEnds
<1>16. /\ h \in 1 .. n - 1 + 1 /\ (n - 1 > 0 => h <= n - 1)
       /\ d.pFirst = IF n - 1 > 0 THEN Without(s, n, k)[h] ELSE None
  <2>1. h \in 1 .. n - 1 /\ Without(s, n, k)[h] = s[h]
    BY <1>3, <1>4, FirstInWithout
  <2>2. d.pFirst = s[h]
    BY <1>4, <1>7, <1>11 DEF SameEnds
  <2> QED BY <1>3, <2>1, <2>2
<1>17. x \in Nat
  BY <1>5, CachedObject
<1>18. RoomFor(c, d, x, o, h)
  BY <1>11, <1>12, <1>13, <1>14, <1>15, <1>16, <1>17 DEF RoomFor
<1>19. Len(d.m_aCacheObjects) = Len(c.m_aCacheObjects)
  <2>1. /\ d.m_aCacheObjects \in Seq(Objects(Owners) \cup {None})
        /\ c.m_aCacheObjects \in Seq(Objects(Owners) \cup {None})
    BY <1>11 DEF Caches
  <2>2. 1 .. Len(d.m_aCacheObjects) = 1 .. Len(c.m_aCacheObjects)
    BY <1>13, <2>1, LenProperties
  <2> QED BY <2>1, <2>2, LenProperties
<1> QED BY <1>5, <1>18, <1>19

\* What Insert does, for the rest of the state: x now belongs to o.
Inserted(c, d, x, o) ==
  /\ d \in Caches(Owners) /\ x \in Nat /\ Cached(d) = Cached(c) \cup {x}
  /\ Owner(d, x) = o /\ Locks(d, x) = 0
  /\ \A y \in Cached(c) : y # x => Owner(d, y) = Owner(c, y) /\ Locks(d, y) = Locks(c, y)
  /\ d.nCurMax = c.nCurMax /\ FreeSound(d)
  /\ (c.aFreePositions = <<>> => d.aFreePositions = <<>>)
  /\ Len(d.m_aCacheObjects) = Len(c.m_aCacheObjects) + (IF HasSpace(c) THEN 1 ELSE 0)

\* Insert makes room and puts the new object in front of the virtual first one.
LEMMA InsertChains ==
  ASSUME NEW c \in Caches(Owners), NEW s, NEW n, NEW h, Chained(c, s, n, h), FreeSound(c),
         CanInsert(c, s, n, h), NEW o \in Owners, NEW d, d = Insert(c, o), NEW x, x = NewPos(c)
  PROVE  /\ Inserted(c, d, x, o) /\ \E t, m : Chained(d, t, m, h)
         /\ x \in Cached(c) => ~IsLocked(c, x) /\ \E k \in h + 1 .. n : x = s[k]
<1>1. PICK r : /\ RoomFor(c, r, x, o, h) /\ d = PutFirst(r, x)
               /\ Len(r.m_aCacheObjects) = Len(c.m_aCacheObjects) + (IF HasSpace(c) THEN 1 ELSE 0)
               /\ x \in Cached(c) => ~IsLocked(c, x) /\ \E k \in h + 1 .. n : x = s[k]
  <2>1. CASE HasSpace(c)
    <3>1. PICK r : r = [c EXCEPT !.m_aCacheObjects = Append(@, NewObject(o))]
      OBVIOUS
    <3>2. x = Len(c.m_aCacheObjects) + 1
      BY <2>1 DEF NewPos
    <3>3. d = PutFirst(r, x)
      BY <2>1, <3>1 DEF Insert, NewObject
    <3>4. /\ RoomFor(c, r, x, o, h) /\ x \notin Cached(c)
          /\ Len(r.m_aCacheObjects) = Len(c.m_aCacheObjects) + 1
      BY <3>1, <3>2, RoomAtEnd
    <3> QED BY <2>1, <3>3, <3>4
  <2>2. CASE ~HasSpace(c) /\ c.aFreePositions # <<>>
    <3>1. x = Last(c.aFreePositions)
      BY <2>2 DEF NewPos
    <3>2. PICK r : r = FreeFilled(c, x, o)
      OBVIOUS
    <3>3. d = PutFirst(r, x)
      BY <2>2, <3>2 DEF Insert, NewObject, FreeFilled
    <3>4. /\ RoomFor(c, r, x, o, h) /\ x \notin Cached(c)
          /\ Len(r.m_aCacheObjects) = Len(c.m_aCacheObjects)
      BY <2>2, <3>1, <3>2, RoomInFree
    <3>5. Len(c.m_aCacheObjects) \in Nat
      BY LenProperties DEF Caches
    <3> QED BY <2>2, <3>3, <3>4, <3>5
  <2>3. CASE ~HasSpace(c) /\ ~(c.aFreePositions # <<>>)
    <3>1. x = LastUnlocked(c)
      BY <2>3 DEF NewPos
    <3>2. PICK k \in h + 1 .. n : x = s[k] /\ ~IsLocked(c, x)
      BY <2>3, <3>1 DEF CanInsert
    <3>3. PICK r : r = PlaceTaken(c, x, o)
      OBVIOUS
    <3>4. d = PutFirst(r, x)
      BY <2>3, <3>3 DEF Insert, NewObject, PlaceTaken, WithObject
    <3>5. RoomFor(c, r, x, o, h) /\ Len(r.m_aCacheObjects) = Len(c.m_aCacheObjects)
      BY <3>2, <3>3, RoomOfLast
    <3>6. Len(c.m_aCacheObjects) \in Nat
      BY LenProperties DEF Caches
    <3> QED BY <2>3, <3>2, <3>4, <3>5, <3>6
  <2> QED BY <2>1, <2>2, <2>3
<1>2. /\ r \in Caches(Owners) /\ x \in Nat /\ Cached(r) = Cached(c) \cup {x}
      /\ Owner(r, x) = o /\ Locks(r, x) = 0
      /\ \A y \in Cached(c) : y # x => Owner(r, y) = Owner(c, y) /\ Locks(r, y) = Locks(c, y)
      /\ r.nCurMax = c.nCurMax /\ FreeSound(r)
      /\ (c.aFreePositions = <<>> => r.aFreePositions = <<>>)
  BY <1>1 DEF RoomFor
<1>3. PICK t, m : /\ ChainOn(r, t, m, Cached(c) \ {x}) /\ h \in 1 .. m + 1 /\ (m > 0 => h <= m)
                  /\ r.pFirst = IF m > 0 THEN t[h] ELSE None
  BY <1>1 DEF RoomFor
<1>4. x \notin Cached(c) \ {x} /\ Cached(r) = (Cached(c) \ {x}) \cup {x}
  BY <1>2
<1>5. Keeps(r, d) /\ Chained(d, With(t, m, h, x), m + 1, h)
  BY <1>1, <1>2, <1>3, <1>4, PutFirstChains
<1>6. /\ d \in Caches(Owners) /\ Cached(d) = Cached(r)
      /\ DOMAIN d.m_aCacheObjects = DOMAIN r.m_aCacheObjects
      /\ d.aFreePositions = r.aFreePositions /\ d.nCurMax = r.nCurMax
      /\ \A y \in Cached(r) : Owner(d, y) = Owner(r, y) /\ Locks(d, y) = Locks(r, y)
  BY <1>5 DEF Keeps
<1>7. Len(d.m_aCacheObjects) = Len(r.m_aCacheObjects)
  <2>1. /\ d.m_aCacheObjects \in Seq(Objects(Owners) \cup {None})
        /\ r.m_aCacheObjects \in Seq(Objects(Owners) \cup {None})
    BY <1>2, <1>6 DEF Caches
  <2>2. 1 .. Len(d.m_aCacheObjects) = 1 .. Len(r.m_aCacheObjects)
    BY <1>6, <2>1, LenProperties
  <2> QED BY <2>1, <2>2, LenProperties
<1>8. FreeSound(d)
  BY <1>2, <1>6 DEF FreeSound
<1>9. /\ Owner(d, x) = o /\ Locks(d, x) = 0
      /\ \A y \in Cached(c) : y # x => Owner(d, y) = Owner(c, y) /\ Locks(d, y) = Locks(c, y)
  BY <1>2, <1>6
<1>10. Inserted(c, d, x, o)
  BY <1>1, <1>2, <1>6, <1>7, <1>8, <1>9 DEF Inserted
<1> QED BY <1>1, <1>5, <1>10

WithLocks(c, x, v) == [c EXCEPT !.m_aCacheObjects[x].nLock = v]

\* The number of locks of an object is set.
LEMMA LocksSet ==
  ASSUME NEW c \in Caches(Owners), NEW x \in Cached(c), NEW v \in Nat,
         NEW d, d = WithLocks(c, x, v)
  PROVE  /\ d \in Caches(Owners) /\ Cached(d) = Cached(c) /\ SameEnds(c, d)
         /\ DOMAIN d.m_aCacheObjects = DOMAIN c.m_aCacheObjects
         /\ d.aFreePositions = c.aFreePositions /\ d.nCurMax = c.nCurMax
         /\ \A y \in Cached(c) : /\ Owner(d, y) = Owner(c, y)
                                 /\ Locks(d, y) = IF y = x THEN v ELSE Locks(c, y)
         /\ \A s, n, h : Chained(c, s, n, h) => Chained(d, s, n, h)
<1>1. PICK o : o = c.m_aCacheObjects[x]
  OBVIOUS
<1>2. PICK r : r = [o EXCEPT !.nLock = v]
  OBVIOUS
<1>3. o \in Objects(Owners) /\ x \in DOMAIN c.m_aCacheObjects
  BY <1>1, CachedObject
<1>4. /\ r \in Objects(Owners) /\ r.pNext = o.pNext /\ r.pPrev = o.pPrev /\ r.pOwner = o.pOwner
      /\ r.nLock = v
  BY <1>2, <1>3 DEF Objects
<1>5. d = WithObject(c, x, r)
  BY <1>1, <1>2 DEF WithObject, WithLocks
<1>6. /\ d \in Caches(Owners) /\ Cached(d) = Cached(c) \cup {x} /\ SameEnds(c, d)
      /\ DOMAIN d.m_aCacheObjects = DOMAIN c.m_aCacheObjects
      /\ d.aFreePositions = c.aFreePositions /\ d.nCurMax = c.nCurMax
      /\ d.m_aCacheObjects[x] = r
      /\ \A z \in DOMAIN c.m_aCacheObjects : z # x => d.m_aCacheObjects[z] = c.m_aCacheObjects[z]
  BY <1>3, <1>4, <1>5, ObjectSet
<1>7. Cached(d) = Cached(c) /\ \A z \in Cached(c) : z \in DOMAIN c.m_aCacheObjects
  BY <1>6 DEF Cached
<1>8. \A y \in Cached(c) : /\ Owner(d, y) = Owner(c, y)
                           /\ Locks(d, y) = IF y = x THEN v ELSE Locks(c, y)
  BY <1>1, <1>4, <1>6, <1>7 DEF Owner, Locks
<1>9. \A y \in Cached(c) : GetNext(d, y) = GetNext(c, y) /\ GetPrev(d, y) = GetPrev(c, y)
  BY <1>1, <1>4, <1>6, <1>7 DEF GetNext, GetPrev
<1>10. ASSUME NEW s, NEW n, NEW h, Chained(c, s, n, h) PROVE Chained(d, s, n, h)
  <2>1. ChainOn(c, s, n, Cached(c)) /\ Cached(c) \subseteq Cached(d)
    BY <1>7, <1>10 DEF Chained
  <2>2. ChainOn(d, s, n, Cached(c))
    BY <1>6, <1>9, <2>1, SameLinks DEF SameEnds
  <2> QED BY <1>6, <1>7, <1>10, <2>2 DEF Chained, SameEnds
<1> QED BY <1>6, <1>7, <1>8, <1>10

\* A free position is added to the list.
LEMMA AppendFacts ==
  ASSUME NEW f \in Seq(Nat), IsInjective(f), NEW x \in Nat, x \notin ToSet(f)
  PROVE  /\ Append(f, x) \in Seq(Nat) /\ IsInjective(Append(f, x))
         /\ ToSet(Append(f, x)) = ToSet(f) \cup {x}
<1>1. PICK n : n = Len(f)
  OBVIOUS
<1>2. PICK g : g = Append(f, x)
  OBVIOUS
<1>3. n \in Nat /\ DOMAIN f = 1 .. n
  BY <1>1, LenProperties
<1>4. /\ g \in Seq(Nat) /\ Len(g) = n + 1 /\ g[n + 1] = x /\ \A i \in 1 .. n : g[i] = f[i]
      /\ DOMAIN g = 1 .. n + 1
  BY <1>1, <1>2, AppendProperties, LenProperties
<1>5. \A i, j \in 1 .. n : f[i] = f[j] => i = j
  BY <1>3 DEF IsInjective
<1>6. \A i \in 1 .. n : f[i] # x
  BY <1>3 DEF ToSet
<1>7. IsInjective(g)
  <2>1. \A i, j \in 1 .. n + 1 : g[i] = g[j] => i = j
    BY <1>3, <1>4, <1>5, <1>6
  <2> QED BY <1>4, <2>1 DEF IsInjective
<1>8. ToSet(g) = ToSet(f) \cup {x}
  <2>1. ASSUME NEW y \in ToSet(g) PROVE y \in ToSet(f) \cup {x}
    <3>1. PICK i \in 1 .. n + 1 : y = g[i]
      BY <1>4 DEF ToSet
    <3>2. CASE i = n + 1
      BY <1>4, <3>1, <3>2
    <3>3. CASE i # n + 1
      <4>1. i \in 1 .. n /\ y = f[i]
        BY <1>3, <1>4, <3>1, <3>3
      <4> QED BY <1>3, <4>1 DEF ToSet
    <3> QED BY <3>2, <3>3
  <2>2. x \in ToSet(g)
    <3>1. n + 1 \in DOMAIN g
      BY <1>3, <1>4
    <3> QED BY <1>4, <3>1 DEF ToSet
  <2>3. ASSUME NEW y \in ToSet(f) PROVE y \in ToSet(g)
    <3>1. PICK i \in 1 .. n : y = f[i]
      BY <1>3 DEF ToSet
    <3>2. i \in DOMAIN g /\ y = g[i]
      BY <1>3, <1>4, <3>1
    <3> QED BY <3>2 DEF ToSet
  <2> QED BY <2>1, <2>2, <2>3
<1> QED BY <1>2, <1>4, <1>7, <1>8

\* What DeleteObj does with an object that is not locked, for the rest of the state.
Deleted(c, d, x) ==
  /\ d \in Caches(Owners) /\ Cached(d) = Cached(c) \ {x}
  /\ \A y \in Cached(c) : y # x => Owner(d, y) = Owner(c, y) /\ Locks(d, y) = Locks(c, y)
  /\ d.nCurMax = c.nCurMax /\ FreeSound(d) /\ Len(d.m_aCacheObjects) = Len(c.m_aCacheObjects)

\* DeleteObj, where nothing is taken from the LRU order.
LEMMA DeleteObjChains ==
  ASSUME NEW c \in Caches(Owners), NEW s, NEW n, Chained(c, s, n, 1), FreeSound(c),
         NEW x \in Cached(c), ~IsLocked(c, x), NEW d, d = DeleteObj(c, x)
  PROVE  Deleted(c, d, x) /\ \E t : Chained(d, t, n - 1, 1)
<1>1. PICK b : b = Unchained(c, x)
  OBVIOUS
<1>2. /\ ChainOn(c, s, n, Cached(c)) /\ c.pFirst = IF n > 0 THEN s[1] ELSE None
  BY DEF Chained
<1>3. /\ n \in Nat /\ s \in [1 .. n -> Cached(c)] /\ Cached(c) = {s[i] : i \in 1 .. n}
      /\ \A i, j \in 1 .. n : s[i] = s[j] => i = j
  BY <1>2 DEF ChainOn, IsInjective
<1>4. PICK k \in 1 .. n : x = s[k]
  BY <1>3
<1>5. n > 0 /\ 1 \in 1 .. n /\ c.pFirst = s[1] /\ c.pRealFirst = s[1] /\ c.pLast = s[n]
      /\ c.pFirst = c.pRealFirst
  <2>1. n > 0
    BY <1>3, <1>4
  <2>2. c.pRealFirst = s[1] /\ c.pLast = s[n]
    BY <1>2, <2>1 DEF ChainOn
  <2> QED BY <1>2, <1>3, <2>1, <2>2
<1>6. /\ Keeps(c, b) /\ SameEnds(c, b)
      /\ \A y \in Cached(c) :
           /\ GetNext(b, y) = IF y = GetPrev(c, x) THEN GetNext(c, x) ELSE GetNext(c, y)
           /\ GetPrev(b, y) = IF y = GetNext(c, x) THEN GetPrev(c, x) ELSE GetPrev(c, y)
  BY <1>1, UnchainedKeeps
<1>7. /\ b \in Caches(Owners) /\ Cached(b) = Cached(c)
      /\ DOMAIN b.m_aCacheObjects = DOMAIN c.m_aCacheObjects
      /\ b.aFreePositions = c.aFreePositions /\ b.nCurMax = c.nCurMax
      /\ \A y \in Cached(c) : Owner(b, y) = Owner(c, y) /\ Locks(b, y) = Locks(c, y)
  BY <1>6 DEF Keeps
<1>8. /\ x \in Nat /\ x \in DOMAIN c.m_aCacheObjects
      /\ GetNext(c, x) \in Pointers /\ GetPrev(c, x) \in Pointers
  BY CachedObject
<1>9. PICK first : first = IF c.pRealFirst = x THEN GetNext(c, x) ELSE c.pRealFirst
  OBVIOUS
<1>10. PICK last : last = IF c.pLast = x THEN GetPrev(c, x) ELSE c.pLast
  OBVIOUS
<1>11. FirstWithout(c, x) = first
  <2>1. CASE k = 1
    <3>1. GetPrev(c, x) = None
      <4>1. \A i \in 1 .. n : GetPrev(c, s[i]) = IF i > 1 THEN s[i - 1] ELSE None
        BY <1>2 DEF ChainOn
      <4>2. GetPrev(c, s[1]) = None
        BY <1>5, <4>1
      <4> QED BY <1>4, <2>1, <4>2
    <3> QED BY <1>4, <1>5, <1>9, <2>1, <3>1 DEF FirstWithout
  <2>2. CASE k # 1
    BY <1>3, <1>4, <1>5, <1>9, <2>2 DEF FirstWithout
  <2> QED BY <2>1, <2>2
<1>12. PICK f : f = Append(c.aFreePositions, x)
  OBVIOUS
<1>13. c.aFreePositions \in Seq(Nat) /\ x \notin ToSet(c.aFreePositions)
  BY DEF Caches, FreeSound
<1>14. f \in Seq(Nat) /\ IsInjective(f) /\ ToSet(f) = ToSet(c.aFreePositions) \cup {x}
  BY <1>8, <1>12, <1>13, AppendFacts DEF FreeSound
<1>15. PICK a : a = [b.m_aCacheObjects EXCEPT ![x] = None]
  OBVIOUS
<1>16. /\ a \in Seq(Objects(Owners) \cup {None}) /\ Len(a) = Len(b.m_aCacheObjects)
       /\ DOMAIN a = DOMAIN b.m_aCacheObjects /\ a[x] = None
       /\ \A z \in DOMAIN b.m_aCacheObjects : z # x => a[z] = b.m_aCacheObjects[z]
  <2>1. PICK e : e = b.m_aCacheObjects
    OBVIOUS
  <2>2. e \in Seq(Objects(Owners) \cup {None}) /\ x \in DOMAIN e
    BY <1>7, <1>8, <2>1 DEF Caches
  <2>3. x \in 1 .. Len(e) /\ None \in Objects(Owners) \cup {None}
    BY <2>2, LenProperties
  <2>4. a = [e EXCEPT ![x] = None]
    BY <1>15, <2>1
  <2>5. a \in Seq(Objects(Owners) \cup {None}) /\ Len(a) = Len(e) /\ DOMAIN a = DOMAIN e
    BY <2>2, <2>3, <2>4, ExceptSeq, LenProperties
  <2>6. a[x] = None /\ \A z \in DOMAIN e : z # x => a[z] = e[z]
    BY <2>2, <2>4
  <2> QED BY <2>1, <2>5, <2>6
<1>17. /\ d \in Caches(Owners) /\ d.m_aCacheObjects = a /\ d.aFreePositions = f
       /\ d.nCurMax = b.nCurMax /\ d.pFirst = first /\ d.pRealFirst = first /\ d.pLast = last
  <2>1. d = [b EXCEPT !.pFirst = FirstWithout(c, x),
                      !.pRealFirst = IF b.pRealFirst = x THEN GetNext(c, x) ELSE b.pRealFirst,
                      !.pLast = IF b.pLast = x THEN GetPrev(c, x) ELSE b.pLast,
                      !.aFreePositions = Append(b.aFreePositions, x),
                      !.m_aCacheObjects[x] = None]
    BY <1>1 DEF DeleteObj
  <2>2. d = [b EXCEPT !.pFirst = first, !.pRealFirst = first, !.pLast = last,
                      !.aFreePositions = f, !.m_aCacheObjects = a]
    BY <1>6, <1>7, <1>9, <1>10, <1>11, <1>12, <1>15, <2>1 DEF SameEnds
  <2>3. first \in Pointers /\ last \in Pointers
    BY <1>8, <1>9, <1>10 DEF Caches
  <2> QED BY <1>7, <1>14, <1>16, <2>2, <2>3 DEF Caches
<1>18. Cached(d) = Cached(c) \ {x}
  <2>1. Cached(d) = {y \in DOMAIN a : a[y] # None}
    BY <1>17 DEF Cached
  <2>2. Cached(b) = {y \in DOMAIN b.m_aCacheObjects : b.m_aCacheObjects[y] # None}
    BY DEF Cached
  <2> QED BY <1>7, <1>16, <2>1, <2>2
<1>19. ASSUME NEW y \in Cached(c), y # x
       PROVE  /\ Owner(d, y) = Owner(c, y) /\ Locks(d, y) = Locks(c, y)
              /\ GetNext(d, y) = GetNext(b, y) /\ GetPrev(d, y) = GetPrev(b, y)
  <2>1. y \in Cached(b) /\ y \in Cached(d) /\ y \in DOMAIN b.m_aCacheObjects
    BY <1>7, <1>18, <1>19 DEF Cached
  <2>2. d.m_aCacheObjects[y] = b.m_aCacheObjects[y]
    BY <1>16, <1>17, <1>19, <2>1
  <2>3. /\ GetNext(d, y) = d.m_aCacheObjects[y].pNext /\ GetNext(b, y) = b.m_aCacheObjects[y].pNext
        /\ GetPrev(d, y) = d.m_aCacheObjects[y].pPrev /\ GetPrev(b, y) = b.m_aCacheObjects[y].pPrev
    BY <2>1, Zenon DEF GetNext, GetPrev
  <2>4. Owner(d, y) = Owner(b, y) /\ Locks(d, y) = Locks(b, y)
    BY <2>2, Zenon DEF Owner, Locks
  <2> QED BY <1>7, <2>2, <2>3, <2>4, Zenon
<1>20. FreeSound(d)
  <2>1. x \notin Cached(d) /\ DOMAIN d.m_aCacheObjects = DOMAIN c.m_aCacheObjects
    BY <1>7, <1>16, <1>17, <1>18
  <2>2. ToSet(f) = DOMAIN d.m_aCacheObjects \ Cached(d)
    BY <1>8, <1>14, <1>18, <2>1 DEF FreeSound
  <2> QED BY <1>14, <1>17, <2>2 DEF FreeSound
<1>21. ChainOn(d, Without(s, n, k), n - 1, Cached(c) \ {x})
  <2>1. ASSUME NEW y \in Cached(c) \ {x}
        PROVE  /\ GetNext(d, y) = IF y = GetPrev(c, x) THEN GetNext(c, x) ELSE GetNext(c, y)
               /\ GetPrev(d, y) = IF y = GetNext(c, x) THEN GetPrev(c, x) ELSE GetPrev(c, y)
    BY <1>6, <1>19
  <2>2. Cached(c) \ {x} \subseteq Cached(d)
    BY <1>18
  <2>3. /\ d.pRealFirst = IF c.pRealFirst = x THEN GetNext(c, x) ELSE c.pRealFirst
        /\ d.pLast = IF c.pLast = x THEN GetPrev(c, x) ELSE c.pLast
    BY <1>9, <1>10, <1>17
  <2>4. \A y \in Cached(c) \ {x} :
          /\ GetNext(d, y) = IF y = GetPrev(c, x) THEN GetNext(c, x) ELSE GetNext(c, y)
          /\ GetPrev(d, y) = IF y = GetNext(c, x) THEN GetPrev(c, x) ELSE GetPrev(c, y)
    BY <2>1
  <2> QED BY <1>2, <1>4, <2>2, <2>3, <2>4, TakenOut
<1>22. Chained(d, Without(s, n, k), n - 1, 1)
  <2>1. d.pFirst = IF n - 1 > 0 THEN Without(s, n, k)[1] ELSE None
    <3>1. d.pFirst = d.pRealFirst
      BY <1>17
    <3> QED BY <1>21, <3>1 DEF ChainOn
  <2>2. 1 \in 1 .. n - 1 + 1 /\ (n - 1 > 0 => 1 <= n - 1)
    BY <1>3, <1>5
  <2> QED BY <1>18, <1>21, <2>1, <2>2 DEF Chained
<1>23. Len(d.m_aCacheObjects) = Len(c.m_aCacheObjects)
  <2>1. /\ d.m_aCacheObjects \in Seq(Objects(Owners) \cup {None})
        /\ c.m_aCacheObjects \in Seq(Objects(Owners) \cup {None})
    BY <1>17 DEF Caches
  <2>2. 1 .. Len(d.m_aCacheObjects) = 1 .. Len(c.m_aCacheObjects)
    BY <1>7, <1>16, <1>17, <2>1, LenProperties
  <2> QED BY <2>1, <2>2, LenProperties
<1>24. d.nCurMax = c.nCurMax
  BY <1>7, <1>17
<1>25. Deleted(c, d, x)
  BY <1>17, <1>18, <1>19, <1>20, <1>23, <1>24 DEF Deleted
<1> QED BY <1>22, <1>25

-----------------------------------------------------------------------------
(* What the calls do to the whole cache.                                    *)

LEMMA MinOfTwo ==
  ASSUME NEW a \in Int, NEW b \in Int
  PROVE  Min({a, b}) = IF a <= b THEN a ELSE b
<1>1. PICK m : m = IF a <= b THEN a ELSE b
  OBVIOUS
<1>2. m \in {a, b} /\ \A y \in {a, b} : m <= y
  BY <1>1
<1>3. \A x \in {a, b} : (\A y \in {a, b} : x <= y) => x = m
  BY <1>2
<1>4. Min({a, b}) \in {a, b} /\ \A y \in {a, b} : Min({a, b}) <= y
  BY <1>2 DEF Min
<1> QED BY <1>1, <1>3, <1>4

LEMMA MaxOfTwo ==
  ASSUME NEW a \in Int, NEW b \in Int
  PROVE  Max({a, b}) = IF a >= b THEN a ELSE b
<1>1. PICK m : m = IF a >= b THEN a ELSE b
  OBVIOUS
<1>2. m \in {a, b} /\ \A y \in {a, b} : m >= y
  BY <1>1
<1>3. \A x \in {a, b} : (\A y \in {a, b} : x >= y) => x = m
  BY <1>2
<1>4. Max({a, b}) \in {a, b} /\ \A y \in {a, b} : Max({a, b}) >= y
  BY <1>2 DEF Max
<1> QED BY <1>1, <1>3, <1>4

\* Only the virtual first one is moved.
FirstAt(c, p) == [c EXCEPT !.pFirst = p]

LEMMA FirstMoved ==
  ASSUME NEW c \in Caches(Owners), NEW s, NEW n, NEW h, Chained(c, s, n, h),
         NEW g, g \in 1 .. n + 1, n > 0 => g <= n,
         NEW p, p = (IF n > 0 THEN s[g] ELSE None), NEW d, d = FirstAt(c, p)
  PROVE  Keeps(c, d) /\ Chained(d, s, n, g)
<1>1. ChainOn(c, s, n, Cached(c))
  BY DEF Chained
<1>2. n \in Nat /\ s \in [1 .. n -> Cached(c)]
  BY <1>1 DEF ChainOn
<1>3. p \in Pointers
  <2>1. CASE n > 0
    <3>1. g \in 1 .. n
      BY <1>2, <2>1
    <3>2. p \in Cached(c)
      BY <1>2, <2>1, <3>1
    <3> QED BY <3>2, CachedObject DEF Pointers
  <2>2. CASE ~(n > 0)
    BY <2>2 DEF Pointers
  <2> QED BY <2>1, <2>2
<1>4. /\ d \in Caches(Owners) /\ d.m_aCacheObjects = c.m_aCacheObjects
      /\ d.aFreePositions = c.aFreePositions /\ d.nCurMax = c.nCurMax
      /\ d.pRealFirst = c.pRealFirst /\ d.pLast = c.pLast /\ d.pFirst = p
  BY <1>3 DEF FirstAt, Caches
<1>5. /\ Cached(d) = Cached(c)
      /\ \A y \in Cached(c) : /\ Owner(d, y) = Owner(c, y) /\ Locks(d, y) = Locks(c, y)
                              /\ GetNext(d, y) = GetNext(c, y) /\ GetPrev(d, y) = GetPrev(c, y)
  BY <1>4, Zenon DEF Cached, Owner, Locks, GetNext, GetPrev
<1>6. Keeps(c, d)
  BY <1>4, <1>5 DEF Keeps
<1>7. ChainOn(d, s, n, Cached(c))
  BY <1>1, <1>4, <1>5, SameLinks
<1> QED BY <1>4, <1>5, <1>6, <1>7 DEF Chained

\* SetLRUOfst takes no more than nOfst objects from the LRU order.
LEMMA OfstChains ==
  ASSUME NEW c \in Caches(Owners), NEW s, NEW n, NEW h, Chained(c, s, n, h), NEW nOfst \in Nat,
         NEW d, d = SetLRUOfst(c, nOfst)
  PROVE  Keeps(c, d) /\ \E g : Chained(d, s, n, g) /\ (g - 1 <= nOfst \/ g = h)
<1>1. /\ ChainOn(c, s, n, Cached(c)) /\ n \in Nat /\ s \in [1 .. n -> Cached(c)]
      /\ c.pRealFirst = (IF n > 0 THEN s[1] ELSE None)
  BY DEF Chained, ChainOn
<1>2. Chain(c) = s /\ Len(s) = n
  BY <1>1, ChainIsOrder, OrderIsChain
<1>3. CASE d = c
  BY <1>3 DEF Keeps
<1>4. CASE d # c
  <2>1. PICK l : l = Min({nOfst + 1, n - 1})
    OBVIOUS
  <2>2. PICK g : g = Max({1, l})
    OBVIOUS
  <2>3. n > 0
    <3>1. c.pRealFirst # None
      BY <1>4 DEF SetLRUOfst
    <3> QED BY <1>1, <3>1
  <2>4. l \in Int /\ l <= nOfst + 1 /\ l <= n - 1
    <3>1. nOfst + 1 \in Int /\ n - 1 \in Int
      BY <1>1
    <3> QED BY <2>1, <3>1, MinOfTwo
  <2>5. g \in Int /\ 1 <= g /\ (g = 1 \/ g = l)
    BY <2>2, <2>4, MaxOfTwo
  <2>6. g \in 1 .. n /\ g - 1 <= nOfst
    BY <1>1, <2>3, <2>4, <2>5
  <2>7. PICK p : p = IF n > 0 THEN s[g] ELSE None
    OBVIOUS
  <2>8. d = FirstAt(c, p)
    BY <1>2, <1>4, <2>1, <2>2, <2>3, <2>7 DEF SetLRUOfst, FirstAt
  <2>9. g \in 1 .. n + 1 /\ g <= n
    BY <1>1, <2>6
  <2>10. Keeps(c, d) /\ Chained(d, s, n, g)
    BY <2>7, <2>8, <2>9, FirstMoved
  <2> QED BY <2>6, <2>10
<1> QED BY <1>3, <1>4

\* ResetLRUOfst gives all of them back.
LEMMA ResetChains ==
  ASSUME NEW c \in Caches(Owners), NEW s, NEW n, NEW h, Chained(c, s, n, h),
         NEW d, d = ResetLRUOfst(c)
  PROVE  Keeps(c, d) /\ Chained(d, s, n, 1)
<1>1. n \in Nat /\ c.pRealFirst = (IF n > 0 THEN s[1] ELSE None)
  BY DEF Chained, ChainOn
<1>2. 1 \in 1 .. n + 1 /\ (n > 0 => 1 <= n)
  BY <1>1
<1>3. PICK p : p = IF n > 0 THEN s[1] ELSE None
  OBVIOUS
<1>4. d = FirstAt(c, p)
  BY <1>1, <1>3 DEF ResetLRUOfst, FirstAt
<1> QED BY <1>2, <1>3, <1>4, FirstMoved

\* The limit of the cache is changed.
LEMMA LimitChanged ==
  ASSUME NEW c \in Caches(Owners), NEW s, NEW n, NEW h, Chained(c, s, n, h), NEW m \in Nat,
         NEW d, d = [c EXCEPT !.nCurMax = m]
  PROVE  /\ d \in Caches(Owners) /\ d.nCurMax = m /\ d.m_aCacheObjects = c.m_aCacheObjects
         /\ d.aFreePositions = c.aFreePositions /\ Chained(d, s, n, h)
         /\ Cached(d) = Cached(c)
         /\ \A y \in Cached(c) : Owner(d, y) = Owner(c, y) /\ Locks(d, y) = Locks(c, y)
<1>1. /\ d \in Caches(Owners) /\ d.m_aCacheObjects = c.m_aCacheObjects
      /\ d.aFreePositions = c.aFreePositions /\ d.nCurMax = m
      /\ d.pRealFirst = c.pRealFirst /\ d.pLast = c.pLast /\ d.pFirst = c.pFirst
  BY DEF Caches
<1>2. /\ Cached(d) = Cached(c)
      /\ \A y \in Cached(c) : /\ Owner(d, y) = Owner(c, y) /\ Locks(d, y) = Locks(c, y)
                              /\ GetNext(d, y) = GetNext(c, y) /\ GetPrev(d, y) = GetPrev(c, y)
  BY <1>1, SameObjects DEF Locks
<1>3. ChainOn(c, s, n, Cached(c)) /\ h \in 1 .. n + 1 /\ (n > 0 => h <= n)
      /\ c.pFirst = (IF n > 0 THEN s[h] ELSE None)
  BY DEF Chained
<1>4. ChainOn(d, s, n, Cached(c))
  BY <1>1, <1>2, <1>3, SameLinks
<1>5. Chained(d, s, n, h)
  BY <1>1, <1>2, <1>3, <1>4 DEF Chained
<1> QED BY <1>1, <1>2, <1>5

\* Seek finds an object of the owner, if there is one.
LEMMA SeekFinds ==
  ASSUME NEW c \in Caches(Owners), NEW s, NEW n, ChainOn(c, s, n, Cached(c)), NEW o
  PROVE  /\ (\A x \in Cached(c) : Owner(c, x) # o) => Seek(c, o) = None
         /\ (\E x \in Cached(c) : Owner(c, x) = o) =>
              Seek(c, o) \in Cached(c) /\ Owner(c, Seek(c, o)) = o
<1> DEFINE T == {i \in 1 .. n : Owner(c, s[i]) = o}
<1>1. /\ n \in Nat /\ s \in [1 .. n -> Cached(c)] /\ Cached(c) = {s[i] : i \in 1 .. n}
      /\ Chain(c) = s /\ DOMAIN s = 1 .. n
  BY ChainIsOrder DEF ChainOn
<1>2. Seek(c, o) = IF T = {} THEN None ELSE s[Min(T)]
  BY <1>1 DEF Seek
<1>3. (\A x \in Cached(c) : Owner(c, x) # o) => T = {}
  BY <1>1
<1>4. (\E x \in Cached(c) : Owner(c, x) = o) => T # {}
  BY <1>1
<1>5. T # {} => Min(T) \in T
  <2>1. T \in SUBSET Nat
    OBVIOUS
  <2> HIDE DEF T
  <2> QED BY <2>1, MinOfSet
<1> QED BY <1>1, <1>2, <1>3, <1>4, <1>5

-----------------------------------------------------------------------------
(* How often an object is accessed.                                         *)

Times(a, x) == Cardinality({i \in DOMAIN a : a[i] = x})

\* It is a number, and not zero for what is in the list.
LEMMA TimesCount ==
  ASSUME NEW a \in Seq(Nat), NEW x
  PROVE  /\ IsFiniteSet({i \in DOMAIN a : a[i] = x}) /\ Times(a, x) \in Nat
         /\ Times(a, x) = 0 <=> \A i \in DOMAIN a : a[i] # x
<1>1. Len(a) \in Nat /\ DOMAIN a = 1 .. Len(a)
  BY LenProperties
<1>2. IsFiniteSet(1 .. Len(a))
  BY <1>1, FS_Interval
<1> DEFINE I == {i \in DOMAIN a : a[i] = x}
<1>3. I \in SUBSET (1 .. Len(a))
  BY <1>1
<1>4. IsFiniteSet(I)
  <2> HIDE DEF I
  <2> QED BY <1>2, <1>3, FS_Subset
<1>5. Cardinality(I) \in Nat /\ (Cardinality(I) = 0 <=> I = {})
  <2> HIDE DEF I
  <2> QED BY <1>4, FS_CardinalityType, FS_EmptySet
<1>6. I = {} <=> \A i \in DOMAIN a : a[i] # x
  OBVIOUS
<1> QED BY <1>4, <1>5, <1>6 DEF Times

\* The list b is a of length n, and an element more.
Longer(a, b, n) ==
  /\ a \in Seq(Nat) /\ b \in Seq(Nat) /\ n \in Nat
  /\ DOMAIN a = 1 .. n /\ DOMAIN b = 1 .. n + 1 /\ \A i \in 1 .. n : b[i] = a[i]

\* An access more.
LEMMA TimesAppended ==
  ASSUME NEW a, NEW b, NEW n, Longer(a, b, n), NEW x
  PROVE  Times(b, x) = Times(a, x) + (IF b[n + 1] = x THEN 1 ELSE 0)
<1>1. /\ a \in Seq(Nat) /\ b \in Seq(Nat) /\ n \in Nat
      /\ DOMAIN a = 1 .. n /\ DOMAIN b = 1 .. n + 1 /\ \A i \in 1 .. n : b[i] = a[i]
  BY DEF Longer
<1> DEFINE I == {i \in DOMAIN a : a[i] = x}
           J == {i \in DOMAIN b : b[i] = x}
<1>2. IsFiniteSet(I) /\ Cardinality(I) = Times(a, x) /\ Times(a, x) \in Nat
  BY <1>1, TimesCount DEF Times
<1>3. Cardinality(J) = Times(b, x)
  BY DEF Times
<1>4. n + 1 \notin I
  BY <1>1
<1>5. \A i \in 1 .. n + 1 : i # n + 1 => i \in 1 .. n
  BY <1>1
<1>6. \A i \in 1 .. n : i \in 1 .. n + 1
  BY <1>1
<1>7. n + 1 \in 1 .. n + 1
  BY <1>1
<1>8. CASE b[n + 1] = x
  <2>1. J = I \cup {n + 1}
    <3>1. ASSUME NEW i \in J PROVE i \in I \cup {n + 1}
      BY <1>1, <1>5
    <3>2. ASSUME NEW i \in I PROVE i \in J
      BY <1>1, <1>6
    <3>3. n + 1 \in J
      BY <1>1, <1>7, <1>8
    <3> HIDE DEF I, J
    <3> QED BY <3>1, <3>2, <3>3
  <2>2. Cardinality(I \cup {n + 1}) = Cardinality(I) + 1
    <3> HIDE DEF I
    <3> QED BY <1>2, <1>4, FS_AddElement
  <2> QED BY <1>2, <1>3, <1>8, <2>1, <2>2
<1>9. CASE b[n + 1] # x
  <2>1. J = I
    <3>1. ASSUME NEW i \in J PROVE i \in I
      BY <1>1, <1>5, <1>9
    <3>2. ASSUME NEW i \in I PROVE i \in J
      BY <1>1, <1>6
    <3> HIDE DEF I, J
    <3> QED BY <3>1, <3>2
  <2>2. Times(b, x) = Times(a, x)
    <3> HIDE DEF I, J
    <3> QED BY <1>2, <1>3, <2>1
  <2> QED BY <1>2, <1>9, <2>2
<1> QED BY <1>8, <1>9

\* The objects are locked as often as they are accessed.
Counted(c, a) ==
  /\ a \in Seq(Nat) /\ \A i \in DOMAIN a : a[i] \in Cached(c)
  /\ \A x \in Cached(c) : Locks(c, x) = Times(a, x)

\* Of more objects behind the virtual first one than there are accesses, one is not
\* locked.
LEMMA UnlockedBehind ==
  ASSUME NEW c, NEW s, NEW n, NEW h, Chained(c, s, n, h), NEW a, Counted(c, a), Len(a) < n - h
  PROVE  \E k \in h + 1 .. n : ~IsLocked(c, s[k])
<1>1. /\ n \in Nat /\ h \in Nat /\ s \in [1 .. n -> Cached(c)]
      /\ \A i, j \in 1 .. n : s[i] = s[j] => i = j
  BY DEF Chained, ChainOn, IsInjective
<1>2. a \in Seq(Nat) /\ Len(a) \in Nat /\ DOMAIN a = 1 .. Len(a)
  BY LenProperties DEF Counted
<1>3. SUFFICES ASSUME \A k \in h + 1 .. n : IsLocked(c, s[k]) PROVE FALSE
  OBVIOUS
<1>4. \A k \in h + 1 .. n : k \in 1 .. n
  BY <1>1
<1>5. \A k \in h + 1 .. n : \E i \in 1 .. Len(a) : a[i] = s[k]
  <2>1. ASSUME NEW k \in h + 1 .. n PROVE \E i \in 1 .. Len(a) : a[i] = s[k]
    <3>1. s[k] \in Cached(c)
      BY <1>1, <1>4
    <3>2. Locks(c, s[k]) = Times(a, s[k]) /\ Locks(c, s[k]) > 0
      BY <1>3, <3>1 DEF Counted, IsLocked, Locks
    <3>3. Times(a, s[k]) # 0
      BY <3>2
    <3> QED BY <1>2, <3>3, TimesCount
  <2> QED BY <2>1
<1> DEFINE f == [k \in h + 1 .. n |-> CHOOSE i \in 1 .. Len(a) : a[i] = s[k]]
<1>6. \A k \in h + 1 .. n : f[k] \in 1 .. Len(a) /\ a[f[k]] = s[k]
  BY <1>5
<1>7. f \in [h + 1 .. n -> 1 .. Len(a)]
  BY <1>6
<1>8. /\ IsFiniteSet(h + 1 .. n) /\ IsFiniteSet(1 .. Len(a))
      /\ Cardinality(1 .. Len(a)) < Cardinality(h + 1 .. n)
  <2>1. /\ IsFiniteSet(h + 1 .. n)
        /\ Cardinality(h + 1 .. n) = IF h + 1 > n THEN 0 ELSE n - (h + 1) + 1
    BY <1>1, FS_Interval
  <2>2. /\ IsFiniteSet(1 .. Len(a))
        /\ Cardinality(1 .. Len(a)) = IF 1 > Len(a) THEN 0 ELSE Len(a) - 1 + 1
    BY <1>2, FS_Interval
  <2> QED BY <1>1, <1>2, <2>1, <2>2
<1>9. \E x, y \in h + 1 .. n : x # y /\ f[x] = f[y]
  <2> HIDE DEF f
  <2> QED BY <1>7, <1>8, FS_PigeonHole
<1>10. PICK x \in h + 1 .. n, y \in h + 1 .. n : x # y /\ f[x] = f[y]
  BY <1>9
<1>11. s[x] = s[y]
  BY <1>6, <1>10
<1> QED BY <1>1, <1>4, <1>10, <1>11

\* A cache that is full has an unlocked object behind the virtual first one, while
\* no more objects than that are accessed.
LEMMA PlaceBehind ==
  ASSUME NEW c \in Caches(Owners), NEW s, NEW n, NEW h, Chained(c, s, n, h), FreeSound(c),
         NEW a, Counted(c, a), Len(a) < c.nCurMax - h
  PROVE  CanInsert(c, s, n, h) /\ ~Overflows(c)
<1>1. n \in Nat /\ h \in Nat /\ s \in [1 .. n -> Cached(c)] /\ ChainOn(c, s, n, Cached(c))
  <2>1. ChainOn(c, s, n, Cached(c)) /\ h \in 1 .. n + 1
    BY DEF Chained
  <2>2. n \in Nat /\ s \in [1 .. n -> Cached(c)]
    BY <2>1 DEF ChainOn
  <2> QED BY <2>1, <2>2
<1>2. CASE HasSpace(c) \/ c.aFreePositions # <<>>
  BY <1>2 DEF CanInsert, Overflows
<1>3. CASE ~HasSpace(c) /\ c.aFreePositions = <<>>
  <2>1. c.m_aCacheObjects \in Seq(Objects(Owners) \cup {None}) /\ c.nCurMax \in Nat
    BY DEF Caches
  <2>2. PICK l : l = Len(c.m_aCacheObjects)
    OBVIOUS
  <2>3. l \in Nat /\ DOMAIN c.m_aCacheObjects = 1 .. l /\ c.nCurMax <= l
    BY <1>3, <2>1, <2>2, LenProperties DEF HasSpace
  <2>4. Cached(c) = 1 .. l
    <3>1. ToSet(c.aFreePositions) = {}
      BY <1>3 DEF ToSet
    <3> QED BY <2>3, <3>1 DEF FreeSound, Cached
  <2>5. n = l
    <3>1. Cardinality(Cached(c)) = n
      BY <1>1, ChainLength
    <3>2. Cardinality(1 .. l) = IF 1 > l THEN 0 ELSE l - 1 + 1
      BY <2>3, FS_Interval
    <3> QED BY <2>3, <2>4, <3>1, <3>2
  <2>6. Len(a) \in Nat
    BY LenProperties DEF Counted
  <2>7. Len(a) < n - h
    BY <1>1, <2>1, <2>3, <2>5, <2>6
  <2>8. PICK j \in h + 1 .. n : ~IsLocked(c, s[j])
    BY <2>7, UnlockedBehind
  <2>9. j \in 1 .. n /\ j \in Nat
    BY <1>1
  <2>10. PICK k \in j .. n : LastUnlocked(c) = s[k] /\ ~IsLocked(c, s[k])
    BY <1>1, <2>8, <2>9, LastUnlockedIs
  <2>11. k \in h + 1 .. n /\ k \in 1 .. n
    BY <1>1, <2>8, <2>10
  <2>12. LastUnlocked(c) # None
    <3>1. s[k] \in Cached(c)
      BY <1>1, <2>11
    <3> QED BY <2>10, <3>1, CachedObject
  <2> QED BY <2>10, <2>11, <2>12 DEF CanInsert, Overflows
<1> QED BY <1>2, <1>3

-----------------------------------------------------------------------------
(* The cache, when no access is open to it or some are.                     *)

\* Its limit, while l layout actions are running; nothing is taken from the LRU order
\* if there is none, and never so much that less than nTail is left.
SoundCache(c, l, k) ==
  /\ c \in Caches(Owners) /\ FreeSound(c)
  /\ \E v \in Nat : c.nCurMax = nInitSize + v * nAdd
  /\ c.nCurMax <= nLimit + nAdd /\ Len(c.m_aCacheObjects) <= nLimit + nAdd
  /\ k = "border" => c.nCurMax = nInitSize /\ l = 0
  /\ k = "text" => c.aFreePositions = <<>>
  /\ \E s, n, h : Chained(c, s, n, h) /\ h - 1 <= c.nCurMax - nTail /\ (l = 0 => h = 1)

SameOwners(c, d) == Cached(d) = Cached(c) /\ \A y \in Cached(c) : Owner(d, y) = Owner(c, y)

KeepsHead(c, d) == \A w \in HeadOf(c) : w[1] \in Cached(d) /\ Owner(d, w[1]) = w[2]

\* The limit is never lower than it was at first.
LEMMA SizeFacts ==
  ASSUME NEW c, NEW l, NEW k, SoundCache(c, l, k)
  PROVE  /\ c.nCurMax \in Nat /\ nInitSize \in Nat /\ nInitSize > 0 /\ nAdd \in Nat /\ nLimit \in Nat
         /\ nTail \in Nat /\ nTail <= nInitSize /\ nInitSize <= c.nCurMax /\ nInitSize <= nLimit
<1>1. PICK v \in Nat : c.nCurMax = nInitSize + v * nAdd
  BY DEF SoundCache
<1>2. nInitSize \in Nat /\ nAdd \in Nat /\ nLimit \in Nat /\ nInitSize > 0 /\ nInitSize <= nLimit
      /\ nTail \in Nat /\ nTail <= nInitSize
  BY SizesAssumption
<1>3. v * nAdd \in Nat
  BY <1>2
<1> QED BY <1>1, <1>2, <1>3

\* Caches with the same positions are equally long.
LEMMA SameLength ==
  ASSUME NEW c \in Caches(Owners), NEW d \in Caches(Owners),
         DOMAIN d.m_aCacheObjects = DOMAIN c.m_aCacheObjects
  PROVE  Len(d.m_aCacheObjects) = Len(c.m_aCacheObjects)
<1>1. /\ d.m_aCacheObjects \in Seq(Objects(Owners) \cup {None})
      /\ c.m_aCacheObjects \in Seq(Objects(Owners) \cup {None})
  BY DEF Caches
<1>2. 1 .. Len(d.m_aCacheObjects) = 1 .. Len(c.m_aCacheObjects)
  BY <1>1, LenProperties
<1> QED BY <1>1, <1>2, LenProperties

\* The objects that HeadOf tells.
LEMMA HeadIs ==
  ASSUME NEW c, NEW s, NEW n, NEW h, Chained(c, s, n, h), NEW w \in HeadOf(c)
  PROVE  \E i \in 1 .. n : i < h /\ w[1] = s[i] /\ w[2] = Owner(c, s[i]) /\ s[i] \in Cached(c)
<1>1. /\ n \in Nat /\ s \in [1 .. n -> Cached(c)] /\ ChainOn(c, s, n, Cached(c))
      /\ \A i, j \in 1 .. n : s[i] = s[j] => i = j
  BY DEF Chained, ChainOn, IsInjective
<1>2. Chain(c) = s /\ DOMAIN s = 1 .. n
  BY <1>1, ChainIsOrder
<1>3. PICK i \in 1 .. n : /\ w = <<s[i], Owner(c, s[i])>>
                          /\ \E k \in 1 .. n : i < k /\ s[k] = c.pFirst
  BY <1>2 DEF HeadOf
<1>4. PICK k \in 1 .. n : i < k /\ s[k] = c.pFirst
  BY <1>3
<1>5. n > 0
  BY <1>1
<1>6. h \in 1 .. n /\ c.pFirst = s[h]
  BY <1>1, <1>5 DEF Chained
<1>7. k = h
  BY <1>1, <1>4, <1>6
<1>8. s[i] \in Cached(c)
  BY <1>1
<1> QED BY <1>3, <1>4, <1>7, <1>8

\* They stay if all objects do.
LEMMA HeadStays ==
  ASSUME NEW c, NEW d, SameOwners(c, d), NEW s, NEW n, NEW h, Chained(c, s, n, h)
  PROVE  KeepsHead(c, d)
<1>1. ASSUME NEW w \in HeadOf(c) PROVE w[1] \in Cached(d) /\ Owner(d, w[1]) = w[2]
  <2>1. PICK i \in 1 .. n : w[1] = s[i] /\ w[2] = Owner(c, s[i]) /\ s[i] \in Cached(c)
    BY HeadIs
  <2> QED BY <2>1 DEF SameOwners
<1> QED BY <1>1 DEF KeepsHead

Appended(a, x, b) ==
  \E n \in Nat : /\ b \in Seq(Nat) /\ DOMAIN a = 1 .. n /\ DOMAIN b = 1 .. n + 1
                 /\ b[n + 1] = x /\ \A i \in 1 .. n : b[i] = a[i]
                 /\ \A y : Times(b, y) = Times(a, y) + (IF x = y THEN 1 ELSE 0)

\* Append adds the object to the accesses.
LEMMA AppendTimes ==
  ASSUME NEW a \in Seq(Nat), NEW x \in Nat, NEW b, b = Append(a, x)
  PROVE  Appended(a, x, b)
<1>1. PICK n : n = Len(a)
  OBVIOUS
<1>2. n \in Nat /\ DOMAIN a = 1 .. n
  BY <1>1, LenProperties
<1>3. PICK e : e = b
  OBVIOUS
<1>4. /\ e \in Seq(Nat) /\ e[n + 1] = x /\ \A i \in 1 .. n : e[i] = a[i]
      /\ DOMAIN e = 1 .. n + 1
  BY <1>1, <1>2, <1>3, AppendProperties, LenProperties
<1>5. \A y : Times(e, y) = Times(a, y) + (IF e[n + 1] = y THEN 1 ELSE 0)
  <2>1. Longer(a, e, n)
    BY <1>2, <1>4 DEF Longer
  <2> QED BY <2>1, TimesAppended
<1> QED BY <1>2, <1>3, <1>4, <1>5 DEF Appended

\* One that an access locks.
LEMMA LockSound ==
  ASSUME NEW c, NEW l, NEW k, SoundCache(c, l, k), NEW a, Counted(c, a), NEW x \in Cached(c),
         NEW d, d = Lock(c, x), NEW b, b = Append(a, x)
  PROVE  SoundCache(d, l, k) /\ Counted(d, b) /\ SameOwners(c, d)
<1>1. PICK v : v = Locks(c, x) + 1
  OBVIOUS
<1>2. c \in Caches(Owners)
  BY DEF SoundCache
<1>3. x \in Nat /\ Locks(c, x) \in Nat /\ v \in Nat
  BY <1>1, <1>2, CachedObject
<1>4. d = WithLocks(c, x, v)
  BY <1>1 DEF Lock, WithLocks, Locks
<1>5. /\ d \in Caches(Owners) /\ Cached(d) = Cached(c) /\ SameEnds(c, d)
      /\ DOMAIN d.m_aCacheObjects = DOMAIN c.m_aCacheObjects
      /\ d.aFreePositions = c.aFreePositions /\ d.nCurMax = c.nCurMax
      /\ \A y \in Cached(c) : /\ Owner(d, y) = Owner(c, y)
                              /\ Locks(d, y) = IF y = x THEN v ELSE Locks(c, y)
      /\ \A s, n, h : Chained(c, s, n, h) => Chained(d, s, n, h)
  BY <1>2, <1>3, <1>4, LocksSet, Zenon
<1>6. SoundCache(d, l, k)
  <2>1. Len(d.m_aCacheObjects) = Len(c.m_aCacheObjects)
    BY <1>2, <1>5, SameLength
  <2>2. FreeSound(d)
    BY <1>5 DEF FreeSound, SoundCache
  <2> QED BY <1>5, <2>1, <2>2 DEF SoundCache
<1>7. Counted(d, b)
  <2>1. a \in Seq(Nat)
    BY DEF Counted
  <2>2. PICK n \in Nat : /\ b \in Seq(Nat) /\ DOMAIN a = 1 .. n /\ DOMAIN b = 1 .. n + 1
                         /\ b[n + 1] = x /\ \A i \in 1 .. n : b[i] = a[i]
                         /\ \A y : Times(b, y) = Times(a, y) + (IF x = y THEN 1 ELSE 0)
    <3>1. x \in Nat
      BY <1>3
    <3>2. Appended(a, x, b)
      BY <2>1, <3>1, AppendTimes
    <3> QED BY <3>2 DEF Appended
  <2>3. \A i \in 1 .. n + 1 : i # n + 1 => i \in 1 .. n
    OBVIOUS
  <2>4. \A i \in 1 .. n + 1 : b[i] \in Cached(d)
    BY <1>5, <2>2, <2>3 DEF Counted
  <2>5. ASSUME NEW y \in Cached(d) PROVE Locks(d, y) = Times(b, y)
    <3>1. y \in Cached(c) /\ Locks(c, y) = Times(a, y)
      BY <1>5 DEF Counted
    <3>2. Times(a, y) \in Nat
      BY <2>1, TimesCount
    <3>3. Times(b, y) = Times(a, y) + (IF x = y THEN 1 ELSE 0)
      BY <2>2
    <3> QED BY <1>1, <1>5, <3>1, <3>2, <3>3
  <2> QED BY <2>2, <2>4, <2>5 DEF Counted
<1> QED BY <1>5, <1>6, <1>7 DEF SameOwners

\* One that an access does not lock any more.
LEMMA UnlockSound ==
  ASSUME NEW c, NEW l, NEW k, SoundCache(c, l, k), NEW a, Counted(c, a), a # <<>>,
         NEW d, d = Unlock(c, Last(a)), NEW b, b = Front(a)
  PROVE  /\ SoundCache(d, l, k) /\ Counted(d, b) /\ SameOwners(c, d)
         /\ Len(b) <= Len(a) /\ \A i \in DOMAIN b : i \in DOMAIN a /\ b[i] = a[i]
<1>1. PICK x : x = Last(a)
  OBVIOUS
<1>2. c \in Caches(Owners) /\ a \in Seq(Nat)
  BY DEF SoundCache, Counted
<1>3. PICK n \in Nat : /\ n + 1 = Len(a) /\ Last(a) = a[n + 1] /\ DOMAIN a = 1 .. n + 1
                       /\ b \in Seq(Nat) /\ Len(b) = n /\ DOMAIN b = 1 .. n
                       /\ \A i \in 1 .. n : b[i] = a[i]
  BY <1>2, FrontIs
<1>4. n + 1 \in 1 .. n + 1 /\ \A i \in 1 .. n : i \in 1 .. n + 1
  OBVIOUS
<1>5. x \in Cached(c)
  BY <1>1, <1>3, <1>4 DEF Counted
<1>6. \A y : Times(a, y) = Times(b, y) + (IF x = y THEN 1 ELSE 0) /\ Times(b, y) \in Nat
  <2>1. ASSUME NEW y
        PROVE  Times(a, y) = Times(b, y) + (IF x = y THEN 1 ELSE 0) /\ Times(b, y) \in Nat
    <3>1. Longer(b, a, n)
      BY <1>2, <1>3 DEF Longer
    <3>2. Times(a, y) = Times(b, y) + (IF a[n + 1] = y THEN 1 ELSE 0)
      BY <3>1, TimesAppended
    <3>3. Times(b, y) \in Nat
      BY <1>3, TimesCount
    <3> QED BY <1>1, <1>3, <3>2, <3>3
  <2> QED BY <2>1
<1>7. PICK v : v = Locks(c, x) - 1
  OBVIOUS
<1>8. v \in Nat /\ v = Times(b, x)
  <2>1. Locks(c, x) = Times(a, x)
    BY <1>5 DEF Counted
  <2> QED BY <1>6, <1>7, <2>1
<1>9. d = WithLocks(c, x, v)
  BY <1>1, <1>7 DEF Unlock, WithLocks, Locks
<1>10. /\ d \in Caches(Owners) /\ Cached(d) = Cached(c) /\ SameEnds(c, d)
       /\ DOMAIN d.m_aCacheObjects = DOMAIN c.m_aCacheObjects
       /\ d.aFreePositions = c.aFreePositions /\ d.nCurMax = c.nCurMax
       /\ \A y \in Cached(c) : /\ Owner(d, y) = Owner(c, y)
                               /\ Locks(d, y) = IF y = x THEN v ELSE Locks(c, y)
       /\ \A s, m, h : Chained(c, s, m, h) => Chained(d, s, m, h)
  <2>1. c \in Caches(Owners) /\ v \in Nat
    BY <1>2, <1>8
  <2> QED BY <1>5, <1>9, <2>1, LocksSet, Zenon
<1>11. SoundCache(d, l, k)
  <2>1. Len(d.m_aCacheObjects) = Len(c.m_aCacheObjects)
    BY <1>2, <1>10, SameLength
  <2>2. FreeSound(d)
    BY <1>10 DEF FreeSound, SoundCache
  <2> QED BY <1>10, <2>1, <2>2 DEF SoundCache
<1>12. Counted(d, b)
  <2>1. \A i \in 1 .. n : b[i] \in Cached(d)
    BY <1>3, <1>4, <1>10 DEF Counted
  <2>2. ASSUME NEW y \in Cached(d) PROVE Locks(d, y) = Times(b, y)
    <3>1. y \in Cached(c) /\ Locks(c, y) = Times(a, y)
      BY <1>10 DEF Counted
    <3> QED BY <1>6, <1>8, <1>10, <3>1
  <2> QED BY <1>3, <2>1, <2>2 DEF Counted
<1>13. Len(b) <= Len(a) /\ \A i \in DOMAIN b : i \in DOMAIN a /\ b[i] = a[i]
  BY <1>3, <1>4
<1> QED BY <1>10, <1>11, <1>12, <1>13 DEF SameOwners

\* What changes the order of the objects only.
LEMMA KeepsSound ==
  ASSUME NEW c, NEW l, NEW k, SoundCache(c, l, k), NEW d, Keeps(c, d), NEW m,
         NEW t, NEW n, NEW g, Chained(d, t, n, g), g - 1 <= c.nCurMax - nTail, m = 0 => g = 1,
         k = "border" => m = 0
  PROVE  SoundCache(d, m, k) /\ SameOwners(c, d) /\ \A a : Counted(c, a) => Counted(d, a)
<1>1. /\ d \in Caches(Owners) /\ Cached(d) = Cached(c)
      /\ DOMAIN d.m_aCacheObjects = DOMAIN c.m_aCacheObjects
      /\ d.aFreePositions = c.aFreePositions /\ d.nCurMax = c.nCurMax
      /\ \A x \in Cached(c) : Owner(d, x) = Owner(c, x) /\ Locks(d, x) = Locks(c, x)
  BY DEF Keeps
<1>2. c \in Caches(Owners)
  BY DEF SoundCache
<1>3. Len(d.m_aCacheObjects) = Len(c.m_aCacheObjects)
  BY <1>1, <1>2, SameLength
<1>4. FreeSound(d)
  BY <1>1 DEF FreeSound, SoundCache
<1>5. SoundCache(d, m, k)
  BY <1>1, <1>3, <1>4 DEF SoundCache
<1> QED BY <1>1, <1>5 DEF SameOwners, Counted

\* Get.
LEMMA UsedSound ==
  ASSUME NEW c, NEW l, NEW k, SoundCache(c, l, k), NEW x \in Cached(c), NEW d, d = Used(c, x)
  PROVE  SoundCache(d, l, k) /\ SameOwners(c, d) /\ \A a : Counted(c, a) => Counted(d, a)
<1>1. PICK s, n, h : Chained(c, s, n, h) /\ h - 1 <= c.nCurMax - nTail /\ (l = 0 => h = 1)
  BY DEF SoundCache
<1>2. c \in Caches(Owners) /\ (k = "border" => l = 0)
  BY DEF SoundCache
<1>3. Keeps(c, d) /\ \E t, g : Chained(d, t, n, g) /\ g <= h
  BY <1>1, <1>2, UsedChains
<1>4. PICK t, g : Chained(d, t, n, g) /\ g <= h
  BY <1>3
<1>5. n \in Nat /\ h \in 1 .. n + 1 /\ g \in 1 .. n + 1
  BY <1>1, <1>4 DEF Chained, ChainOn
<1>6. c.nCurMax \in Nat /\ nTail \in Nat
  BY SizeFacts
<1>7. g - 1 <= c.nCurMax - nTail /\ (l = 0 => g = 1)
  BY <1>1, <1>4, <1>5, <1>6
<1> QED BY <1>2, <1>3, <1>4, <1>7, KeepsSound

\* No more accesses are open than there are let.
Nested(a, k) ==
  (k = "text" => Len(a) <= MaxLines) /\ (k = "border" => Len(a) <= MaxBorders - 1)

\* The tail that is left to the LRU order is longer than they are.
LEMMA NestedFits ==
  ASSUME NEW c, NEW l, NEW k \in {"text", "border"}, SoundCache(c, l, k), NEW a, Counted(c, a),
         Nested(a, k), NEW s, NEW n, NEW h, Chained(c, s, n, h),
         h - 1 <= c.nCurMax - nTail, l = 0 => h = 1
  PROVE  CanInsert(c, s, n, h) /\ ~Overflows(c)
<1>1. /\ c \in Caches(Owners) /\ FreeSound(c)
      /\ (k = "border" => c.nCurMax = nInitSize /\ l = 0)
  BY DEF SoundCache
<1>2. n \in Nat /\ h \in 1 .. n + 1
  BY DEF Chained, ChainOn
<1>3. a \in Seq(Nat) /\ Len(a) \in Nat
  BY LenProperties DEF Counted
<1>4. Len(a) < c.nCurMax - h
  <2>1. c.nCurMax \in Nat /\ nTail \in Nat /\ nInitSize \in Nat /\ h \in Nat
    BY <1>2, SizeFacts
  <2>2. CASE k = "text"
    <3>1. Len(a) <= MaxLines /\ MaxLines \in Int /\ MaxLines <= nTail - 2
      BY <2>1, <2>2, NestingAssumption DEF Nested
    <3> QED BY <1>3, <2>1, <3>1
  <2>3. CASE k = "border"
    <3>1. Len(a) <= MaxBorders - 1 /\ MaxBorders \in Int /\ MaxBorders <= nInitSize - 1
      BY <2>1, <2>3, NestingAssumption DEF Nested
    <3>2. h = 1 /\ c.nCurMax = nInitSize
      BY <1>1, <2>3
    <3> QED BY <1>3, <2>1, <3>1, <3>2
  <2> QED BY <2>2, <2>3
<1> QED BY <1>1, <1>4, PlaceBehind

\* Insert finds room, and takes neither an object that is accessed nor one in front of
\* the virtual first one.
LEMMA InsertSound ==
  ASSUME NEW c, NEW l, NEW k \in {"text", "border"}, SoundCache(c, l, k), NEW a, Counted(c, a),
         Nested(a, k), NEW o \in Owners, NEW d, d = Insert(c, o), NEW x, x = NewPos(c)
  PROVE  /\ ~Overflows(c) /\ SoundCache(d, l, k) /\ Counted(d, a) /\ Inserted(c, d, x, o)
         /\ (\A i \in DOMAIN a : a[i] # x) /\ KeepsHead(c, d)
<1>1. PICK s, n, h : Chained(c, s, n, h) /\ h - 1 <= c.nCurMax - nTail /\ (l = 0 => h = 1)
  BY DEF SoundCache
<1>2. /\ c \in Caches(Owners) /\ FreeSound(c) /\ c.nCurMax <= nLimit + nAdd
      /\ Len(c.m_aCacheObjects) <= nLimit + nAdd
      /\ (k = "border" => c.nCurMax = nInitSize /\ l = 0)
      /\ (k = "text" => c.aFreePositions = <<>>)
  BY DEF SoundCache
<1>3. /\ n \in Nat /\ h \in 1 .. n + 1 /\ s \in [1 .. n -> Cached(c)]
      /\ \A i, j \in 1 .. n : s[i] = s[j] => i = j
  BY <1>1 DEF Chained, ChainOn, IsInjective
<1>4. a \in Seq(Nat) /\ Len(a) \in Nat /\ DOMAIN a = 1 .. Len(a)
  BY LenProperties DEF Counted
<1>5. CanInsert(c, s, n, h) /\ ~Overflows(c)
  BY <1>1, NestedFits
<1>6. /\ Inserted(c, d, x, o) /\ \E t, m : Chained(d, t, m, h)
      /\ x \in Cached(c) => ~IsLocked(c, x) /\ \E j \in h + 1 .. n : x = s[j]
  BY <1>1, <1>2, <1>5, InsertChains
<1>7. /\ d \in Caches(Owners) /\ x \in Nat /\ Cached(d) = Cached(c) \cup {x}
      /\ Owner(d, x) = o /\ Locks(d, x) = 0
      /\ \A y \in Cached(c) : y # x => Owner(d, y) = Owner(c, y) /\ Locks(d, y) = Locks(c, y)
      /\ d.nCurMax = c.nCurMax /\ FreeSound(d)
      /\ (c.aFreePositions = <<>> => d.aFreePositions = <<>>)
      /\ Len(d.m_aCacheObjects) = Len(c.m_aCacheObjects) + (IF HasSpace(c) THEN 1 ELSE 0)
  BY <1>6 DEF Inserted
<1>8. Len(d.m_aCacheObjects) <= nLimit + nAdd
  <2>1. /\ Len(c.m_aCacheObjects) \in Nat /\ c.nCurMax \in Nat
        /\ nLimit \in Nat /\ nAdd \in Nat
    BY <1>2, SizeFacts, LenProperties DEF Caches
  <2>2. CASE HasSpace(c)
    BY <1>2, <1>7, <2>1, <2>2 DEF HasSpace
  <2>3. CASE ~HasSpace(c)
    BY <1>2, <1>7, <2>1, <2>3
  <2> QED BY <2>2, <2>3
<1>9. SoundCache(d, l, k)
  BY <1>1, <1>2, <1>6, <1>7, <1>8 DEF SoundCache
<1>10. Times(a, x) = 0
  <2>1. CASE x \in Cached(c)
    <3>1. Locks(c, x) = Times(a, x) /\ Times(a, x) \in Nat
      BY <1>4, <2>1, TimesCount DEF Counted
    <3>2. ~(Locks(c, x) > 0)
      BY <1>6, <2>1 DEF IsLocked, Locks
    <3> QED BY <3>1, <3>2
  <2>2. CASE x \notin Cached(c)
    <3>1. \A i \in DOMAIN a : a[i] # x
      BY <2>2 DEF Counted
    <3> QED BY <1>4, <3>1, TimesCount
  <2> QED BY <2>1, <2>2
<1>11. \A i \in DOMAIN a : a[i] # x
  BY <1>4, <1>10, TimesCount
<1>12. Counted(d, a)
  <2>1. \A i \in DOMAIN a : a[i] \in Cached(d)
    BY <1>7 DEF Counted
  <2>2. \A y \in Cached(d) : Locks(d, y) = Times(a, y)
    BY <1>7, <1>10 DEF Counted
  <2> QED BY <1>4, <2>1, <2>2 DEF Counted
<1>13. KeepsHead(c, d)
  <2>1. ASSUME NEW w \in HeadOf(c) PROVE w[1] \in Cached(d) /\ Owner(d, w[1]) = w[2]
    <3>1. PICK i \in 1 .. n : /\ i < h /\ w[1] = s[i] /\ w[2] = Owner(c, s[i])
                              /\ s[i] \in Cached(c)
      BY <1>1, HeadIs
    <3>2. s[i] # x
      <4>1. SUFFICES ASSUME s[i] = x PROVE FALSE
        OBVIOUS
      <4>2. PICK j \in h + 1 .. n : x = s[j]
        BY <1>6, <3>1, <4>1
      <4>3. j \in 1 .. n /\ i # j
        BY <1>3, <3>1
      <4> QED BY <1>3, <4>1, <4>2, <4>3
    <3> QED BY <1>7, <3>1, <3>2
  <2> QED BY <2>1 DEF KeepsHead
<1> QED BY <1>5, <1>6, <1>9, <1>11, <1>12, <1>13

\* Delete of the object x of o, which nobody accesses.
LEMMA DeleteSound ==
  ASSUME NEW c, SoundCache(c, 0, "border"), NEW a, Counted(c, a), NEW o,
         \A i \in DOMAIN a : Owner(c, a[i]) # o,
         \E x \in Cached(c) : Owner(c, x) = o, NEW d, d = Delete(c, o)
  PROVE  \E x \in Cached(c) :
           /\ Owner(c, x) = o /\ Deleted(c, d, x)
           /\ SoundCache(d, 0, "border") /\ Counted(d, a) /\ KeepsHead(c, d)
<1>1. PICK s, n, h : Chained(c, s, n, h) /\ h = 1
  BY DEF SoundCache
<1>2. c \in Caches(Owners) /\ FreeSound(c) /\ ChainOn(c, s, n, Cached(c)) /\ n \in Nat
  BY <1>1 DEF SoundCache, Chained, ChainOn
<1>3. PICK x : x = Seek(c, o)
  OBVIOUS
<1>4. x \in Cached(c) /\ Owner(c, x) = o
  BY <1>2, <1>3, SeekFinds
<1>5. x # None
  BY <1>2, <1>4, CachedObject
<1>6. d = DeleteObj(c, x)
  BY <1>3, <1>5 DEF Delete
<1>7. a \in Seq(Nat)
  BY DEF Counted
<1>8. \A i \in DOMAIN a : a[i] # x
  BY <1>4
<1>9. Times(a, x) = 0
  BY <1>7, <1>8, TimesCount
<1>10. ~IsLocked(c, x)
  <2>1. Locks(c, x) = 0
    BY <1>4, <1>9 DEF Counted
  <2> QED BY <2>1 DEF IsLocked, Locks
<1>11. Deleted(c, d, x) /\ \E t : Chained(d, t, n - 1, 1)
  BY <1>1, <1>2, <1>4, <1>6, <1>10, DeleteObjChains
<1>12. /\ d \in Caches(Owners) /\ Cached(d) = Cached(c) \ {x}
       /\ \A y \in Cached(c) : y # x => Owner(d, y) = Owner(c, y) /\ Locks(d, y) = Locks(c, y)
       /\ d.nCurMax = c.nCurMax /\ FreeSound(d) /\ Len(d.m_aCacheObjects) = Len(c.m_aCacheObjects)
  BY <1>11 DEF Deleted
<1>13. SoundCache(d, 0, "border")
  <2>1. /\ \E v \in Nat : c.nCurMax = nInitSize + v * nAdd
        /\ c.nCurMax <= nLimit + nAdd /\ Len(c.m_aCacheObjects) <= nLimit + nAdd
        /\ c.nCurMax = nInitSize
    BY DEF SoundCache
  <2>2. PICK t : Chained(d, t, n - 1, 1)
    BY <1>11
  <2>3. 1 - 1 <= d.nCurMax - nTail
    BY <1>12, SizeFacts
  <2>4. "border" # "text"
    OBVIOUS
  <2>5. \E p, m, g : Chained(d, p, m, g) /\ g - 1 <= d.nCurMax - nTail /\ (0 = 0 => g = 1)
    BY <2>2, <2>3
  <2> QED BY <1>12, <2>1, <2>4, <2>5 DEF SoundCache
<1>14. Counted(d, a)
  <2>1. \A i \in DOMAIN a : a[i] \in Cached(d)
    BY <1>8, <1>12 DEF Counted
  <2>2. \A y \in Cached(d) : Locks(d, y) = Times(a, y)
    BY <1>12 DEF Counted
  <2> QED BY <1>7, <2>1, <2>2 DEF Counted
<1>15. KeepsHead(c, d)
  <2>1. ASSUME NEW w \in HeadOf(c) PROVE FALSE
    <3>1. PICK i \in 1 .. n : i < h /\ w[1] = s[i]
      BY <1>1, HeadIs
    <3>2. i >= 1 /\ i \in Nat
      BY <1>2
    <3> QED BY <1>1, <3>1, <3>2
  <2> QED BY <2>1 DEF KeepsHead
<1> QED BY <1>4, <1>11, <1>13, <1>14, <1>15

\* SetLRUOfst leaves nTail objects to the LRU order.
LEMMA LayoutBegins ==
  ASSUME NEW c, NEW l \in Nat, NEW k, SoundCache(c, l, k), k # "border",
         NEW d, d = SetLRUOfst(c, c.nCurMax - nTail)
  PROVE  SoundCache(d, l + 1, k) /\ SameOwners(c, d) /\ \A a : Counted(c, a) => Counted(d, a)
<1>1. PICK s, n, h : Chained(c, s, n, h) /\ h - 1 <= c.nCurMax - nTail
  BY DEF SoundCache
<1>2. c \in Caches(Owners)
  BY DEF SoundCache
<1>3. PICK nOfst : nOfst = c.nCurMax - nTail
  OBVIOUS
<1>4. nOfst \in Nat
  BY <1>3, SizeFacts
<1>5. Keeps(c, d) /\ \E g : Chained(d, s, n, g) /\ (g - 1 <= nOfst \/ g = h)
  BY <1>1, <1>2, <1>3, <1>4, OfstChains
<1>6. PICK g : Chained(d, s, n, g) /\ (g - 1 <= nOfst \/ g = h)
  BY <1>5
<1>7. PICK m : m = l + 1
  OBVIOUS
<1>8. g - 1 <= c.nCurMax - nTail /\ (m = 0 => g = 1) /\ (k = "border" => m = 0)
  BY <1>1, <1>3, <1>6, <1>7
<1>9. SoundCache(d, m, k) /\ SameOwners(c, d) /\ \A a : Counted(c, a) => Counted(d, a)
  BY <1>5, <1>6, <1>8, KeepsSound
<1> QED BY <1>7, <1>9

\* ResetLRUOfst.
LEMMA LayoutEnds ==
  ASSUME NEW c, NEW l, NEW k, SoundCache(c, l, k), NEW m, k = "border" => m = 0,
         NEW d, d = ResetLRUOfst(c)
  PROVE  SoundCache(d, m, k) /\ SameOwners(c, d) /\ \A a : Counted(c, a) => Counted(d, a)
<1>1. PICK s, n, h : Chained(c, s, n, h)
  BY DEF SoundCache
<1>2. c \in Caches(Owners)
  BY DEF SoundCache
<1>3. Keeps(c, d) /\ Chained(d, s, n, 1)
  BY <1>1, <1>2, ResetChains
<1>4. 1 - 1 <= c.nCurMax - nTail
  BY SizeFacts
<1> QED BY <1>3, <1>4, KeepsSound

\* IncreaseMax and DecreaseMax between the layout actions.
LEMMA LimitSound ==
  ASSUME NEW c, SoundCache(c, 0, "text"), NEW v \in Nat, NEW m, m = nInitSize + v * nAdd,
         m <= nLimit + nAdd, NEW d, d = [c EXCEPT !.nCurMax = m]
  PROVE  SoundCache(d, 0, "text") /\ SameOwners(c, d) /\ \A a : Counted(c, a) => Counted(d, a)
<1>1. PICK s, n, h : Chained(c, s, n, h) /\ h = 1
  BY DEF SoundCache
<1>2. c \in Caches(Owners) /\ FreeSound(c) /\ Len(c.m_aCacheObjects) <= nLimit + nAdd
      /\ c.aFreePositions = <<>>
  BY DEF SoundCache
<1>3. nInitSize \in Nat /\ nAdd \in Nat /\ nTail \in Nat /\ nTail <= nInitSize
  BY SizeFacts
<1>4. v * nAdd \in Nat
  BY <1>3
<1>5. m \in Nat /\ nInitSize <= m
  BY <1>3, <1>4
<1>6. /\ d \in Caches(Owners) /\ d.nCurMax = m /\ d.m_aCacheObjects = c.m_aCacheObjects
      /\ d.aFreePositions = c.aFreePositions /\ Chained(d, s, n, h)
      /\ Cached(d) = Cached(c)
      /\ \A y \in Cached(c) : Owner(d, y) = Owner(c, y) /\ Locks(d, y) = Locks(c, y)
  BY <1>1, <1>2, <1>5, LimitChanged
<1>7. FreeSound(d)
  BY <1>2, <1>6 DEF FreeSound
<1>8. h - 1 <= d.nCurMax - nTail
  BY <1>1, <1>3, <1>5, <1>6
<1>9. "text" # "border"
  OBVIOUS
<1>10. SoundCache(d, 0, "text")
  BY <1>1, <1>2, <1>6, <1>7, <1>8, <1>9 DEF SoundCache
<1> QED BY <1>6, <1>10 DEF SameOwners, Counted

-----------------------------------------------------------------------------
(* Whose the objects are.                                                   *)

\* The objects that are not stale belong to owners that exist.
Owned(c, st, own) == \A x \in Cached(c) \ st : Owner(c, x) \in own

\* A frame remembers where its object is, and no other.
IndexSound(c, st, own, idx) ==
  /\ \A o \in own : \A x \in Cached(c) : Owner(c, x) = o => (x \notin st <=> x = idx[o])
  /\ \A o \in Frames \ own : idx[o] = None

\* A node or format remembers that it has one, and has one only.
BorderSound(c, st, own, in) ==
  /\ st = {}
  /\ \A x, y \in Cached(c) : Owner(c, x) = Owner(c, y) => x = y
  /\ \A o \in own : in[o] <=> \E x \in Cached(c) : Owner(c, x) = o
  /\ \A o \in Modifies \ own : ~in[o]

\* The inductive invariant.
IInv ==
  /\ kind \in {"text", "border"} /\ layouts \in 0 .. MaxLayouts
  /\ owners \subseteq (IF kind = "text" THEN Frames ELSE Modifies) /\ stale \subseteq Cached(cache)
  /\ nCacheIdx \in [Frames -> Nat \cup {None}] /\ bInCache \in [Modifies -> BOOLEAN]
  /\ SoundCache(cache, layouts, kind) /\ Counted(cache, accesses)
  /\ Len(accesses) <= IF kind = "text" THEN MaxLines ELSE MaxBorders
  /\ \A i \in DOMAIN accesses : accesses[i] \notin stale
  /\ Owned(cache, stale, owners)
  /\ kind = "text" => IndexSound(cache, stale, owners, nCacheIdx)
  /\ kind = "border" => BorderSound(cache, stale, owners, bInCache)

\* All that is said of the objects' owners stays true if these do.
LEMMA OwnersSame ==
  ASSUME NEW c, NEW d, SameOwners(c, d), NEW st, NEW own, NEW idx, NEW in
  PROVE  /\ Owned(c, st, own) => Owned(d, st, own)
         /\ IndexSound(c, st, own, idx) => IndexSound(d, st, own, idx)
         /\ BorderSound(c, st, own, in) => BorderSound(d, st, own, in)
<1>1. Cached(d) = Cached(c) /\ \A y \in Cached(c) : Owner(d, y) = Owner(c, y)
  BY DEF SameOwners
<1>2. Owned(c, st, own) => Owned(d, st, own)
  BY <1>1 DEF Owned
<1>3. IndexSound(c, st, own, idx) => IndexSound(d, st, own, idx)
  BY <1>1 DEF IndexSound
<1>4. BorderSound(c, st, own, in) => BorderSound(d, st, own, in)
  BY <1>1 DEF BorderSound
<1> QED BY <1>2, <1>3, <1>4

\* A frame that has no object gets one.
LEMMA IndexInserted ==
  ASSUME NEW c, NEW st, NEW own \in SUBSET Frames, NEW idx \in [Frames -> Nat \cup {None}],
         Owned(c, st, own), IndexSound(c, st, own, idx), NEW o \in own,
         \A y \in Cached(c) : Owner(c, y) = o => y \in st,
         NEW d, NEW x, Inserted(c, d, x, o), NEW e, e = [idx EXCEPT ![o] = x]
  PROVE  /\ Owned(d, st \ {x}, own) /\ IndexSound(d, st \ {x}, own, e)
         /\ e \in [Frames -> Nat \cup {None}]
<1>1. /\ x \in Nat /\ Cached(d) = Cached(c) \cup {x} /\ Owner(d, x) = o
      /\ \A y \in Cached(c) : y # x => Owner(d, y) = Owner(c, y)
  BY DEF Inserted
<1>2. /\ e \in [Frames -> Nat \cup {None}] /\ e[o] = x
      /\ \A p \in Frames : p # o => e[p] = idx[p]
  BY <1>1
<1>3. Owned(d, st \ {x}, own)
  BY <1>1 DEF Owned
<1>4. ASSUME NEW p \in own, NEW y \in Cached(d), Owner(d, y) = p
      PROVE  y \notin st \ {x} <=> y = e[p]
  <2>1. CASE y = x
    BY <1>1, <1>2, <1>4, <2>1
  <2>2. CASE y # x /\ p = o
    BY <1>1, <1>2, <1>4, <2>2
  <2>3. CASE y # x /\ p # o
    BY <1>1, <1>2, <1>4, <2>3 DEF IndexSound
  <2> QED BY <2>1, <2>2, <2>3
<1>5. \A p \in Frames \ own : e[p] = None
  BY <1>2 DEF IndexSound
<1> QED BY <1>2, <1>3, <1>4, <1>5 DEF IndexSound

\* The members bInCache when the new object x of o takes the place of another one.
Bordered(c, in, o, x) ==
  LET f == [in EXCEPT ![o] = TRUE]
  IN IF x \in Cached(c) THEN [f EXCEPT ![Owner(c, x)] = FALSE] ELSE f

\* A node or format that has none gets one, and another one loses its own for it.
LEMMA BorderInserted ==
  ASSUME NEW c, NEW own \in SUBSET Modifies, NEW in \in [Modifies -> BOOLEAN],
         Owned(c, {}, own), BorderSound(c, {}, own, in), NEW o \in own,
         \A y \in Cached(c) : Owner(c, y) # o,
         NEW d, NEW x, Inserted(c, d, x, o), NEW e, e = Bordered(c, in, o, x)
  PROVE  Owned(d, {}, own) /\ BorderSound(d, {}, own, e) /\ e \in [Modifies -> BOOLEAN]
<1>1. /\ x \in Nat /\ Cached(d) = Cached(c) \cup {x} /\ Owner(d, x) = o
      /\ \A y \in Cached(c) : y # x => Owner(d, y) = Owner(c, y)
  BY DEF Inserted
<1> DEFINE f == [in EXCEPT ![o] = TRUE]
<1>2. /\ f \in [Modifies -> BOOLEAN] /\ f[o] = TRUE
      /\ \A p \in Modifies : p # o => f[p] = in[p]
  OBVIOUS
<1>3. Owned(d, {}, own)
  BY <1>1 DEF Owned
<1>4. /\ e \in [Modifies -> BOOLEAN]
      /\ \A p \in Modifies : e[p] = IF x \in Cached(c) /\ p = Owner(c, x) THEN FALSE ELSE f[p]
  <2>1. e = IF x \in Cached(c) THEN [f EXCEPT ![Owner(c, x)] = FALSE] ELSE f
    BY DEF Bordered
  <2> HIDE DEF f
  <2> QED BY <1>2, <2>1
<1> HIDE DEF f
<1>5. \A y, z \in Cached(d) : Owner(d, y) = Owner(d, z) => y = z
  <2>1. \A y, z \in Cached(c) : Owner(c, y) = Owner(c, z) => y = z
    BY DEF BorderSound
  <2> QED BY <1>1, <2>1
<1>6. ASSUME NEW p \in own PROVE e[p] <=> \E y \in Cached(d) : Owner(d, y) = p
  <2>1. in[p] <=> \E y \in Cached(c) : Owner(c, y) = p
    BY DEF BorderSound
  <2>2. CASE p = o
    <3>1. x \in Cached(c) => Owner(c, x) # p
      BY <2>2
    <3>2. e[p]
      BY <1>2, <1>4, <2>2, <3>1
    <3> QED BY <1>1, <2>2, <3>2
  <2>3. CASE p # o /\ x \in Cached(c) /\ p = Owner(c, x)
    <3>1. ~e[p]
      BY <1>4, <2>3
    <3>2. \A y \in Cached(c) : Owner(c, y) = p => y = x
      BY <2>3 DEF BorderSound
    <3>3. \A y \in Cached(d) : Owner(d, y) # p
      BY <1>1, <2>3, <3>2
    <3> QED BY <3>1, <3>3
  <2>4. CASE p # o /\ ~(x \in Cached(c) /\ p = Owner(c, x))
    <3>1. e[p] <=> in[p]
      BY <1>2, <1>4, <2>4
    <3>2. \A y \in Cached(c) : Owner(c, y) = p => y # x /\ Owner(d, y) = p /\ y \in Cached(d)
      BY <1>1, <2>4
    <3>3. \A y \in Cached(d) : Owner(d, y) = p => y \in Cached(c) /\ Owner(c, y) = p
      BY <1>1, <2>4
    <3> QED BY <2>1, <3>1, <3>2, <3>3
  <2> QED BY <2>2, <2>3, <2>4
<1>7. \A p \in Modifies \ own : ~e[p]
  BY <1>2, <1>4 DEF BorderSound
<1> QED BY <1>3, <1>4, <1>5, <1>6, <1>7 DEF BorderSound

\* The object of a node or format is deleted.
LEMMA BorderDeleted ==
  ASSUME NEW c, NEW own \in SUBSET Modifies, NEW in \in [Modifies -> BOOLEAN],
         Owned(c, {}, own), BorderSound(c, {}, own, in), NEW o \in own,
         NEW d, NEW x \in Cached(c), Owner(c, x) = o, Deleted(c, d, x),
         NEW e, e = [in EXCEPT ![o] = FALSE]
  PROVE  /\ Owned(d, {}, own \ {o}) /\ e \in [Modifies -> BOOLEAN]
         /\ BorderSound(d, {}, own, e) /\ BorderSound(d, {}, own \ {o}, e)
<1>1. /\ Cached(d) = Cached(c) \ {x}
      /\ \A y \in Cached(c) : y # x => Owner(d, y) = Owner(c, y)
  BY DEF Deleted
<1>2. /\ e \in [Modifies -> BOOLEAN] /\ ~e[o]
      /\ \A p \in Modifies : p # o => (e[p] <=> in[p])
  OBVIOUS
<1>3. \A y, z \in Cached(c) : Owner(c, y) = Owner(c, z) => y = z
  BY DEF BorderSound
<1>4. \A y \in Cached(d) : Owner(d, y) # o /\ y \in Cached(c) /\ Owner(d, y) = Owner(c, y)
  BY <1>1, <1>3
<1>5. Owned(d, {}, own \ {o})
  BY <1>4 DEF Owned
<1>6. \A y, z \in Cached(d) : Owner(d, y) = Owner(d, z) => y = z
  BY <1>3, <1>4
<1>7. ASSUME NEW p \in own PROVE e[p] <=> \E y \in Cached(d) : Owner(d, y) = p
  <2>1. in[p] <=> \E y \in Cached(c) : Owner(c, y) = p
    BY DEF BorderSound
  <2>2. CASE p = o
    BY <1>2, <1>4, <2>2
  <2>3. CASE p # o
    <3>1. \A y \in Cached(c) : Owner(c, y) = p => y \in Cached(d) /\ Owner(d, y) = p
      BY <1>1, <2>3
    <3> QED BY <1>2, <1>4, <2>1, <2>3, <3>1
  <2> QED BY <2>2, <2>3
<1>8. \A p \in Modifies \ own : ~e[p]
  BY <1>2 DEF BorderSound
<1>9. \A p \in Modifies \ (own \ {o}) : ~e[p]
  BY <1>2, <1>8
<1> QED BY <1>2, <1>5, <1>6, <1>7, <1>8, <1>9 DEF BorderSound

\* Keeping all objects with their owners keeps the head.
LEMMA HeadInSound ==
  ASSUME NEW c, NEW l, NEW k, SoundCache(c, l, k), NEW d, SameOwners(c, d)
  PROVE  KeepsHead(c, d)
<1>1. PICK s, n, h : Chained(c, s, n, h)
  BY DEF SoundCache
<1> QED BY <1>1, HeadStays

-----------------------------------------------------------------------------
(* Every action keeps the invariant, and the head of the chain.             *)

LEMMA SameCacheKeeps ==
  ASSUME IInv, cache' = cache PROVE KeepsHead(cache, cache')
<1>1. SoundCache(cache, layouts, kind) /\ SameOwners(cache, cache)
  BY DEF IInv, SameOwners
<1>2. KeepsHead(cache, cache)
  BY <1>1, HeadInSound
<1> QED BY <1>2

LEMMA CreatedKeeps ==
  ASSUME IInv, NEW o \in Owners, Created(o) PROVE IInv' /\ KeepsHead(cache, cache')
<1>1. /\ o \in (IF kind = "text" THEN Frames ELSE Modifies) /\ o \notin owners
      /\ owners' = owners \cup {o} /\ cache' = cache
      /\ UNCHANGED <<kind, nCacheIdx, bInCache, accesses, layouts, stale>>
  BY DEF Created
<1>2. Owned(cache, stale, owners')
  BY <1>1 DEF IInv, Owned
<1>3. \A x \in Cached(cache) \ stale : Owner(cache, x) # o
  BY <1>1 DEF IInv, Owned
<1>4. kind = "text" => IndexSound(cache, stale, owners', nCacheIdx)
  <2>1. SUFFICES ASSUME kind = "text" PROVE IndexSound(cache, stale, owners', nCacheIdx)
    OBVIOUS
  <2>2. IndexSound(cache, stale, owners, nCacheIdx) /\ o \in Frames
    BY <1>1, <2>1 DEF IInv
  <2>3. nCacheIdx[o] = None
    BY <1>1, <2>2 DEF IndexSound
  <2>4. \A x \in Cached(cache) : x # None
    BY CachedObject DEF IInv, SoundCache
  <2> QED BY <1>1, <1>3, <2>2, <2>3, <2>4 DEF IndexSound
<1>5. kind = "border" => BorderSound(cache, stale, owners', bInCache)
  <2>1. SUFFICES ASSUME kind = "border" PROVE BorderSound(cache, stale, owners', bInCache)
    OBVIOUS
  <2>2. BorderSound(cache, stale, owners, bInCache) /\ o \in Modifies
    BY <1>1, <2>1 DEF IInv
  <2>3. ~bInCache[o] /\ stale = {}
    BY <1>1, <2>2 DEF BorderSound
  <2> QED BY <1>1, <1>3, <2>2, <2>3 DEF BorderSound
<1>6. owners' \subseteq (IF kind = "text" THEN Frames ELSE Modifies)
  BY <1>1 DEF IInv
<1>7. KeepsHead(cache, cache')
  BY <1>1, SameCacheKeeps
<1> QED BY <1>1, <1>2, <1>4, <1>5, <1>6, <1>7 DEF IInv

\* What holds of the accesses when one is opened.
LEMMA OpenedFacts ==
  ASSUME NEW a \in Seq(Nat), NEW x \in Nat, NEW b, b = Append(a, x),
         NEW m \in Nat, Len(a) < m, NEW st, x \notin st, \A i \in DOMAIN a : a[i] \notin st
  PROVE  Len(b) <= m /\ \A i \in DOMAIN b : b[i] \notin st
<1>1. PICK n : n = Len(a)
  OBVIOUS
<1>2. n \in Nat /\ DOMAIN a = 1 .. n
  BY <1>1, LenProperties
<1>3. PICK e : e = b
  OBVIOUS
<1>4. /\ e \in Seq(Nat) /\ Len(e) = n + 1 /\ e[n + 1] = x /\ \A i \in 1 .. n : e[i] = a[i]
      /\ DOMAIN e = 1 .. n + 1
  BY <1>1, <1>2, <1>3, AppendProperties, LenProperties
<1>5. Len(e) <= m
  BY <1>1, <1>2, <1>4
<1>6. \A i \in 1 .. n + 1 : i # n + 1 => i \in 1 .. n
  BY <1>2
<1>7. \A i \in DOMAIN e : e[i] \notin st
  BY <1>2, <1>4, <1>6
<1> QED BY <1>3, <1>5, <1>7

\* An access opens to an object that is there and not stale.
LEMMA FoundKeeps ==
  ASSUME IInv, MayNest, NEW x \in Cached(cache), x \notin stale, Opens(Used(cache, x), x),
         UNCHANGED <<nCacheIdx, bInCache, stale>>
  PROVE  IInv' /\ KeepsHead(cache, cache')
<1>1. PICK c : c = cache
  OBVIOUS
<1>2. PICK b : b = Used(c, x)
  OBVIOUS
<1>3. PICK a : a = accesses
  OBVIOUS
<1>4. /\ cache' = Lock(b, x) /\ accesses' = Append(a, x) /\ UNCHANGED <<kind, owners, layouts>>
  BY <1>1, <1>2, <1>3 DEF Opens
<1>5. SoundCache(c, layouts, kind) /\ Counted(c, a) /\ x \in Cached(c)
  BY <1>1, <1>3 DEF IInv
<1>6. SoundCache(b, layouts, kind) /\ SameOwners(c, b) /\ Counted(b, a)
  BY <1>2, <1>5, UsedSound
<1>7. x \in Cached(b)
  BY <1>5, <1>6 DEF SameOwners
<1>8. SoundCache(cache', layouts, kind) /\ Counted(cache', accesses') /\ SameOwners(b, cache')
  BY <1>4, <1>6, <1>7, LockSound
<1>9. SameOwners(c, cache')
  BY <1>6, <1>8 DEF SameOwners
<1>10. KeepsHead(cache, cache')
  BY <1>1, <1>5, <1>9, HeadInSound
<1>11. /\ Len(accesses') <= (IF kind = "text" THEN MaxLines ELSE MaxBorders)
       /\ \A i \in DOMAIN accesses' : accesses'[i] \notin stale
  <2>1. PICK m : m = IF kind = "text" THEN MaxLines ELSE MaxBorders
    OBVIOUS
  <2>2. m \in Nat
    BY <2>1, NestingAssumption, SizesAssumption
  <2>3. Len(a) < m /\ \A i \in DOMAIN a : a[i] \notin stale
    BY <1>3, <2>1 DEF MayNest, IInv
  <2>4. a \in Seq(Nat) /\ x \in Nat
    BY <1>5, CachedObject DEF Counted, SoundCache
  <2>5. Len(accesses') <= m /\ \A i \in DOMAIN accesses' : accesses'[i] \notin stale
    BY <1>4, <2>2, <2>3, <2>4, OpenedFacts
  <2> QED BY <2>1, <2>5
<1> QED BY <1>1, <1>4, <1>8, <1>9, <1>10, <1>11, OwnersSame DEF IInv, SameOwners

\* IncreaseMax.
LEMMA OpenViewKeeps ==
  ASSUME IInv, OpenView PROVE IInv' /\ KeepsHead(cache, cache')
<1>1. /\ kind = "text" /\ layouts = 0 /\ cache.nCurMax < nLimit
      /\ cache' = [cache EXCEPT !.nCurMax = cache.nCurMax + nAdd]
      /\ UNCHANGED <<kind, owners, nCacheIdx, bInCache, accesses, layouts, stale>>
  BY DEF OpenView
<1>2. SoundCache(cache, 0, "text")
  BY <1>1 DEF IInv
<1>3. PICK v \in Nat : cache.nCurMax = nInitSize + v * nAdd
  BY <1>2 DEF SoundCache
<1>4. PICK m : m = cache.nCurMax + nAdd
  OBVIOUS
<1>5. nAdd \in Nat /\ nInitSize \in Nat /\ nLimit \in Nat /\ cache.nCurMax \in Nat
  BY <1>2, SizeFacts
<1>6. m = nInitSize + (v + 1) * nAdd /\ m <= nLimit + nAdd
  BY <1>1, <1>3, <1>4, <1>5
<1>7. /\ SoundCache(cache', 0, "text") /\ SameOwners(cache, cache')
      /\ \A a : Counted(cache, a) => Counted(cache', a)
  <2>1. v + 1 \in Nat /\ cache' = [cache EXCEPT !.nCurMax = m]
    BY <1>1, <1>4
  <2> QED BY <1>2, <1>6, <2>1, LimitSound
<1>8. KeepsHead(cache, cache')
  BY <1>2, <1>7, HeadInSound
<1> QED BY <1>1, <1>7, <1>8, OwnersSame DEF IInv, SameOwners

\* The kind of the cache is told by its owners.
LEMMA KindOfOwner ==
  ASSUME IInv, NEW o \in owners
  PROVE  (o \in Frames => kind = "text") /\ (o \in Modifies => kind = "border")
<1>1. /\ kind \in {"text", "border"}
      /\ owners \subseteq (IF kind = "text" THEN Frames ELSE Modifies)
  BY DEF IInv
<1>2. Frames \cap Modifies = {}
  BY OwnersAssumption
<1> QED BY <1>1, <1>2

\* What Insert for a frame without an object leaves.
TextInserted(o, d, x, e) ==
  /\ SoundCache(d, layouts, "text") /\ Counted(d, accesses) /\ x \in Cached(d)
  /\ stale \ {x} \subseteq Cached(d) /\ Owned(d, stale \ {x}, owners)
  /\ e \in [Frames -> Nat \cup {None}] /\ IndexSound(d, stale \ {x}, owners, e)
  /\ KeepsHead(cache, d)

LEMMA TextInsertKeeps ==
  ASSUME IInv, kind = "text", Nested(accesses, "text"), NEW o \in owners,
         \A y \in Cached(cache) : Owner(cache, y) = o => y \in stale,
         NEW d, d = Insert(cache, o), NEW x, x = NewPos(cache),
         NEW e, e = [nCacheIdx EXCEPT ![o] = x]
  PROVE  TextInserted(o, d, x, e)
<1>1. /\ SoundCache(cache, layouts, "text") /\ Counted(cache, accesses)
      /\ owners \subseteq Frames /\ stale \subseteq Cached(cache)
      /\ nCacheIdx \in [Frames -> Nat \cup {None}]
      /\ Owned(cache, stale, owners) /\ IndexSound(cache, stale, owners, nCacheIdx)
  BY DEF IInv
<1>2. o \in Owners /\ "text" \in {"text", "border"}
  BY <1>1 DEF Owners
<1>3. /\ SoundCache(d, layouts, "text") /\ Counted(d, accesses) /\ Inserted(cache, d, x, o)
      /\ KeepsHead(cache, d)
  BY <1>1, <1>2, InsertSound
<1>4. /\ Owned(d, stale \ {x}, owners) /\ IndexSound(d, stale \ {x}, owners, e)
      /\ e \in [Frames -> Nat \cup {None}]
  BY <1>1, <1>3, IndexInserted
<1>5. x \in Cached(d) /\ stale \ {x} \subseteq Cached(d)
  BY <1>1, <1>3 DEF Inserted
<1> QED BY <1>3, <1>4, <1>5 DEF TextInserted

\* SetPara.
LEMMA SetParaKeeps ==
  ASSUME IInv, NEW o \in Frames, SetPara(o) PROVE IInv' /\ KeepsHead(cache, cache')
<1>1. PICK x : x = NewPos(cache)
  OBVIOUS
<1>2. /\ o \in owners /\ nCacheIdx[o] = None
      /\ cache' = Insert(cache, o) /\ nCacheIdx' = [nCacheIdx EXCEPT ![o] = x]
      /\ stale' = stale \ {x}
      /\ UNCHANGED <<kind, owners, bInCache, accesses, layouts>>
  BY <1>1 DEF SetPara
<1>3. kind = "text" /\ IndexSound(cache, stale, owners, nCacheIdx)
  BY <1>2, KindOfOwner DEF IInv
<1>4. ASSUME NEW y \in Cached(cache), Owner(cache, y) = o PROVE y \in stale
  <2>1. y # None
    BY CachedObject DEF IInv, SoundCache
  <2> QED BY <1>2, <1>3, <1>4, <2>1 DEF IndexSound
<1>5. Nested(accesses, "text")
  BY <1>3 DEF IInv, Nested
<1>6. TextInserted(o, cache', x, nCacheIdx')
  BY <1>1, <1>2, <1>3, <1>4, <1>5, TextInsertKeeps
<1> QED BY <1>2, <1>3, <1>6 DEF TextInserted, IInv

\* SwTextLineAccess.
LEMMA TextLineAccessKeeps ==
  ASSUME IInv, NEW o \in Frames, TextLineAccess(o) PROVE IInv' /\ KeepsHead(cache, cache')
<1>1. PICK x : x = NewPos(cache)
  OBVIOUS
<1>2. PICK f : f = GetAt(cache, o, nCacheIdx[o])
  OBVIOUS
<1>3. o \in owners /\ MayNest
  BY DEF TextLineAccess
<1>4. kind = "text" /\ IndexSound(cache, stale, owners, nCacheIdx)
  BY <1>3, KindOfOwner DEF IInv
<1>5. CASE f # None /\ Opens(Used(cache, f), f) /\ UNCHANGED <<nCacheIdx, bInCache, stale>>
  <2>1. f \in Cached(cache) /\ f = nCacheIdx[o] /\ Owner(cache, f) = o
    BY <1>2, <1>5 DEF GetAt
  <2>2. f \notin stale
    BY <1>3, <1>4, <2>1 DEF IndexSound
  <2> QED BY <1>3, <1>5, <2>1, <2>2, FoundKeeps
<1>6. CASE /\ f = None /\ Opens(Insert(cache, o), x)
           /\ nCacheIdx' = [nCacheIdx EXCEPT ![o] = x] /\ stale' = stale \ {x}
           /\ UNCHANGED bInCache
  <2>1. ASSUME NEW y \in Cached(cache), Owner(cache, y) = o PROVE y \in stale
    <3>1. y # None
      BY CachedObject DEF IInv, SoundCache
    <3>2. y # nCacheIdx[o]
      BY <1>2, <1>6, <2>1, <3>1 DEF GetAt
    <3> QED BY <1>3, <1>4, <2>1, <3>2 DEF IndexSound
  <2>2. Nested(accesses, "text")
    <3>1. Len(accesses) <= MaxLines
      BY <1>4 DEF IInv
    <3> QED BY <3>1 DEF Nested
  <2>3. PICK d : d = Insert(cache, o)
    OBVIOUS
  <2>4. TextInserted(o, d, x, nCacheIdx')
    BY <1>1, <1>3, <1>4, <1>6, <2>1, <2>2, <2>3, TextInsertKeeps
  <2>5. cache' = Lock(d, x) /\ accesses' = Append(accesses, x) /\ UNCHANGED <<kind, owners, layouts>>
    BY <1>6, <2>3 DEF Opens
  <2>6. /\ SoundCache(d, layouts, "text") /\ Counted(d, accesses) /\ x \in Cached(d)
        /\ stale' \subseteq Cached(d) /\ Owned(d, stale', owners)
        /\ nCacheIdx' \in [Frames -> Nat \cup {None}] /\ IndexSound(d, stale', owners, nCacheIdx')
        /\ KeepsHead(cache, d)
    BY <1>6, <2>4 DEF TextInserted
  <2>7. /\ SoundCache(cache', layouts, "text") /\ Counted(cache', accesses')
        /\ SameOwners(d, cache')
    BY <2>5, <2>6, LockSound
  <2>8. KeepsHead(cache, cache')
    BY <2>6, <2>7 DEF KeepsHead, SameOwners
  <2>9. x \in Nat /\ accesses \in Seq(Nat)
    BY <2>6, CachedObject DEF SoundCache, Counted
  <2>10. /\ Len(accesses') <= MaxLines
         /\ \A i \in DOMAIN accesses' : accesses'[i] \notin stale'
    <3>1. MaxLines \in Nat
      BY NestingAssumption, SizesAssumption
    <3>2. Len(accesses) < MaxLines
      BY <1>3, <1>4 DEF MayNest
    <3>3. x \notin stale' /\ \A i \in DOMAIN accesses : accesses[i] \notin stale'
      BY <1>6 DEF IInv
    <3> QED BY <2>5, <2>9, <3>1, <3>2, <3>3, OpenedFacts
  <2>11. Owned(cache', stale', owners) /\ IndexSound(cache', stale', owners, nCacheIdx')
    BY <2>6, <2>7, OwnersSame
  <2> QED BY <1>4, <1>6, <2>5, <2>6, <2>7, <2>8, <2>10, <2>11 DEF IInv, SameOwners
<1> QED BY <1>1, <1>2, <1>5, <1>6 DEF TextLineAccess

\* SwBorderAttrAccess.
LEMMA BorderAttrAccessKeeps ==
  ASSUME IInv, NEW o \in Modifies, BorderAttrAccess(o) PROVE IInv' /\ KeepsHead(cache, cache')
<1>1. PICK x : x = NewPos(cache)
  OBVIOUS
<1>2. PICK f : f = IF bInCache[o] THEN Seek(cache, o) ELSE None
  OBVIOUS
<1>3. o \in owners /\ MayNest
  BY DEF BorderAttrAccess
<1>4. /\ kind = "border" /\ BorderSound(cache, {}, owners, bInCache) /\ stale = {}
      /\ SoundCache(cache, layouts, kind) /\ Counted(cache, accesses)
      /\ bInCache \in [Modifies -> BOOLEAN] /\ owners \in SUBSET Modifies
      /\ Owned(cache, {}, owners)
  BY <1>3, KindOfOwner DEF IInv, BorderSound
<1>5. CASE f # None /\ Opens(Used(cache, f), f) /\ UNCHANGED <<nCacheIdx, bInCache, stale>>
  <2>1. f \in Cached(cache)
    <3>1. bInCache[o] /\ f = Seek(cache, o)
      BY <1>2, <1>5
    <3>2. \E y \in Cached(cache) : Owner(cache, y) = o
      BY <1>3, <1>4, <3>1 DEF BorderSound
    <3>3. PICK s, n, h : Chained(cache, s, n, h)
      BY <1>4 DEF SoundCache
    <3>4. ChainOn(cache, s, n, Cached(cache)) /\ cache \in Caches(Owners)
      BY <1>4, <3>3 DEF Chained, SoundCache
    <3> QED BY <3>1, <3>2, <3>4, SeekFinds
  <2>2. f \notin stale
    BY <1>4
  <2> QED BY <1>3, <1>5, <2>1, <2>2, FoundKeeps
<1>6. CASE /\ f = None /\ Opens(Insert(cache, o), x)
           /\ bInCache' = BorderGone(x, [bInCache EXCEPT ![o] = TRUE]) /\ stale' = stale \ {x}
           /\ UNCHANGED nCacheIdx
  <2>1. \A y \in Cached(cache) : Owner(cache, y) # o
    <3>1. CASE bInCache[o]
      <4>1. \E y \in Cached(cache) : Owner(cache, y) = o
        BY <1>3, <1>4, <3>1 DEF BorderSound
      <4>2. PICK s, n, h : Chained(cache, s, n, h)
        BY <1>4 DEF SoundCache
      <4>3. ChainOn(cache, s, n, Cached(cache)) /\ cache \in Caches(Owners)
        BY <1>4, <4>2 DEF Chained, SoundCache
      <4>4. f \in Cached(cache)
        BY <1>2, <3>1, <4>1, <4>3, SeekFinds
      <4> QED BY <1>6, <4>3, <4>4, CachedObject
    <3>2. CASE ~bInCache[o]
      BY <1>3, <1>4, <3>2 DEF BorderSound
    <3> QED BY <3>1, <3>2
  <2>2. Nested(accesses, kind)
    <3>1. Len(accesses) < MaxBorders
      BY <1>3, <1>4 DEF MayNest
    <3>2. Len(accesses) \in Nat /\ MaxBorders \in Int
      BY <1>4, NestingAssumption, LenProperties DEF Counted
    <3> QED BY <1>4, <3>1, <3>2 DEF Nested
  <2>3. PICK d : d = Insert(cache, o)
    OBVIOUS
  <2>4. cache' = Lock(d, x) /\ accesses' = Append(accesses, x) /\ UNCHANGED <<kind, owners, layouts>>
    BY <1>6, <2>3 DEF Opens
  <2>5. o \in Owners /\ kind \in {"text", "border"}
    BY <1>4 DEF Owners
  <2>6. /\ SoundCache(d, layouts, kind) /\ Counted(d, accesses) /\ Inserted(cache, d, x, o)
        /\ KeepsHead(cache, d)
    BY <1>1, <1>4, <2>2, <2>3, <2>5, InsertSound
  <2>7. bInCache' = Bordered(cache, bInCache, o, x)
    BY <1>6 DEF BorderGone, Bordered
  <2>8. /\ Owned(d, {}, owners) /\ BorderSound(d, {}, owners, bInCache')
        /\ bInCache' \in [Modifies -> BOOLEAN]
    BY <1>3, <1>4, <2>1, <2>6, <2>7, BorderInserted
  <2>9. x \in Cached(d)
    BY <2>6 DEF Inserted
  <2>10. /\ SoundCache(cache', layouts, kind) /\ Counted(cache', accesses')
         /\ SameOwners(d, cache')
    BY <2>4, <2>6, <2>9, LockSound
  <2>11. KeepsHead(cache, cache')
    BY <2>6, <2>10 DEF KeepsHead, SameOwners
  <2>12. x \in Nat /\ accesses \in Seq(Nat) /\ stale' = {}
    BY <1>4, <1>6, <2>6 DEF Inserted, Counted
  <2>13. /\ Len(accesses') <= MaxBorders
         /\ \A i \in DOMAIN accesses' : accesses'[i] \notin stale'
    <3>1. MaxBorders \in Nat
      BY NestingAssumption, SizesAssumption
    <3>2. Len(accesses) < MaxBorders
      BY <1>3, <1>4 DEF MayNest
    <3> QED BY <2>4, <2>12, <3>1, <3>2, OpenedFacts
  <2>14. Owned(cache', {}, owners) /\ BorderSound(cache', {}, owners, bInCache')
    BY <2>8, <2>10, OwnersSame
  <2> QED BY <1>4, <1>6, <2>4, <2>8, <2>10, <2>11, <2>12, <2>13, <2>14 DEF IInv
<1> QED BY <1>1, <1>2, <1>5, <1>6 DEF BorderAttrAccess

\* ~SwCacheAccess.
LEMMA EndAccessKeeps ==
  ASSUME IInv, EndAccess PROVE IInv' /\ KeepsHead(cache, cache')
<1>1. /\ accesses # <<>> /\ cache' = Unlock(cache, Last(accesses)) /\ accesses' = Front(accesses)
      /\ UNCHANGED <<kind, owners, nCacheIdx, bInCache, layouts, stale>>
  BY DEF EndAccess
<1>2. SoundCache(cache, layouts, kind) /\ Counted(cache, accesses)
  BY DEF IInv
<1>3. /\ SoundCache(cache', layouts, kind) /\ Counted(cache', accesses') /\ SameOwners(cache, cache')
      /\ Len(accesses') <= Len(accesses)
      /\ \A i \in DOMAIN accesses' : i \in DOMAIN accesses /\ accesses'[i] = accesses[i]
  BY <1>1, <1>2, UnlockSound
<1>4. KeepsHead(cache, cache')
  BY <1>2, <1>3, HeadInSound
<1>5. Len(accesses') <= IF kind = "text" THEN MaxLines ELSE MaxBorders
  <2>1. Len(accesses) \in Nat /\ Len(accesses') \in Nat
    BY <1>2, <1>3, LenProperties DEF Counted
  <2>2. MaxLines \in Int /\ MaxBorders \in Int
    BY NestingAssumption
  <2>3. Len(accesses) <= IF kind = "text" THEN MaxLines ELSE MaxBorders
    BY DEF IInv
  <2> QED BY <1>3, <2>1, <2>2, <2>3
<1> QED BY <1>1, <1>3, <1>4, <1>5, OwnersSame DEF IInv, SameOwners

\* _HasPara and its like.
LEMMA LookForParaKeeps ==
  ASSUME IInv, NEW o \in Frames, LookForPara(o) PROVE IInv' /\ KeepsHead(cache, cache')
<1>1. /\ o \in owners /\ GetAt(cache, o, nCacheIdx[o]) = None /\ cache' = cache
      /\ nCacheIdx' = [nCacheIdx EXCEPT ![o] = None]
      /\ UNCHANGED <<kind, owners, bInCache, accesses, layouts, stale>>
  BY DEF LookForPara
<1>2. /\ kind = "text" /\ IndexSound(cache, stale, owners, nCacheIdx)
      /\ nCacheIdx \in [Frames -> Nat \cup {None}]
  BY <1>1, KindOfOwner DEF IInv
<1>3. /\ nCacheIdx' \in [Frames -> Nat \cup {None}] /\ nCacheIdx'[o] = None
      /\ \A p \in Frames : p # o => nCacheIdx'[p] = nCacheIdx[p]
  BY <1>1, <1>2
<1>4. \A y \in Cached(cache) : y # None
  BY CachedObject DEF IInv, SoundCache
<1>5. ASSUME NEW p \in owners, NEW y \in Cached(cache), Owner(cache, y) = p
      PROVE  y \notin stale <=> y = nCacheIdx'[p]
  <2>1. p \in Frames
    BY <1>2 DEF IInv
  <2>2. CASE p # o
    BY <1>2, <1>3, <1>5, <2>1, <2>2 DEF IndexSound
  <2>3. CASE p = o
    <3>1. y # nCacheIdx[o]
      BY <1>1, <1>4, <1>5, <2>3 DEF GetAt
    <3> QED BY <1>2, <1>3, <1>4, <1>5, <2>3, <3>1 DEF IndexSound
  <2> QED BY <2>2, <2>3
<1>6. IndexSound(cache, stale, owners, nCacheIdx')
  <2>1. \A p \in Frames \ owners : nCacheIdx'[p] = None
    BY <1>1, <1>2, <1>3 DEF IndexSound
  <2> QED BY <1>5, <2>1 DEF IndexSound
<1>7. KeepsHead(cache, cache')
  BY <1>1, SameCacheKeeps
<1> QED BY <1>1, <1>2, <1>3, <1>6, <1>7 DEF IInv

\* SwTextFrm::DestroyImpl.
LEMMA TextFrmDestroyedKeeps ==
  ASSUME IInv, NEW o \in Frames, TextFrmDestroyed(o) PROVE IInv' /\ KeepsHead(cache, cache')
<1>1. /\ o \in owners /\ ~Accessed(o) /\ owners' = owners \ {o} /\ cache' = cache
      /\ nCacheIdx' = [nCacheIdx EXCEPT ![o] = None] /\ stale' = stale \cup Own(o)
      /\ UNCHANGED <<kind, bInCache, accesses, layouts>>
  BY DEF TextFrmDestroyed
<1>2. /\ kind = "text" /\ IndexSound(cache, stale, owners, nCacheIdx)
      /\ Owned(cache, stale, owners) /\ owners \subseteq Frames
      /\ nCacheIdx \in [Frames -> Nat \cup {None}]
      /\ stale \subseteq Cached(cache)
  BY <1>1, KindOfOwner DEF IInv
<1>3. /\ nCacheIdx' \in [Frames -> Nat \cup {None}] /\ nCacheIdx'[o] = None
      /\ \A p \in Frames : p # o => nCacheIdx'[p] = nCacheIdx[p]
  BY <1>1, <1>2
<1>4. \A y \in Cached(cache) : y \in stale' <=> y \in stale \/ Owner(cache, y) = o
  BY <1>1 DEF Own
<1>5. stale' \subseteq Cached(cache)
  BY <1>1, <1>2 DEF Own
<1>6. Owned(cache, stale', owners')
  BY <1>1, <1>2, <1>4 DEF Owned
<1>7. IndexSound(cache, stale', owners', nCacheIdx')
  <2>1. ASSUME NEW p \in owners', NEW y \in Cached(cache), Owner(cache, y) = p
        PROVE  y \notin stale' <=> y = nCacheIdx'[p]
    <3>1. p \in owners /\ p # o /\ p \in Frames
      BY <1>1, <1>2
    <3> QED BY <1>2, <1>3, <1>4, <2>1, <3>1 DEF IndexSound
  <2>2. \A p \in Frames \ owners' : nCacheIdx'[p] = None
    BY <1>1, <1>2, <1>3 DEF IndexSound
  <2> QED BY <2>1, <2>2 DEF IndexSound
<1>8. \A i \in DOMAIN accesses : accesses[i] \notin stale'
  <2>1. \A i \in DOMAIN accesses : Owner(cache, accesses[i]) # o
    BY <1>1 DEF Accessed
  <2>2. \A i \in DOMAIN accesses : accesses[i] \notin stale /\ accesses[i] \in Cached(cache)
    BY DEF IInv, Counted
  <2> QED BY <1>4, <2>1, <2>2
<1>9. KeepsHead(cache, cache')
  BY <1>1, SameCacheKeeps
<1>10. owners' \subseteq Frames
  BY <1>1, <1>2
<1> QED BY <1>1, <1>2, <1>3, <1>5, <1>6, <1>7, <1>8, <1>9, <1>10 DEF IInv

\* The cache of a node or format that gives up its object.
LEMMA BorderGivenUp ==
  ASSUME IInv, kind = "border", NEW o \in owners, ~Accessed(o), bInCache[o],
         NEW d, d = Delete(cache, o), NEW e, e = [bInCache EXCEPT ![o] = FALSE]
  PROVE  /\ SoundCache(d, layouts, kind) /\ Counted(d, accesses) /\ KeepsHead(cache, d)
         /\ Owned(d, {}, owners) /\ Owned(d, {}, owners \ {o}) /\ e \in [Modifies -> BOOLEAN]
         /\ BorderSound(d, {}, owners, e) /\ BorderSound(d, {}, owners \ {o}, e)
         /\ Own(o) \cap Cached(d) = {}
<1>1. /\ SoundCache(cache, 0, "border") /\ layouts = 0 /\ Counted(cache, accesses)
      /\ BorderSound(cache, {}, owners, bInCache) /\ Owned(cache, {}, owners)
      /\ owners \in SUBSET Modifies /\ bInCache \in [Modifies -> BOOLEAN]
  BY DEF IInv, BorderSound, SoundCache
<1>2. \E x \in Cached(cache) : Owner(cache, x) = o
  BY <1>1 DEF BorderSound
<1>3. \A i \in DOMAIN accesses : Owner(cache, accesses[i]) # o
  BY DEF Accessed
<1>4. PICK x \in Cached(cache) :
        /\ Owner(cache, x) = o /\ Deleted(cache, d, x)
        /\ SoundCache(d, 0, "border") /\ Counted(d, accesses) /\ KeepsHead(cache, d)
  BY <1>1, <1>2, <1>3, DeleteSound
<1>5. /\ Owned(d, {}, owners \ {o}) /\ e \in [Modifies -> BOOLEAN]
      /\ BorderSound(d, {}, owners, e) /\ BorderSound(d, {}, owners \ {o}, e)
  BY <1>1, <1>4, BorderDeleted
<1>6. Owned(d, {}, owners)
  BY <1>5 DEF Owned
<1>7. Own(o) \cap Cached(d) = {}
  <2>1. \A y \in Cached(cache) : Owner(cache, y) = o => y = x
    BY <1>1, <1>4 DEF BorderSound
  <2> QED BY <1>4, <2>1 DEF Own, Deleted
<1> QED BY <1>1, <1>4, <1>5, <1>6, <1>7

\* SetAttr and its like.
LEMMA AttrChangedKeeps ==
  ASSUME IInv, NEW o \in Modifies, AttrChanged(o) PROVE IInv' /\ KeepsHead(cache, cache')
<1>1. /\ o \in owners /\ ~Accessed(o) /\ bInCache[o] /\ cache' = Delete(cache, o)
      /\ bInCache' = [bInCache EXCEPT ![o] = FALSE]
      /\ UNCHANGED <<kind, owners, nCacheIdx, accesses, layouts, stale>>
  BY DEF AttrChanged
<1>2. kind = "border" /\ stale = {}
  BY <1>1, KindOfOwner DEF IInv, BorderSound
<1>3. /\ SoundCache(cache', layouts, kind) /\ Counted(cache', accesses) /\ KeepsHead(cache, cache')
      /\ Owned(cache', {}, owners) /\ bInCache' \in [Modifies -> BOOLEAN]
      /\ BorderSound(cache', {}, owners, bInCache')
  BY <1>1, <1>2, BorderGivenUp
<1> QED BY <1>1, <1>2, <1>3 DEF IInv

\* ~SwModify.
LEMMA ModifyDestroyedKeeps ==
  ASSUME IInv, NEW o \in Modifies, ModifyDestroyed(o) PROVE IInv' /\ KeepsHead(cache, cache')
<1>1. /\ o \in owners /\ ~Accessed(o) /\ owners' = owners \ {o}
      /\ cache' = (IF bInCache[o] THEN Delete(cache, o) ELSE cache)
      /\ bInCache' = [bInCache EXCEPT ![o] = FALSE]
      /\ stale' = stale \cup (Own(o) \cap Cached(cache'))
      /\ UNCHANGED <<kind, nCacheIdx, accesses, layouts>>
  BY DEF ModifyDestroyed
<1>2. /\ kind = "border" /\ stale = {} /\ BorderSound(cache, {}, owners, bInCache)
      /\ Owned(cache, {}, owners) /\ bInCache \in [Modifies -> BOOLEAN] /\ owners \subseteq Modifies
      /\ SoundCache(cache, layouts, kind) /\ Counted(cache, accesses)
  BY <1>1, KindOfOwner DEF IInv, BorderSound
<1>3. /\ SoundCache(cache', layouts, kind) /\ Counted(cache', accesses) /\ KeepsHead(cache, cache')
      /\ Owned(cache', {}, owners') /\ bInCache' \in [Modifies -> BOOLEAN]
      /\ BorderSound(cache', {}, owners', bInCache') /\ Own(o) \cap Cached(cache') = {}
  <2>1. CASE bInCache[o]
    <3>1. cache' = Delete(cache, o)
      BY <1>1, <2>1
    <3> QED BY <1>1, <1>2, <2>1, <3>1, BorderGivenUp
  <2>2. CASE ~bInCache[o]
    <3>1. cache' = cache
      BY <1>1, <2>2
    <3>2. \A y \in Cached(cache) : Owner(cache, y) # o
      BY <1>1, <1>2, <2>2 DEF BorderSound
    <3>3. /\ bInCache' \in [Modifies -> BOOLEAN] /\ ~bInCache'[o]
          /\ \A p \in Modifies : p # o => (bInCache'[p] <=> bInCache[p])
      BY <1>1, <1>2
    <3>4. Owned(cache, {}, owners')
      BY <1>1, <1>2, <3>2 DEF Owned
    <3>5. BorderSound(cache, {}, owners', bInCache')
      <4>1. \A p \in owners' : bInCache'[p] <=> \E y \in Cached(cache) : Owner(cache, y) = p
        BY <1>1, <1>2, <3>3 DEF BorderSound
      <4>2. \A p \in Modifies \ owners' : ~bInCache'[p]
        BY <1>1, <1>2, <3>3 DEF BorderSound
      <4> QED BY <1>2, <4>1, <4>2 DEF BorderSound
    <3>6. Own(o) = {}
      BY <3>2 DEF Own
    <3> QED BY <1>2, <3>1, <3>3, <3>4, <3>5, <3>6, SameCacheKeeps
  <2> QED BY <2>1, <2>2
<1>4. stale' = {} /\ owners' \subseteq Modifies
  BY <1>1, <1>2, <1>3
<1> QED BY <1>1, <1>2, <1>3, <1>4 DEF IInv

\* SwSaveSetLRUOfst.
LEMMA BeginLayoutKeeps ==
  ASSUME IInv, BeginLayout PROVE IInv' /\ KeepsHead(cache, cache')
<1>1. /\ kind = "text" /\ layouts < MaxLayouts /\ layouts' = layouts + 1
      /\ cache' = SetLRUOfst(cache, cache.nCurMax - nTail)
      /\ UNCHANGED <<kind, owners, nCacheIdx, bInCache, accesses, stale>>
  BY DEF BeginLayout
<1>2. SoundCache(cache, layouts, kind) /\ layouts \in 0 .. MaxLayouts
  BY DEF IInv
<1>3. MaxLayouts \in Nat /\ layouts \in Nat /\ layouts + 1 \in 0 .. MaxLayouts
  BY <1>1, <1>2, SizesAssumption
<1>4. kind # "border"
  BY <1>1
<1>5. /\ SoundCache(cache', layouts + 1, kind) /\ SameOwners(cache, cache')
      /\ \A a : Counted(cache, a) => Counted(cache', a)
  BY <1>1, <1>2, <1>3, <1>4, LayoutBegins
<1>6. KeepsHead(cache, cache')
  BY <1>2, <1>5, HeadInSound
<1> QED BY <1>1, <1>3, <1>4, <1>5, <1>6, OwnersSame DEF IInv, SameOwners

\* ~SwSaveSetLRUOfst.
LEMMA EndLayoutKeeps ==
  ASSUME IInv, EndLayout PROVE IInv' /\ KeepsHead(cache, cache')
<1>1. /\ layouts > 0 /\ layouts' = layouts - 1 /\ cache' = ResetLRUOfst(cache)
      /\ UNCHANGED <<kind, owners, nCacheIdx, bInCache, accesses, stale>>
  BY DEF EndLayout
<1>2. SoundCache(cache, layouts, kind) /\ layouts \in 0 .. MaxLayouts
  BY DEF IInv
<1>3. kind # "border" /\ layouts' \in 0 .. MaxLayouts
  <2>1. kind = "border" => layouts = 0
    BY <1>2 DEF SoundCache
  <2> QED BY <1>1, <1>2, <2>1, SizesAssumption
<1>4. /\ SoundCache(cache', layouts', kind) /\ SameOwners(cache, cache')
      /\ \A a : Counted(cache, a) => Counted(cache', a)
  BY <1>1, <1>2, <1>3, LayoutEnds
<1>5. KeepsHead(cache, cache')
  BY <1>2, <1>4, HeadInSound
<1> QED BY <1>1, <1>3, <1>4, <1>5, OwnersSame DEF IInv, SameOwners

\* DecreaseMax.
LEMMA CloseViewKeeps ==
  ASSUME IInv, CloseView PROVE IInv' /\ KeepsHead(cache, cache')
<1>1. PICK m : m = IF cache.nCurMax > nAdd THEN cache.nCurMax - nAdd ELSE cache.nCurMax
  OBVIOUS
<1>2. /\ kind = "text" /\ layouts = 0 /\ cache.nCurMax > nInitSize
      /\ cache' = [cache EXCEPT !.nCurMax = m]
      /\ UNCHANGED <<kind, owners, nCacheIdx, bInCache, accesses, layouts, stale>>
  BY <1>1 DEF CloseView
<1>3. SoundCache(cache, 0, "text")
  BY <1>2 DEF IInv
<1>4. PICK v \in Nat : cache.nCurMax = nInitSize + v * nAdd
  BY <1>3 DEF SoundCache
<1>5. nAdd \in Nat /\ nInitSize \in Nat /\ nLimit \in Nat /\ cache.nCurMax \in Nat
      /\ cache.nCurMax <= nLimit + nAdd
  BY <1>3, SizeFacts DEF SoundCache
<1>6. v # 0
  <2>1. 0 * nAdd = 0
    BY <1>5
  <2> QED BY <1>2, <1>4, <1>5, <2>1
<1>7. v - 1 \in Nat /\ (v - 1) * nAdd = v * nAdd - nAdd
  BY <1>5, <1>6
<1>8. PICK u \in Nat : m = nInitSize + u * nAdd
  <2>1. CASE cache.nCurMax > nAdd
    BY <1>1, <1>4, <1>5, <1>7, <2>1
  <2>2. CASE ~(cache.nCurMax > nAdd)
    BY <1>1, <1>4, <2>2
  <2> QED BY <2>1, <2>2
<1>9. m <= nLimit + nAdd
  BY <1>1, <1>5
<1>10. /\ SoundCache(cache', 0, "text") /\ SameOwners(cache, cache')
       /\ \A a : Counted(cache, a) => Counted(cache', a)
  BY <1>2, <1>3, <1>8, <1>9, LimitSound
<1>11. KeepsHead(cache, cache')
  BY <1>3, <1>10, HeadInSound
<1> QED BY <1>2, <1>10, <1>11, OwnersSame DEF IInv, SameOwners

-----------------------------------------------------------------------------
(* The theorems.                                                            *)

\* The new cache is sound.
LEMMA InitSound ==
  ASSUME Init PROVE IInv
<1>1. /\ kind \in {"text", "border"} /\ cache = NewCache(nInitSize) /\ owners = {}
      /\ nCacheIdx = [o \in Frames |-> None] /\ bInCache = [o \in Modifies |-> FALSE]
      /\ accesses = <<>> /\ layouts = 0 /\ stale = {}
  BY DEF Init
<1>2. PICK c : c = NewCache(nInitSize)
  OBVIOUS
<1>3. nInitSize \in Nat /\ nAdd \in Nat /\ nLimit \in Nat /\ nTail \in Nat /\ MaxLayouts \in Nat
      /\ nInitSize <= nLimit /\ nTail <= nInitSize /\ MaxLines \in Nat /\ MaxBorders \in Nat
  BY SizesAssumption, NestingAssumption
<1>4. /\ c.m_aCacheObjects = <<>> /\ c.aFreePositions = <<>> /\ c.nCurMax = nInitSize
      /\ c.pRealFirst = None /\ c.pFirst = None /\ c.pLast = None
  BY <1>2 DEF NewCache
<1>5. c \in Caches(Owners)
  <2>1. <<>> \in Seq(Objects(Owners) \cup {None}) /\ <<>> \in Seq(Nat)
    BY EmptySeq
  <2> QED BY <1>2, <1>3, <2>1 DEF NewCache, Caches, Pointers
<1>6. Cached(c) = {}
  BY <1>4 DEF Cached
<1>7. FreeSound(c)
  BY <1>4, <1>6 DEF FreeSound, IsInjective, ToSet
<1>8. PICK s : s = [i \in 1 .. 0 |-> None]
  OBVIOUS
<1>9. Chained(c, s, 0, 1)
  <2>1. s \in [1 .. 0 -> {}] /\ IsInjective(s) /\ {} = {s[i] : i \in 1 .. 0}
    BY <1>8 DEF IsInjective
  <2>2. \A i \in 1 .. 0 : FALSE
    OBVIOUS
  <2>3. ChainOn(c, s, 0, {})
    BY <1>4, <2>1, <2>2 DEF ChainOn
  <2> QED BY <1>4, <1>6, <2>3 DEF Chained
<1>10. SoundCache(c, 0, kind)
  <2>1. c.nCurMax = nInitSize + 0 * nAdd /\ c.nCurMax <= nLimit + nAdd
    BY <1>3, <1>4
  <2>2. Len(c.m_aCacheObjects) <= nLimit + nAdd
    <3>1. Len(c.m_aCacheObjects) = 0
      BY <1>4
    <3> QED BY <1>3, <3>1
  <2>3. 1 - 1 <= c.nCurMax - nTail
    BY <1>3, <1>4
  <2>4. \E t, m, h : Chained(c, t, m, h) /\ h - 1 <= c.nCurMax - nTail /\ (0 = 0 => h = 1)
    BY <1>9, <2>3
  <2> QED BY <1>4, <1>5, <1>7, <2>1, <2>2, <2>4 DEF SoundCache
<1>11. Counted(c, accesses) /\ Len(accesses) = 0 /\ DOMAIN accesses = {}
  <2>1. <<>> \in Seq(Nat) /\ DOMAIN <<>> = {} /\ Len(<<>>) = 0
    BY EmptySeq
  <2> QED BY <1>1, <1>6, <2>1 DEF Counted
<1>12. /\ Owned(c, {}, {}) /\ IndexSound(c, {}, {}, nCacheIdx) /\ BorderSound(c, {}, {}, bInCache)
  BY <1>1, <1>6 DEF Owned, IndexSound, BorderSound
<1> QED BY <1>1, <1>2, <1>3, <1>6, <1>10, <1>11, <1>12 DEF IInv

\* Every step keeps the invariant and the head of the chain.
LEMMA StepSound ==
  ASSUME IInv, [Next]_vars PROVE IInv' /\ KeepsHead(cache, cache')
<1>1. CASE UNCHANGED vars
  <2>1. cache' = cache
    BY <1>1 DEF vars
  <2>2. IInv'
    BY <1>1 DEF vars, IInv
  <2> QED BY <2>1, <2>2, SameCacheKeeps
<1>2. ASSUME NEW o \in Owners, Created(o) PROVE IInv' /\ KeepsHead(cache, cache')
  BY <1>2, CreatedKeeps
<1>3. ASSUME NEW o \in Frames,
             TextLineAccess(o) \/ LookForPara(o) \/ SetPara(o) \/ TextFrmDestroyed(o)
      PROVE  IInv' /\ KeepsHead(cache, cache')
  BY <1>3, TextLineAccessKeeps, LookForParaKeeps, SetParaKeeps, TextFrmDestroyedKeeps
<1>4. ASSUME NEW o \in Modifies, BorderAttrAccess(o) \/ AttrChanged(o) \/ ModifyDestroyed(o)
      PROVE  IInv' /\ KeepsHead(cache, cache')
  BY <1>4, BorderAttrAccessKeeps, AttrChangedKeeps, ModifyDestroyedKeeps
<1>5. CASE EndAccess
  BY <1>5, EndAccessKeeps
<1>6. CASE BeginLayout \/ EndLayout
  BY <1>6, BeginLayoutKeeps, EndLayoutKeeps
<1>7. CASE OpenView \/ CloseView
  BY <1>7, OpenViewKeeps, CloseViewKeeps
<1> QED BY <1>1, <1>2, <1>3, <1>4, <1>5, <1>6, <1>7 DEF Next

\* The invariant holds always.
LEMMA AlwaysSound == Spec => []IInv
<1>1. IInv /\ [Next]_vars => IInv'
  BY StepSound
<1> QED BY <1>1, InitSound, PTL DEF Spec

\* The members of the cache and of its users keep their types; the cache has no more
\* places than the views give it: SwCache::IncreaseMax and DecreaseMax.
THEOREM TypeCorrect == Spec => []TypeOK
<1>1. IInv => TypeOK
  <2> SUFFICES ASSUME IInv PROVE TypeOK
    OBVIOUS
  <2>1. SoundCache(cache, layouts, kind) /\ Counted(cache, accesses)
    BY DEF IInv
  <2>2. /\ cache \in Caches(Owners) /\ cache.nCurMax <= nLimit + nAdd
        /\ Len(cache.m_aCacheObjects) <= nLimit + nAdd /\ accesses \in Seq(Nat)
    BY <2>1 DEF SoundCache, Counted
  <2>3. cache.nCurMax \in nInitSize .. nLimit + nAdd
    BY <2>1, <2>2, SizeFacts
  <2>4. owners \subseteq Owners
    BY DEF IInv, Owners
  <2> QED BY <2>2, <2>3, <2>4 DEF IInv, TypeOK
<1> QED BY <1>1, AlwaysSound, PTL

\* What SwCache::Check tests holds after each call: all objects are linked in one order
\* and back, pFirst is one of them, and the free positions are those without an object.
THEOREM CacheStaysConsistent == Spec => []CacheConsistent
<1>1. IInv => Consistent(cache)
  <2> SUFFICES ASSUME IInv PROVE Consistent(cache)
    OBVIOUS
  <2>1. SoundCache(cache, layouts, kind)
    BY DEF IInv
  <2>2. PICK s, n, h : Chained(cache, s, n, h)
    BY <2>1 DEF SoundCache
  <2>3. /\ ChainOn(cache, s, n, Cached(cache)) /\ h \in 1 .. n + 1 /\ (n > 0 => h <= n)
        /\ cache.pFirst = IF n > 0 THEN s[h] ELSE None
    BY <2>2 DEF Chained
  <2>4. n \in Nat /\ s \in [1 .. n -> Cached(cache)] /\ Cached(cache) = {s[i] : i \in 1 .. n}
    BY <2>3 DEF ChainOn
  <2>5. IsChain(cache, Chain(cache))
    BY <2>3, ChainIsOrder, OrderIsChain
  <2>6. IF Cached(cache) = {} THEN cache.pFirst = None ELSE cache.pFirst \in Cached(cache)
    <3>1. CASE n = 0
      BY <2>3, <2>4, <3>1
    <3>2. CASE n # 0
      <4>1. n > 0 /\ h \in 1 .. n
        BY <2>3, <2>4, <3>2
      <4>2. cache.pFirst = s[h]
        BY <2>3, <4>1
      <4> QED BY <2>4, <4>1, <4>2
    <3> QED BY <3>1, <3>2
  <2>7. FreeSound(cache)
    BY <2>1 DEF SoundCache
  <2> QED BY <2>5, <2>6, <2>7 DEF Consistent, FreeSound
<1>2. TypeOK /\ Consistent(cache) => CacheConsistent
  BY DEF CacheConsistent
<1> QED BY <1>1, <1>2, AlwaysSound, TypeCorrect, PTL

\* An owner finds its own object and no other, and has one only: SwTextFrame::HasPara
\* and SwBorderAttrAccess.
THEOREM OwnersFindTheirOwn == Spec => []OwnObjects
<1>1. IInv => OwnObjects
  <2> SUFFICES ASSUME IInv, NEW o \in owners
               PROVE  /\ Cardinality(Own(o)) <= 1
                      /\ kind = "text" => Own(o) = {GetAt(cache, o, nCacheIdx[o])} \ {None}
                      /\ kind = "border" => stale = {} /\ (bInCache[o] <=> Own(o) # {})
    BY DEF OwnObjects
  <2>1. ASSUME NEW S, \E x : S \subseteq {x} PROVE Cardinality(S) <= 1
    <3>1. PICK x : S \subseteq {x}
      BY <2>1
    <3>2. CASE S = {}
      <4>1. Cardinality(S) = 0
        BY <3>2, FS_EmptySet
      <4> QED BY <4>1
    <3>3. CASE S = {x}
      <4>1. Cardinality(S) = 1
        BY <3>3, FS_Singleton
      <4> QED BY <4>1
    <3> QED BY <3>1, <3>2, <3>3
  <2>2. cache \in Caches(Owners) /\ kind \in {"text", "border"}
    BY DEF IInv, SoundCache
  <2>3. CASE kind = "text"
    <3>1. IndexSound(cache, stale, owners, nCacheIdx)
      BY <2>3 DEF IInv
    <3>2. \A x \in Cached(cache) : Owner(cache, x) = o => (x \notin stale <=> x = nCacheIdx[o])
      BY <3>1 DEF IndexSound
    <3>3. Own(o) = {GetAt(cache, o, nCacheIdx[o])} \ {None}
      <4>1. CASE nCacheIdx[o] \in Cached(cache) /\ Owner(cache, nCacheIdx[o]) = o
        <5>1. GetAt(cache, o, nCacheIdx[o]) = nCacheIdx[o]
          BY <4>1 DEF GetAt
        <5>2. nCacheIdx[o] # None
          BY <2>2, <4>1, CachedObject
        <5>3. Own(o) = {nCacheIdx[o]}
          BY <3>2, <4>1 DEF Own
        <5> QED BY <5>1, <5>2, <5>3
      <4>2. CASE ~(nCacheIdx[o] \in Cached(cache) /\ Owner(cache, nCacheIdx[o]) = o)
        <5>1. GetAt(cache, o, nCacheIdx[o]) = None
          BY <4>2 DEF GetAt
        <5>2. Own(o) = {}
          BY <3>2, <4>2 DEF Own
        <5> QED BY <5>1, <5>2
      <4> QED BY <4>1, <4>2
    <3>4. Cardinality(Own(o)) <= 1
      BY <2>1, <3>3
    <3> QED BY <2>3, <3>3, <3>4
  <2>4. CASE kind = "border"
    <3>1. BorderSound(cache, stale, owners, bInCache)
      BY <2>4 DEF IInv
    <3>2. /\ stale = {} /\ \A x, y \in Cached(cache) : Owner(cache, x) = Owner(cache, y) => x = y
          /\ bInCache[o] <=> \E x \in Cached(cache) : Owner(cache, x) = o
      BY <3>1 DEF BorderSound
    <3>3. \A x \in Own(o) : Own(o) \subseteq {x}
      BY <3>2 DEF Own
    <3>4. \E x : Own(o) \subseteq {x}
      BY <3>3
    <3>5. Cardinality(Own(o)) <= 1
      BY <2>1, <3>4
    <3>6. bInCache[o] <=> Own(o) # {}
      BY <3>2 DEF Own
    <3> QED BY <2>4, <3>2, <3>5, <3>6
  <2> QED BY <2>2, <2>3, <2>4
<1> QED BY <1>1, AlwaysSound, PTL

\* An access keeps the object that it locked, and the next one is never refused a
\* place: SwCacheAccess.
THEOREM AccessesStaySound == Spec => []AccessesSound
<1>1. IInv => AccessesSound
  <2> SUFFICES ASSUME IInv PROVE AccessesSound
    OBVIOUS
  <2>1. /\ SoundCache(cache, layouts, kind) /\ Counted(cache, accesses)
        /\ kind \in {"text", "border"}
        /\ Len(accesses) <= IF kind = "text" THEN MaxLines ELSE MaxBorders
        /\ \A i \in DOMAIN accesses : accesses[i] \notin stale
    BY DEF IInv
  <2>2. MayNest => ~Overflows(cache)
    <3>1. SUFFICES ASSUME MayNest PROVE ~Overflows(cache)
      OBVIOUS
    <3>2. PICK s, n, h : /\ Chained(cache, s, n, h) /\ h - 1 <= cache.nCurMax - nTail
                         /\ layouts = 0 => h = 1
      BY <2>1 DEF SoundCache
    <3>3. Len(accesses) \in Nat /\ MaxLines \in Int /\ MaxBorders \in Int
      BY <2>1, NestingAssumption, LenProperties DEF Counted
    <3>4. Len(accesses) < IF kind = "text" THEN MaxLines ELSE MaxBorders
      BY <3>1 DEF MayNest
    <3>5. Nested(accesses, kind)
      BY <3>3, <3>4 DEF Nested
    <3> QED BY <2>1, <3>2, <3>5, NestedFits
  <2>3. \A i \in DOMAIN accesses : accesses[i] \in Cached(cache) \ stale
    BY <2>1 DEF Counted
  <2>4. \A x \in Cached(cache) : cache.m_aCacheObjects[x].nLock =
          Cardinality({i \in DOMAIN accesses : accesses[i] = x})
    BY <2>1 DEF Counted, Locks, Times
  <2> QED BY <2>2, <2>3, <2>4 DEF AccessesSound
<1> QED BY <1>1, AlwaysSound, PTL

\* What a layout action took from the LRU order is in the cache until it gives it back:
\* SwSaveSetLRUOfst.
THEOREM HeadIsKept == Spec => HeadKept
<1>1. IInv /\ [Next]_vars =>
        [\A w \in HeadOf(cache) : w[1] \in Cached(cache') /\ Owner(cache', w[1]) = w[2]]_vars
  <2> SUFFICES ASSUME IInv, [Next]_vars
               PROVE  \A w \in HeadOf(cache) : w[1] \in Cached(cache') /\ Owner(cache', w[1]) = w[2]
    OBVIOUS
  <2> QED BY StepSound DEF KeepsHead
<1> QED BY <1>1, AlwaysSound, PTL DEF Spec, HeadKept
=============================================================================
