----------------------------- MODULE SwIndexReg -----------------------------
(***************************************************************************)
(* SwIndex and SwIndexReg (source/core/bastyp/index.cxx): positions in a   *)
(* text that their text node keeps in a sorted, doubly linked list.        *)
(*                                                                         *)
(* The members work on a record x of the fields of all indices and of all  *)
(* registries, and return what they make of it.                            *)
(***************************************************************************)
EXTENDS Integers, Sequences, FiniteSets, SequencesExt

CONSTANTS Idx, Regs, Null

\* m_pIndexReg of an index that is not constructed.
Unborn == "unborn"

NoIndices ==
  [m_nIndex |-> [i \in Idx |-> 0], m_pIndexReg |-> [i \in Idx |-> Unborn],
   m_pNext |-> [i \in Idx |-> Null], m_pPrev |-> [i \in Idx |-> Null],
   m_pFirst |-> [r \in Regs |-> Null], m_pLast |-> [r \in Regs |-> Null]]

IndexFields ==
  [m_nIndex : [Idx -> Nat], m_pIndexReg : [Idx -> Regs \cup {Null, Unborn}],
   m_pNext : [Idx -> Idx \cup {Null}], m_pPrev : [Idx -> Idx \cup {Null}],
   m_pFirst : [Regs -> Idx \cup {Null}], m_pLast : [Regs -> Idx \cup {Null}]]

-----------------------------------------------------------------------------
(* Loops along the pointers.                                                *)

\* i and the indices behind it, along the pointers link.
Walk(link, i) ==
  LET from[p \in Idx \cup {Null}] == IF p = Null THEN <<>> ELSE <<p>> \o from[link[p]]
  IN from[i]

\* How many elements s starts with that are all in a set.
Leading(s, set) == Cardinality({n \in DOMAIN s : \A k \in 1 .. n : s[k] \in set})

-----------------------------------------------------------------------------
(* Members of SwIndex.                                                      *)

\* The pointer f[k] becomes v; nothing is written through nullptr.
Write(f, k, v) == [j \in DOMAIN f |-> IF j = k THEN v ELSE f[j]]

\* Mutant of Bypass: the end of the list is not adjusted.
Bypass_KeepsLast(x, i, r, prev, next) ==
  [x EXCEPT !.m_pNext = Write(@, prev, next), !.m_pPrev = Write(@, next, prev),
            !.m_pFirst[r] = IF prev = Null /\ @ = i THEN next ELSE @]

\* The neighbours of i, or the ends of the list, leave it out.
Bypass(x, i, r, prev, next) ==
  [x EXCEPT !.m_pNext = Write(@, prev, next), !.m_pPrev = Write(@, next, prev),
            !.m_pFirst[r] = IF prev = Null /\ @ = i THEN next ELSE @,
            !.m_pLast[r] = IF next = Null /\ @ = i THEN prev ELSE @]

\* Remove
RemoveIndex(x, i) ==
  IF x.m_pIndexReg[i] = Null THEN x
  ELSE Bypass(x, i, x.m_pIndexReg[i], x.m_pPrev[i], x.m_pNext[i])

\* The index i, which is in no list, is linked between two indices.
LinkBetween(x, i, prev, next) ==
  [x EXCEPT !.m_pPrev = Write(Write(@, i, prev), next, i),
            !.m_pNext = Write(Write(@, i, next), prev, i),
            !.m_pFirst[x.m_pIndexReg[i]] = IF prev = Null THEN i ELSE @,
            !.m_pLast[x.m_pIndexReg[i]] = IF next = Null THEN i ELSE @]

LinkBefore(x, i, p) == LinkBetween(x, i, x.m_pPrev[p], p)
LinkBehind(x, i, p) == LinkBetween(x, i, p, x.m_pNext[p])

\* The list reached from ref along link, as long as its indices are in set; its last.
LastIn(link, ref, set) == LET w == Walk(link, ref) IN w[Leading(w, set)]

\* The list with i in its place for the value v, searched from ref: nothing changes
\* when the search ends at i itself.
Placed(x, i, ref, v) ==
  LET above == {k \in Idx : x.m_nIndex[k] > v}
      below == {k \in Idx : x.m_nIndex[k] < v}
      p == IF ref \in above THEN LastIn(x.m_pPrev, ref, above)
           ELSE IF ref \in below THEN LastIn(x.m_pNext, ref, below) ELSE ref
  IN IF p = i THEN x
     ELSE IF ref \in above THEN LinkBefore(RemoveIndex(x, i), i, p)
     ELSE LinkBehind(RemoveIndex(x, i), i, p)

\* The end of ChgValue: an index that took the place of an end is the end.
Valued(x, i, r, v) ==
  [x EXCEPT !.m_pFirst[r] = IF @ = x.m_pNext[i] THEN i ELSE @,
            !.m_pLast[r] = IF @ = x.m_pPrev[i] THEN i ELSE @,
            !.m_nIndex[i] = v]

\* ChgValue: i gets the value v and its place in the list, searched from ref.
ChgValue(x, i, ref, v) ==
  IF x.m_pIndexReg[i] = Null THEN [x EXCEPT !.m_nIndex[i] = 0]
  ELSE Valued(Placed(x, i, ref, v), i, x.m_pIndexReg[i], v)

\* Init: the list is searched from the end that seems nearer.
InitIndex(x, i, v) ==
  LET r     == x.m_pIndexReg[i]
      first == x.m_pFirst[r]
      last  == x.m_pLast[r]
  IN IF r = Null THEN [x EXCEPT !.m_nIndex[i] = 0]
     ELSE IF first = Null
     THEN [x EXCEPT !.m_pFirst[r] = i, !.m_pLast[r] = i, !.m_nIndex[i] = v]
     ELSE IF v > (x.m_nIndex[last] - x.m_nIndex[first]) \div 2
     THEN ChgValue(x, i, last, v) ELSE ChgValue(x, i, first, v)

\* The index i, which is in no list, belongs to r.
Unlinked(x, i, r) ==
  [x EXCEPT !.m_pIndexReg[i] = r, !.m_pNext[i] = Null, !.m_pPrev[i] = Null]

\* SwIndex( pReg, nIdx )
Construct(x, i, r, v) == InitIndex(Unlinked(x, i, r), i, v)

\* SwIndex( rIdx )
Copy(x, i, ref) == ChgValue(Unlinked(x, i, x.m_pIndexReg[ref]), i, ref, x.m_nIndex[ref])

\* ~SwIndex.  The memory is gone, and with it what it held.
Destroy(x, i) == [Unlinked(RemoveIndex(x, i), i, Unborn) EXCEPT !.m_nIndex[i] = 0]

\* operator=( rIdx )
AssignIndex(x, i, ref) ==
  IF x.m_pIndexReg[ref] # x.m_pIndexReg[i]
  THEN ChgValue(Unlinked(RemoveIndex(x, i), i, x.m_pIndexReg[ref]), i, ref, x.m_nIndex[ref])
  ELSE IF x.m_nIndex[ref] = x.m_nIndex[i] THEN x
  ELSE ChgValue(x, i, ref, x.m_nIndex[ref])

\* Assign( pArr, nIdx )
Assign(x, i, r, v) ==
  IF r # x.m_pIndexReg[i] THEN InitIndex(Unlinked(RemoveIndex(x, i), i, r), i, v)
  ELSE IF x.m_nIndex[i] = v THEN x ELSE ChgValue(x, i, i, v)

-----------------------------------------------------------------------------
(* Members of SwIndexReg.                                                   *)

\* Mutant of UpdateReg: the indices in front of i at its position stay.
UpdateReg_OnlyBehind(x, i, n, bNeg) ==
  LET behind == ToSet(Walk(x.m_pNext, i)) \ {i}
  IN IF bNeg
     THEN [x EXCEPT !.m_nIndex = [k \in Idx |->
             IF k \notin behind THEN @[k]
             ELSE IF @[k] <= @[i] + n THEN @[i] ELSE @[k] - n]]
     ELSE [x EXCEPT !.m_nIndex = [k \in Idx |->
             IF k \in behind \cup {i} THEN @[k] + n ELSE @[k]]]

\* Update: n characters were inserted at the index i, or erased behind it.
UpdateReg(x, i, n, bNeg) ==
  LET v      == x.m_nIndex[i]
      behind == Tail(Walk(x.m_pNext, i))
      back   == Walk(x.m_pPrev, i)
      same   == ToSet(SubSeq(back, 1, Leading(back, {k \in Idx : x.m_nIndex[k] = v})))
      erased == ToSet(SubSeq(behind, 1, Leading(behind, {k \in Idx : x.m_nIndex[k] \in v .. v + n})))
      rest   == ToSet(behind) \ erased
  IN [x EXCEPT !.m_nIndex = [k \in Idx |->
        IF bNeg THEN IF k \in erased THEN v ELSE IF k \in rest THEN @[k] - n ELSE @[k]
        ELSE IF k \in same \cup ToSet(behind) THEN @[k] + n ELSE @[k]]]

\* MoveTo: the indices of from go to the registry to.
MoveTo(x, from, to) ==
  IF x.m_pFirst[from] = Null THEN x
  ELSE [FoldLeft(LAMBDA y, i : Assign(y, i, to, y.m_nIndex[i]), x,
                 Walk(x.m_pNext, x.m_pFirst[from]))
        EXCEPT !.m_pFirst[from] = Null, !.m_pLast[from] = Null]
=============================================================================
