------------------------------ MODULE SwCache ------------------------------
(***************************************************************************)
(* SwCache (source/core/bastyp/swcache.cxx): objects at positions of an    *)
(* array, chained in the order of their last use, of which the last one    *)
(* that is not locked has to go when a new one needs its place.            *)
(*                                                                         *)
(* A cache is a record with the members of the class.  A pointer to an     *)
(* object is its position, counted from 1, which an object keeps until it  *)
(* is deleted: Delete shrinks the array and moves objects only when there  *)
(* are more than nCurMax places, but the limit is lowered for the cache of *)
(* lines only, which never calls Delete.  Flush is called for the font     *)
(* caches only.  Both are left out.                                        *)
(***************************************************************************)
EXTENDS Integers, Sequences, FiniteSets, SequencesExt

CONSTANTS None, Dangling    \* the null pointer, and one to a deleted object

ASSUME PointersAssumption == None \notin Nat /\ Dangling \notin Nat

Pointers == Nat \cup {None, Dangling}

\* The objects of these owners, and the caches of them.
Objects(ofOwners) == [pOwner : ofOwners, pNext : Pointers, pPrev : Pointers, nLock : Nat]

Caches(ofOwners) ==
  [m_aCacheObjects : Seq(Objects(ofOwners) \cup {None}), aFreePositions : Seq(Nat),
   pRealFirst : Pointers, pFirst : Pointers, pLast : Pointers, nCurMax : Nat]

\* The constructor with nInitSize as the limit.
NewCache(nInitSize) ==
  [m_aCacheObjects |-> <<>>, aFreePositions |-> <<>>,
   pRealFirst |-> None, pFirst |-> None, pLast |-> None, nCurMax |-> nInitSize]

Cached(c) == {x \in DOMAIN c.m_aCacheObjects : c.m_aCacheObjects[x] # None}

Owner(c, x) == c.m_aCacheObjects[x].pOwner
GetNext(c, x) == IF x \in Cached(c) THEN c.m_aCacheObjects[x].pNext ELSE None
GetPrev(c, x) == IF x \in Cached(c) THEN c.m_aCacheObjects[x].pPrev ELSE None

SetNext(c, x, y) == IF x \in Cached(c) THEN [c EXCEPT !.m_aCacheObjects[x].pNext = y] ELSE c
SetPrev(c, x, y) == IF x \in Cached(c) THEN [c EXCEPT !.m_aCacheObjects[x].pPrev = y] ELSE c

IsLocked(c, x) == c.m_aCacheObjects[x].nLock > 0
Lock(c, x)     == [c EXCEPT !.m_aCacheObjects[x].nLock = @ + 1]
Unlock(c, x)   == [c EXCEPT !.m_aCacheObjects[x].nLock = @ - 1]

-----------------------------------------------------------------------------
(* The chain.                                                               *)

\* The objects from pRealFirst on, along the links.
Chain(c) ==
  LET chain[i \in 1 .. Cardinality(Cached(c))] ==
        IF i = 1 THEN c.pRealFirst ELSE GetNext(c, chain[i - 1])
  IN chain

\* Takes x out of it.
Unchained(c, x) ==
  SetPrev(SetNext(c, GetPrev(c, x), GetNext(c, x)), GetNext(c, x), GetPrev(c, x))

\* How ToTop and Insert take x out: it is not the real first one.
Cut(c, x) == [Unchained(c, x) EXCEPT !.pLast = IF @ = x THEN GetPrev(c, x) ELSE @]

\* Puts x in front of the virtual first one.
PutFirst(c, x) ==
  LET before == GetPrev(c, c.pFirst)
      linked == SetPrev(SetNext(c, before, x), c.pFirst, x)
  IN [SetPrev(SetNext(linked, x, c.pFirst), x, before) EXCEPT
        !.pLast = IF c.pFirst = None THEN x ELSE @,
        !.pRealFirst = IF c.pFirst = @ THEN x ELSE @,
        !.pFirst = x]

ToTop(c, x) == IF x = c.pRealFirst THEN c ELSE PutFirst(Cut(c, x), x)

\* What Get does with the object that it found, with bToTop.
Used(c, x) == IF x = c.pFirst THEN c ELSE ToTop(c, x)

\* Get with an index: the object found there, if it is the owner's.
GetAt(c, owner, nIndex) ==
  IF nIndex \in Cached(c) /\ Owner(c, nIndex) = owner THEN nIndex ELSE None

\* Get without an index: the first in the chain that is the owner's.
Seek(c, owner) ==
  LET chain == Chain(c)
      found == {i \in DOMAIN chain : Owner(c, chain[i]) = owner}
  IN IF found = {} THEN None ELSE chain[Min(found)]

-----------------------------------------------------------------------------
(* Insert and Delete.                                                       *)

\* Mutant of LastUnlocked: locks are not looked at.
LastUnlocked_Last(c) == c.pLast

LastUnlocked(c) ==
  LET chain == Chain(c)
      found == {i \in DOMAIN chain : ~IsLocked(c, chain[i])}
  IN IF found = {} THEN None ELSE chain[Max(found)]

HasSpace(c) == Len(c.m_aCacheObjects) < c.nCurMax

Overflows(c) == ~HasSpace(c) /\ c.aFreePositions = <<>> /\ LastUnlocked(c) = None

\* The position that a new object gets.
NewPos(c) == IF HasSpace(c) THEN Len(c.m_aCacheObjects) + 1
             ELSE IF c.aFreePositions # <<>> THEN Last(c.aFreePositions)
             ELSE LastUnlocked(c)

\* The last unlocked object is deleted, whether or not pFirst or pRealFirst
\* points to it.
Replaced(c, x) ==
  LET dead(p) == IF p = x THEN Dangling ELSE p
  IN [Cut(c, x) EXCEPT !.pFirst = dead(@), !.pRealFirst = dead(@)]

\* Insert of a new object, unless it overflows.
Insert(c, owner) ==
  LET x    == NewPos(c)
      new  == [pOwner |-> owner, pNext |-> None, pPrev |-> None, nLock |-> 0]
      room == IF HasSpace(c) THEN [c EXCEPT !.m_aCacheObjects = Append(@, new)]
              ELSE IF c.aFreePositions # <<>>
              THEN [c EXCEPT !.aFreePositions = Front(@), !.m_aCacheObjects[x] = new]
              ELSE [Replaced(c, x) EXCEPT !.m_aCacheObjects[x] = new]
  IN PutFirst(room, x)

\* Mutant of FirstWithout: the virtual first one is not moved on.
FirstWithout_Stays(c, x) == c.pFirst

\* What pFirst is when x is deleted.
FirstWithout(c, x) ==
  IF c.pFirst # x THEN c.pFirst
  ELSE IF GetNext(c, x) # None THEN GetNext(c, x) ELSE GetPrev(c, x)

\* A locked object is not deleted.
DeleteObj(c, x) ==
  IF IsLocked(c, x) THEN c
  ELSE [Unchained(c, x) EXCEPT
          !.pFirst = FirstWithout(c, x),
          !.pRealFirst = IF @ = x THEN GetNext(c, x) ELSE @,
          !.pLast = IF @ = x THEN GetPrev(c, x) ELSE @,
          !.aFreePositions = Append(@, x),
          !.m_aCacheObjects[x] = None]

Delete(c, owner) == LET x == Seek(c, owner) IN IF x = None THEN c ELSE DeleteObj(c, x)

-----------------------------------------------------------------------------
(* The first nOfst objects of the chain are taken from the LRU order.       *)

\* Mutant of SetLRUOfst: the loop goes on to the last object.
SetLRUOfst_ToLast(c, nOfst) ==
  IF c.pRealFirst = None \/ Cardinality(Cached(c)) < nOfst THEN c
  ELSE [c EXCEPT !.pFirst = c.pLast]

\* The virtual first one is behind them, or the last but one.
SetLRUOfst(c, nOfst) ==
  LET chain == Chain(c)
  IN IF c.pRealFirst = None \/ Len(chain) < nOfst THEN c
     ELSE [c EXCEPT !.pFirst = chain[Max({1, Min({nOfst + 1, Len(chain) - 1})})]]

ResetLRUOfst(c) == [c EXCEPT !.pFirst = c.pRealFirst]

-----------------------------------------------------------------------------
(* Check(), the consistency test of the class.                              *)

At(s, i) == IF i \in DOMAIN s THEN s[i] ELSE None

\* s holds all objects, in the order in which they are linked, and back.
IsChain(c, s) ==
  /\ IsInjective(s) /\ ToSet(s) = Cached(c)
  /\ c.pRealFirst = At(s, 1) /\ c.pLast = At(s, Len(s))
  /\ \A i \in DOMAIN s : GetNext(c, s[i]) = At(s, i + 1) /\ GetPrev(c, s[i]) = At(s, i - 1)

\* pFirst is in the chain, and the positions without an object are the free ones.
Consistent(c) ==
  /\ IsChain(c, Chain(c))
  /\ IF Cached(c) = {} THEN c.pFirst = None ELSE c.pFirst \in Cached(c)
  /\ IsInjective(c.aFreePositions)
  /\ ToSet(c.aFreePositions) = DOMAIN c.m_aCacheObjects \ Cached(c)
=============================================================================
