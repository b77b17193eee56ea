---------------------------- MODULE FrameCaches ----------------------------
(***************************************************************************)
(* The two caches of the layout and their users, one of them at a time:    *)
(*   text    SwTextFrm::pTextCache, the lines of text frames (txtcache.cxx).*)
(*           A frame remembers the position of its lines, nCacheIdx;       *)
(*   border  SwFrm::mpCache, the border attributes of nodes and formats    *)
(*           (frmtool.cxx).  The owner only remembers that it has some,    *)
(*           bInCache.                                                     *)
(* An SwCacheAccess keeps its object locked for its life time; accesses    *)
(* and the scopes of SwSaveSetLRUOfst are nested.                          *)
(***************************************************************************)
EXTENDS SwCache

CONSTANTS
  Frames,      \* addresses of text frames
  Modifies,    \* addresses of nodes and formats
  nInitSize,   \* 250 for the lines, 100 for the border attributes
  nAdd,        \* IncreaseMax of a new view; 100
  nLimit,      \* the limit up to which it is called; 2550
  nTail,       \* what a layout action leaves to the LRU order; 50
  MaxLines,    \* bound on the accesses to lines that are open at a time
  MaxBorders,  \* bound on the accesses to border attributes
  MaxLayouts   \* bound on the layout actions that are running at a time

ASSUME SizesAssumption ==
  /\ nAdd \in Nat /\ nLimit \in Nat /\ MaxLayouts \in Nat
  /\ nInitSize \in 1 .. nLimit /\ nTail \in 1 .. nInitSize
\* No frame is formatted within so many others that all of the tail is locked
\* but the object that the innermost of them inserts for itself (SetPara).
ASSUME NestingAssumption == MaxLines \in 1 .. nTail - 2 /\ MaxBorders \in 1 .. nInitSize - 1

Owners == Frames \cup Modifies

\* A frame is no node or format, and the null pointer is none of what it stands beside.
ASSUME OwnersAssumption == Frames \cap Modifies = {} /\ None \notin Objects(Owners)

VARIABLES
  kind,        \* which of the caches
  cache,
  owners,      \* the owners that exist
  nCacheIdx,   \* of each text frame; None for USHRT_MAX
  bInCache,    \* of each node and format
  accesses,    \* the objects of the open accesses, the innermost at last
  layouts,     \* how many scopes of SwSaveSetLRUOfst are open
  stale        \* the objects whose owner does not exist any more

vars == <<kind, cache, owners, nCacheIdx, bInCache, accesses, layouts, stale>>

Init ==
  /\ kind \in {"text", "border"}
  /\ cache = NewCache(nInitSize)
  /\ owners = {}
  /\ nCacheIdx = [o \in Frames |-> None]
  /\ bInCache = [o \in Modifies |-> FALSE]
  /\ accesses = <<>>
  /\ layouts = 0
  /\ stale = {}

Accessed(o) == \E i \in DOMAIN accesses : Owner(cache, accesses[i]) = o

\* Mutant of BorderGone: ~SwBorderAttrs does nothing.
BorderGone_Nothing(x, in) == in

\* An object that goes takes bInCache from its owner: ~SwBorderAttrs.
BorderGone(x, in) ==
  IF x \in Cached(cache) THEN [in EXCEPT ![Owner(cache, x)] = FALSE] ELSE in

\* The innermost access locks the object x of cache c.
Opens(c, x) ==
  /\ cache' = Lock(c, x)
  /\ accesses' = Append(accesses, x)
  /\ UNCHANGED <<kind, owners, layouts>>

MayNest == Len(accesses) < IF kind = "text" THEN MaxLines ELSE MaxBorders

\* SwTextLineAccess(o) and GetPara.
TextLineAccess(o) ==
  LET found == GetAt(cache, o, nCacheIdx[o])
      new   == NewPos(cache)
  IN
  /\ o \in owners /\ MayNest
  /\ \/ /\ found # None
        /\ Opens(Used(cache, found), found)
        /\ UNCHANGED <<nCacheIdx, bInCache, stale>>
     \/ /\ found = None /\ ~Overflows(cache)
        /\ Opens(Insert(cache, o), new)
        /\ nCacheIdx' = [nCacheIdx EXCEPT ![o] = new]
        /\ stale' = stale \ {new}
        /\ UNCHANGED bInCache

\* SwBorderAttrAccess(o) and Get: the owner is looked for if it is in the cache.
BorderAttrAccess(o) ==
  LET found == IF bInCache[o] THEN Seek(cache, o) ELSE None
      new   == NewPos(cache)
  IN
  /\ o \in owners /\ MayNest
  /\ \/ /\ found # None
        /\ Opens(Used(cache, found), found)
        /\ UNCHANGED <<nCacheIdx, bInCache, stale>>
     \/ /\ found = None /\ ~Overflows(cache)
        /\ Opens(Insert(cache, o), new)
        /\ bInCache' = BorderGone(new, [bInCache EXCEPT ![o] = TRUE])
        /\ stale' = stale \ {new}
        /\ UNCHANGED nCacheIdx

\* ~SwCacheAccess.
EndAccess ==
  /\ accesses # <<>>
  /\ cache' = Unlock(cache, Last(accesses))
  /\ accesses' = Front(accesses)
  /\ UNCHANGED <<kind, owners, nCacheIdx, bInCache, layouts, stale>>

-----------------------------------------------------------------------------
(* Text frames without an access.                                           *)

\* _HasPara, GetPara, ClearPara, and SetPara when there is an index: an index
\* at which another frame's lines are now is forgotten.
LookForPara(o) ==
  /\ o \in owners /\ nCacheIdx[o] # None
  /\ GetAt(cache, o, nCacheIdx[o]) = None
  /\ nCacheIdx' = [nCacheIdx EXCEPT ![o] = None]
  /\ UNCHANGED <<kind, cache, owners, bInCache, accesses, layouts, stale>>

\* SetPara of a new portion without an index.  If the cache overflows the lines
\* are lost, and nothing changes.
SetPara(o) ==
  /\ o \in owners /\ nCacheIdx[o] = None /\ ~Overflows(cache)
  /\ cache' = Insert(cache, o)
  /\ nCacheIdx' = [nCacheIdx EXCEPT ![o] = NewPos(cache)]
  /\ stale' = stale \ {NewPos(cache)}
  /\ UNCHANGED <<kind, owners, bInCache, accesses, layouts>>

-----------------------------------------------------------------------------
(* Life of the owners.  None dies, or changes its attributes, while it has  *)
(* an access: what DeleteObj asserts.                                       *)

\* The objects of the owner o, made since it exists.
Own(o) == {x \in Cached(cache) \ stale : Owner(cache, x) = o}

\* The constructors; an owner that does not exist has the members they give it.
Created(o) ==
  /\ o \in (IF kind = "text" THEN Frames ELSE Modifies) \ owners
  /\ owners' = owners \cup {o}
  /\ UNCHANGED <<kind, cache, nCacheIdx, bInCache, accesses, layouts, stale>>

\* SwTextFrm::DestroyImpl: the object without lines stays in the cache, with the
\* address of the frame as its owner.
TextFrmDestroyed(o) ==
  /\ o \in owners /\ ~Accessed(o)
  /\ owners' = owners \ {o}
  /\ nCacheIdx' = [nCacheIdx EXCEPT ![o] = None]
  /\ stale' = stale \cup Own(o)
  /\ UNCHANGED <<kind, cache, bInCache, accesses, layouts>>

\* ~SwModify.
ModifyDestroyed(o) ==
  /\ o \in owners /\ ~Accessed(o)
  /\ owners' = owners \ {o}
  /\ cache' = IF bInCache[o] THEN Delete(cache, o) ELSE cache
  /\ bInCache' = [bInCache EXCEPT ![o] = FALSE]
  /\ stale' = stale \cup (Own(o) \cap Cached(cache'))
  /\ UNCHANGED <<kind, nCacheIdx, accesses, layouts>>

\* SwFormat::SetFormatAttr, SwContentNode::SetAttr and others.
AttrChanged(o) ==
  /\ o \in owners /\ ~Accessed(o) /\ bInCache[o]
  /\ cache' = Delete(cache, o)
  /\ bInCache' = [bInCache EXCEPT ![o] = FALSE]
  /\ UNCHANGED <<kind, owners, nCacheIdx, accesses, layouts, stale>>

-----------------------------------------------------------------------------
(* Layout actions and views, for the text cache.                            *)

\* SwViewShell::LayoutIdle and CalcLayout: SwSaveSetLRUOfst.
BeginLayout ==
  /\ kind = "text" /\ accesses = <<>> /\ layouts < MaxLayouts
  /\ layouts' = layouts + 1
  /\ cache' = SetLRUOfst(cache, cache.nCurMax - nTail)
  /\ UNCHANGED <<kind, owners, nCacheIdx, bInCache, accesses, stale>>

EndLayout ==
  /\ accesses = <<>> /\ layouts > 0
  /\ layouts' = layouts - 1
  /\ cache' = ResetLRUOfst(cache)
  /\ UNCHANGED <<kind, owners, nCacheIdx, bInCache, accesses, stale>>

\* SwViewShell's constructor: IncreaseMax.
OpenView ==
  /\ kind = "text" /\ layouts = 0 /\ accesses = <<>> /\ cache.nCurMax < nLimit
  /\ cache' = [cache EXCEPT !.nCurMax = @ + nAdd]
  /\ UNCHANGED <<kind, owners, nCacheIdx, bInCache, accesses, layouts, stale>>

\* Its destructor: DecreaseMax, which does not take any object away.
CloseView ==
  /\ kind = "text" /\ layouts = 0 /\ accesses = <<>> /\ cache.nCurMax > nInitSize
  /\ cache' = [cache EXCEPT !.nCurMax = IF @ > nAdd THEN @ - nAdd ELSE @]
  /\ UNCHANGED <<kind, owners, nCacheIdx, bInCache, accesses, layouts, stale>>

-----------------------------------------------------------------------------
Next ==
  \/ \E o \in Owners : Created(o)
  \/ \E o \in Frames :
       TextLineAccess(o) \/ LookForPara(o) \/ SetPara(o) \/ TextFrmDestroyed(o)
  \/ \E o \in Modifies : BorderAttrAccess(o) \/ AttrChanged(o) \/ ModifyDestroyed(o)
  \/ EndAccess
  \/ BeginLayout \/ EndLayout
  \/ OpenView \/ CloseView

Spec == Init /\ [][Next]_vars

-----------------------------------------------------------------------------
(* Properties.                                                              *)

TypeOK ==
  /\ kind \in {"text", "border"}
  /\ cache \in Caches(Owners) /\ cache.nCurMax \in nInitSize .. nLimit + nAdd
  /\ Len(cache.m_aCacheObjects) <= nLimit + nAdd
  /\ owners \subseteq Owners /\ stale \subseteq Cached(cache)
  /\ nCacheIdx \in [Frames -> Nat \cup {None}] /\ bInCache \in [Modifies -> BOOLEAN]
  /\ accesses \in Seq(Nat) /\ layouts \in 0 .. MaxLayouts

\* What SwCache::Check tests holds after each call.  At the limit Insert deletes
\* an object without looking whether it is pFirst or pRealFirst: only the tail
\* that a layout action leaves to the LRU order, larger than the nesting of
\* accesses, keeps it from deleting these.
CacheConsistent == TypeOK /\ Consistent(cache)

\* An owner finds its own object, made since the owner exists: none that belongs
\* to another owner at its old position, and none of an owner that was at the
\* same address before.  Neither does it get a second object.
OwnObjects ==
  \A o \in owners :
    /\ Cardinality(Own(o)) <= 1
    /\ kind = "text"   => Own(o) = {GetAt(cache, o, nCacheIdx[o])} \ {None}
    /\ kind = "border" => stale = {} /\ (bInCache[o] <=> Own(o) # {})

\* Whatever is inserted, deleted and reordered while accesses are open, each has
\* its object, locked as often as it is accessed, and none that is opened is
\* refused a place: its user would follow the null pointer.
AccessesSound ==
  /\ MayNest => ~Overflows(cache)
  /\ \A i \in DOMAIN accesses : accesses[i] \in Cached(cache) \ stale
  /\ \A x \in Cached(cache) : cache.m_aCacheObjects[x].nLock =
       Cardinality({i \in DOMAIN accesses : accesses[i] = x})

\* The objects in front of the virtual first one, with their owners.
HeadOf(c) ==
  LET chain == Chain(c)
      ahead == {i \in DOMAIN chain : \E k \in DOMAIN chain : i < k /\ chain[k] = c.pFirst}
  IN {<<chain[i], Owner(c, chain[i])>> : i \in ahead}

\* "Prepare and recover cache, so that it will not get fouled": what a layout
\* action took from the LRU order is not deleted for the frames it formats.
HeadKept ==
  [][\A w \in HeadOf(cache) : w[1] \in Cached(cache') /\ Owner(cache', w[1]) = w[2]]_vars
=============================================================================
