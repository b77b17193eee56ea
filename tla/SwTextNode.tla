------------------------------ MODULE SwTextNode ------------------------------
(***************************************************************************)
(* The positions in a text node (SwTextNode::Update and its callers in     *)
(* source/core/txtnode/ndtxt.cxx).  Cursors, bookmarks, redlines and flys  *)
(* anchored at a character register indices at the node; every change of   *)
(* the text moves them, and an insertion takes the ends of ranges aside so *)
(* that they stay in front of the new text.                                *)
(*                                                                         *)
(* There are two paragraphs: the text of "node" is edited, that of "prev", *)
(* in front of it, only holds indices.  "tmp" is the local aTmpIdxReg.     *)
(***************************************************************************)
EXTENDS SwIndexReg

CONSTANTS
  Cursors, Marks, Redlines, Flys,
  MaxLen, PrevLen,     \* the longest text of the node, the text of prev
  MaxIndices           \* bound: how many indices exist at a time

Objects == Cursors \cup Marks \cup Redlines \cup Flys

\* The indices of an object: a cursor or an anchor has one, a mark m_pPos1 and
\* m_pPos2, a redline its mark and its point.
IndicesOf(o) == IF o \in Cursors \cup Flys THEN {<<o, 1>>} ELSE {<<o, 1>>, <<o, 2>>}

VARIABLES
  index,               \* the fields of all indices and registries
  length               \* m_Text.getLength()

vars == <<index, length>>

Cur(c) == <<c, 1>>
RedlineMark(r) == <<r, 1>>
RedlinePoint(r) == <<r, 2>>

Length(reg) == IF reg = "node" THEN length ELSE PrevLen

Exists(i) == index.m_pIndexReg[i] # Unborn
CanExist(n) == Cardinality({i \in Idx : Exists(i)}) + n <= MaxIndices
InNode(i) == index.m_pIndexReg[i] = "node"

-----------------------------------------------------------------------------
(* Comparing positions: the paragraph first, then the index.                *)

\* nNode of the position i; an index in aTmpIdxReg is still one of the node.
IsHere(x, i) == x.m_pIndexReg[i] \in {"node", "tmp"}

PosLess(x, i, k) ==
  IF IsHere(x, i) = IsHere(x, k) THEN x.m_nIndex[i] < x.m_nIndex[k] ELSE IsHere(x, k)

HereAt(x, i, p) == IsHere(x, i) /\ x.m_nIndex[i] = p

-----------------------------------------------------------------------------
(* SwTextNode::Update.                                                      *)

\* IsExpanded and GetMarkEnd of the mark m.
IsExpanded(x, m) == x.m_pIndexReg[<<m, 2>>] # Unborn

MarkEnd(x, m) ==
  IF IsExpanded(x, m) /\ PosLess(x, <<m, 1>>, <<m, 2>>) THEN <<m, 2>> ELSE <<m, 1>>

\* The index i is put aside.
ToTmp(i, x) == Assign(x, i, "tmp", x.m_nIndex[i])

HasMark(x, r) == x.m_pIndexReg[RedlineMark(r)] \in Regs

RedlineEnd(x, r) ==
  IF HasMark(x, r) /\ ~PosLess(x, RedlineMark(r), RedlinePoint(r))
  THEN RedlineMark(r) ELSE RedlinePoint(r)

IsCollapsed(x, r) ==
  /\ x.m_pIndexReg[RedlineMark(r)] = x.m_pIndexReg[RedlinePoint(r)]
  /\ x.m_nIndex[RedlineMark(r)] = x.m_nIndex[RedlinePoint(r)]

\* Mutant of RedlineEnds: only the points of redlines without a mark.
RedlineEnds_PointsOnly(x, p) ==
  {RedlinePoint(r) : r \in {q \in Redlines : HereAt(x, RedlinePoint(q), p) /\ ~HasMark(x, q)}}

\* The ends of redlines at p, and the points of the redlines without a mark.
RedlineEnds(x, p) ==
  {RedlineEnd(x, r) : r \in {q \in Redlines :
     HereAt(x, RedlineEnd(x, q), p) /\ (HasMark(x, q) => ~IsCollapsed(x, q))}}

\* Along the indices of the node, the end of every mark that is met and ends at p
\* is put aside.  The next index is read before: when it is the end put aside, the
\* loop goes on in aTmpIdxReg.
MarkEndsToTmp(x, p) ==
  LET Step(s, m, e) ==
        [pIndex |-> s.x.m_pNext[s.pIndex],
         aSeenMarks |-> s.aSeenMarks \cup {m},
         x |-> IF m \in Marks \ s.aSeenMarks /\ HereAt(s.x, e, p) THEN ToTmp(e, s.x) ELSE s.x]
      Next_(s, n) == IF s.pIndex = Null THEN s ELSE Step(s, s.pIndex[1], MarkEnd(s.x, s.pIndex[1]))
  IN FoldLeft(Next_, [pIndex |-> x.m_pFirst["node"], aSeenMarks |-> {}, x |-> x],
              [n \in 1 .. 2 * Cardinality(Idx) |-> n]).x

\* The anchors at p of the flys that are anchored at a character.
AnchorsAt(x, p) == {<<f, 1>> : f \in {g \in Flys : HereAt(x, <<g, 1>>, p)}}

\* The ends of ranges at p are put aside, and so are the anchors there.
EndsToTmp(x, p) == MarkEndsToTmp(FoldSet(ToTmp, x, RedlineEnds(x, p)), p)
AnchorsToTmp(x, p) == FoldSet(ToTmp, x, AnchorsAt(x, p))

\* Update( rPos, nChangeLen, bNegative )
Update(x, i, nChangeLen, bNegative) ==
  LET p == x.m_nIndex[i]
  IN MoveTo(UpdateReg(IF bNegative THEN x ELSE AnchorsToTmp(EndsToTmp(x, p), p),
                      i, nChangeLen, bNegative), "tmp", "node")

-----------------------------------------------------------------------------
(* The holders of indices.                                                  *)

Init == index = NoIndices /\ length = 0

\* A cursor is created, put somewhere, or destroyed.
NewCursor(c) ==
  /\ ~Exists(Cur(c)) /\ CanExist(1)
  /\ \E r \in {"node", "prev"} : \E v \in 0 .. Length(r) :
       index' = Construct(index, Cur(c), r, v)
  /\ length' = length

SetCursor(c) ==
  /\ Exists(Cur(c))
  /\ \/ \E r \in {"node", "prev"} : \E v \in 0 .. Length(r) :
          index' = Assign(index, Cur(c), r, v)
     \/ index' = Assign(index, Cur(c), Null, 0)
     \/ \E i \in Idx \ {Cur(c)} : Exists(i) /\ index' = AssignIndex(index, Cur(c), i)
  /\ length' = length

DeleteCursor(c) ==
  /\ Exists(Cur(c))
  /\ index' = Destroy(index, Cur(c))
  /\ length' = length

\* A mark from the point c to the mark d of a PaM; not expanded if they are equal.
MakeMark(m, c, d) ==
  LET one == Copy(index, <<m, 1>>, Cur(c))
      equal == /\ index.m_pIndexReg[Cur(c)] = index.m_pIndexReg[Cur(d)]
               /\ index.m_nIndex[Cur(c)] = index.m_nIndex[Cur(d)]
  IN /\ ~Exists(<<m, 1>>) /\ CanExist(IF equal THEN 1 ELSE 2)
     /\ \A k \in {c, d} : index.m_pIndexReg[Cur(k)] \in Regs
     /\ index' = IF equal THEN one ELSE Copy(one, <<m, 2>>, Cur(d))
     /\ length' = length

\* A redline from the mark d to the point c; no mark if the PaM has none (c = d).
MakeRedline(r, c, d) ==
  LET marked == IF c = d THEN Unlinked(index, RedlineMark(r), Null)
                ELSE Copy(index, RedlineMark(r), Cur(d))
  IN /\ ~Exists(RedlinePoint(r)) /\ CanExist(2)
     /\ \A k \in {c, d} : index.m_pIndexReg[Cur(k)] \in Regs
     /\ index' = Copy(marked, RedlinePoint(r), Cur(c))
     /\ length' = length

AnchorFly(f, c) ==
  /\ ~Exists(<<f, 1>>) /\ CanExist(1)
  /\ index.m_pIndexReg[Cur(c)] \in Regs
  /\ index' = Copy(index, <<f, 1>>, Cur(c))
  /\ length' = length

\* A mark, a redline or a fly goes.
DeleteObject(o) ==
  /\ \E i \in IndicesOf(o) : Exists(i)
  /\ index' = FoldSet(LAMBDA i, x : Destroy(x, i), index, {i \in IndicesOf(o) : Exists(i)})
  /\ length' = length

-----------------------------------------------------------------------------
(* The text.                                                                *)

InsertText(c, n) ==
  /\ InNode(Cur(c)) /\ length + n <= MaxLen
  /\ length' = length + n
  /\ index' = Update(index, Cur(c), n, FALSE)

EraseText(c, n) ==
  /\ InNode(Cur(c)) /\ index.m_nIndex[Cur(c)] + n <= length
  /\ length' = length - n
  /\ index' = Update(index, Cur(c), n, TRUE)

\* The first character is replaced where it is, so that its attributes expand.
ReplaceText(c, del, ins) ==
  LET p == index.m_nIndex[Cur(c)]
      expand == IF del > 0 /\ ins > 0 THEN 1 ELSE 0
      x == IF expand = 1 THEN ChgValue(index, Cur(c), Cur(c), p + 1) ELSE index
  IN /\ InNode(Cur(c)) /\ p < length /\ p + del <= length
     /\ del > 0 \/ ins > 0
     /\ (length - del) + ins <= MaxLen
     /\ length' = (length - del) + ins
     /\ index' = Update(Update(x, Cur(c), del - expand, TRUE), Cur(c), ins - expand, FALSE)

Next ==
  \/ \E c \in Cursors :
       \/ NewCursor(c)
       \/ SetCursor(c)
       \/ DeleteCursor(c)
       \/ \E d \in Cursors, m \in Marks : MakeMark(m, c, d)
       \/ \E d \in Cursors, r \in Redlines : MakeRedline(r, c, d)
       \/ \E f \in Flys : AnchorFly(f, c)
       \/ \E n \in 1 .. MaxLen : InsertText(c, n)
       \/ \E n \in 1 .. MaxLen : EraseText(c, n)
       \/ \E del, ins \in 0 .. MaxLen : ReplaceText(c, del, ins)
  \/ \E o \in Objects \ Cursors : DeleteObject(o)

Spec == Init /\ [][Next]_vars

-----------------------------------------------------------------------------
(* Properties.                                                              *)

\* The variables have their types.
TypeOK == index \in IndexFields /\ length \in 0 .. MaxLen

\* The indices of a registry are linked in the order of their positions, in both
\* directions, and none is linked anywhere else: SwIndexReg::Update, which stops at
\* the first index that is farther on, moves the right ones.
ListsSorted == TypeOK /\
  \A r \in Regs :
    LET list == Walk(index.m_pNext, index.m_pFirst[r])
    IN /\ ToSet(list) = {i \in Idx : index.m_pIndexReg[i] = r}
       /\ IsInjective(list)
       /\ list # <<>> => index.m_pPrev[list[1]] = Null
       /\ index.m_pLast[r] = IF list = <<>> THEN Null ELSE list[Len(list)]
       /\ \A n \in 1 .. Len(list) - 1 :
            /\ index.m_nIndex[list[n]] <= index.m_nIndex[list[n + 1]]
            /\ index.m_pPrev[list[n + 1]] = list[n]

\* The place of an index in the node's text; those in prev are in front of it.
Pos(x, i) == IF x.m_pIndexReg[i] = "node" THEN x.m_nIndex[i] ELSE -1

\* The text from p to q is part of the range between the indices of o, all of it.
Covers(x, o, p, q) ==
  /\ \A i \in IndicesOf(o) : x.m_pIndexReg[i] \in Regs
  /\ \E i \in IndicesOf(o) : Pos(x, i) <= p
  /\ \E i \in IndicesOf(o) : Pos(x, i) >= q

\* The position p is between the indices of o.
Inside(x, o, p) ==
  (\E i \in IndicesOf(o) : Pos(x, i) < p) /\ (\E i \in IndicesOf(o) : Pos(x, i) > p)

\* The positions that are not ends of a range: the anchors of flys and the points
\* of redlines without a mark.
Points(x) ==
  {<<f, 1>> : f \in Flys} \cup {RedlinePoint(r) : r \in {q \in Redlines : ~HasMark(x, q)}}

\* Inserted text belongs to a redline only when it was inserted inside of it, and
\* a redline without a mark and a fly anchored at a character keep their position
\* when text is inserted there (Update's use of aTmpIdxReg).
EndsStay ==
  [][\A c \in Cursors, n \in 1 .. MaxLen : length' = length + n /\ InsertText(c, n) =>
       LET p == Pos(index, Cur(c))
       IN /\ \A r \in Redlines : Covers(index', r, p, p + n) => Inside(index, r, p)
          /\ \A i \in Points(index) :
               InNode(i) /\ Pos(index, i) <= p => Pos(index', i) = Pos(index, i)]_vars

\* The registered indices are positions that follow the text.
Places == INSTANCE TextPositions WITH
  Nowhere <- Null, len <- length, Movable <- {Cur(c) : c \in Cursors},
  at <- [i \in Idx |-> LET r == index.m_pIndexReg[i] IN
           IF r \in {Null, Unborn} THEN Null ELSE [reg |-> r, nr |-> index.m_nIndex[i]]]

ImplementsTextPositions == Places!Spec

\* "Bookmarks must never grow to either side, when editing (directly) to the left
\* or right" (ndtxt.cxx:1070), asked of the bookmarks that are not empty.
BookmarksNeverGrow ==
  [][\A c \in Cursors, n \in 1 .. MaxLen : length' = length + n /\ InsertText(c, n) =>
       LET p == Pos(index, Cur(c))
       IN \A m \in Marks :
            /\ IsExpanded(index, m)
            /\ MarkEnd(index, m) = <<m, 1>> => PosLess(index, <<m, 2>>, <<m, 1>>)
            /\ Covers(index', m, p, p + n)
            => Inside(index, m, p)]_vars
=============================================================================
