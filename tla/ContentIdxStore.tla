--------------------------- MODULE ContentIdxStore ---------------------------
(***************************************************************************)
(* Paragraphs that are split and joined (SplitNode, JoinNext and JoinPrev).*)
(* The text moves from one text node to another, and the indices in it     *)
(* stay behind at its place: ContentIdxStore (source/core/doc/             *)
(* CntntIdxStore.cxx) saves the positions that are to go with the text     *)
(* before it is moved, and restores them in the other node.                *)
(*                                                                         *)
(* What the indices do while text is cut is the result of SwIndexReg's     *)
(* Update, on positions instead of lists.  Tables around the paragraphs    *)
(* and change tracking (IsIgnoreRedline) are left out.                     *)
(***************************************************************************)
EXTENDS Naturals, Sequences, FiniteSets, SequencesExt

CONSTANTS
  Bkmks,               \* bookmarks: GetMarkPos and GetOtherMarkPos
  Redlines,            \* mark and point
  Flys,                \* flys anchored at a character
  UnoCrsrs, ShellCrsrs,\* PaMs: m_Bound1 and m_Bound2
  None,                \* a position that is in no text node
  MaxParagraphs, MaxText, MaxUsed  \* bounds: paragraphs, characters, positions

Objects == Bkmks \cup Redlines \cup Flys \cup UnoCrsrs \cup ShellCrsrs

\* The positions of the objects; the first of a redline is its mark.
Bounds == (Flys \X {1}) \cup ((Objects \ Flys) \X {1, 2})

Other(b) == <<b[1], 3 - b[2]>>

VARIABLES
  nodes,               \* the lengths of the paragraphs, one after the other
  at,                  \* SwPosition of each bound: nNode and nContent
  used                 \* the bounds that belong to the object, see below

vars == <<nodes, at, used>>

\* A bookmark that is not expanded has no other position, a redline without a mark
\* only its point; a PaM has a mark or not, and its point may be either bound.
UsedBounds ==
  {u \in SUBSET Bounds : \A b \in u :
     (b[2] = 2 /\ b[1] \in Bkmks) \/ (b[2] = 1 /\ b[1] \in Redlines) => Other(b) \in u}

Positions(ns) == UNION {{[nNode |-> k, nContent |-> v] : v \in 0 .. ns[k]} : k \in DOMAIN ns}

Len_(ns) == FoldLeft(LAMBDA n, l : n + l, 0, ns)

Init ==
  /\ nodes \in {ns \in UNION {[1 .. n -> 0 .. MaxText] : n \in 1 .. MaxParagraphs} :
                  Len_(ns) <= MaxText}
  /\ used \in {u \in UsedBounds : Cardinality(u) <= MaxUsed}
  /\ \E p \in [used -> Positions(nodes)] :
       at = [b \in Bounds |-> IF b \in used THEN p[b] ELSE None]

-----------------------------------------------------------------------------
(* ContentIdxStoreImpl.                                                     *)

\* Where the position of b is, seen from nContent in the node k; an unused one is
\* in front of every paragraph.
InFront(b, k) == at[b] = None \/ at[b].nNode < k
Here(b, k) == at[b] # None /\ at[b].nNode = k
BeforeSameNode(b, k, nContent) == Here(b, k) /\ at[b].nContent < nContent
SamePosition(b, k, nContent) == Here(b, k) /\ at[b].nContent = nContent

\* SaveBkmks: the main position if it is in front of nContent, or at it when the
\* other one is saved; the other position also if it is at nContent.
SaveBkmks(k, nContent) ==
  LET other(m) == /\ <<m, 2>> \in used
                  /\ BeforeSameNode(<<m, 2>>, k, nContent) \/ SamePosition(<<m, 2>>, k, nContent)
  IN {<<m, 1>> : m \in {n \in Bkmks :
        \/ BeforeSameNode(<<n, 1>>, k, nContent)
        \/ SamePosition(<<n, 1>>, k, nContent) /\ other(n)}}
     \cup {<<m, 2>> : m \in {n \in Bkmks : other(n)}}

\* Mutant of SaveRedlines: an end at nContent is not saved (#i59534).
SaveRedlines_BeforeOnly(k, nContent) ==
  {b \in used \cap (Redlines \X {1, 2}) : BeforeSameNode(b, k, nContent)}

\* SaveRedlines: the positions in front of nContent, and the end of a redline at it.
SaveRedlines(k, nContent) ==
  {b \in used \cap (Redlines \X {1, 2}) :
     \/ BeforeSameNode(b, k, nContent)
     \/ /\ SamePosition(b, k, nContent)
        /\ Other(b) \in used
        /\ InFront(Other(b), k) \/ BeforeSameNode(Other(b), k, nContent)}

\* SaveFlys, lcl_ChkPaM
SaveBefore(holders, k, nContent) ==
  {b \in Bounds : b[1] \in holders /\ BeforeSameNode(b, k, nContent)}

\* Save( nNode, nContent )
Save(k, nContent) ==
  SaveBkmks(k, nContent) \cup SaveRedlines(k, nContent)
  \cup SaveBefore(Flys \cup UnoCrsrs \cup ShellCrsrs, k, nContent)

\* The bound that the entry of b restores: RestoreUnoCrsrs takes the other one of
\* the PaM, GetBound( !m_isMark ).
Restored(b) == IF b[1] \in UnoCrsrs THEN Other(b) ELSE b

\* Restore( nNode, nOffset ) into the positions a.
Restore(a, entries, k, nOffset) ==
  [b \in Bounds |->
     IF \E e \in entries : Restored(e) = b
     THEN [nNode |-> k,
           nContent |-> at[CHOOSE e \in entries : Restored(e) = b].nContent + nOffset]
     ELSE a[b]]

-----------------------------------------------------------------------------
(* What else moves positions; a stands for all of them.                     *)

\* The positions that are somewhere get what f makes of them.
Moved(a, f(_)) == [b \in Bounds |-> IF a[b] = None THEN None ELSE f(a[b])]

\* A node is inserted in front of the node k, or the node k goes.
NodeInserted(a, k) ==
  Moved(a, LAMBDA p : IF p.nNode >= k THEN [p EXCEPT !.nNode = @ + 1] ELSE p)
NodeDeleted(a, k) ==
  Moved(a, LAMBDA p : IF p.nNode > k THEN [p EXCEPT !.nNode = @ - 1] ELSE p)

\* Update of the source of a cut: n characters from the start of the node k are gone.
CutStart(a, k, n) ==
  Moved(a, LAMBDA p : IF p.nNode # k THEN p
                      ELSE [p EXCEPT !.nContent = IF @ <= n THEN 0 ELSE @ - n])

\* Update of the destination (bUpdate): n characters are at the start of the node k.
InsertStart(a, k, n) ==
  Moved(a, LAMBDA p : IF p.nNode = k THEN [p EXCEPT !.nContent = @ + n] ELSE p)

\* CorrAbs: what is still in the node k goes to a place in the node to.
CorrAbs(a, k, to, nContent) ==
  Moved(a, LAMBDA p : IF p.nNode = k THEN [nNode |-> to, nContent |-> nContent] ELSE p)

-----------------------------------------------------------------------------
(* The operations.                                                          *)

\* SplitNode at c in the node k: a new node in front of it gets the text up to c.
SplitNode(k, c) ==
  /\ Len(nodes) < MaxParagraphs
  /\ nodes' = SubSeq(nodes, 1, k - 1) \o <<c, nodes[k] - c>>
              \o SubSeq(nodes, k + 1, Len(nodes))
  /\ at' = Restore(CutStart(NodeInserted(at, k), k + 1, c), Save(k, c), k, 0)
  /\ used' = used

\* JoinNext: the text of the next node comes behind that of the node k.
JoinNext(k) ==
  /\ k < Len(nodes)
  /\ nodes' = SubSeq(nodes, 1, k - 1) \o <<nodes[k] + nodes[k + 1]>>
              \o SubSeq(nodes, k + 2, Len(nodes))
  /\ LET restored == Restore(CutStart(at, k + 1, nodes[k + 1]),
                             Save(k + 1, MaxText + 1), k, nodes[k])
     IN at' = NodeDeleted(CorrAbs(restored, k + 1, k, nodes[k]), k + 1)
  /\ used' = used

\* JoinPrev: the text of the previous node comes in front of that of the node k.
JoinPrev(k) ==
  /\ k > 1
  /\ nodes' = SubSeq(nodes, 1, k - 2) \o <<nodes[k - 1] + nodes[k]>>
              \o SubSeq(nodes, k + 1, Len(nodes))
  /\ LET cut == CutStart(InsertStart(at, k, nodes[k - 1]), k - 1, nodes[k - 1])
         restored == Restore(cut, Save(k - 1, MaxText + 1), k, 0)
     IN at' = NodeDeleted(CorrAbs(restored, k - 1, k, nodes[k - 1]), k - 1)
  /\ used' = used

Next == \E k \in DOMAIN nodes :
  \/ \E c \in 0 .. nodes[k] : SplitNode(k, c)
  \/ JoinNext(k)
  \/ JoinPrev(k)

Spec == Init /\ [][Next]_vars

-----------------------------------------------------------------------------
(* Properties.                                                              *)

\* The place of a bound in the text of all paragraphs, in which a paragraph break is
\* a character.
Start(ns, k) == Len_(SubSeq(ns, 1, k - 1)) + (k - 1)

InText(b) ==
  IF b \in used THEN [reg |-> "node", nr |-> Start(nodes, at[b].nNode) + at[b].nContent]
  ELSE None

\* The text of all paragraphs with the positions of some holders in it.
Text(holders) == INSTANCE TextPositions WITH
  Nowhere <- None, Idx <- {b \in Bounds : b[1] \in holders},
  Movable <- {b \in Bounds : b[1] \in UnoCrsrs \cup ShellCrsrs},
  MaxLen <- 1, PrevLen <- 0,
  at <- [b \in {c \in Bounds : c[1] \in holders} |-> InText(b)],
  len <- Start(nodes, Len(nodes) + 1) - 1

Places(holders) == [b \in {c \in Bounds : c[1] \in holders} |-> InText(b)]

\* A split is the insertion of a break, and a join takes it out: the positions of
\* the holders stay with the characters around them.
StayWithText(holders) ==
  \A k \in DOMAIN nodes, a \in {Places(holders)}, b \in {Places(holders)'} :
    /\ \A c \in 0 .. nodes[k] : SplitNode(k, c) =>
         Text(holders)!InsertText(a, b, Start(nodes, k) + c, 1)
    /\ JoinNext(k) => Text(holders)!EraseText(a, b, Start(nodes, k) + nodes[k], 1)
    /\ JoinPrev(k) => Text(holders)!EraseText(a, b, Start(nodes, k) - 1, 1)

\* A redline has the new break in it only when the split was inside of it (#i59534).
RedlinesNeverGrow ==
  \A k \in DOMAIN nodes, a \in {Places(Redlines)}, b \in {Places(Redlines)'} :
    \A c \in 0 .. nodes[k], r \in Redlines :
      LET p == Start(nodes, k) + c
          ends == {<<r, 1>>, <<r, 2>>}
      IN /\ SplitNode(k, c) /\ ends \subseteq used
         /\ \E i \in ends : b[i].nr <= p
         /\ \E i \in ends : b[i].nr > p
         => (\E i \in ends : a[i].nr < p) /\ (\E i \in ends : a[i].nr > p)

\* ContentIdxStore "takes care of storing relevant attributes of an SwTextNode before
\* split, then restore them on the new node" (mvsave.hxx:74): bookmarks, redlines,
\* flys and the cursors of the views stay with the text.  UNO cursors do not, see
\* Restored.
ObjectsStayWithText == [][StayWithText(Objects \ UnoCrsrs) /\ RedlinesNeverGrow]_vars
=============================================================================
