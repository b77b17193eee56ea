---------------------------- MODULE BigPtrArray ----------------------------
(***************************************************************************)
(* BigPtrArray (source/core/bastyp/bparr.cxx), the array of pointers that  *)
(* SwNodes is made of: blocks of at most MAXENTRY pointers with a start    *)
(* and an end index each, the block that was used last, and in each        *)
(* element its block and its offset there.                                 *)
(*                                                                         *)
(* Positions, block numbers and offsets count from 0 as in the code; the   *)
(* block of number k is ppInf[k + 1].  Where the code reads a BlockInfo    *)
(* that was deleted, it may find what Remove left there, or anything else: *)
(* then nothing that the array does afterwards is modelled (Strays).       *)
(***************************************************************************)
EXTENDS Integers, Sequences, FiniteSets, SequencesExt

CONSTANTS
  Elems,
  MaxSize,          \* bound on the number of elements in the array
  MAXENTRY,
  COMPRESSLVL,
  nBlockGrowSize,
  FirstTables,      \* what the array may start with: the elements of its blocks,
                    \* those it may get, and a bound on the operations, or None
  None

ASSUME SizesAssumption ==
  /\ MaxSize \in Nat /\ MAXENTRY \in Nat \ {0, 1}
  /\ COMPRESSLVL \in 0 .. 100 /\ nBlockGrowSize \in Nat \ {0}
ASSUME FirstTablesAssumption ==
  \A first \in FirstTables :
    /\ \A k \in DOMAIN first.blocks : Len(first.blocks[k]) \in 1 .. MAXENTRY
    /\ first.elems \subseteq Elems /\ first.blocks \in Seq(Seq(first.elems))
    /\ \A k, l \in DOMAIN first.blocks :
         \A i \in DOMAIN first.blocks[k], j \in DOMAIN first.blocks[l] :
           first.blocks[k][i] = first.blocks[l][j] => k = l /\ i = j
    /\ Len(FlattenSeq(first.blocks)) <= MaxSize
    /\ first.steps \in Nat \cup {None}

VARIABLES
  ppInf,       \* the blocks; pData stands for pData and nElem
  nSize,
  nMaxBlock,
  nCur,
  entry,       \* pBlock and nOffset of each element; None out of the array
  pool,        \* the elements that the program uses
  steps,       \* the number of operations that are left, or None
  astray,      \* has an operation gone on with what it read in freed memory?
  call         \* history: the last operation, with its arguments

vars == <<ppInf, nSize, nMaxBlock, nCur, entry, pool, steps, astray, call>>

\* The address of a BlockInfo that was deleted; the others are the numbers from 1.
Freed == 0

BlockInfos == [id : Nat, nStart : Nat, nEnd : Int, pData : Seq(Elems)]
Entries == [pBlock : Nat, nOffset : Nat]

ASSUME NoneAssumption == None \notin Nat \cup Entries

TypeOK ==
  /\ ppInf \in Seq(BlockInfos)
  /\ \A k \in DOMAIN ppInf :
       /\ ppInf[k].nStart <= MaxSize /\ ppInf[k].nEnd <= MaxSize
       /\ Len(ppInf[k].pData) \in 1 .. MAXENTRY
  /\ nSize \in 0 .. MaxSize /\ nMaxBlock \in Nat /\ nCur \in Nat
  /\ pool \subseteq Elems /\ steps \in Nat \cup {None} /\ astray \in BOOLEAN
  /\ entry \in [Elems -> Entries \cup {None}]

\* The array is empty, or has got blocks with the given elements by insertions and
\* removals.
Init == \E first \in FirstTables : LET data == first.blocks IN
  /\ ppInf = [k \in DOMAIN data |->
       LET before == Len(FlattenSeq(SubSeq(data, 1, k - 1)))
       IN [id |-> k, nStart |-> before, nEnd |-> before + Len(data[k]) - 1, pData |-> data[k]]]
  /\ nSize = Len(FlattenSeq(data))
  /\ nCur = 0
  /\ nMaxBlock = (Len(data) \div nBlockGrowSize + 1) * nBlockGrowSize
  /\ entry = [e \in Elems |->
       LET at == {w \in (DOMAIN data) \X (0 .. MAXENTRY - 1) :
                    w[2] < Len(data[w[1]]) /\ data[w[1]][w[2] + 1] = e}
       IN IF at = {} THEN None
          ELSE LET w == CHOOSE w \in at : TRUE IN [pBlock |-> w[1], nOffset |-> w[2]]]
  /\ pool = first.elems
  /\ steps = first.steps
  /\ astray = FALSE /\ call = <<>>

-----------------------------------------------------------------------------
(* The fields as one record, for the functions of the class.                *)

Array == [ppInf |-> ppInf, nSize |-> nSize, nMaxBlock |-> nMaxBlock, nCur |-> nCur,
          entry |-> entry]

\* A step ends with the array a.  Addresses of blocks are replaced by their
\* numbers, since only their equality counts, and elements that are out of the
\* array forget where they were.
Becomes(a) ==
  LET inside  == UNION {ToSet(a.ppInf[k].pData) : k \in DOMAIN a.ppInf}
      address(i) == {k \in DOMAIN a.ppInf : a.ppInf[k].id = i}
      number(i)  == IF address(i) = {} THEN Freed ELSE CHOOSE k \in address(i) : TRUE
  IN /\ ppInf' = [k \in DOMAIN a.ppInf |-> [a.ppInf[k] EXCEPT !.id = k]]
     /\ nSize' = a.nSize /\ nMaxBlock' = a.nMaxBlock /\ nCur' = a.nCur
     /\ entry' = [e \in Elems |->
          IF e \in inside THEN [a.entry[e] EXCEPT !.pBlock = number(@)] ELSE None]

nBlock(a) == Len(a.ppInf)

Holds(b, pos) == b.nStart <= pos /\ b.nEnd >= pos

\* The elements of s lie n entries further in their block.
Shifted(entries, s, n) ==
  [e \in Elems |-> IF e \in s THEN [entries[e] EXCEPT !.nOffset = @ + n] ELSE entries[e]]

\* The block that a round of the binary search looks at.
Probed(s) ==
  LET m == s.lower + (s.upper - s.lower) \div 2
  IN IF m = s.cur THEN m + 1 ELSE m

\* What is left to search when that does not hold pos.
Narrowed(a, pos, s) ==
  LET n == Probed(s)
  IN IF a.ppInf[n + 1].nStart > pos THEN [s EXCEPT !.upper = n, !.cur = n]
     ELSE [s EXCEPT !.lower = n, !.cur = n]

\* The block that the binary search ends with.
Search(a, pos) ==
  LET round[i \in 0 .. nBlock(a)] ==
        IF i = 0 THEN [lower |-> 0, upper |-> nBlock(a) - 1, cur |-> 0]
        ELSE Narrowed(a, pos, round[i - 1])
      found(i) == Holds(a.ppInf[Probed(round[i]) + 1], pos)
      last == CHOOSE i \in 0 .. nBlock(a) : found(i) /\ \A j \in 0 .. i - 1 : ~found(j)
  IN Probed(round[last])

\* The block that was used last: one that Remove has deleted is read as it left it,
\* without elements.
LastUsed(a) ==
  IF a.nCur < nBlock(a) THEN a.ppInf[a.nCur + 1]
  ELSE [nStart |-> a.nSize, nEnd |-> a.nSize - 1]

\* Mutant of Index2Block: the previous block is taken when it ends behind pos.
Index2Block_EndOnly(a, pos) ==
  LET p == LastUsed(a)
  IN IF Holds(p, pos) THEN a.nCur
     ELSE IF pos = 0 THEN 0
     ELSE IF a.nCur < nBlock(a) - 1 /\ Holds(a.ppInf[a.nCur + 2], pos) THEN a.nCur + 1
     ELSE IF a.nCur >= nBlock(a) - 1 /\ pos < p.nStart /\ a.nCur > 0
             /\ a.ppInf[a.nCur].nEnd >= pos THEN a.nCur - 1
     ELSE Search(a, pos)

\* Index2Block: the last used block, the first, the following or the previous
\* one, and then the binary search.
Index2Block(a, pos) ==
  LET p == LastUsed(a)
  IN IF Holds(p, pos) THEN a.nCur
     ELSE IF pos = 0 THEN 0
     ELSE IF a.nCur < nBlock(a) - 1 /\ Holds(a.ppInf[a.nCur + 2], pos) THEN a.nCur + 1
     ELSE IF a.nCur >= nBlock(a) - 1 /\ pos < p.nStart /\ a.nCur > 0
             /\ Holds(a.ppInf[a.nCur], pos) THEN a.nCur - 1
     ELSE Search(a, pos)

\* UpdIndex: the indices of the blocks behind the block pos; if there are none,
\* what it read of that one is not used.
UpdIndex(blocks, pos) ==
  LET idx[k \in pos + 1 .. Len(blocks)] ==
        IF k = pos + 1 THEN blocks[k].nEnd + 1 ELSE idx[k - 1] + Len(blocks[k].pData)
  IN [k \in DOMAIN blocks |->
        IF k <= pos + 1 THEN blocks[k]
        ELSE [blocks[k] EXCEPT !.nStart = idx[k - 1], !.nEnd = idx[k] - 1]]

\* InsBlock: a new block without elements, of number pos.
InsBlock(a, pos) ==
  LET new   == CHOOSE i \in 1 .. nBlock(a) + 1 : \A k \in DOMAIN a.ppInf : a.ppInf[k].id # i
      start == IF pos = 0 THEN 0 ELSE a.ppInf[pos].nEnd + 1
  IN [a EXCEPT !.ppInf = InsertAt(@, pos + 1, [id |-> new, nStart |-> start,
                                               nEnd |-> start - 1, pData |-> <<>>]),
               !.nMaxBlock = IF nBlock(a) = @ THEN @ + nBlockGrowSize ELSE @]

\* BlockDel, once blocks is what remains.
BlockDel(a, blocks) ==
  LET n == Len(blocks)
  IN [a EXCEPT !.ppInf = blocks,
               !.nMaxBlock = IF @ - n > nBlockGrowSize
                             THEN (n \div nBlockGrowSize + 1) * nBlockGrowSize ELSE @]

\* Is there more than 50% space?
HalfEmpty(a) == nBlock(a) > a.nSize \div (MAXENTRY \div 2)

-----------------------------------------------------------------------------
(* Compress.  Its loop builds the new table from the blocks in turn; free   *)
(* is nLast, the space in the last block of the new table that is not full. *)

CompressStart(a) ==
  [blocks |-> <<>>, into |-> 0, free |-> 0, deleted |-> FALSE, changed |-> None,
   cur |-> 0, entry |-> a.entry]

\* A block that nothing is moved from.
KeepBlock(c, p) ==
  LET room == MAXENTRY - Len(p.pData)
      into == IF room > 0 THEN Len(c.blocks) + 1 ELSE c.into
  IN [c EXCEPT !.blocks = Append(@, p), !.into = into, !.free = room, !.cur = @ + 1]

\* Mutant of FillFrom: the elements that stay in p keep their offsets.
FillFrom_OffsetsStay(c, p) ==
  LET n     == IF Len(p.pData) > c.free THEN c.free ELSE Len(p.pData)
      to    == c.blocks[c.into]
      moved == SubSeq(p.pData, 1, n)
      rest  == SubSeq(p.pData, n + 1, Len(p.pData))
      entries == [e \in Elems |->
        IF e \in ToSet(moved)
        THEN [pBlock |-> to.id,
              nOffset |-> Len(to.pData) - 1 + CHOOSE i \in 1 .. n : moved[i] = e]
        ELSE c.entry[e]]
      filled == [c EXCEPT !.blocks[c.into].pData = @ \o moved, !.free = @ - n,
                          !.entry = entries, !.changed = IF @ = None THEN c.cur ELSE @]
  IN IF rest = <<>> THEN [filled EXCEPT !.deleted = TRUE, !.cur = @ + 1]
     ELSE KeepBlock(filled, [p EXCEPT !.pData = rest])

\* A block whose first elements fill up the last one that is not full.
FillFrom(c, p) ==
  LET n     == IF Len(p.pData) > c.free THEN c.free ELSE Len(p.pData)
      to    == c.blocks[c.into]
      moved == SubSeq(p.pData, 1, n)
      rest  == SubSeq(p.pData, n + 1, Len(p.pData))
      entries == [e \in Elems |->
        IF e \in ToSet(moved)
        THEN [pBlock |-> to.id,
              nOffset |-> Len(to.pData) - 1 + CHOOSE i \in 1 .. n : moved[i] = e]
        ELSE IF e \in ToSet(rest) THEN [c.entry[e] EXCEPT !.nOffset = @ - n]
        ELSE c.entry[e]]
      filled == [c EXCEPT !.blocks[c.into].pData = @ \o moved, !.free = @ - n,
                          !.entry = entries, !.changed = IF @ = None THEN c.cur ELSE @]
  IN IF rest = <<>> THEN [filled EXCEPT !.deleted = TRUE, !.cur = @ + 1]
     ELSE KeepBlock(filled, [p EXCEPT !.pData = rest])

nMax == MAXENTRY - (MAXENTRY * COMPRESSLVL) \div 100

\* A block is not split to fill a block that is full beyond the threshold.
CompressBlock(c, p) ==
  IF c.free = 0 \/ (Len(p.pData) > c.free /\ c.free < nMax)
  THEN KeepBlock(c, p) ELSE FillFrom(c, p)

\* The compressed array, and the number of the first block that was changed.
Compress(a) ==
  LET loop[k \in 0 .. nBlock(a)] ==
        IF k = 0 THEN CompressStart(a) ELSE CompressBlock(loop[k - 1], a.ppInf[k])
      c == loop[nBlock(a)]
      b == IF c.deleted THEN BlockDel(a, c.blocks) ELSE [a EXCEPT !.ppInf = c.blocks]
      first == [b.ppInf EXCEPT ![1].nEnd = Len(b.ppInf[1].pData) - 1]
  IN [array |-> [b EXCEPT !.ppInf = UpdIndex(first, 0), !.entry = c.entry,
                          !.nCur = IF c.changed # None /\ @ >= c.changed THEN 0 ELSE @],
      changed |-> c.changed]

-----------------------------------------------------------------------------
(* Insert.                                                                  *)

\* The last element of the full block cur goes into the next one, which has room.
MakeRoom(a, cur) ==
  LET p == a.ppInf[cur + 1]
      q == a.ppInf[cur + 2]
      x == p.pData[MAXENTRY]
      shorter == [p EXCEPT !.pData = Front(@), !.nEnd = @ - 1]
      longer  == [q EXCEPT !.pData = <<x>> \o @,
                           !.nStart = IF q.pData = <<>> THEN @ ELSE @ - 1,
                           !.nEnd = IF q.pData = <<>> THEN @ + 1 ELSE @]
  IN [a EXCEPT !.ppInf = [@ EXCEPT ![cur + 1] = shorter, ![cur + 2] = longer],
               !.entry = [Shifted(@, ToSet(q.pData), 1)
                            EXCEPT ![x] = [pBlock |-> q.id, nOffset |-> 0]]]

\* The block cur has room: e is put at pos.
PutElement(a, e, pos, cur) ==
  LET p   == a.ppInf[cur + 1]
      off == pos - p.nStart
      longer == [p EXCEPT !.pData = InsertAt(@, off + 1, e), !.nEnd = @ + 1]
      entries == [Shifted(a.entry, ToSet(SubSeq(p.pData, off + 1, Len(p.pData))), 1)
                    EXCEPT ![e] = [pBlock |-> p.id, nOffset |-> off]]
  IN [a EXCEPT !.ppInf = UpdIndex([@ EXCEPT ![cur + 1] = longer], cur),
               !.nSize = @ + 1, !.nCur = cur, !.entry = entries]

\* The array and the block for an insertion at pos.
InsertBlock(a, pos) ==
  LET end == nBlock(a) - 1
  IN IF a.nSize = 0 THEN [array |-> InsBlock(a, 0), cur |-> 0]
     ELSE IF pos # a.nSize THEN [array |-> a, cur |-> Index2Block(a, pos)]
     ELSE IF Len(a.ppInf[end + 1].pData) < MAXENTRY THEN [array |-> a, cur |-> end]
     ELSE [array |-> InsBlock(a, end + 1), cur |-> end + 1]

IsFull(p) == Len(p.pData) = MAXENTRY

\* The last element of the block cur does not fit into the next one.
NoRoom(a, cur) ==
  IsFull(a.ppInf[cur + 1]) /\ (cur < nBlock(a) - 1 => IsFull(a.ppInf[cur + 2]))

\* Insert compresses, and something is moved up to the block of the insertion.
StartsOver(a, pos) ==
  LET place == InsertBlock(a, pos)
      first == Compress(place.array).changed
  IN /\ NoRoom(place.array, place.cur) /\ HalfEmpty(place.array)
     /\ first # None /\ place.cur >= first

\* What an insertion at pos then starts over with.
Restarted(a, pos) ==
  IF StartsOver(a, pos) THEN Compress(InsertBlock(a, pos).array).array ELSE a

\* Insert from its start to its end.
InsertOnce(a, e, pos) ==
  LET place == InsertBlock(a, pos)
      b     == place.array
      cur   == place.cur
      c     == IF HalfEmpty(b) THEN Compress(b).array ELSE b
  IN IF ~IsFull(b.ppInf[cur + 1]) THEN PutElement(b, e, pos, cur)
     ELSE IF ~NoRoom(b, cur) THEN PutElement(MakeRoom(b, cur), e, pos, cur)
     ELSE PutElement(MakeRoom(InsBlock(c, cur + 1), cur), e, pos, cur)

\* Mutant of InsertInto: the insertion goes on behind the compressed blocks.
InsertInto_GoesOn(a, e, pos) ==
  LET c == Restarted(a, pos)
  IN IF c = a THEN InsertOnce(a, e, pos)
     ELSE PutElement(InsBlock(c, nBlock(c)), e, c.nSize, nBlock(c))

\* Insert, which starts over once at most.
InsertInto(a, e, pos) == InsertOnce(Restarted(a, pos), e, pos)

-----------------------------------------------------------------------------
(* Remove.                                                                  *)

\* How many elements of p lie at pos .. pos + n - 1, and before pos.
Cut(p, pos, n) ==
  LET from == IF pos > p.nStart THEN pos - p.nStart ELSE 0
      to   == IF pos + n > p.nEnd THEN Len(p.pData) ELSE pos + n - p.nStart
  IN IF to > from THEN [keep |-> from, nel |-> to - from] ELSE [keep |-> 0, nel |-> 0]

\* The elements of the block behind those.
After(p, pos, n) ==
  SubSeq(p.pData, Cut(p, pos, n).keep + Cut(p, pos, n).nel + 1, Len(p.pData))

\* The block without them.
Shortened(p, pos, n) ==
  [p EXCEPT !.pData = SubSeq(@, 1, Cut(p, pos, n).keep) \o After(p, pos, n),
            !.nEnd = @ - Cut(p, pos, n).nel]

\* Those of the elements behind them are moved to the front in their block.
EntriesWithout(a, pos, n) ==
  [e \in Elems |->
     LET ks == {k \in DOMAIN a.ppInf : e \in ToSet(After(a.ppInf[k], pos, n))
                                        /\ Cut(a.ppInf[k], pos, n).nel > 0}
     IN IF ks = {} THEN a.entry[e]
        ELSE [a.entry[e] EXCEPT !.nOffset = @ - Cut(a.ppInf[CHOOSE k \in ks : TRUE], pos, n).nel]]

\* The table without the blocks that got empty, which are next to each other.
NonEmpty(blocks) ==
  LET gone == {k \in DOMAIN blocks : blocks[k].pData = <<>>}
      nBlkdel == Cardinality(gone)
  IN [k \in 1 .. Len(blocks) - nBlkdel |->
        IF \A j \in gone : k < j THEN blocks[k] ELSE blocks[k + nBlkdel]]

\* Mutant of RemoveFrom: the first treated block is not adjusted when the block
\* itself was deleted.
RemoveFrom_KeepsFirst(a, pos, n) ==
  LET cur   == Index2Block(a, pos)
      left  == [k \in DOMAIN a.ppInf |-> Shortened(a.ppInf[k], pos, n)]
      rest  == NonEmpty(left)
      b     == [(IF rest # left THEN BlockDel(a, rest) ELSE [a EXCEPT !.ppInf = rest])
                  EXCEPT !.nSize = @ - n, !.entry = EntriesWithout(a, pos, n), !.nCur = cur]
      c     == [b EXCEPT !.ppInf = UpdIndex(@, cur)]
  IN IF HalfEmpty(c) THEN Compress(c).array ELSE c

RemoveFrom(a, pos, n) ==
  LET cur   == Index2Block(a, pos)
      left  == [k \in DOMAIN a.ppInf |-> Shortened(a.ppInf[k], pos, n)]
      rest  == NonEmpty(left)
      \* blocks were deleted, and not those at the end
      inner == rest # left /\ left[Len(left)].pData # <<>>
      nBlk1 == IF inner /\ cur > 0 THEN cur - 1 ELSE cur
      first == IF inner /\ cur = 0
               THEN [rest EXCEPT ![1].nStart = 0, ![1].nEnd = Len(rest[1].pData) - 1]
               ELSE rest
      b     == [(IF rest # left THEN BlockDel(a, first) ELSE [a EXCEPT !.ppInf = first])
                  EXCEPT !.nSize = @ - n, !.entry = EntriesWithout(a, pos, n), !.nCur = nBlk1]
      c     == [b EXCEPT !.ppInf = UpdIndex(@, nBlk1)]
  IN IF HalfEmpty(c) THEN Compress(c).array ELSE c

-----------------------------------------------------------------------------
(* The operations.  The program inserts an element that is not in the array *)
(* and gives positions in it.                                               *)

Insert(e, pos) ==
  /\ nSize < MaxSize /\ entry[e] = None
  /\ Becomes(InsertInto(Array, e, pos))
  /\ call' = <<"Insert", e, pos>>

RemoveElements(pos, n) ==
  /\ pos + n <= nSize
  /\ Becomes(RemoveFrom(Array, pos, n))
  /\ call' = <<"Remove", pos, n>>

\* The element is inserted once more, and then removed where it was.
InsertedAgain(from, to) ==
  LET p == ppInf[Index2Block(Array, from) + 1]
  IN InsertInto(Array, p.pData[from - p.nStart + 1], to)

WasAt(from, to) == IF to < from THEN from + 1 ELSE from

Move(from, to) ==
  /\ from # to
  /\ Becomes(RemoveFrom(InsertedAgain(from, to), WasAt(from, to), 1))
  /\ call' = <<"Move", from, to>>

Replace(idx, e) ==
  /\ entry[e] = None
  /\ LET cur == Index2Block(Array, idx)
         p   == ppInf[cur + 1]
         off == idx - p.nStart
     IN Becomes([Array EXCEPT !.nCur = cur,
                   !.ppInf[cur + 1].pData[off + 1] = e,
                   !.entry[e] = [pBlock |-> p.id, nOffset |-> off]])
  /\ call' = <<"Replace", idx, e>>

\* operator[], which remembers the block.
Read(idx) ==
  LET cur == Index2Block(Array, idx)
      p   == ppInf[cur + 1]
  IN /\ nCur' = cur
     /\ call' = <<"Read", idx, p.pData[idx - p.nStart + 1]>>
     /\ UNCHANGED <<ppInf, nSize, nMaxBlock, entry>>

Positions == 0 .. nSize - 1

CountsStep ==
  /\ steps # 0
  /\ steps' = IF steps = None THEN None ELSE steps - 1
  /\ UNCHANGED pool

Operation ==
  \/ \E e \in pool, pos \in 0 .. nSize : Insert(e, pos)
  \/ \E pos \in Positions, n \in 1 .. nSize : RemoveElements(pos, n)
  \/ \E from \in Positions, to \in 0 .. nSize : Move(from, to)
  \/ \E idx \in Positions, e \in pool : Replace(idx, e)
  \/ \E idx \in Positions : Read(idx)

\* The last used block is one of the table (bparr.cxx:33, "BigPtrArray: CurIndex
\* invalid").
CurIndexValid == nSize # 0 => nCur < Len(ppInf)

\* Remove deletes the first block that it treats and all those behind it, and then
\* calls UpdIndex on its number.
DeletesToEnd(a, pos, n) ==
  /\ pos > 0 /\ pos + n = a.nSize
  /\ pos = a.ppInf[Index2Block(a, pos) + 1].nStart

\* An operation reads a deleted BlockInfo, or through a pointer of the table that was
\* never set, and it is not as Remove left it: in Index2Block, or at the end of Remove.
Strays ==
  /\ \/ ~CurIndexValid
     \/ \E pos \in Positions : DeletesToEnd(Array, pos, nSize - pos)
     \/ \E from \in Positions, to \in 0 .. nSize :
          from # to /\ DeletesToEnd(InsertedAgain(from, to), WasAt(from, to), 1)
  /\ astray' = TRUE
  /\ UNCHANGED <<ppInf, nSize, nMaxBlock, nCur, entry, call>>

Next ==
  /\ CountsStep /\ ~astray
  /\ \/ Operation /\ UNCHANGED astray
     \/ Strays

Spec == Init /\ [][Next]_vars

-----------------------------------------------------------------------------
(* Properties.                                                              *)

Contents == FlattenSeq([k \in DOMAIN ppInf |-> ppInf[k].pData])

\* The blocks have consecutive indices that fit their elements, as CheckIdx
\* tests, in a table with room for them.  An insertion that starts over finds
\* nothing to compress then: Insert does not call itself over and over.
BlocksFit ==
  astray \/
  /\ TypeOK
  /\ \A k \in DOMAIN ppInf :
       /\ ppInf[k].nStart = IF k = 1 THEN 0 ELSE ppInf[k - 1].nEnd + 1
       /\ ppInf[k].nEnd + 1 = ppInf[k].nStart + Len(ppInf[k].pData)
  /\ nSize = Len(Contents)
  /\ Len(ppInf) <= nMaxBlock
  /\ \A pos \in 0 .. nSize : ~StartsOver(Restarted(Array, pos), pos)

\* GetPos of each element in the array is its position: no insertion, removal,
\* move, replacement or compression leaves a stale block or offset behind.
GetPosRight ==
  astray \/
  \A i \in 1 .. nSize :
    LET at == entry[Contents[i]] IN
    /\ at # None
    /\ \E k \in DOMAIN ppInf : ppInf[k].id = at.pBlock /\ ppInf[k].nStart + at.nOffset = i - 1

\* Whatever block of the table was used last, Index2Block finds the block of a
\* position; and so does its binary search wherever it starts from, when there are
\* two blocks (bparr.cxx:117, "binary search: always successful").
SearchRight ==
  astray \/
  \A pos \in Positions :
    /\ nCur < Len(ppInf) => Holds(ppInf[Index2Block(Array, pos) + 1], pos)
    /\ pos > 0 /\ Len(ppInf) > 1 => Holds(ppInf[Search(Array, pos) + 1], pos)

\* The array behaves as an array of pointers: each operation, with its arguments and
\* what it returns, is that of PointerArray.
PA == INSTANCE PointerArray WITH array <- Contents
ImplementsPointerArray == [][PA!Next]_<<Contents, call>>
=============================================================================
