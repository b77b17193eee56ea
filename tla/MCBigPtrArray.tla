--------------------------- MODULE MCBigPtrArray ---------------------------
(* BigPtrArray from an empty array with interchangeable elements, and from   *)
(* tables that such an array gets only with many more of them.               *)
EXTENDS BigPtrArray, TLC

CONSTANTS
  Interchangeable,  \* the elements of an array that is empty at first
  Numbered          \* those of the tables below: 1, 2, ...

MCElems == Interchangeable \cup Numbered
MCSymmetry == Permutations(Interchangeable)

\* No step depends on the last operation.
MCView == <<ppInf, nSize, nMaxBlock, nCur, entry, pool, steps, astray>>

MCEmpty == {[blocks |-> <<>>, elems |-> Interchangeable, steps |-> None]}

\* The elements 1, 2, ... in blocks of the given sizes.
Table(sizes) ==
  LET before(k) == FoldLeft(LAMBDA n, size : n + size, 0, SubSeq(sizes, 1, k - 1))
  IN [k \in DOMAIN sizes |-> [i \in 1 .. sizes[k] |-> before(k) + i]]

\* What insertions and removals leave of full blocks: few elements in many
\* blocks, with full ones among them.
Sparse == {Table(<<1, 1, 1, 1, 4, 1, 4>>), Table(<<1, 1, 1, 1, 4, 4>>),
           Table(<<3, 2, 4, 1, 4>>)}

\* Any number of operations on the empty array, one on a sparse table.
MCTables == MCEmpty \cup
  {[blocks |-> table, elems |-> Numbered, steps |-> 1] : table \in Sparse}
=============================================================================
