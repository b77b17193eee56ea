----------------------------- MODULE MCSwTextNode -----------------------------
(* Small instances of SwTextNode. *)
EXTENDS SwTextNode

CONSTANTS c1, c2

MCIdx == UNION {IndicesOf(o) : o \in Objects}
MCRegs == {"node", "prev", "tmp"}

\* The cursors can be exchanged, and so can the marks.
Symmetry == Permutations({c1, c2}) \cup Permutations(Marks)
=============================================================================
