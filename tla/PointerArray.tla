---------------------------- MODULE PointerArray ----------------------------
(* What BigPtrArray promises (inc/bparr.hxx): an array of pointers in which   *)
(* elements are inserted, removed, moved, replaced and read by their          *)
(* position.  call is a history variable with the arguments and the result    *)
(* of the last operation, so that an implementation has to agree on them.     *)
EXTENDS Naturals, Sequences

CONSTANTS Elems, MaxSize

VARIABLES array, call

Positions == 0 .. Len(array) - 1

\* The elements at from .. to - 1.
Slice(from, to) == SubSeq(array, from + 1, to)

Init == array = <<>> /\ call = <<>>

Insert(e, pos) ==
  /\ call' = <<"Insert", e, pos>>
  /\ Len(array) < MaxSize
  /\ array' = Slice(0, pos) \o <<e>> \o Slice(pos, Len(array))

Remove(pos, n) ==
  /\ call' = <<"Remove", pos, n>>
  /\ n <= Len(array) - pos
  /\ array' = Slice(0, pos) \o Slice(pos + n, Len(array))

\* The element goes in front of the one that was at position to.
Move(from, to) ==
  /\ call' = <<"Move", from, to>>
  /\ LET e == array[from + 1] IN
     array' = IF to <= from
              THEN Slice(0, to) \o <<e>> \o Slice(to, from) \o Slice(from + 1, Len(array))
              ELSE Slice(0, from) \o Slice(from + 1, to) \o <<e>> \o Slice(to, Len(array))

Replace(pos, e) ==
  /\ call' = <<"Replace", pos, e>>
  /\ array' = [array EXCEPT ![pos + 1] = e]

Read(pos) ==
  /\ call' = <<"Read", pos, array[pos + 1]>>
  /\ UNCHANGED array

Next ==
  \/ \E e \in Elems, pos \in 0 .. Len(array) : Insert(e, pos)
  \/ \E pos \in Positions, n \in 1 .. Len(array) : Remove(pos, n)
  \/ \E from \in Positions, to \in 0 .. Len(array) : Move(from, to)
  \/ \E pos \in Positions, e \in Elems : Replace(pos, e)
  \/ \E pos \in Positions : Read(pos)

Spec == Init /\ [][Next]_<<array, call>>
=============================================================================
