---------------------------- MODULE TextPositions ----------------------------
(***************************************************************************)
(* What the registered SwIndexes of a text node promise their holders: a   *)
(* position in the text that follows the characters around it while text   *)
(* is inserted, erased and replaced.                                       *)
(***************************************************************************)
EXTENDS Naturals

CONSTANTS
  Idx,        \* the indices; i[1] is the object that holds the index i
  Movable,    \* the indices that text inserted at their position pushes on
  MaxLen, PrevLen,
  Nowhere

VARIABLES at, len    \* the position of each index, and the length of the text

\* A position is in the edited text, in the paragraph before it or nowhere.
Place(n) == {[reg |-> "node", nr |-> v] : v \in 0 .. n}
            \cup {[reg |-> "prev", nr |-> v] : v \in 0 .. PrevLen} \cup {Nowhere}

InText(place) == place # Nowhere /\ place.reg = "node"

Init == at = [i \in Idx |-> Nowhere] /\ len = 0

\* Where the index i may be when n characters more are at p.
Inserted(place, i, p, n) ==
  LET moved == [place EXCEPT !.nr = @ + n]
  IN IF ~InText(place) \/ place.nr < p THEN {place}
     ELSE IF place.nr > p \/ i \in Movable THEN {moved} ELSE {place, moved}

\* The n characters behind p are gone.
Erased(place, p, n) ==
  IF ~InText(place) \/ place.nr <= p THEN place
  ELSE [place EXCEPT !.nr = IF @ <= p + n THEN p ELSE @ - n]

\* The steps are relations of the positions a before and b after them.

\* One object puts its indices somewhere.
Places(a, b) ==
  /\ len' = len
  /\ \E o \in {i[1] : i \in Idx} : \A i \in Idx : i[1] # o => b[i] = a[i]
  /\ b \in [Idx -> Place(len)]

InsertText(a, b, p, n) ==
  /\ len' = len + n
  /\ \A i \in Idx : b[i] \in Inserted(a[i], i, p, n)

EraseText(a, b, p, n) ==
  /\ p + n <= len /\ len' = len - n
  /\ \A i \in Idx : b[i] = Erased(a[i], p, n)

\* The first character is replaced in place, and the index c given for it goes
\* behind it; unless there is nothing to erase or nothing to insert.
ReplaceText(a, b, c, del, ins) ==
  LET p == a[c].nr
      expand == IF del > 0 /\ ins > 0 THEN 1 ELSE 0
      Start(i) == IF i = c THEN [a[i] EXCEPT !.nr = @ + expand] ELSE a[i]
  IN /\ p + del <= len /\ len' = (len - del) + ins
     /\ \A i \in Idx :
          b[i] \in Inserted(Erased(Start(i), p + expand, del - expand), i,
                            p + expand, ins - expand)

Step(a, b) ==
  \/ Places(a, b)
  \/ \E p \in 0 .. len, n \in 1 .. MaxLen : InsertText(a, b, p, n) \/ EraseText(a, b, p, n)
  \/ \E c \in Movable, del, ins \in 0 .. MaxLen :
       InText(a[c]) /\ ReplaceText(a, b, c, del, ins)

\* a and b are bound, so that TLC evaluates at once for each state.
Next == \E a \in {at}, b \in {at'} : Step(a, b)

Spec == Init /\ [][Next]_<<at, len>>
=============================================================================
