--------------------------- MODULE UndoManagerProofs ---------------------------
(***************************************************************************)
(* What the save mark is worth: as long as it has not lost its meaning, a  *)
(* document that is called unmodified has the content that was saved.      *)
(***************************************************************************)
EXTENDS UndoManager, SequenceTheorems, TLAPS

-----------------------------------------------------------------------------
(* The inductive invariant.                                                 *)

\* The mark that the stack has on top when its first k actions are left.
MarkAt(k) == IF k = 0 THEN EmptyMark ELSE UndoStack[k].first

\* The content when all actions but the first k are undone.
UpTo(k) == {c \in content : \A i \in 1..Len(UndoStack) : i > k => c \notin UndoStack[i].changes}

\* The content when the next j actions are redone.
Beyond(j) == content \cup UNION {RedoStack[i].changes : i \in 1..j}

\* All changes have numbers that were given away, and so have the marks.
NumbersUsed ==
    /\ \A c \in content : c <= changes
    /\ m_UndoSaveMark <= changes
    /\ \A i \in 1..Len(UndoStack) : UndoStack[i].first \in UndoStack[i].changes
    /\ \A j \in 1..Len(RedoStack) :
         /\ RedoStack[j].first \in RedoStack[j].changes
         /\ \A c \in RedoStack[j].changes : c <= changes

\* The changes of the actions to undo are in the document, those of the actions
\* to redo are not, and each belongs to one action.
ActionsDisjoint ==
    /\ \A i \in 1..Len(UndoStack) :
         /\ UndoStack[i].changes \subseteq content
         /\ \A k \in 1..Len(UndoStack) :
              i # k => UndoStack[i].changes \cap UndoStack[k].changes = {}
    /\ \A j \in 1..Len(RedoStack) :
         /\ RedoStack[j].changes \cap content = {}
         /\ \A k \in 1..Len(RedoStack) :
              j # k => RedoStack[j].changes \cap RedoStack[k].changes = {}

\* Undoing or redoing up to the mark leads to the content that was saved.
MarkLeadsBack ==
    ~blind =>
      /\ \A k \in 0..Len(UndoStack) : m_UndoSaveMark = MarkAt(k) => saved = UpTo(k)
      /\ \A j \in 1..Len(RedoStack) :
           m_UndoSaveMark = RedoStack[j].first => saved = Beyond(j)

IInv ==
    /\ TypeOK
    /\ NumbersUsed
    /\ ActionsDisjoint
    /\ MarkLeadsBack
    /\ UnmodifiedIsSavedUnlessBlind

-----------------------------------------------------------------------------
(* Facts about the stacks.                                                  *)

\* The actions of a stack.
LEMMA StackOfActions ==
    ASSUME NEW s \in Seq(Actions)
    PROVE  /\ Len(s) \in Nat
           /\ \A i \in 1..Len(s) : s[i].first \in Nat \ {0} /\ s[i].changes \subseteq Nat \ {0}
<1>1. Len(s) \in Nat /\ s \in [1..Len(s) -> Actions]
  BY LenProperties
<1>2. QED  BY <1>1 DEF Actions, Changes

\* The stack without its last element.
LEMMA Popped ==
    ASSUME NEW S, NEW s \in Seq(S), s # <<>>
    PROVE  /\ Len(s) \in Nat \ {0}
           /\ Last(s) = s[Len(s)] /\ Last(s) \in S
           /\ Front(s) \in Seq(S) /\ Len(Front(s)) = Len(s) - 1
           /\ \A i \in 1..Len(s) - 1 : Front(s)[i] = s[i]
<1>1. Len(s) \in Nat \ {0} /\ s \in [1..Len(s) -> S]
  BY EmptySeq, LenProperties
<1>2. \A i \in 1..Len(s) - 1 : s[i] \in S
  BY <1>1
<1>3. /\ SubSeq(s, 1, Len(s) - 1) \in Seq(S)
      /\ Len(SubSeq(s, 1, Len(s) - 1)) = Len(s) - 1
      /\ \A i \in 1..Len(s) - 1 : SubSeq(s, 1, Len(s) - 1)[i] = s[i]
  BY <1>1, <1>2, SubSeqProperties
<1>4. QED  BY <1>1, <1>3 DEF Front, Last

\* The stack without its first element.
LEMMA Pulled ==
    ASSUME NEW S, NEW s \in Seq(S), s # <<>>
    PROVE  /\ Len(s) \in Nat \ {0}
           /\ Head(s) = s[1] /\ Head(s) \in S
           /\ Tail(s) \in Seq(S) /\ Len(Tail(s)) = Len(s) - 1
           /\ \A i \in 1..Len(s) - 1 : Tail(s)[i] = s[i + 1]
BY EmptySeq, HeadTailProperties

\* The stack with one element more in front.
LEMMA Put ==
    ASSUME NEW S, NEW s \in Seq(S), NEW a \in S
    PROVE  /\ <<a>> \o s \in Seq(S) /\ Len(<<a>> \o s) = Len(s) + 1
           /\ (<<a>> \o s)[1] = a
           /\ \A i \in 2..Len(s) + 1 : (<<a>> \o s)[i] = s[i - 1]
<1>1. <<a>> \in Seq(S) /\ Len(<<a>>) = 1 /\ <<a>>[1] = a /\ Len(s) \in Nat
  BY LenProperties
<1>2. QED  BY <1>1, ConcatProperties

\* The stack that has lost its oldest elements and got one on top.
LEMMA Pushed ==
    ASSUME NEW S, NEW s \in Seq(S), NEW a \in S, NEW d \in 0..Len(s)
    PROVE  LET t == Append(SubSeq(s, d + 1, Len(s)), a) IN
           /\ t \in Seq(S) /\ Len(t) = Len(s) - d + 1
           /\ t[Len(s) - d + 1] = a
           /\ \A i \in 1..Len(s) - d : t[i] = s[i + d]
<1> DEFINE u == SubSeq(s, d + 1, Len(s))
<1>1. Len(s) \in Nat /\ \A i \in d + 1..Len(s) : s[i] \in S
  BY LenProperties
<1>2. u \in Seq(S) /\ Len(u) = Len(s) - d /\ \A i \in 1..Len(s) - d : u[i] = s[i + d]
  BY <1>1, SubSeqProperties
<1> HIDE DEF u
<1>3. /\ Append(u, a) \in Seq(S) /\ Len(Append(u, a)) = Len(s) - d + 1
      /\ Append(u, a)[Len(s) - d + 1] = a
      /\ \A i \in 1..Len(s) - d : Append(u, a)[i] = s[i + d]
  BY <1>1, <1>2, AppendProperties
<1>4. QED  BY <1>3 DEF u

-----------------------------------------------------------------------------
(* Each action preserves the invariant.                                     *)

LEMMA InitEstablishes == Init => IInv
<1> SUFFICES ASSUME Init PROVE IInv
  OBVIOUS
<1>1. TypeOK
  BY EmptySeq DEF Init, TypeOK
<1>2. NumbersUsed /\ ActionsDisjoint
  BY DEF Init, NumbersUsed, ActionsDisjoint, EmptyMark
<1>3. MarkLeadsBack
  BY DEF Init, MarkLeadsBack, UpTo
<1>4. UnmodifiedIsSavedUnlessBlind
  BY DEF Init, UnmodifiedIsSavedUnlessBlind, UnmodifiedIsSaved
<1>5. QED  BY <1>1, <1>2, <1>3, <1>4 DEF IInv

LEMMA EditKeeps ==
    ASSUME IInv, NEW grows \in BOOLEAN, Edit(grows)
    PROVE  IInv'
<1> DEFINE a == [first |-> changes', changes |-> {changes'}, grows |-> grows]
<1> USE DEF MARK_INVALID, EmptyMark, Changes
<1>1. /\ changes \in Nat /\ changes' = changes + 1 /\ content' = content \cup {changes'}
      /\ mbModified' = TRUE /\ saved' = saved
      /\ m_bLockUndoNoModifiedPosition' = m_bLockUndoNoModifiedPosition
  BY DEF IInv, TypeOK, Edit, NewChange, SetModified
<1>2. a \in Actions
  BY <1>1 DEF Actions
<1>3. PICK d \in 0..Len(UndoStack) :
        /\ UndoStack' = Append(SubSeq(UndoStack, d + 1, Len(UndoStack)), a)
        /\ RedoStack' = <<>>
        /\ m_UndoSaveMark' = IF d > 0 /\ m_UndoSaveMark = EmptyMark /\ ~EmptyMarkStays
                             THEN MARK_INVALID ELSE m_UndoSaveMark
        /\ blind' = (blind \/ (d > 0 /\ m_UndoSaveMark' = EmptyMark))
  BY DEF Edit, AppendUndo
<1>4. /\ UndoStack \in Seq(Actions) /\ Len(UndoStack) \in Nat
      /\ \A i \in 1..Len(UndoStack) : UndoStack[i].first \in Nat \ {0}
  BY StackOfActions DEF IInv, TypeOK
<1>5. /\ UndoStack' \in Seq(Actions) /\ Len(UndoStack') = Len(UndoStack) - d + 1
      /\ UndoStack'[Len(UndoStack) - d + 1] = a
      /\ \A i \in 1..Len(UndoStack) - d : UndoStack'[i] = UndoStack[i + d]
  BY <1>2, <1>3, <1>4, Pushed, LenProperties
<1> HIDE DEF a
<1>6. a.first = changes' /\ a.changes = {changes'}
  BY DEF a
<1>7. /\ RedoStack' \in Seq(Actions) /\ Len(RedoStack') = 0
      /\ m_UndoSaveMark' \in {m_UndoSaveMark, MARK_INVALID}
      /\ blind' \in BOOLEAN
      /\ ~blind' => ~blind /\ ~(d > 0 /\ m_UndoSaveMark' = EmptyMark)
  BY <1>3, EmptySeq DEF IInv, TypeOK
<1>8. /\ \A k \in 1..Len(UndoStack) - d : /\ UndoStack'[k].changes = UndoStack[k + d].changes
                                         /\ UndoStack'[k].first = UndoStack[k + d].first
      /\ UndoStack'[Len(UndoStack) - d + 1].changes = {changes'}
      /\ UndoStack'[Len(UndoStack) - d + 1].first = changes'
  BY <1>5, <1>6
<1>0. /\ Len(UndoStack) \in Nat /\ d \in 0..Len(UndoStack)
      /\ Len(UndoStack') = Len(UndoStack) - d + 1
  BY <1>4, <1>5
<1>9. TypeOK'
  BY <1>1, <1>5, <1>7 DEF IInv, TypeOK
<1>10. NumbersUsed'
  <2>1. (\A c \in content' : c <= changes') /\ m_UndoSaveMark' <= changes'
    BY <1>1, <1>7 DEF IInv, TypeOK, NumbersUsed
  <2>2. ASSUME NEW i \in 1..Len(UndoStack')
        PROVE  UndoStack'[i].first \in UndoStack'[i].changes
    <3>1. CASE i = Len(UndoStack')
      BY <1>0, <1>8, <3>1
    <3>2. CASE i # Len(UndoStack')
      <4>1. i \in 1..Len(UndoStack) - d /\ i + d \in 1..Len(UndoStack)
        BY <1>0, <3>2
      <4>2. QED  BY <1>8, <4>1 DEF IInv, NumbersUsed
    <3>3. QED  BY <3>1, <3>2
  <2>3. QED  BY <1>7, <2>1, <2>2 DEF NumbersUsed
<1>11. ActionsDisjoint'
  <2>1. \A k \in 1..Len(UndoStack) : changes' \notin UndoStack[k].changes
    <3> SUFFICES ASSUME NEW k \in 1..Len(UndoStack), changes' \in UndoStack[k].changes
                 PROVE  FALSE
      OBVIOUS
    <3>1. changes' \in content
      BY DEF IInv, ActionsDisjoint
    <3>2. changes + 1 <= changes
      BY <1>1, <3>1 DEF IInv, NumbersUsed
    <3>3. QED  BY <1>1, <3>2
  <2>2. \A i \in 1..Len(UndoStack') : UndoStack'[i].changes \subseteq content'
    <3> SUFFICES ASSUME NEW i \in 1..Len(UndoStack') PROVE UndoStack'[i].changes \subseteq content'
      OBVIOUS
    <3>1. CASE i = Len(UndoStack')
      BY <1>1, <1>0, <1>8, <3>1
    <3>2. CASE i # Len(UndoStack')
      <4>1. i \in 1..Len(UndoStack) - d /\ i + d \in 1..Len(UndoStack)
        BY <1>0, <3>2
      <4>2. QED  BY <1>1, <1>8, <4>1 DEF IInv, ActionsDisjoint
    <3>3. QED  BY <3>1, <3>2
  <2>3. ASSUME NEW i \in 1..Len(UndoStack'), NEW k \in 1..Len(UndoStack'), i # k
        PROVE  UndoStack'[i].changes \cap UndoStack'[k].changes = {}
    <3>1. CASE i = Len(UndoStack')
      <4>1. k \in 1..Len(UndoStack) - d /\ k + d \in 1..Len(UndoStack)
        BY <1>0, <2>3, <3>1
      <4>2. QED  BY <1>5, <1>8, <2>1, <3>1, <4>1
    <3>2. CASE k = Len(UndoStack')
      <4>1. i \in 1..Len(UndoStack) - d /\ i + d \in 1..Len(UndoStack)
        BY <1>0, <2>3, <3>2
      <4>2. QED  BY <1>5, <1>8, <2>1, <3>2, <4>1
    <3>3. CASE i # Len(UndoStack') /\ k # Len(UndoStack')
      <4>1. /\ i \in 1..Len(UndoStack) - d /\ i + d \in 1..Len(UndoStack)
            /\ k \in 1..Len(UndoStack) - d /\ k + d \in 1..Len(UndoStack)
            /\ i + d # k + d
        BY <1>0, <2>3, <3>3
      <4>2. QED  BY <1>8, <4>1 DEF IInv, ActionsDisjoint
    <3>4. QED  BY <3>1, <3>2, <3>3
  <2>4. QED  BY <1>7, <2>2, <2>3 DEF ActionsDisjoint
<1>12. MarkLeadsBack'
  <2> SUFFICES ASSUME ~blind', NEW k \in 0..Len(UndoStack'),
                      m_UndoSaveMark' = MarkAt(k)'
               PROVE  saved' = UpTo(k)'
    BY <1>1, <1>7 DEF MarkLeadsBack
  <2>1. k # Len(UndoStack')
    <3>1. m_UndoSaveMark' <= changes /\ m_UndoSaveMark' \in Int
      BY <1>1, <1>7 DEF IInv, TypeOK, NumbersUsed
    <3>2. ASSUME k = Len(UndoStack') PROVE m_UndoSaveMark' = changes + 1
      BY <1>0, <1>1, <1>8, <3>2 DEF MarkAt
    <3>3. QED  BY <1>1, <3>1, <3>2
  <2>2. k \in 0..Len(UndoStack) - d /\ k + d \in 0..Len(UndoStack)
    BY <1>0, <2>1
  <2>3. m_UndoSaveMark = MarkAt(k + d)
    <3>1. CASE k = 0
      BY <1>7, <3>1 DEF MarkAt
    <3>2. CASE k # 0
      <4>1. UndoStack'[k].first = UndoStack[k + d].first /\ UndoStack[k + d].first \in Nat \ {0}
        <5>1. k \in 1..Len(UndoStack) - d /\ k + d \in 1..Len(UndoStack)
          BY <1>0, <2>2, <3>2
        <5>2. QED  BY <1>4, <1>8, <5>1
      <4>2. QED  BY <1>7, <2>2, <3>2, <4>1 DEF MarkAt
    <3>3. QED  BY <3>1, <3>2
  <2>4. saved = UpTo(k + d)
    BY <1>7, <2>2, <2>3 DEF IInv, MarkLeadsBack
  <2>5. \A c \in content : c # changes'
    BY <1>1 DEF IInv, TypeOK, NumbersUsed
  <2>6. UpTo(k)' \subseteq UpTo(k + d)
    <3> SUFFICES ASSUME NEW c \in UpTo(k)' PROVE c \in UpTo(k + d)
      OBVIOUS
    <3>1. c \in content
      BY <1>1, <1>4, <1>5, <1>8, <2>2 DEF UpTo
    <3>2. ASSUME NEW i \in 1..Len(UndoStack), i > k + d PROVE c \notin UndoStack[i].changes
      <4>1. i - d \in 1..Len(UndoStack) - d /\ i - d > k /\ (i - d) + d = i
        BY <1>0, <2>2, <3>2
      <4>2. UndoStack'[i - d].changes = UndoStack[i].changes /\ i - d \in 1..Len(UndoStack')
        BY <1>4, <1>5, <1>8, <4>1
      <4>3. QED  BY <4>1, <4>2 DEF UpTo
    <3>3. QED  BY <3>1, <3>2 DEF UpTo
  <2>7. UpTo(k + d) \subseteq UpTo(k)'
    <3> SUFFICES ASSUME NEW c \in UpTo(k + d) PROVE c \in UpTo(k)'
      OBVIOUS
    <3>1. c \in content /\ c \in content' /\ c # changes'
      BY <1>1, <2>5 DEF UpTo
    <3>2. ASSUME NEW i \in 1..Len(UndoStack'), i > k PROVE c \notin UndoStack'[i].changes
      <4>1. CASE i = Len(UndoStack')
        BY <1>5, <1>8, <3>1, <4>1
      <4>2. CASE i # Len(UndoStack')
        <5>1. i \in 1..Len(UndoStack) - d /\ i + d \in 1..Len(UndoStack) /\ i + d > k + d
          BY <1>0, <2>2, <3>2, <4>2
        <5>2. QED  BY <1>8, <5>1 DEF UpTo
      <4>3. QED  BY <4>1, <4>2
    <3>3. QED  BY <3>1, <3>2 DEF UpTo
  <2>8. QED  BY <1>1, <2>4, <2>6, <2>7
<1>13. UnmodifiedIsSavedUnlessBlind'
  BY <1>1 DEF UnmodifiedIsSavedUnlessBlind, UnmodifiedIsSaved
<1>14. QED  BY <1>9, <1>10, <1>11, <1>12, <1>13 DEF IInv

LEMMA InsertStringKeeps == IInv /\ InsertString => IInv'
<1> SUFFICES ASSUME IInv, InsertString PROVE IInv'
  OBVIOUS
<1> DEFINE n == Len(UndoStack)
<1> USE DEF MARK_INVALID, EmptyMark, Changes
<1>1. /\ changes \in Nat /\ changes' = changes + 1 /\ content' = content \cup {changes'}
      /\ mbModified' = TRUE /\ saved' = saved
      /\ m_bLockUndoNoModifiedPosition' = m_bLockUndoNoModifiedPosition
      /\ m_UndoSaveMark' = m_UndoSaveMark
  BY DEF IInv, TypeOK, InsertString, NewChange, SetModified
<1>2. UndoStack \in Seq(Actions) /\ UndoStack # <<>>
  BY DEF IInv, TypeOK, InsertString, CanGrouping
<1>3. n \in Nat \ {0} /\ Last(UndoStack) = UndoStack[n]
  BY <1>2, Popped
<1>4. UndoStack \in [1..n -> Actions]
  BY <1>2, LenProperties
<1>5. UndoStack' = [UndoStack EXCEPT ![n].changes = @ \cup {changes'}]
  BY DEF InsertString
<1>6. UndoStack' \in [1..n -> Actions]
  BY <1>1, <1>3, <1>4, <1>5 DEF Actions
<1>7. UndoStack' \in Seq(Actions) /\ Len(UndoStack') = n
  BY <1>3, <1>6, IsASeq, LenProperties
<1>8. /\ \A i \in 1..n : UndoStack'[i].first = UndoStack[i].first
      /\ \A i \in 1..n : i # n => UndoStack'[i].changes = UndoStack[i].changes
      /\ UndoStack'[n].changes = UndoStack[n].changes \cup {changes'}
  BY <1>3, <1>4, <1>5 DEF Actions
<1>9. RedoStack' = <<>> /\ RedoStack' \in Seq(Actions) /\ Len(RedoStack') = 0
  BY EmptySeq DEF InsertString
<1>10. ~blind' => ~blind /\ m_UndoSaveMark # UndoStack[n].first
  BY <1>2, <1>3 DEF InsertString, HasTopUndoActionMark, TopMark
<1>11. changes' \notin content /\ \A i \in 1..n : changes' \notin UndoStack[i].changes
  BY <1>1 DEF IInv, NumbersUsed, ActionsDisjoint
<1>12. TypeOK'
  BY <1>1, <1>7, <1>9 DEF IInv, TypeOK, InsertString
<1>13. NumbersUsed'
  BY <1>1, <1>3, <1>7, <1>8, <1>9 DEF IInv, TypeOK, NumbersUsed
<1>14. ActionsDisjoint'
  BY <1>1, <1>3, <1>7, <1>8, <1>9, <1>11 DEF IInv, ActionsDisjoint
<1>15. MarkLeadsBack'
  <2> SUFFICES ASSUME ~blind', NEW k \in 0..n, m_UndoSaveMark' = MarkAt(k)'
               PROVE  saved' = UpTo(k)'
    BY <1>7, <1>9 DEF MarkLeadsBack
  <2>1. m_UndoSaveMark = MarkAt(k) /\ k < n
    BY <1>1, <1>3, <1>8, <1>10 DEF MarkAt
  <2>2. saved = UpTo(k)
    BY <1>10, <2>1 DEF IInv, MarkLeadsBack
  <2>3. UpTo(k)' = UpTo(k)
    BY <1>1, <1>3, <1>7, <1>8, <1>11, <2>1 DEF UpTo
  <2>4. QED  BY <1>1, <2>2, <2>3
<1>16. UnmodifiedIsSavedUnlessBlind'
  BY <1>1 DEF UnmodifiedIsSavedUnlessBlind, UnmodifiedIsSaved
<1>17. QED  BY <1>12, <1>13, <1>14, <1>15, <1>16 DEF IInv

LEMMA UnrecordedEditKeeps ==
    ASSUME IInv, NEW resets \in BOOLEAN, UnrecordedEdit(resets)
    PROVE  IInv'
<1> USE DEF MARK_INVALID, EmptyMark, Changes
<1>1. /\ changes \in Nat /\ changes' = changes + 1 /\ content' = content \cup {changes'}
      /\ mbModified' = TRUE /\ saved' = saved
      /\ UndoStack' = UndoStack /\ RedoStack' = RedoStack
      /\ m_bLockUndoNoModifiedPosition' = m_bLockUndoNoModifiedPosition
      /\ m_UndoSaveMark' \in {m_UndoSaveMark, MARK_INVALID}
      /\ blind' \in BOOLEAN /\ (~blind' => m_UndoSaveMark' = MARK_INVALID)
  BY DEF IInv, TypeOK, UnrecordedEdit, NewChange, SetModified, stacks
<1>2. /\ \A i \in 1..Len(UndoStack) : UndoStack[i].first \in Nat \ {0}
      /\ \A j \in 1..Len(RedoStack) : RedoStack[j].first \in Nat \ {0}
  BY StackOfActions DEF IInv, TypeOK
<1>3. TypeOK'
  BY <1>1 DEF IInv, TypeOK
<1>4. NumbersUsed'
  <2>1. (\A c \in content' : c <= changes') /\ m_UndoSaveMark' <= changes'
    BY <1>1 DEF IInv, TypeOK, NumbersUsed
  <2>2. \A j \in 1..Len(RedoStack) : \A c \in RedoStack[j].changes : c <= changes'
    <3> SUFFICES ASSUME NEW j \in 1..Len(RedoStack), NEW c \in RedoStack[j].changes
                 PROVE  c <= changes'
      OBVIOUS
    <3>1. c <= changes /\ c \in Nat
      BY StackOfActions DEF IInv, TypeOK, NumbersUsed
    <3>2. QED  BY <1>1, <3>1
  <2>3. QED  BY <1>1, <2>1, <2>2 DEF IInv, NumbersUsed
<1>5. changes' \notin content
  BY <1>1 DEF IInv, NumbersUsed
<1>6. \A j \in 1..Len(RedoStack) : changes' \notin RedoStack[j].changes
  BY <1>1 DEF IInv, NumbersUsed
<1>7. ActionsDisjoint'
  <2>1. \A i \in 1..Len(UndoStack) : UndoStack[i].changes \subseteq content'
    BY <1>1 DEF IInv, ActionsDisjoint
  <2>2. \A j \in 1..Len(RedoStack) : RedoStack[j].changes \cap content' = {}
    BY <1>1, <1>6 DEF IInv, ActionsDisjoint
  <2>3. QED  BY <1>1, <2>1, <2>2 DEF IInv, ActionsDisjoint
<1>8. MarkLeadsBack'
  <2>1. \A k \in 0..Len(UndoStack) : MARK_INVALID # MarkAt(k)
    BY <1>2 DEF MarkAt
  <2>2. QED  BY <1>1, <1>2, <2>1 DEF MarkLeadsBack, MarkAt
<1>9. UnmodifiedIsSavedUnlessBlind'
  BY <1>1 DEF UnmodifiedIsSavedUnlessBlind, UnmodifiedIsSaved
<1>10. QED  BY <1>3, <1>4, <1>7, <1>8, <1>9 DEF IInv

\* What the mark decides, when the stack to undo has k actions left.
LEMMA MarkDecidesRight ==
    ASSUME IInv, MarkDecides, UndoStack' \in Seq(Actions),
           ~blind => (m_UndoSaveMark = TopMark(UndoStack') => saved = content'),
           saved' = saved, blind' = blind
    PROVE  /\ m_UndoSaveMark' = m_UndoSaveMark
           /\ mbModified' \in BOOLEAN
           /\ UnmodifiedIsSavedUnlessBlind'
<1>1. CASE m_UndoSaveMark = TopMark(UndoStack')
  BY <1>1 DEF MarkDecides, HasTopUndoActionMark, ResetModified, SetUndoNoModifiedPosition,
              UnmodifiedIsSavedUnlessBlind, UnmodifiedIsSaved
<1>2. CASE m_UndoSaveMark # TopMark(UndoStack')
  BY <1>2 DEF MarkDecides, HasTopUndoActionMark, SetModified,
              UnmodifiedIsSavedUnlessBlind, UnmodifiedIsSaved
<1>3. QED  BY <1>1, <1>2

LEMMA UndoKeeps == IInv /\ Undo => IInv'
<1> SUFFICES ASSUME IInv, Undo PROVE IInv'
  OBVIOUS
<1> DEFINE n == Len(UndoStack)
           m == Len(RedoStack)
           a == UndoStack[n]
<1> USE DEF MARK_INVALID, EmptyMark, Changes
<1>1. /\ UndoStack \in Seq(Actions) /\ UndoStack # <<>> /\ RedoStack \in Seq(Actions)
      /\ changes' = changes /\ saved' = saved /\ blind' = blind
      /\ m_bLockUndoNoModifiedPosition' = m_bLockUndoNoModifiedPosition
  BY DEF IInv, TypeOK, Undo
<1>2. n \in Nat \ {0} /\ m \in Nat /\ Last(UndoStack) = a /\ a \in Actions
  BY <1>1, Popped, LenProperties
<1>3. UndoStack' = Front(UndoStack) /\ RedoStack' = <<a>> \o RedoStack
      /\ content' = content \ a.changes
  BY <1>2 DEF Undo
<1>4. /\ UndoStack' \in Seq(Actions) /\ Len(UndoStack') = n - 1
      /\ \A i \in 1..n - 1 : UndoStack'[i] = UndoStack[i]
  BY <1>1, <1>3, Popped
<1>5. /\ RedoStack' \in Seq(Actions) /\ Len(RedoStack') = m + 1
      /\ RedoStack'[1] = a /\ \A j \in 2..m + 1 : RedoStack'[j] = RedoStack[j - 1]
  BY <1>1, <1>2, <1>3, Put
<1>6. a.changes \subseteq content /\ a.first \in a.changes
  BY <1>2 DEF IInv, ActionsDisjoint, NumbersUsed
<1> HIDE DEF a
<1>7. content = content' \cup a.changes
  BY <1>3, <1>6
<1>8. \A k \in 0..n - 1 : UpTo(k)' = UpTo(k) /\ MarkAt(k)' = MarkAt(k)
  <2> TAKE k \in 0..n - 1
  <2>1. MarkAt(k)' = MarkAt(k)
    BY <1>2, <1>4 DEF MarkAt
  <2>2. ASSUME NEW c \in content
        PROVE  c \in UpTo(k)' <=> c \in UpTo(k)
    <3>1. c \in UpTo(k)' <=> /\ c \notin UndoStack[n].changes
                             /\ \A i \in 1..n - 1 : i > k => c \notin UndoStack[i].changes
      BY <1>2, <1>3, <1>4 DEF UpTo, a
    <3>2. c \in UpTo(k) <=> \A i \in 1..n : i > k => c \notin UndoStack[i].changes
      BY DEF UpTo
    <3>3. QED  BY <1>2, <3>1, <3>2
  <2>3. UpTo(k)' \subseteq content /\ UpTo(k) \subseteq content
    BY <1>3 DEF UpTo
  <2>4. QED  BY <2>1, <2>2, <2>3
<1>9. ~blind => (m_UndoSaveMark = TopMark(UndoStack') => saved = content')
  <2>1. TopMark(UndoStack') = MarkAt(n - 1)
    <3>1. CASE n = 1
      BY <1>4, <3>1, EmptySeq DEF TopMark, MarkAt
    <3>2. CASE n # 1
      <4>1. UndoStack' # <<>> /\ n - 1 \in 1..n - 1
        BY <1>2, <1>4, <3>2, EmptySeq
      <4>2. Last(UndoStack') = UndoStack[n - 1]
        BY <1>2, <1>4, <4>1, Popped
      <4>3. QED  BY <1>2, <3>2, <4>1, <4>2 DEF TopMark, MarkAt
    <3>3. QED  BY <3>1, <3>2
  <2>2. UpTo(n - 1) = content'
    BY <1>2, <1>3 DEF UpTo, a
  <2>3. QED  BY <1>2, <2>1, <2>2 DEF IInv, MarkLeadsBack
<1>10. m_UndoSaveMark' = m_UndoSaveMark /\ mbModified' \in BOOLEAN /\ UnmodifiedIsSavedUnlessBlind'
  BY <1>1, <1>4, <1>9, MarkDecidesRight DEF Undo
<1>11. TypeOK'
  BY <1>1, <1>3, <1>4, <1>5, <1>10 DEF IInv, TypeOK
<1>12. NumbersUsed'
  <2>1. \A c \in a.changes : c <= changes
    BY <1>6 DEF IInv, NumbersUsed
  <2>2. ASSUME NEW j \in 1..m + 1
        PROVE  /\ RedoStack'[j].first \in RedoStack'[j].changes
               /\ \A c \in RedoStack'[j].changes : c <= changes
    <3>1. CASE j = 1
      BY <1>5, <1>6, <2>1, <3>1
    <3>2. CASE j # 1
      <4>1. j - 1 \in 1..m /\ RedoStack'[j] = RedoStack[j - 1]
        BY <1>2, <1>5, <3>2
      <4>2. QED  BY <4>1 DEF IInv, NumbersUsed
    <3>3. QED  BY <3>1, <3>2
  <2>3. QED  BY <1>1, <1>2, <1>3, <1>4, <1>5, <1>10, <2>2 DEF IInv, NumbersUsed
<1>13. ActionsDisjoint'
  <2>1. ASSUME NEW i \in 1..n - 1
        PROVE  /\ UndoStack'[i].changes \subseteq content'
               /\ \A k \in 1..n - 1 : i # k => UndoStack'[i].changes \cap UndoStack'[k].changes = {}
    <3>1. i \in 1..n /\ n \in 1..n /\ i # n /\ UndoStack'[i] = UndoStack[i]
      BY <1>2, <1>4
    <3>2. UndoStack[i].changes \subseteq content /\ UndoStack[i].changes \cap a.changes = {}
      BY <3>1 DEF IInv, ActionsDisjoint, a
    <3>3. ASSUME NEW k \in 1..n - 1, i # k
          PROVE  UndoStack'[i].changes \cap UndoStack'[k].changes = {}
      BY <1>2, <1>4, <3>1, <3>3 DEF IInv, ActionsDisjoint
    <3>4. QED  BY <1>3, <3>1, <3>2, <3>3
  <2>2. ASSUME NEW j \in 1..m + 1 PROVE RedoStack'[j].changes \cap content' = {}
    <3>1. CASE j = 1
      BY <1>3, <1>5, <3>1
    <3>2. CASE j # 1
      <4>1. j - 1 \in 1..m /\ RedoStack'[j] = RedoStack[j - 1]
        BY <1>2, <1>5, <3>2
      <4>2. QED  BY <1>3, <4>1 DEF IInv, ActionsDisjoint
    <3>3. QED  BY <3>1, <3>2
  <2>3. \A j \in 1..m : RedoStack[j].changes \cap a.changes = {}
    BY <1>6 DEF IInv, ActionsDisjoint
  <2>4. ASSUME NEW j \in 1..m + 1, NEW k \in 1..m + 1, j # k
        PROVE  RedoStack'[j].changes \cap RedoStack'[k].changes = {}
    <3>1. (j # 1 => j - 1 \in 1..m) /\ (k # 1 => k - 1 \in 1..m) /\ j - 1 # k - 1
      BY <1>2, <2>4
    <3>2. CASE j = 1
      BY <1>5, <2>3, <2>4, <3>1, <3>2
    <3>3. CASE k = 1
      BY <1>5, <2>3, <2>4, <3>1, <3>3
    <3>4. CASE j # 1 /\ k # 1
      BY <1>5, <3>1, <3>4 DEF IInv, ActionsDisjoint
    <3>5. QED  BY <3>2, <3>3, <3>4
  <2>5. QED  BY <1>4, <1>5, <2>1, <2>2, <2>4 DEF ActionsDisjoint
<1>14. MarkLeadsBack'
  <2>1. ASSUME ~blind, NEW k \in 0..n - 1, m_UndoSaveMark = MarkAt(k)'
        PROVE  saved = UpTo(k)'
    BY <1>2, <1>8, <2>1 DEF IInv, MarkLeadsBack
  <2>2. ASSUME ~blind, NEW j \in 1..m + 1, m_UndoSaveMark = RedoStack'[j].first
        PROVE  saved = Beyond(j)'
    <3>1. CASE j = 1
      <4>1. m_UndoSaveMark = MarkAt(n) /\ n \in 0..n
        BY <1>2, <1>5, <2>2, <3>1 DEF MarkAt, a
      <4>2. saved = UpTo(n)
        BY <2>2, <4>1 DEF IInv, MarkLeadsBack
      <4>3. UpTo(n) = content
        BY <1>2 DEF UpTo
      <4>4. UNION {RedoStack'[i].changes : i \in 1..j} = a.changes
        BY <1>5, <3>1
      <4>5. QED  BY <1>7, <4>2, <4>3, <4>4 DEF Beyond
    <3>2. CASE j # 1
      <4>1. j - 1 \in 1..m /\ RedoStack'[j] = RedoStack[j - 1]
        BY <1>2, <1>5, <3>2
      <4>2. saved = content \cup UNION {RedoStack[i].changes : i \in 1..j - 1}
        BY <2>2, <4>1 DEF IInv, MarkLeadsBack, Beyond
      <4>3. UNION {RedoStack'[i].changes : i \in 1..j}
              = a.changes \cup UNION {RedoStack[i].changes : i \in 1..j - 1}
        <5>1. ASSUME NEW i \in 1..j
              PROVE  RedoStack'[i].changes = IF i = 1 THEN a.changes ELSE RedoStack[i - 1].changes
          BY <1>2, <1>5
        <5>2. ASSUME NEW c
              PROVE  (\E i \in 1..j : c \in RedoStack'[i].changes)
                       <=> c \in a.changes \/ \E i \in 1..j - 1 : c \in RedoStack[i].changes
          <6>1. ASSUME NEW i \in 1..j, c \in RedoStack'[i].changes
                PROVE  c \in a.changes \/ \E l \in 1..j - 1 : c \in RedoStack[l].changes
            <7>1. CASE i = 1
              BY <5>1, <6>1, <7>1
            <7>2. CASE i # 1
              <8>1. i - 1 \in 1..j - 1
                BY <7>2
              <8>2. QED  BY <5>1, <6>1, <7>2, <8>1
            <7>3. QED  BY <7>1, <7>2
          <6>2. ASSUME c \in a.changes PROVE \E i \in 1..j : c \in RedoStack'[i].changes
            BY <5>1, <6>2
          <6>3. ASSUME NEW l \in 1..j - 1, c \in RedoStack[l].changes
                PROVE  \E i \in 1..j : c \in RedoStack'[i].changes
            <7>1. l + 1 \in 1..j /\ l + 1 # 1 /\ (l + 1) - 1 = l
              BY <4>1
            <7>2. QED  BY <5>1, <6>3, <7>1
          <6>4. QED  BY <6>1, <6>2, <6>3
        <5>3. QED  BY <5>2
      <4>4. QED  BY <1>7, <4>2, <4>3 DEF Beyond
    <3>3. QED  BY <3>1, <3>2
  <2>3. QED  BY <1>1, <1>4, <1>5, <1>10, <2>1, <2>2 DEF MarkLeadsBack
<1>15. QED  BY <1>10, <1>11, <1>12, <1>13, <1>14 DEF IInv

LEMMA RedoKeeps == IInv /\ Redo => IInv'
<1> SUFFICES ASSUME IInv, Redo PROVE IInv'
  OBVIOUS
<1> DEFINE n == Len(UndoStack)
           m == Len(RedoStack)
           a == RedoStack[1]
<1> USE DEF MARK_INVALID, EmptyMark, Changes
<1>1. /\ UndoStack \in Seq(Actions) /\ RedoStack \in Seq(Actions) /\ RedoStack # <<>>
      /\ changes' = changes /\ saved' = saved /\ blind' = blind
      /\ m_bLockUndoNoModifiedPosition' = m_bLockUndoNoModifiedPosition
  BY DEF IInv, TypeOK, Redo
<1>2. n \in Nat /\ m \in Nat \ {0} /\ Head(RedoStack) = a /\ a \in Actions
  BY <1>1, Pulled, LenProperties
<1>3. UndoStack' = Append(UndoStack, a) /\ RedoStack' = Tail(RedoStack)
      /\ content' = content \cup a.changes
  BY <1>2 DEF Redo
<1>4. /\ UndoStack' \in Seq(Actions) /\ Len(UndoStack') = n + 1 /\ UndoStack' # <<>>
      /\ UndoStack'[n + 1] = a /\ \A i \in 1..n : UndoStack'[i] = UndoStack[i]
  BY <1>1, <1>2, <1>3, AppendProperties
<1>5. /\ RedoStack' \in Seq(Actions) /\ Len(RedoStack') = m - 1
      /\ \A j \in 1..m - 1 : RedoStack'[j] = RedoStack[j + 1]
  BY <1>1, <1>3, Pulled
<1>6. /\ a.changes \cap content = {} /\ a.first \in a.changes
      /\ a.changes \subseteq Nat \ {0} /\ \A c \in a.changes : c <= changes
  BY <1>2 DEF IInv, ActionsDisjoint, NumbersUsed, Actions
<1> HIDE DEF a
<1>7. \A k \in 0..n : UpTo(k)' = UpTo(k) /\ MarkAt(k)' = MarkAt(k)
  <2> TAKE k \in 0..n
  <2>1. MarkAt(k)' = MarkAt(k)
    BY <1>2, <1>4 DEF MarkAt
  <2>2. ASSUME NEW c
        PROVE  c \in UpTo(k)' <=> c \in UpTo(k)
    <3>1. c \in UpTo(k)' <=> /\ c \in content \cup a.changes /\ c \notin a.changes
                             /\ \A i \in 1..n : i > k => c \notin UndoStack[i].changes
      BY <1>2, <1>3, <1>4 DEF UpTo
    <3>2. c \in UpTo(k) <=> c \in content /\ \A i \in 1..n : i > k => c \notin UndoStack[i].changes
      BY DEF UpTo
    <3>3. QED  BY <1>6, <3>1, <3>2
  <2>3. QED  BY <2>1, <2>2
<1>8. \A k \in 0..n + 1 : k \notin 0..n => MarkAt(k)' = a.first /\ UpTo(k)' = content'
  <2> SUFFICES ASSUME NEW k \in 0..n + 1, k \notin 0..n
               PROVE  MarkAt(k)' = a.first /\ UpTo(k)' = content'
    OBVIOUS
  <2>1. k = n + 1 /\ k # 0
    BY <1>2
  <2>2. MarkAt(k)' = a.first
    BY <1>4, <2>1 DEF MarkAt
  <2>3. \A i \in 1..Len(UndoStack') : ~(i > k)
    BY <1>2, <1>4, <2>1
  <2>4. UpTo(k)' = content'
    BY <2>3 DEF UpTo
  <2>5. QED  BY <2>2, <2>4
<1>9. ~blind /\ m_UndoSaveMark = a.first => saved = content'
  <2>1. UNION {RedoStack[i].changes : i \in 1..1} = a.changes
    BY <1>2 DEF a
  <2>2. QED  BY <1>2, <1>3, <2>1 DEF IInv, MarkLeadsBack, Beyond, a
<1>10. m_UndoSaveMark' = m_UndoSaveMark /\ mbModified' \in BOOLEAN /\ UnmodifiedIsSavedUnlessBlind'
  <2>1. TopMark(UndoStack') = a.first
    BY <1>4, Popped DEF TopMark
  <2>2. QED  BY <1>1, <1>4, <1>9, <2>1, MarkDecidesRight DEF Redo
<1>11. TypeOK'
  BY <1>1, <1>3, <1>4, <1>5, <1>6, <1>10 DEF IInv, TypeOK
<1>12. NumbersUsed'
  <2>1. \A c \in content' : c <= changes
    BY <1>3, <1>6 DEF IInv, NumbersUsed
  <2>2. \A i \in 1..n + 1 : UndoStack'[i].first \in UndoStack'[i].changes
    BY <1>2, <1>4, <1>6 DEF IInv, NumbersUsed
  <2>3. ASSUME NEW j \in 1..m - 1
        PROVE  /\ RedoStack'[j].first \in RedoStack'[j].changes
               /\ \A c \in RedoStack'[j].changes : c <= changes
    <3>1. j + 1 \in 1..m /\ RedoStack'[j] = RedoStack[j + 1]
      BY <1>2, <1>5
    <3>2. QED  BY <3>1 DEF IInv, NumbersUsed
  <2>4. QED  BY <1>1, <1>4, <1>5, <1>10, <2>1, <2>2, <2>3 DEF IInv, NumbersUsed
<1>13. ActionsDisjoint'
  <2>1. \A i \in 1..n : /\ UndoStack'[i] = UndoStack[i]
                        /\ UndoStack[i].changes \subseteq content
                        /\ UndoStack[i].changes \cap a.changes = {}
    BY <1>4, <1>6 DEF IInv, ActionsDisjoint
  <2>2. ASSUME NEW i \in 1..n + 1
        PROVE  UndoStack'[i].changes \subseteq content'
    BY <1>2, <1>3, <1>4, <2>1
  <2>3. ASSUME NEW i \in 1..n + 1, NEW k \in 1..n + 1, i # k
        PROVE  UndoStack'[i].changes \cap UndoStack'[k].changes = {}
    <3>1. CASE i = n + 1
      BY <1>2, <1>4, <2>1, <2>3, <3>1
    <3>2. CASE k = n + 1
      BY <1>2, <1>4, <2>1, <2>3, <3>2
    <3>3. CASE i # n + 1 /\ k # n + 1
      <4>1. i \in 1..n /\ k \in 1..n
        BY <1>2, <3>3
      <4>2. QED  BY <2>1, <2>3, <4>1 DEF IInv, ActionsDisjoint
    <3>4. QED  BY <3>1, <3>2, <3>3
  <2>4. ASSUME NEW j \in 1..m - 1
        PROVE  /\ RedoStack'[j].changes \cap content' = {}
               /\ \A k \in 1..m - 1 : j # k => RedoStack'[j].changes \cap RedoStack'[k].changes = {}
    <3>1. j + 1 \in 1..m /\ 1 \in 1..m /\ j + 1 # 1 /\ RedoStack'[j] = RedoStack[j + 1]
      BY <1>2, <1>5
    <3>2. RedoStack[j + 1].changes \cap content = {} /\ RedoStack[j + 1].changes \cap a.changes = {}
      BY <3>1 DEF IInv, ActionsDisjoint, a
    <3>3. ASSUME NEW k \in 1..m - 1, j # k
          PROVE  RedoStack'[j].changes \cap RedoStack'[k].changes = {}
      <4>1. k + 1 \in 1..m /\ j + 1 # k + 1 /\ RedoStack'[k] = RedoStack[k + 1]
        BY <1>2, <1>5, <3>3
      <4>2. QED  BY <3>1, <4>1 DEF IInv, ActionsDisjoint
    <3>4. QED  BY <1>3, <3>1, <3>2, <3>3
  <2>5. QED  BY <1>4, <1>5, <2>2, <2>3, <2>4 DEF ActionsDisjoint
<1>14. MarkLeadsBack'
  <2>1. ASSUME ~blind, NEW k \in 0..n + 1, m_UndoSaveMark = MarkAt(k)'
        PROVE  saved = UpTo(k)'
    <3>1. CASE k \notin 0..n
      BY <1>8, <1>9, <2>1, <3>1
    <3>2. CASE k \in 0..n
      BY <1>7, <2>1, <3>2 DEF IInv, MarkLeadsBack
    <3>3. QED  BY <3>1, <3>2
  <2>2. ASSUME ~blind, NEW j \in 1..m - 1, m_UndoSaveMark = RedoStack'[j].first
        PROVE  saved = Beyond(j)'
    <3>1. j + 1 \in 1..m /\ RedoStack'[j] = RedoStack[j + 1]
      BY <1>2, <1>5
    <3>2. saved = content \cup UNION {RedoStack[i].changes : i \in 1..j + 1}
      BY <2>2, <3>1 DEF IInv, MarkLeadsBack, Beyond
    <3>3. UNION {RedoStack[i].changes : i \in 1..j + 1}
            = a.changes \cup UNION {RedoStack'[i].changes : i \in 1..j}
      <4>1. ASSUME NEW i \in 1..j PROVE RedoStack'[i].changes = RedoStack[i + 1].changes
        BY <1>2, <1>5
      <4>2. ASSUME NEW c, NEW i \in 1..j + 1, c \in RedoStack[i].changes
            PROVE  c \in a.changes \/ \E l \in 1..j : c \in RedoStack'[l].changes
        <5>1. CASE i = 1
          BY <4>2, <5>1 DEF a
        <5>2. CASE i # 1
          <6>1. i - 1 \in 1..j /\ (i - 1) + 1 = i
            BY <5>2
          <6>2. QED  BY <4>1, <4>2, <6>1
        <5>3. QED  BY <5>1, <5>2
      <4>3. ASSUME NEW c, NEW l \in 1..j, c \in RedoStack'[l].changes
            PROVE  \E i \in 1..j + 1 : c \in RedoStack[i].changes
        <5>1. l + 1 \in 1..j + 1
          OBVIOUS
        <5>2. QED  BY <4>1, <4>3, <5>1
      <4>4. ASSUME NEW c \in a.changes PROVE \E i \in 1..j + 1 : c \in RedoStack[i].changes
        <5>1. 1 \in 1..j + 1
          OBVIOUS
        <5>2. QED  BY <5>1 DEF a
      <4>5. QED  BY <4>2, <4>3, <4>4
    <3>4. QED  BY <1>3, <3>2, <3>3 DEF Beyond
  <2>3. QED  BY <1>1, <1>4, <1>5, <1>10, <2>1, <2>2 DEF MarkLeadsBack
<1>15. QED  BY <1>10, <1>11, <1>12, <1>13, <1>14 DEF IInv

LEMMA DelAllUndoObjKeeps == IInv /\ DelAllUndoObj => IInv'
<1> SUFFICES ASSUME IInv, DelAllUndoObj PROVE IInv'
  OBVIOUS
<1> USE DEF MARK_INVALID, EmptyMark, Changes
<1>1. /\ UndoStack' = <<>> /\ RedoStack' = <<>> /\ m_UndoSaveMark' = MARK_INVALID
      /\ UNCHANGED <<content, saved, changes, mbModified, m_bLockUndoNoModifiedPosition, blind>>
  BY DEF DelAllUndoObj
<1>2. TypeOK' /\ NumbersUsed'
  BY <1>1, EmptySeq DEF IInv, TypeOK, NumbersUsed
<1>3. ActionsDisjoint' /\ MarkLeadsBack'
  BY <1>1 DEF ActionsDisjoint, MarkLeadsBack, MarkAt
<1>4. UnmodifiedIsSavedUnlessBlind'
  BY <1>1 DEF IInv, UnmodifiedIsSavedUnlessBlind, UnmodifiedIsSaved
<1>5. QED  BY <1>2, <1>3, <1>4 DEF IInv

\* The mark on top is found nowhere else.
LEMMA TopMarkIsOnTop ==
    ASSUME IInv
    PROVE  /\ TopMark(UndoStack) \in (Nat \ {0}) \cup {EmptyMark}
           /\ TopMark(UndoStack) <= changes
           /\ \A k \in 0..Len(UndoStack) : TopMark(UndoStack) = MarkAt(k) => k = Len(UndoStack)
           /\ \A j \in 1..Len(RedoStack) : TopMark(UndoStack) # RedoStack[j].first
<1> USE DEF EmptyMark
<1>1. /\ UndoStack \in Seq(Actions) /\ changes \in Nat
      /\ Len(UndoStack) \in Nat
      /\ \A i \in 1..Len(UndoStack) : UndoStack[i].first \in Nat \ {0}
      /\ \A j \in 1..Len(RedoStack) : RedoStack[j].first \in Nat \ {0}
  BY StackOfActions DEF IInv, TypeOK
<1>2. CASE UndoStack = <<>>
  BY <1>1, <1>2, EmptySeq DEF TopMark, MarkAt
<1>3. CASE UndoStack # <<>>
  <2> DEFINE n == Len(UndoStack)
  <2>1. n \in 1..n /\ TopMark(UndoStack) = UndoStack[n].first
    <3>1. n \in Nat \ {0} /\ Last(UndoStack) = UndoStack[n]
      BY <1>1, <1>3, Popped
    <3>2. QED  BY <1>3, <3>1 DEF TopMark
  <2>2. UndoStack[n].first \in UndoStack[n].changes /\ UndoStack[n].changes \subseteq content
    BY <2>1 DEF IInv, NumbersUsed, ActionsDisjoint
  <2>3. UndoStack[n].first <= changes
    BY <2>2 DEF IInv, NumbersUsed
  <2>4. \A k \in 1..n : k # n => UndoStack[k].first # UndoStack[n].first
    BY <2>1, <2>2 DEF IInv, NumbersUsed, ActionsDisjoint
  <2>5. \A j \in 1..Len(RedoStack) : RedoStack[j].first # UndoStack[n].first
    BY <2>2 DEF IInv, NumbersUsed, ActionsDisjoint
  <2>6. QED  BY <1>1, <2>1, <2>3, <2>4, <2>5 DEF MarkAt
<1>4. QED  BY <1>2, <1>3

LEMMA SaveCompletedKeeps ==
    ASSUME IInv, NEW locked \in BOOLEAN, SaveCompleted(locked),
           m_bLockUndoNoModifiedPosition' \in BOOLEAN
    PROVE  IInv'
<1> USE DEF MARK_INVALID, EmptyMark, Changes
<1>1. /\ content' = content /\ changes' = changes /\ UndoStack' = UndoStack /\ RedoStack' = RedoStack
      /\ saved' = content /\ mbModified' = FALSE
      /\ m_UndoSaveMark' = IF locked THEN m_UndoSaveMark ELSE TopMark(UndoStack)
      /\ blind' = IF locked THEN blind \/ content # saved ELSE FALSE
  BY DEF SaveCompleted, ResetModified, SetUndoNoModifiedPosition, stacks
<1>2. TypeOK' /\ NumbersUsed'
  BY <1>1, TopMarkIsOnTop DEF IInv, TypeOK, NumbersUsed
<1>3. ActionsDisjoint'
  BY <1>1 DEF IInv, ActionsDisjoint
<1>4. MarkLeadsBack'
  <2>1. CASE locked
    BY <1>1, <2>1 DEF IInv, MarkLeadsBack, MarkAt, UpTo, Beyond
  <2>2. CASE ~locked
    <3>1. UpTo(Len(UndoStack)) = content
      <4>1. Len(UndoStack) \in Nat
        BY StackOfActions DEF IInv, TypeOK
      <4>2. QED  BY <4>1 DEF UpTo
    <3>2. \A k \in 0..Len(UndoStack) : m_UndoSaveMark' = MarkAt(k) => saved' = UpTo(k)
      BY <1>1, <2>2, <3>1, TopMarkIsOnTop
    <3>3. \A j \in 1..Len(RedoStack) : m_UndoSaveMark' # RedoStack[j].first
      BY <1>1, <2>2, TopMarkIsOnTop
    <3>4. QED  BY <1>1, <3>2, <3>3 DEF MarkLeadsBack, MarkAt, UpTo
  <2>3. QED  BY <2>1, <2>2
<1>5. UnmodifiedIsSavedUnlessBlind'
  BY <1>1 DEF UnmodifiedIsSavedUnlessBlind, UnmodifiedIsSaved
<1>6. QED  BY <1>2, <1>3, <1>4, <1>5 DEF IInv

LEMMA StutterKeeps ==
    ASSUME IInv, UNCHANGED <<content, saved, changes, state, stacks, blind>>,
           m_bLockUndoNoModifiedPosition' \in BOOLEAN
    PROVE  IInv'
BY DEF IInv, TypeOK, NumbersUsed, ActionsDisjoint, MarkLeadsBack, MarkAt, UpTo, Beyond,
       UnmodifiedIsSavedUnlessBlind, UnmodifiedIsSaved, state, stacks

-----------------------------------------------------------------------------
(* Theorems.                                                                *)

\* Wherever edits, undos, redos and saves lead, the changes of the actions stay
\* apart, and the save mark leads back to what was saved.
THEOREM Inductive == Spec => []IInv
<1>1. IInv /\ [Next]_vars => IInv'
  <2> SUFFICES ASSUME IInv, [Next]_vars PROVE IInv'
    OBVIOUS
  <2>1. ASSUME NEW grows \in BOOLEAN, Edit(grows) PROVE IInv'
    BY <2>1, EditKeeps
  <2>2. CASE InsertString
    BY <2>2, InsertStringKeeps
  <2>3. ASSUME NEW resets \in BOOLEAN, UnrecordedEdit(resets) PROVE IInv'
    BY <2>3, UnrecordedEditKeeps
  <2>4. CASE Undo
    BY <2>4, UndoKeeps
  <2>5. CASE Redo
    BY <2>5, RedoKeeps
  <2>6. CASE DelAllUndoObj
    BY <2>6, DelAllUndoObjKeeps
  <2>7. CASE Save
    BY <2>7, SaveCompletedKeeps DEF Save, IInv, TypeOK
  <2>8. CASE SaveAs
    BY <2>8, SaveCompletedKeeps, StutterKeeps DEF SaveAs, IInv, TypeOK
  <2>9. CASE UNCHANGED vars
    BY <2>9, StutterKeeps DEF vars, IInv, TypeOK
  <2>10. QED  BY <2>1, <2>2, <2>3, <2>4, <2>5, <2>6, <2>7, <2>8, <2>9 DEF Next
<1>2. QED  BY InitEstablishes, <1>1, PTL DEF Spec

\* As long as the save mark has not lost its meaning (docundo.cxx:492), a document
\* that is called unmodified after any edits, undos, redos and saves has the
\* content that was saved last.
THEOREM UnmodifiedUnlessBlind == Spec => []UnmodifiedIsSavedUnlessBlind
<1>1. IInv => UnmodifiedIsSavedUnlessBlind
  BY DEF IInv
<1>2. QED  BY Inductive, <1>1, PTL

=============================================================================
