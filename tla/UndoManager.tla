---- MODULE UndoManager ----
(***************************************************************************)
(* The undo manager of a document (core/undo/docundo.cxx) and the modified *)
(* state (core/doc/DocumentStateManager.cxx): after undo and redo the      *)
(* document is called unmodified if the top of the stack carries the mark  *)
(* which the last save put there.                                          *)
(*                                                                         *)
(* A content is the set of the changes that make it up; undoing an action  *)
(* takes its changes away.  The stack is SfxUndoManager's, which is not in *)
(* this repository.                                                        *)
(***************************************************************************)
EXTENDS Integers, FiniteSets, SequencesExt

CONSTANTS
    MaxChanges,      \* bound: number of changes ever made to the document
    EmptyMarkStays   \* whether SfxUndoManager leaves the mark of the empty stack
                     \* as it is when it removes the oldest actions

VARIABLES
    content,             \* the changes the document contains
    saved,               \* the content of the file that was saved last
    changes,             \* number of changes made so far
    mbModified,
    UndoStack, RedoStack, \* actions; the last one and the first one are next
    m_UndoSaveMark, m_bLockUndoNoModifiedPosition,
    blind                \* a history variable: the mark has lost its meaning

state == <<mbModified, m_UndoSaveMark>>
stacks == <<UndoStack, RedoStack>>
vars == <<content, saved, changes, state, stacks, m_bLockUndoNoModifiedPosition, blind>>

Changes == Nat \ {0}

\* A mark belongs to one action for ever, so the number of the action's first
\* change stands for it; the mark of the empty stack is below all of them.
Actions == [first : Changes, changes : SUBSET Changes, grows : BOOLEAN]
MARK_INVALID == 0
EmptyMark == -1

\* SfxUndoManager: the mark of the stack's top, and whether it is the given one.
TopMark(stack) == IF stack = <<>> THEN EmptyMark ELSE Last(stack).first
HasTopUndoActionMark(stack, mark) == mark = TopMark(stack)

Init ==
    /\ content = {} /\ saved = {} /\ changes = 0
    /\ mbModified = FALSE
    /\ UndoStack = <<>> /\ RedoStack = <<>>
    /\ m_UndoSaveMark = EmptyMark
    /\ m_bLockUndoNoModifiedPosition = FALSE
    /\ blind = FALSE

----
(***************************************************************************)
(* The modified state.                                                     *)
(***************************************************************************)

\* UndoManager::SetUndoNoModifiedPosition
SetUndoNoModifiedPosition(stack, locked) ==
    m_UndoSaveMark' = IF locked THEN m_UndoSaveMark ELSE TopMark(stack)

\* DocumentStateManager::ResetModified
ResetModified(stack, locked) ==
    mbModified' = FALSE /\ SetUndoNoModifiedPosition(stack, locked)

\* DocumentStateManager::SetModified
SetModified == mbModified' = TRUE

\* A change gets a number of its own.
NewChange ==
    /\ changes < MaxChanges
    /\ changes' = changes + 1
    /\ content' = content \cup {changes'}
    /\ SetModified

----
(***************************************************************************)
(* Edits.  UndoManager::AppendUndo clears the redo actions; the nodes that *)
(* the actions keep for undoing may exceed their limit, and then the       *)
(* oldest actions go: the empty stack does not mean any more what it did.  *)
(***************************************************************************)
AppendUndo(action) ==
    \E dropped \in 0..Len(UndoStack) :
        /\ UndoStack' = Append(SubSeq(UndoStack, dropped + 1, Len(UndoStack)), action)
        /\ RedoStack' = <<>>
        /\ m_UndoSaveMark' = IF dropped > 0 /\ m_UndoSaveMark = EmptyMark /\ ~EmptyMarkStays
                             THEN MARK_INVALID ELSE m_UndoSaveMark
        /\ blind' = (blind \/ (dropped > 0 /\ m_UndoSaveMark' = EmptyMark))

\* An edit with an action of its own; to an insertion of text later ones may
\* be added.
Edit(grows) ==
    /\ NewChange
    /\ AppendUndo([first |-> changes', changes |-> {changes'}, grows |-> grows])
    /\ UNCHANGED <<saved, m_bLockUndoNoModifiedPosition>>

\* SwUndoInsert::CanGrouping, and those of the deletion and the overwriting:
\* the action on top of the stack ends where the cursor stands.
CanGrouping == UndoStack # <<>> /\ Last(UndoStack).grows

\* InsertString adds the text to the action on top of the stack, and nothing
\* is appended to it.
InsertString ==
    /\ CanGrouping
    /\ NewChange
    /\ UndoStack' = [UndoStack EXCEPT ![Len(UndoStack)].changes = @ \cup {changes'}]
    /\ RedoStack' = <<>>
    /\ blind' = (blind \/ HasTopUndoActionMark(UndoStack, m_UndoSaveMark))
    /\ UNCHANGED <<saved, m_UndoSaveMark, m_bLockUndoNoModifiedPosition>>

\* A change that is not recorded.  With some, such as the content of a user field
\* or a new style, SetUndoNoResetModified follows if the document was unmodified;
\* others, such as the settings of the line numbers, only call SetModified.
UnrecordedEdit(resets) ==
    /\ NewChange
    /\ m_UndoSaveMark' = IF resets /\ ~mbModified THEN MARK_INVALID ELSE m_UndoSaveMark
    /\ blind' = (blind \/ m_UndoSaveMark' # MARK_INVALID)
    /\ UNCHANGED <<saved, stacks, m_bLockUndoNoModifiedPosition>>

----
(***************************************************************************)
(* Undo and redo, and the end of all actions.                              *)
(***************************************************************************)

\* The end of UndoManager::impl_DoUndoRedo.
MarkDecides ==
    IF HasTopUndoActionMark(UndoStack', m_UndoSaveMark)
    THEN ResetModified(UndoStack', m_bLockUndoNoModifiedPosition)
    ELSE SetModified /\ UNCHANGED m_UndoSaveMark

Undo ==
    /\ UndoStack # <<>>
    /\ LET action == Last(UndoStack) IN
           /\ UndoStack' = Front(UndoStack)
           /\ RedoStack' = <<action>> \o RedoStack
           /\ content' = content \ action.changes
    /\ MarkDecides
    /\ UNCHANGED <<saved, changes, m_bLockUndoNoModifiedPosition, blind>>

Redo ==
    /\ RedoStack # <<>>
    /\ LET action == Head(RedoStack) IN
           /\ UndoStack' = Append(UndoStack, action)
           /\ RedoStack' = Tail(RedoStack)
           /\ content' = content \cup action.changes
    /\ MarkDecides
    /\ UNCHANGED <<saved, changes, m_bLockUndoNoModifiedPosition, blind>>

DelAllUndoObj ==
    /\ stacks # <<<<>>, <<>>>>
    /\ UndoStack' = <<>> /\ RedoStack' = <<>>
    /\ m_UndoSaveMark' = MARK_INVALID
    /\ UNCHANGED <<content, saved, changes, mbModified, m_bLockUndoNoModifiedPosition, blind>>

----
(***************************************************************************)
(* Saving.  SwDocShell::SaveAs locks the mark and unlocks it if the        *)
(* document was modified; SaveCompleted follows when all has been written. *)
(***************************************************************************)
SaveCompleted(locked) ==
    /\ saved' = content
    /\ ResetModified(UndoStack, locked)
    /\ blind' = IF locked THEN blind \/ content # saved ELSE FALSE
    /\ UNCHANGED <<content, changes, stacks>>

Save ==
    /\ SaveCompleted(m_bLockUndoNoModifiedPosition)
    /\ UNCHANGED m_bLockUndoNoModifiedPosition

SaveAs ==
    /\ m_bLockUndoNoModifiedPosition' = ~mbModified
    /\ \/ SaveCompleted(~mbModified)
       \/ UNCHANGED <<content, saved, changes, state, stacks, blind>>

Next ==
    \/ \E grows \in BOOLEAN : Edit(grows)
    \/ InsertString \/ \E resets \in BOOLEAN : UnrecordedEdit(resets)
    \/ Undo \/ Redo \/ DelAllUndoObj
    \/ Save \/ SaveAs

Spec == Init /\ [][Next]_vars

----
TypeOK ==
    /\ content \subseteq Changes /\ saved \subseteq Changes
    /\ changes \in Nat
    /\ mbModified \in BOOLEAN /\ m_bLockUndoNoModifiedPosition \in BOOLEAN
    /\ UndoStack \in Seq(Actions) /\ RedoStack \in Seq(Actions)
    /\ m_UndoSaveMark \in Changes \cup {MARK_INVALID, EmptyMark}
    /\ blind \in BOOLEAN

\* docundo.cxx:491 calls the place of the mark the "last save" position, at
\* which the document is not modified: a document that is called unmodified has
\* the content of the file that was saved last, and closing it loses nothing.
UnmodifiedIsSaved == ~mbModified => content = saved

\* That holds as long as the mark was neither kept back by a locked position, nor
\* carried by an action that has grown since, nor kept over a change that is not in
\* the stack (whether it is not recorded, or its action was removed as the oldest).
UnmodifiedIsSavedUnlessBlind == ~blind => UnmodifiedIsSaved

====
