# Verification of the Writer core (`sw`)

This directory holds TLA+ specifications of parts of `sw`, the Writer module
of LibreOffice, the TLC configurations that check them on small instances, and
proofs, checked by TLAPS, of what matters most for instances of any size.
Paths below are relative to the source tree of the module (`source/core/...`,
`inc/...`); names of variables and actions are those of the C++ code where TLA+
allows it.

- [The system](#the-system): components, state, operations, interaction, what is hard
- [The modules](#the-modules): what models what, and how
- [The runs](#the-runs): what each checks, its bounds and its fairness
- [What the runs found](#what-the-runs-found)
- [The proofs](#the-proofs)
- [What is not modelled](#what-is-not-modelled)
- [Plan](#plan)

To check a module: `tlc -workers 2 -config BigPtrArray.cfg MCBigPtrArray`. To
check its proofs: `tlapm ThreadManagerProofs.tla`.

## The system

A document (`SwDoc`) is an array of nodes (`SwNodes`, on `BigPtrArray`), the
text nodes of which hold a string, the attributes of its characters
(`SwpHints`) and a list of all positions in it (`SwIndexReg`). Formats,
fields, layout frames and views depend on each other through one observer
mechanism, `SwModify`/`SwClient`. Nearly all of it runs in one thread, under the
solar mutex; what makes that part hard is the re-entrance of callbacks and the
number of structures that have to agree after each edit. Three parts run threads
of their own: the loading of linked graphics (`ThreadManager`,
`ObservableThread`, `FinalThreadManager`), and the mail merge (`MailDispatcher`).

| component | state | operations | interacts with | hard | what makes it correct |
|---|---|---|---|---|---|
| Thread manager `docnode/threadmanager.cxx`, `observablethread.cxx` | queue of waiting threads, started threads, idle handler, suspension | AddThread, RemoveThread, Suspend-/ResumeStartingOfThreads, the idle handler | threads call back in `onTerminated`; registers jobs at the joiner | threads end, fail to start and are removed in any order | no thread stranded, none started twice, one above the limit at most, each running thread joined at the end |
| Final thread manager `docnode/finalthreadmanager.cxx` | registered jobs, canceller thread, terminator threads | registerJob, releaseJob, cancelAllJobs; queryTermination, cancelTermination, notifyTermination | the desktop; the thread manager's mutex (lock order); `SwPauseThreadStarting` | two mutexes, threads that terminate the office, timeouts | no job is lost between the lists, one terminator acts, all jobs joined |
| `SwModify`, `SwClient` `attr/calbck.cxx`, `inc/calbck.hxx` | chain of clients per modify, stack of iterators, locks | Add, Remove, NotifyClients, CheckRegistration, iteration, destructors | callbacks: every operation may run within a notification | the chain changes under the iteration | chains sound, nothing dangles, each staying client visited once |
| Mail dispatcher `uibase/dbui/maildispatcher.cxx` | queue of mails, `run_`, `shutdown_requested_`, wakening condition | enqueue, dequeue, start, stop, shutdown; the thread | listeners, mail server, dialog of the mail merge | lost wakenings, calls during a send | no wakening and no mail lost, bounds after stop and shutdown |
| Array of nodes `bastyp/bparr.cxx` | blocks with start and end, last used block, position in each element | Insert, Remove, Move, Replace, `operator[]`, Compress | every node of the document | block boundaries, compression, cached block | behaves as an array; `GetPos` of each element right |
| Positions in a text `bastyp/index.cxx` | one sorted list of `SwIndex` per text | construction, copy, assignment, destruction, Update, MoveTo | cursors, marks, redlines, anchors | Update relies on an order that all others keep | lists sorted; positions follow the text |
| Text node `txtnode/ndtxt.cxx` | text, indices, hints | InsertText, EraseText, ReplaceText, Update, moves and splits | marks, redlines, anchored flys | equal positions: who moves with inserted text | ends of ranges stay |
| Text attributes `txtnode/thints.cxx`, `txtedt.cxx` | hints sorted by start and by end | InsertHint, TryInsertNesting, RstTextAttr, BuildPortions, MergePortions | Update, InsertText, EraseText and ReplaceText of the text node | links, ruby and metas split and displace each other; each edit has rules of its own for equal positions | they nest, and splitting is invisible; portions do not overlap |
| Undo `undo/docundo.cxx`, `doc/DocumentStateManager.cxx` | stack of actions (SfxUndoManager), save mark, modified state | Undo, Redo, AppendUndo, grouping, SetUndoNoModifiedPosition, saving | edits, recorded or not | the mark across removed, grown and unrecorded actions | "unmodified" means saved |
| Object cache `bastyp/swcache.cxx`, and its users `text/txtcache.cxx`, `layout/frmtool.cxx` | LRU list, free positions, locks; the index a frame and the flag an owner keep | Insert, Get, Delete, ToTop, SetLRUOfst, IncreaseMax | text formatting, border attributes, layout actions | the limit with locked objects; addresses used again | list and vector agree; no owner gets another one's object |
| Splits and joins `doc/CntntIdxStore.cxx`, `txtnode/ndtxt.cxx` | entries of saved positions | SplitNode, JoinNext, JoinPrev; Save, Restore | marks, redlines, flys, cursors; node array | the text moves, the positions in it are noted, cut off and restored, each kind in its own way | each holder keeps its place in the text |
| Nodes `docnode/nodes.cxx` | nesting of start and end nodes | Insert, Delete, MoveNodes, SectionUp/Down | BigPtrArray, SwNodeIndex | moves within itself | sections stay nested |
| Retrieval of linked graphics `docnode/retrievedinputstreamdata.cxx`, `retrieveinputstream*.cxx`, `graphic/ndgrf.cxx` | map from keys to streams, consumer of each graphic node | ReserveData, PushData, PopData, the user event | the thread manager, loading threads, user events | key or consumer gone when the event runs, a thread removed before it ran | each retrieval is answered, no entry is forgotten |
| Change tracking, marks, fields, numbering, layout, views, filters, UNO API, dialogs | | | | | listed in `PROJECT.json` with the reason why they are not modelled |

## The modules

| module | models | built on |
|---|---|---|
| `ThreadManager` | the thread manager, the life cycle of its threads, and the joiner as it sees it | |
| `GraphicRetrieval` | consumers, containers and events of the graphics that its threads load | extends `ThreadManager` |
| `ThreadManagerProofs` | six theorems about the thread manager and two about the retrieval | `GraphicRetrieval` |
| `FinalThreadManager` | the job manager with both mutexes, the canceller and the terminators, the desktop's calls | |
| `FinalThreadManagerProofs` | four theorems about it | `FinalThreadManager` |
| `ModifyClient`, `MCModifyClient` | chains, iterators, callbacks, destructors | |
| `ModifyClientProofs` | seven theorems about its chains and iterations | `ModifyClient` |
| `MailDispatcher`, `MailDispatcherProofs` | the dispatcher thread and its client; five theorems | |
| `PointerArray` | abstract: an array in which elements are inserted, removed, moved, replaced | |
| `BigPtrArray`, `MCBigPtrArray` | the block structure that implements it | `PointerArray` by refinement |
| `BigPtrArrayLemmas` | what its theorems rest on: pieces of a sequence, the search, blocks, `Compress` | `BigPtrArray` |
| `BigPtrArrayProofs` | five theorems about it: `Insert`, `Remove`, `Move`, `Replace` | `BigPtrArrayLemmas` |
| `TextPositions` | abstract: positions that follow the characters of a text | |
| `SwIndexReg` | the lists of indices, as operators on a record of all their fields | |
| `SwTextNode`, `MCSwTextNode` | edits of the text, and cursors, marks, redlines and flys that hold indices | extends `SwIndexReg`; `TextPositions` by refinement |
| `CharAttributes` | abstract: which links, ruby and metas each character has after an edit | |
| `NestingHints`, `MCNestingHints` | the hints for them: inserted, split, displaced, reset, moved by edits | `CharAttributes` by refinement |
| `ContentIdxStore` | paragraphs that are split and joined, and the positions that go with the text | `TextPositions` for its property |
| `MCThreads` | the two components with eventualities side by side | `GraphicRetrieval`, `MailDispatcher` |
| `MCCore` | those that have safety properties only, side by side | `MCSwTextNode`, `NestingHints`, `ContentIdxStore`, `ModifyClient`, `FinalThreadManager` |
| `SwCache` | the cache, as operators on a record of its members | |
| `FrameCaches`, `MCFrameCaches` | the caches of text lines and of border attributes with their users | extends `SwCache` |
| `FrameCachesProofs` | five theorems about them | `FrameCaches` |
| `UndoManager`, `UndoManagerProofs` | undo stack, save mark and modified state; a theorem and its invariant | |

**ThreadManager.** A method holds `maMutex` from its first to its last
statement, so that it is one step. `ResumeStartingOfThreads` is one step per
iteration of its loop with `resuming` set, during which threads may finish but
every other method waits. `create()` may fail in any step that starts a thread:
the parameter `ok`. The functions that several methods share (`StartThread`,
`TryToStart`, `RemoveFrom`) are predicates over the old and new values of the
queues, so that each action is one conjunction. The joiner appears as the sets
`jobs` and `handed`; `JoinerReleased` is the end of the office.

**GraphicRetrieval.** The composition of the thread manager with those who use
it: a paint reserves a container, makes a consumer and adds the thread in one step;
`ThreadFunction` ends with `PushData`; the user event pops the container and gives
the stream to the consumer, if that is still there. A key, a thread ID and a consumer
are all counted by the same call, so that one number stands for the three. The other
steps are those of `ThreadManager`.

**FinalThreadManager.** The critical sections that wait for something inside are
split: those of the thread manager, which call `registerJob` and `releaseJob`
under its mutex (variable `tm`), and `queryTermination` and `cancelAllJobs`,
which hold the job manager's (`ftm`). The variable `stage` says where the call
that terminates the office is. `ThreadManager` abstracts exactly this: there,
registration is atomic. The two modules are not composed; their product is too
large for TLC, and the queue of the one does not matter for the lists of the
other. The desktop calls only a listener that has been added: a termination is queried once
a job has been registered (`mbRegisteredAtDesktop`). `Void` is the null pointer.

**ModifyClient.** There is one thread, so "concurrency" is the stack: a frame is
an `SwIterator`, and while the callback of its client has not returned
(`Next_`) every operation may be called, another iteration included. `todo`,
`done` and `astray` of a frame are history variables. A modify is a client itself and may be
registered at another one (`Depth` keeps that free of cycles).

**MailDispatcher.** A call of the client is one step, since it holds a mutex for
all it does to the state; the thread takes a step to pass the wait, one under both
mutexes, one under that of the mails alone after it gave `thread_status_mutex_` back
(maildispatcher.cxx:251), during which `start`, `stop` and `shutdown` may return, and one for
sending or telling the listeners. `enqueued`, `taken`, `sentAfterStop` and
`sentAfterShutdown` are history variables.

**BigPtrArray.** An array is a record, the helpers are functions from arrays to
arrays, and an action is one public member. The loops that carry something from one
block to the next (`UpdIndex`, `Compress`, the binary search of `Index2Block`) are recursive
functions of the number of rounds; the loop of `Remove` treats each block for itself
(`Shortened`), and the blocks that got empty, which are next to each other, are taken
out after it (`NonEmpty`). `Insert` calls itself when it has compressed: `Restarted` is the
array it calls itself with, and a part of `BlocksFit` says that it does so once at most.
`call` is a history variable with the arguments and the result of the last operation; the
abstract array has it too, so that the refinement is about the same operation at the same
position and not about some operation. Two places read a `BlockInfo` that was deleted or a
pointer that was never set: `Index2Block` when the block used last is not in the table (finding 6),
and the end of `Remove` when it has deleted all blocks from the first it treated on (line 379). What is
read there may be what was left, and then the code goes on as `LastUsed` and `UpdIndex` say, or
anything else: then the step is `Strays`, nothing more is modelled of that behaviour, and no
property is claimed for it (`astray`).

**SwIndexReg, SwTextNode.** The indices are fixed names, `<<holder, number>>`;
an index that does not exist is in the registry `Unborn`. `Update` is translated
with its order of loops, because they read the lists they change. The redlines
at one position are put aside in any order (their table is not modelled). A
paragraph `prev` in front of the text makes ranges that start outside of it.

**NestingHints.** A hint is a record of an attribute and a range, the hints are a
set, and the two sorted arrays are functions of it. The four passes of
`TryInsertNesting` are operators from sets of hints to sets of hints: `Fragments`
is the first, `SplitOthers` the second, and the recursive `TryInsertNesting` inserts the
fragments and puts back what is left of displaced hints. The actions are the
members of `SwTextNode` that change text or hints: `Update` moves the hints
(`UpdateInserted`, `UpdateErased`), `InsertText` then puts empty ones back, and
`EraseText` first deletes those in the range. A meta's own character is inserted
before the meta and erased again if that is refused. No operation is kept from being
called where it breaks the nesting: the history variable `strained` notes that it was
(`FragmentWithin`, `CoversMetaChar`, `CutsNested`, `NoAdjacentMetas`, see the findings), and
`HintsSound` and `ImplementsCharAttributes` are about the edits before. Because it is never
taken back, `MCCore` does not go on from such a state. What a
character shows is `CharAttributes`: it knows ranges and characters only, so
that it would not change if hints were split differently. Characters that metas have of
their own may lose a link or ruby when it is split there; nothing else may.

**ContentIdxStore.** A document is the lengths of its paragraphs; a position names
the paragraph and the place in it. `Save` is the set of bounds that get an entry, `Restore`
writes them into the other node, and what the code does in between (`CutStart`, `InsertStart`,
`NodeInserted`, `NodeDeleted`, `CorrAbs`) are functions on all positions. `Update` is called with
`bDelete` by `CutImpl` (ndtxt.cxx:2204), so that it puts nothing aside here, unlike in `SwTextNode`.
The property counts a paragraph break as one character, so that a split is
an insertion and a join a deletion, in the terms of `TextPositions`. A bound that a PaM does
not use is in no paragraph until something is restored into it.

**SwCache, FrameCaches.** A pointer to an object is its position in the vector,
and one to a deleted object is `Dangling`. An owner is an address, which may be used
again after its frame died (`stale` is what is left of the former one). `Chain` follows the
links from `pRealFirst` as `Check` does, and the loops that search along
them (`Seek`, `LastUnlocked`, `SetLRUOfst`) read that sequence. Accesses
are a stack, as `SwCacheAccess` lives on it. The variable `kind` chooses between the
two caches, which have the same class and different protocols: lines are found by an
index in the frame, border attributes by a flag in the owner.

**UndoManager.** A document is the set of changes that make it up, an action the
set of those it takes back, and a mark is the number of the action that carries it.
`UnrecordedEdit` has two forms: one ends with `SetUndoNoResetModified` if the document was
unmodified (usrfld.cxx:270, docst.cxx:610), the other only calls `SetModified` (lineinfo.cxx:47), so
that the mark stays. Whether the mark of the empty stack stays when the oldest actions are
removed is up to `SfxUndoManager`, which is not in this tree: the constant `EmptyMarkStays`. The run takes
the better case, in which it does not, and the proofs hold for both. `blind` is a history variable: it
is set in the steps after which the mark no longer stands for the saved content.

## The runs

| run | instance | properties |
|---|---|---|
| `threads` (module `MCThreads`) | limit 1, 3 threads, 3 graphics; or 3 mails, 2 starts | `TypeOK`, `QueuesConsistent`, `NoStrandedThread`, `StartedAtMostOneAbove`, `RunningThreadIsJoined`, `EntriesAccounted`, `NoStartWhileSuspended`, liveness `RetrievalEnds`, `ResumeReturns`; `MailTypeOK`, `NoLostWakening`, `MailsInOrder`, `AtMostOneAfterStop`, `AtMostOneAfterShutdown`, liveness `ShutdownEndsThread`, `WaitingMailTaken` |
| `thread_manager_limit` | limit 1, 3 threads | violated: `StartedAtMostLimit` |
| `core` (module `MCCore`), positions | 2 cursors, 2 marks, a redline, a fly, 4 indices at a time, text of 2 | `ListsSorted`, `EndsStay`, `ImplementsTextPositions` |
| `core`, attributes | 2 links, a ruby, 2 metas, 3 hints at a time, text of 4 | `HintsSound`, `ImplementsCharAttributes` |
| `core`, paragraphs | up to 3 paragraphs with 2 characters, of 5 holders any 2 bounds | `ObjectsStayWithText` |
| `core`, clients | a modify, one registered at it, 2 clients, 2 nested iterations | `ChainsWellFormed`, `NothingDangles`, `PositionInChain`, `VisitedExactlyOnce`, `DestructorAdvances` |
| `core`, jobs | 2 jobs, 2 terminators, 2 terminations, failing `create()` | `FinalTypeOK`, `JobsAccounted`, `OneActiveTerminator`, `EndsWithoutJobs` |
| `final_thread_manager_list` | 2 jobs, 2 terminators, 2 terminations, no failing `create()` | violated: `ListIsCancelled` |
| `modify_client_position` | a modify, one registered at it, 2 clients, 2 nested iterations | violated: `PositionAlwaysInChain` |
| `big_ptr_array` | up to 7 elements in blocks of 4, any operations; one operation on sparse tables, up to 14 elements | `BlocksFit`, `GetPosRight`, `SearchRight`, `ImplementsPointerArray` |
| `big_ptr_array_cur` | the same | violated: `CurIndexValid` |
| `text_node_bookmarks` | 2 cursors, 2 marks, 6 indices at a time | violated: `BookmarksNeverGrow` |
| `text_node_links` (module `MCNestingHints`) | 2 links, a ruby | violated: `LinksNotNested` |
| `nesting_hints_overlap` (module `MCNestingHints`) | 2 links, a ruby | violated: `NoOverlap` |
| `frame_caches` | 3 frames or 4 nodes and formats, initial size 3, limit 4, tail of 3 | `CacheConsistent`, `OwnObjects`, `AccessesSound`; `HeadKept` |
| `undo` | 3 changes | violated: `UnmodifiedIsSaved` |

`threads` and `core` explore components side by side: the variable `part` says which one a behaviour
is of, and the others stay in an initial state, so that the states are added and not multiplied. A property
of one part is claimed where `part` is that one. The model values are shared (a terminator of the jobs is a
`c1` like a cursor of the positions), so that one symmetry set serves all parts; within a part they keep
the symmetry they have in it. Where no `TypeOK` is listed, another invariant of the part contains it.

**Bounds.** One place and three threads let one thread run, one wait, and one be
above the limit, and let two wait while one starts. Two jobs are enough for one to
be joined while the other registers, is released or handed over; two terminations
for a second query while the terminator of the first is alive. Two clients are the
current and the next one of an iteration, which is what `Remove` repositions,
and two nested iterations an outer iterator that an inner one has to correct;
the derived modify is an object that is both. Three mails: one sent, one waiting,
one enqueued at the wrong moment. Seven elements in blocks of four fill a block, split it and
empty others; the table then has at most a handful of blocks, too few for
an insertion that triggers the compression, and that is why the run
starts from tables, too, such as `1 1 1 1 4 1 4`, which long
sequences of insertions and removals leave. In the text node, lists of four
indices have a first, a last and two inner ones, of up to three different holders; a text of two characters has a
position before, between and behind. The bookmark run needs both marks expanded and
two cursors, hence six indices.

The positions, the attributes and the paragraphs of a text can be separate parts:
`Update` treats hints and indices in two loops that do not read each other, and the third is
about several nodes. In the third, no holder reads the positions of another one, so that two
bounds at a time (both of one holder, or one each of two) show all that can happen to them, and the
paragraphs that are split or joined have one in front of or behind them. Three hints
and the one that is inserted are a link, a ruby and a meta that surround, contain
or cross each other, four characters leave room for three split positions, and
`MaxSize` bounds only the sum: few hints in a long text, or many in a short one.
Two links displace each other, and two metas nest or refuse to overlap.
In `frame_caches` the fourth place is what `IncreaseMax` adds, and three objects are
a first, a last and one between; the tail that a layout action leaves (`nTail`) then
is shorter than the chain, so that `pFirst` is inside of it. The nesting of accesses is
bounded by `NestingAssumption`: at least two objects of the tail are not locked, which
the code gets by a tail of 50. One layout action at a time is explored, and one line is accessed at a
time: that another action resets the list earlier, and that lines nest, is only in the proofs. In `undo` three changes are one before the save, and one
recorded and one unrecorded after it.

`PositionInChain` and `VisitedExactlyOnce` speak of the iterators that were not led
astray: `astray` is set by the one step of the code after which finding 2 applies, the removal
from another chain of the client whose callback runs. `PositionAlwaysInChain` is the same without
that condition. Nothing restricts the callbacks: a bound on them that looked enough on this
instance (a client does not leave a second chain) did not hold up to a proof, because a
destructor moves clients too.

**Fairness.** `threads`, retrieval: a thread's function returns and then gets the mutex; the
event loop handles the posted event; the idle handler runs when it is due; who suspended the starting of threads resumes it
(a `SwPauseThreadStarting` lives on the stack of a save or a load, or from `queryTermination` to
the cancellation or the end of the office, finalthreadmanager.cxx:396, 407); strong fairness of
the successful start stands for a `create()` that does not fail for ever. Fairness is
that of all threads together, since each of its steps happens once to a thread. Without
the strong fairness, a waiting thread may wait for ever and the loop of
`ResumeStartingOfThreads` may turn for ever, which the code accepts.
Mails: weak fairness of the thread, that is, it is scheduled and the
server and listeners return. `final_thread_manager_list`: weak fairness of
every step of every thread; what it shows is a real wait, not a lack of steps.
That the destructor of a `SwModify` ends needs no fairness as it is stated: `DestructorAdvances` says that
each round of its loop leaves fewer clients, and that it always can go on.

**Deadlock.** TLC looks for states without a step in `threads`, and finds none. It is
switched off for `core` and `frame_caches`, where all objects may be destroyed and the office ends (and
the deadlock of finding 1 exists), for `big_ptr_array`, which stops after one operation on a sparse table,
and for the runs that end in a violation.

## What the runs found

1. **The termination query and a job can wait for each other**
   (`final_thread_manager_list`). `queryTermination` takes the thread manager's
   mutex in `SwPauseThreadStarting` (finalthreadmanager.cxx:396) while it holds
   its own; a job that ends calls `releaseJob` (threadmanager.cxx:136) the other
   way round. Neither goes on, nor does the canceller that joins the job.
2. **An iterator can change chains** (`modify_client_position`). A callback that
   moves its client to another modify and then removes it there makes `Remove`
   advance the iterator of the first chain (calbck.cxx:210) into the second.
3. **A bookmark can grow** (`text_node_bookmarks`). The loop of
   `SwTextNode::Update` that puts the ends of bookmarks aside follows the index it
   has just moved into the other list (ndtxt.cxx:1080) and misses the bookmarks
   behind it.
4. **A link can get into a link** (`text_node_links`). A link and a ruby have the
   same range, and a new link begins in it and ends behind it. It overlaps with both,
   and is split at the end of the ruby; its first fragment then lies within the old
   link instead of overlapping with it, which pass 2 of `TryInsertNesting` asserts not to
   happen (thints.cxx:469). The old link is neither cut nor displaced (`FragmentWithin`).
5. **Resetting one attribute can leave overlapping ones** (`nesting_hints_overlap`).
   `RstTextAttr` shortens hints in place (txtedt.cxx:524, 552, 574) whatever is nested in
   them. With a link on [0,2] in a ruby on [0,3], resetting only ruby on [0,1) leaves the ruby on
   [1,3], which overlaps with the link (`CutsNested`): such hints "would not be storable as ODF"
   (thints.cxx:295).
6. **The block used last may be none** (`big_ptr_array_cur`). Removing all elements of the last
   block makes its number `nCur` (bparr.cxx:380), although the table now ends before it: the assertion
   "CurIndex invalid" (line 33) fails, and the next `Index2Block` (lines 96-97) reads a deleted
   `BlockInfo`, or behind the shrunk table a pointer that was never set.
7. **More threads than the limit are started** (`thread_manager_limit`). The idle handler starts a
   thread without looking at the limit (threadmanager.cxx:205), which the class
   is to assure (threadmanager.hxx:45). It is one more at most: `StartedAtMostOneAbove`, proved.
8. **A changed document can be called unmodified** (`undo`). A change that is not
   recorded makes the save mark invalid only in an unmodified document
   (usrfld.cxx:269), or not at all (lineinfo.cxx:47). After a recorded change, then an unrecorded one, undoing the
   first comes back to the mark, and `impl_DoUndoRedo` resets the modified
   state (docundo.cxx:493). `UnmodifiedIsSavedUnlessBlind` is what holds, and is proved.

Read on the way, without a run:

- `addJobs` sets `mbAllJobsCancelled` when jobs are added (finalthreadmanager.cxx:74),
  so that `allJobsCancelled()` becomes true when the list is empty, while the
  last job is still being joined. A termination query may thus consent at that
  time. `notifyTermination` then joins the canceller, and so the job; nothing is lost.
- A canceller that cannot be created makes `cancelAllJobs` join the jobs under
  the mutex (line 346), which the ends of these jobs need: the same wait as in 1.
- `SwPauseThreadStarting` reads under one lock whether starting is suspended and
  sets it under another (pausethreadstarting.cxx:33): two objects can both believe
  to have paused it, and the first destructor resumes for both.
  `EndsWithoutJobs` holds only while there is no second one (`pausedBy`).
- `SwModify::Add` is to complain about clients that are added during an iteration
  (calbck.hxx:280), but compares the root of the iterator with the first client
  (calbck.cxx:155), which are never equal. Whether an added client is visited
  depends on its place; `VisitedExactlyOnce` is about clients that stay.
- The thread of the dispatcher does not look at `run_` again behind the wait, so
  that one mail may be begun after `stop()` (`AtMostOneAfterStop`); and it tells
  its listeners that it is idle (line 262) when the next mail may already be there.
- The thread of the dispatcher gives `thread_status_mutex_` back (maildispatcher.cxx:251) before it takes the
  mail it has found: a `shutdown()` that returns in between does not keep it from being sent.
  `AtMostOneAfterShutdown` states what holds.
- `Remove` that has deleted all blocks from the first it treated on still calls `UpdIndex` on that
  number (bparr.cxx:378-379), which reads the deleted block and then does nothing with it (`DeletesToEnd`).
- `ReplaceText` goes on behind the place of a meta's character that it has deleted
  (ndtxt.cxx:3449-3465), and so skips the next one if two are adjacent: with metas on [0,1] and [1,2],
  replacing both characters leaves the second meta without its character (`NoAdjacentMetas`), against
  thints.cxx:338. TLC finds it as a violation of `MetasHaveChars` with two metas and a text of two.
- A meta that is set on part of a link leaves a right piece of the link that starts with
  the meta's character and ends in the meta. When a link is later put in that meta,
  pass 1 moves its start behind the character without comparing it again with what it
  has seen before, and two hints may overlap (`CoversMetaChar`).
- Text typed after a save is added to the action that carries the save mark
  (DocumentContentOperationsManager.cxx:2435): undo and redo of it come back to the mark
  with more text than was saved. And `SaveAs` of an unmodified document locks the mark
  and does not unlock it (docsh.cxx:462, 486): later saves leave it where it is.
  `blind` covers both.
- The container of a graphic's thread that is removed while it waits is never erased
  (`EntriesAccounted` allows just that). A graphic node keeps its consumer when its link
  is given another name, so that the stream of the former one is loaded (ndgrf.cxx:179
  and 1110), and when a load fails, so that there is no other attempt (ndgrf.cxx:1093).
- A UNO cursor is not where it was after a split or join: `lcl_ChkPaM` notes which bound an
  entry is of, `RestoreShellCrsrs` restores that one (CntntIdxStore.cxx:438), but
  `RestoreUnoCrsrs` the other one (line 406). A cursor without a selection in front of the
  split goes to the start of the second paragraph, since its place is given to its unused bound; a
  selection across the split loses what it had of the second paragraph; one in front of it has its
  ends exchanged. In the text that a join moves it is the same, with the place of the join. `ContentIdxStore` models this (`Restored`), and `ObjectsStayWithText` leaves
  these cursors out; with them, TLC finds it violated after one split.
- `SaveBkmks` saves the other position of a bookmark also when it is at the split
  (CntntIdxStore.cxx:239). The start of a bookmark that was selected forward from there (bookmrk.cxx:138)
  so stays in the first paragraph, and the bookmark has the new break in it; of one that was
  selected backward it does not. `SaveRedlines` asks for the position of the other end first
  (#i59534), which `RedlinesNeverGrow`, a part of `ObjectsStayWithText`, shows to be enough.
- A bookmark whose two positions have become equal, which `EraseText` and
  `ReplaceText` bring about, keeps one of them in front of inserted text and the
  other behind (bookmrk.hxx:70): it grows. `BookmarksNeverGrow` leaves these out.

## The proofs

| module | theorem | says, for every limit, number of threads, mails, ... |
|---|---|---|
| `ThreadManagerProofs` | `TypeCorrect` | the variables have their types |
| | `QueuesStayConsistent` | a thread is not waiting and started, nor queued twice, and was not created when it waits |
| | `NoThreadStranded` | waiting threads without a started one have the idle handler |
| | `StartedBounded` | at most one thread above the limit |
| | `RunningIsJoined` | each executing thread is known to the joiner while that lives |
| | `NoneStartedWhileSuspended` | no step starts a thread while starting is suspended |
| | `ImplementsThreadManager` | the composition behaves as the thread manager alone, so that the six above hold in it |
| | `EntriesStayAccounted` | every container belongs to a thread or event that deals with it, or to a thread removed while it waited |
| `FinalThreadManagerProofs` | `TypeCorrect` | the variables have their types |
| | `JobsStayAccounted` | each registered job is in one and only one list from which it is joined or released |
| | `TerminatorIsOnlyOne` | at most the last terminator may still terminate the office |
| | `CancellerEndsWithoutJobs` | the canceller has no jobs left when it ends, if only the query pauses starting |
| `ModifyClientProofs` | `TypeCorrect` | the variables have their types |
| | `NothingEverDangles` | no object is registered in a dead modify, and no dead one anywhere |
| | `LinksStaySound` | the links of a chain lead both ways, stay in it, and lead down a rank of its objects, from one to the next |
| | `ChainsAlwaysWellFormed` | each chain holds, from its first client on, all that are registered there and nothing else |
| | `PositionStaysInChain` | an iterator stays in its chain unless it was led astray |
| | `EachVisitedOnce` | a client that stays in the chain is visited once: it is still ahead of the iterator, or was visited |
| | `EndsWithNobodyForgotten` | an iteration that has reached its end has visited all of them |
| `MailDispatcherProofs` | `TypeCorrect` | types; a mail is held exactly while it is sent |
| | `NoWakeningLost` | started and mails waiting imply the condition is set |
| | `MailsStayInOrder` | enqueued mails are the taken ones followed by the waiting ones |
| | `StopBound` | at most one mail is begun after `stop()` |
| | `ShutdownBound` | at most one is begun after `shutdown()` |
| `FrameCachesProofs` | `TypeCorrect` | the variables have their types |
| | `CacheStaysConsistent` | what `Check` asserts: the chain holds all objects, its links lead both ways, `pFirst` is in it, free places are free; and the vector stays as small as its limit, free places and locked objects allow |
| | `OwnersFindTheirOwn` | a frame finds its own lines at its index or none, a node or format its own borders if its flag says so |
| | `AccessesStaySound` | an object that is accessed is neither deleted nor given to another owner, and is locked once per access; and a user that opens one gets a place |
| | `HeadIsKept` | while the objects in front are held for a layout action, no insertion replaces them |
| `BigPtrArrayProofs` | `Inductive` | the invariant below |
| | `BlocksAlwaysFit` | the blocks have consecutive indices that fit their elements, in a table with room for them, and `Insert` starts over once at most |
| | `PositionsStayRight` | `GetPos` of each element is its position |
| | `SearchIsRight` | `Index2Block` finds the block of each position, whatever block of the table was used last |
| | `ImplementsAnArray` | each operation is that of `PointerArray` with the same arguments and result |
| `UndoManagerProofs` | `Inductive` | the invariant below |
| | `UnmodifiedUnlessBlind` | an unmodified document has the saved content, as long as the mark did not lose its meaning |

Assumptions are those on the constants only: `mnStartedSize` is a positive
number (`StartedSizeAssumption`; it is 10 in the code), the number of calls is
a number (`MaxThreadsAssumption`, and `BoundAssumption` of `FinalThreadManager`; the bounds are
arbitrary), and `Void` is neither a job, a terminator nor one of
the values it stands beside (`VoidAssumption`). Of `ModifyClient`, `None` is no object,
no object is both a modify and a plain client (`NullAssumption`), `Depth` maps to numbers, and the bound on nested
iterations is one (`DepthAssumption`, `StackAssumption`). Of the cache,
the tail that a layout action leaves in LRU order is no longer than the cache is at first, nor that
longer than the limit up to which it grows (`SizesAssumption`; for text lines these are 50, 250 and 2550),
and frames are not formatted within so many others that the whole tail is locked
(`NestingAssumption`: the object that the innermost inserts and one more are left); a frame is no node or format,
and the null pointer no place (`OwnersAssumption`, `PointersAssumption`). Of the array of nodes,
a block takes two elements at least (with one, `HalfEmpty` would divide by zero; it is 1000 in the
code), the threshold is a percentage, the table grows by a positive number (`SizesAssumption`);
what an array may start with has no empty or too large block and no element twice
(`FirstTablesAssumption`), and `None` is neither a number nor an entry (`NoneAssumption`).

*Thread manager.* None of the invariants is inductive alone. That a thread is not
started twice needs that waiting threads are exactly of life "ready", and the
limit needs that a scheduled idle handler, which ignores it, means that the limit is not
exceeded yet: it is scheduled when nothing is started, and until it runs all other
starts keep to the limit. `QueueInv` collects that over
the parameters which the shared helpers take, so that each helper has one
lemma (`StartThread`, `TryToStart` and `RemoveFrom` preserve it) and each action
cites the lemma of its helper. `JoinInv` says that a thread which executes is a job
or handed over; `IInv` adds that IDs above the counter are unborn, without which
`AddThread` could reuse one. The sequence lemmas (`TailFacts`, `ConsFacts`, ...) say
what taking from the front and putting in front does to the set of waiting threads.

*Retrieval of graphics.* Each step of the composition is one of the thread manager or
leaves its variables alone (`RetrievalStepIsStep`), so that `IInv` holds without another
proof. `RInv` adds to it that a thread which was not made yet has neither consumer nor
container, and that a posted event is that of a thread whose function has returned. What the
helpers of the thread manager do to the lives of all threads is stated once
(`KeepsLives`): those that wait may be started, the others stay as they are.

*Final thread manager.* The lists are compared job by job (`AccountedJobwise`). Beside
`JobsAccounted` the invariant needs that a job which is not registered yet, or is just
being registered, is in no list, that the section which releases a job has a job that
waits for it, that the canceller joins one job at a time, and that the local list of
`cancelAllJobs` is empty but for three stages. `EndsWithoutJobs` rests on `QuietInv`:
between the emptying of the list and the suspension the query holds the mutex, and from
then on to the end starting stays suspended, so that nothing registers and nothing is handed
over behind the consent.

*SwModify and SwClient.* That nothing is registered in a dead modify needs that a destructor
which finds no first client has no client at all, and that the first client it takes is its
own. Both are facts about the links, so that the invariant carries the whole list: links
lead both ways (`Linked`), and lead from each object to the one with the next lower rank (`Ranked`,
for some numbers). The ranks
take the place of counting the steps from the first client;
`UnlinkFields` and `LinkFields` show how they go on when a client leaves, or comes in
behind the first one. They exclude the one case in which `Remove` would lose a chain: a client
without a left and a right link, in a chain that has others. `Shallower` makes the clients of a dying modify
movable to the one above it, and `FramesInv` says that each modify has one destructor at
most. When a modify dies with its document, only the registrations are cleared; the links that
stay behind (and thus the ranks) say nothing about objects in no chain, and are overwritten
by the next `Link`.

*The iterations.* `FromOn`, what a chain holds from an object on, is the least set that is closed
under the links, and `FromOnIsBelow` shows it to be the objects of no higher rank: the
first object that would be missed has a right neighbour of higher rank. Such a least element
comes from the well-founded order of the naturals (`WFMin`), for which no predicate has to be passed to
a theorem. `Placed` then says where an iterator is in terms of ranks: what it has done has
the rank of its position or a higher one, what it has yet to do the rank of its position or a lower one, and its
position is the client in its callback exactly while that is registered in the chain. The
last is what `Remove` relies on when it compares both with the client it removes. An object
can come back into a chain only from being outside of it, and so is in neither `todo` nor `done` of any
iterator of it; if it is one that an iterator was at, the position has gone on before. `IterationInv` says that
for one rank all frames are `Placed`; each of the helpers (`Remove`, `Add`, the clients a
destructor hands on) keeps that for all frames at once.

*Mail dispatcher.* `NoLostWakening` and `MailsInOrder` are preserved by
each step given `MailTypeOK`. `AtMostOneAfterStop` is not: `StopInv` adds that the
condition is not set while the dispatcher is stopped, and that a thread which passed
the wait has taken nothing since the last stop. Nor is `AtMostOneAfterShutdown`: `ShutdownInv` adds that
a thread which has found a mail, but not taken it yet, has taken none since the shutdown.

*Object cache.* The chain is a sequence `s` of `n` objects, each once, whose neighbours
are linked both ways, with `pFirst` at place `h` or, as null, behind its end (`Chained`).
`ChainIsOrder` shows that `Chain` computes it: the first place at which they differ has none
before it. `SoundCache` adds that `h` is 1 without a layout action and that
in one at least `nTail` places of the limit are not in front of `pFirst`; the limit is the initial size and a multiple of what it grows by.
Each step of the class is `TakenOut` (cut out of the chain) and `PutIn` (put at
`h`), and each function of the class has a lemma on what becomes of `s`, `n` and `h`. The crux is
`Insert`: it takes the last object that is not locked, up to `pRealFirst` if need be, and never
looks whether that is `pFirst` or in front of it. But a full cache has as many objects as its limit, so that
there are more behind `pFirst` than accesses are open (`NestedFits`), and one of them is
not locked (`UnlockedBehind`, by pigeonhole). So `Insert` replaces neither an object
that the layout action put in front nor one that is accessed, and `AccessesStaySound`
and `HeadIsKept` follow; without `NestingAssumption` they would not. `Counted` says that the
locks are the open accesses. `Owned`, `IndexSound` and `BorderSound` say whose the objects are: those that died frames left behind (`stale`) are at no living frame's index, and no
node or format has two.

*Array of nodes.* The inductive invariant is one formula: the blocks hold *some* sequence of
elements (`Sound`). `Tidy(a, s, C, x)` says how: the elements of the blocks, one after the
other, are `C`, of which the block `k` has those from `s[k]` on; its indices say so; no block is
empty or too large, no two blocks have the same address, and each element has the address of its
block and its offset there, but for the one at `x`. That exception is for `Move`, which inserts
an element that is still there: until `Remove`, its old place does not have its entry
(`OldPlace`). Each member has a lemma on what `C` becomes, and the refinement of
`PointerArray` is read off these: `InsertIntoFacts`, `RemoveFromFacts`, `MoveSound`, `ReplaceSound`,
`AnyLast` (the block that was used last does not matter).
What is hard lies in three places. The binary search: a range of two numbers or more gets
smaller in each round, and one that is down to two goes to the one block that is
left, because the block looked at last is not looked at again (`RoundNarrows`, `SmallRange`,
`SearchFinds`). The compression: its loop keeps that the new table and the rest of the old one hold
the same elements in the same order (`Packed`), also while a block is divided between
both, and where each of them is (`Known`). And the restart of `Insert`: a table that was compressed is
`Dense`, which means that each block either is full or would have to be filled by splitting the next
one although it is beyond the threshold; `DenseRound` shows that a second compression
then moves nothing, so that it returns no block and `Insert` goes on (`RestartedFacts`).
A loop of any length is dealt with by a set of numbers that holds 0 and with
each number the next one (`Inductively`, from the least number that would be missing).

*Undo.* That the mark on top of the stack means "saved" is a statement about the
whole stack, undo and redo: undoing or redoing any number of actions until the mark is on top
leads to the content that was saved (`MarkLeadsBack`). For that to survive an undo,
which takes the changes of one action out of the content, the actions must not share
changes, and the actions to redo must not be in the content (`ActionsDisjoint`); and
for a new action not to carry an old mark, the numbers of all changes in use are below the
counter (`NumbersUsed`). Each action keeps the four parts of `IInv`, in one lemma. All that is said of the mark
is said while `blind` is false.

Only model-checked: liveness (`ENABLED` and fairness are out of the prover's reach);
the refinements of `TextPositions` and `CharAttributes`; `HintsSound`, since `NestingHints` (the
recursion of `TryInsertNesting`) declares a RECURSIVE operator, which the provers
cannot take (no other module declares one); and `ListsSorted`, `EndsStay` and `ObjectsStayWithText`,
which are about `Update`, a composition of folds over a list of any length. Induction that takes a predicate as
parameter cannot be used either. Where the predicate is a set of numbers or a comparison of two
given sequences, its least element or least counterexample does the same
(`Inductively` of `BigPtrArrayLemmas`, `WFMin` of `ModifyClientProofs`, `ChainIsOrder`).

## What is not modelled

- *Thread manager, final thread manager*: the destructors. The idle handler's priority.
- *SwModify*: `CheckCaching`, `GetInfo`, `SwIterator::Last` and `Previous`: none changes
  the chains.
- *Mail dispatcher*: `addListener` and the container of listeners; the client is
  any sequence of calls, not the one of `dbmgr.cxx`. That `stop()` and
  `shutdown()` right after the last enqueued mail (dbmgr.cxx:1504) discard
  mails follows from `AtMostOneAfterShutdown`: of those, one at most is sent.
- *BigPtrArray*: the destructor; memory.
- *Retrieval of graphics*: what the node does with a stream that belongs to a former
  link; the formats of graphics.
- *Text attributes*: the portions of automatic and character styles (`BuildPortions`,
  `MergePortions`), attributes that may overlap, input fields, the limit on the number of
  hints, `SwHistory`.
- *Object cache*: `Flush`, the shrinking of `Delete` and the font caches; what is cached.
- *Undo*: `SfxUndoManager` is not in this tree, so its mark is modelled from its use
  here; undo of one action in several steps, repeat, list actions, undo of another view.
- *Text node*: copies and moves within a node, the sorting of the mark container after an
  edit, the redline table's order.
- *Splits and joins*: the attributes that `CutImpl` moves; the paragraph that a split at the start of
  a table inserts in front of it; `SplitRedline` and the redline of a tracked split; flys at a
  paragraph; the `Restore` with a limit, for moves of ranges; `sw_JoinText`.
- The components with status `not_modelled` in `PROJECT.json`, with the reason.

## Plan

The order follows what is most shared and hardest to test.

1. Done: `ThreadManager` with `GraphicRetrieval`, `FinalThreadManager`, `ModifyClient`,
   `MailDispatcher`, `BigPtrArray` with `PointerArray`, `SwIndexReg`/`SwTextNode` with
   `TextPositions`, `NestingHints` with `CharAttributes`, `ContentIdxStore`, `SwCache`/`FrameCaches`, `UndoManager`;
   the proofs for the thread manager and its users, the final thread manager, `SwModify` and its iterations,
   the mail dispatcher, the array of nodes, the object cache and the undo manager.
2. Proofs: that `RemoveIndex` and `LinkBetween` keep the links of a list mutual, by the `Ranked` of
   `ModifyClientProofs`; that the loops of `Update` keep the lists sorted, when they are written as
   recursive functions (`Inductively` and `Iterated` of `BigPtrArrayLemmas`).
3. The redlines of splits and joins under change tracking (`SplitRedline`, `AppendRedline`) on
   `ContentIdxStore`; a proof that positions stay inside their paragraphs.
4. Portions of automatic styles: `BuildPortions` and `MergePortions` in a module beside
   `NestingHints`; the invariant that portions do not overlap (README of the
   module, "Text Attributes").
5. `SwNodes` on `PointerArray`: start and end nodes stay nested under moves.
6. The dialog of the mail merge (`SwSendMailDialog`) as the client of `MailDispatcher`.
