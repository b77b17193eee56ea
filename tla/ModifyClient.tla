---------------------------- MODULE ModifyClient ----------------------------
(***************************************************************************)
(* SwModify and SwClient (inc/calbck.hxx, source/core/attr/calbck.cxx):    *)
(* the chains of clients, the broadcast of a change to them, and the       *)
(* iterators that stay valid while the callbacks of a broadcast remove,    *)
(* move and destroy clients and modifies.                                  *)
(*                                                                         *)
(* All of it runs in one thread.  The concurrency is that of callbacks: a  *)
(* frame is an SwIterator on the stack, the client it stands on is in its  *)
(* callback, and until that returns (action Next_) the callback may call   *)
(* every operation again.  An operation itself calls nothing back, except  *)
(* NotifyClients and the destructor, which push a frame.                   *)
(***************************************************************************)
EXTENDS Naturals, Sequences, FiniteSets, SequencesExt

CONSTANTS
  Modifies,     \* the SwModify objects; each of them is an SwClient too
  Clients,      \* the SwClient objects that are no SwModify
  None,         \* nullptr
  Depth,        \* a modify registers only at one of smaller depth
  MaxFrames     \* bound on the number of nested iterations

Obj == Modifies \cup Clients

ASSUME NullAssumption  == None \notin Obj /\ Modifies \cap Clients = {}
ASSUME DepthAssumption == Depth \in [Modifies -> Nat]
ASSUME StackAssumption == MaxFrames \in Nat

VARIABLES
  chain,            \* the chains; see Chains
  frames,           \* the stack of frames; the last one is the innermost
  life,             \* of each object: alive, dying (a destructor runs), dead
  m_bModifyLocked,
  bLockClientList,
  callerLocks       \* modifies on which a caller is between LockModify and UnlockModify

clientVars == <<chain, frames, life, m_bModifyLocked, bLockClientList, callerLocks>>

ObjOrNull == Obj \cup {None}

Chains == [m_pLeft : [Obj -> ObjOrNull], m_pRight : [Obj -> ObjOrNull],
           m_pWriterListeners : [Modifies -> ObjOrNull],
           pRegisteredIn : [Obj -> Modifies \cup {None}]]

\* A frame is a broadcast of NotifyClients, a loop over an SwIterator, or the
\* rest of ~SwModify after its broadcast.  dead is the object whose death the
\* broadcast tells of.  todo and done are history: the clients that have been
\* in the chain since the iteration began, not yet and already visited.  astray
\* is history too: the client of the callback had left the chain of the iteration
\* when it was removed from another one, which repositioned the iterator.
Frame == [kind : {"notify", "iterate", "destroy"}, m_rRoot : Modifies,
          m_pCurrent : ObjOrNull, m_pPosition : ObjOrNull, types : SUBSET Obj,
          dead : Modifies \cup {None}, todo : SUBSET Obj, done : SUBSET Obj,
          astray : BOOLEAN]

ClientsTypeOK ==
  /\ chain \in Chains
  /\ frames \in Seq(Frame)
  /\ life \in [Obj -> {"alive", "dying", "dead"}]
  /\ m_bModifyLocked \in [Modifies -> BOOLEAN]
  /\ bLockClientList \in [Modifies -> BOOLEAN]
  /\ callerLocks \in SUBSET Modifies

ClientsInit ==
  /\ chain = [m_pLeft |-> [o \in Obj |-> None], m_pRight |-> [o \in Obj |-> None],
              m_pWriterListeners |-> [m \in Modifies |-> None],
              pRegisteredIn |-> [o \in Obj |-> None]]
  /\ frames = <<>>
  /\ life = [o \in Obj |-> "alive"]
  /\ m_bModifyLocked = [m \in Modifies |-> FALSE]
  /\ bLockClientList = [m \in Modifies |-> FALSE]
  /\ callerLocks = {}

-----------------------------------------------------------------------------
(* The chains.                                                              *)

Registered(m) == {o \in Obj : chain.pRegisteredIn[o] = m}

\* Takes c out of the chain of the modify it is registered in.
Unlink(s, c) ==
  LET l == s.m_pLeft[c]
      r == s.m_pRight[c]
      m == s.pRegisteredIn[c]
  IN [m_pLeft  |-> [o \in Obj |-> IF o = c THEN None
                                  ELSE IF o = r THEN l ELSE s.m_pLeft[o]],
      m_pRight |-> [o \in Obj |-> IF o = c THEN None
                                  ELSE IF o = l THEN r ELSE s.m_pRight[o]],
      m_pWriterListeners |->
        IF s.m_pWriterListeners[m] = c
        THEN [s.m_pWriterListeners EXCEPT ![m] = IF l # None THEN l ELSE r]
        ELSE s.m_pWriterListeners,
      pRegisteredIn |-> [s.pRegisteredIn EXCEPT ![c] = None]]

\* Mutant of Link: the left link of the second client is forgotten.
Link_NoBackLink(s, m, c) ==
  LET h == s.m_pWriterListeners[m] IN
  [m_pLeft  |-> [s.m_pLeft EXCEPT ![c] = h],
   m_pRight |-> [o \in Obj |-> IF o = h THEN c
                               ELSE IF o = c /\ h = None THEN None
                               ELSE IF o = c THEN s.m_pRight[h] ELSE s.m_pRight[o]],
   m_pWriterListeners |-> IF h = None THEN [s.m_pWriterListeners EXCEPT ![m] = c]
                          ELSE s.m_pWriterListeners,
   pRegisteredIn |-> [s.pRegisteredIn EXCEPT ![c] = m]]

\* Puts c into the chain of m: as its only client, or behind the first one.
Link(s, m, c) ==
  LET h == s.m_pWriterListeners[m]
      r == IF h = None THEN None ELSE s.m_pRight[h]
  IN [m_pLeft  |-> [o \in Obj |-> IF o = c THEN h
                                  ELSE IF o = r THEN c ELSE s.m_pLeft[o]],
      m_pRight |-> [o \in Obj |-> IF o = c THEN r
                                  ELSE IF o = h THEN c ELSE s.m_pRight[o]],
      m_pWriterListeners |-> IF h = None THEN [s.m_pWriterListeners EXCEPT ![m] = c]
                             ELSE s.m_pWriterListeners,
      pRegisteredIn |-> [s.pRegisteredIn EXCEPT ![c] = m]]

\* Does c run in the callback of f, but is registered in another chain by now?
WouldStray(f, c) == f.m_pCurrent = c /\ chain.pRegisteredIn[c] # f.m_rRoot

\* Mutant of Repositioned: only the innermost iterator is told.
Repositioned_OnlyInnermost(c) ==
  [k \in DOMAIN frames |->
     [frames[k] EXCEPT
        !.m_pPosition = IF c \in {@, frames[k].m_pCurrent} /\ k = Len(frames)
                        THEN chain.m_pRight[c] ELSE @,
        !.todo = @ \ {c}, !.done = @ \ {c}, !.astray = @ \/ WouldStray(frames[k], c)]]

\* All iterators, after Remove(c) has advanced those that stand on c.
Repositioned(c) ==
  [k \in DOMAIN frames |->
     [frames[k] EXCEPT
        !.m_pPosition = IF c \in {@, frames[k].m_pCurrent}
                        THEN chain.m_pRight[c] ELSE @,
        !.todo = @ \ {c}, !.done = @ \ {c}, !.astray = @ \/ WouldStray(frames[k], c)]]

\* SwModify::Remove(c), called on the modify that c is registered in.
Removed(c) ==
  /\ chain' = Unlink(chain, c)
  /\ frames' = Repositioned(c)

\* SwModify::Add(c) called on m, for a c that is registered elsewhere or nowhere.
Added(m, c) ==
  IF chain.pRegisteredIn[c] = None
  THEN chain' = Link(chain, m, c) /\ UNCHANGED frames
  ELSE chain' = Link(Unlink(chain, c), m, c) /\ frames' = Repositioned(c)

\* Mutant of TakenFrom: without a modify above nothing is done.
TakenFrom_OnlyMoves(m, c) ==
  LET pAbove == chain.pRegisteredIn[m]
  IN pAbove # None /\ Added(pAbove, c)

\* SwClient::CheckRegistration of a client c of the dying modify m.
TakenFrom(m, c) ==
  LET pAbove == chain.pRegisteredIn[m]
  IN IF pAbove # None THEN Added(pAbove, c) ELSE Removed(c)

-----------------------------------------------------------------------------
(* The stack.                                                               *)

Innermost == frames[Len(frames)]

MayNest == Cardinality({k \in DOMAIN frames : frames[k].kind # "destroy"}) < MaxFrames

\* May the callers (callbacks, or the program outside of them) act?
CallersRun == frames # <<>> => Innermost.kind # "destroy"

IteratedAt(m) == \E k \in DOMAIN frames :
                   frames[k].m_rRoot = m /\ frames[k].kind # "destroy"

NewFrame(kind, m, first, dead, types) ==
  LET all == Registered(m) \cap types
  IN [kind |-> kind, m_rRoot |-> m, m_pCurrent |-> first, m_pPosition |-> first,
      types |-> types, dead |-> dead, todo |-> all \ {first},
      done |-> all \cap {first}, astray |-> FALSE]

\* The objects from o on in the chain of o: those of every set that contains o
\* and with each object the one to its right.
FromOn(o) ==
  {x \in Obj : o # None /\ \A S \in SUBSET Obj :
     o \in S /\ (\A p \in S : chain.m_pRight[p] \in S \cup {None}) => x \in S}

\* The first object from o on that has one of the types of the iterator.
FirstOfType(o, types) ==
  LET hits == FromOn(o) \cap types
      first == {h \in hits : hits \subseteq FromOn(h)}
  IN IF first = {} THEN None ELSE CHOOSE h \in first : TRUE

\* The broadcast of NotifyClients on m, if it is not suppressed.
Broadcast(m, dead, below) ==
  /\ frames' = below \o <<NewFrame("notify", m, chain.m_pWriterListeners[m], dead, Obj)>>
  /\ m_bModifyLocked' = [m_bModifyLocked EXCEPT ![m] = TRUE]
  /\ bLockClientList' = [bLockClientList EXCEPT ![m] = dead # m]

Suppressed(m) == chain.m_pWriterListeners[m] = None \/ m_bModifyLocked[m]

-----------------------------------------------------------------------------
(* Calls from the program and from callbacks.                               *)

\* Callers keep the rule of the class and do not add to a chain in iteration.
Add(m, c) ==
  /\ CallersRun
  /\ life[m] = "alive" /\ life[c] = "alive"
  /\ c \in Modifies => Depth[m] < Depth[c]
  /\ chain.pRegisteredIn[c] # m /\ ~IteratedAt(m)
  /\ Added(m, c)
  /\ UNCHANGED <<life, m_bModifyLocked, bLockClientList, callerLocks>>

RemoveClient(c) ==
  /\ CallersRun
  /\ life[c] = "alive" /\ chain.pRegisteredIn[c] # None
  /\ Removed(c)
  /\ UNCHANGED <<life, m_bModifyLocked, bLockClientList, callerLocks>>

\* ~SwClient of an object that is no SwModify.
DestroyClient(c) ==
  /\ CallersRun
  /\ life[c] = "alive"
  /\ life' = [life EXCEPT ![c] = "dead"]
  /\ IF chain.pRegisteredIn[c] # None
     THEN Removed(c)
     ELSE UNCHANGED <<chain, frames>>
  /\ UNCHANGED <<m_bModifyLocked, bLockClientList, callerLocks>>

\* LockModify and UnlockModify come in pairs, but their lock does not count.
LockModify(m) ==
  /\ CallersRun /\ life[m] = "alive" /\ m \notin callerLocks
  /\ m_bModifyLocked' = [m_bModifyLocked EXCEPT ![m] = TRUE]
  /\ callerLocks' = callerLocks \cup {m}
  /\ UNCHANGED <<chain, frames, life, bLockClientList>>

UnlockModify(m) ==
  /\ CallersRun /\ m \in callerLocks
  /\ m_bModifyLocked' = [m_bModifyLocked EXCEPT ![m] = FALSE]
  /\ callerLocks' = callerLocks \ {m}
  /\ UNCHANGED <<chain, frames, life, bLockClientList>>

\* NotifyClients with the hint of a change, or with the death of another
\* modify that a callback forwards.
NotifyClients(m, dead) ==
  /\ CallersRun /\ MayNest
  /\ life[m] = "alive" /\ ~Suppressed(m)
  /\ dead # None => frames # <<>> /\ Innermost.dead = dead /\ Innermost.m_pCurrent = m
  /\ Broadcast(m, dead, frames)
  /\ UNCHANGED <<chain, life, callerLocks>>

\* A loop over SwIterator<T, SwModify>, up to the return of First.
Iterate(m, types) ==
  /\ CallersRun /\ MayNest
  /\ life[m] # "dead"
  /\ LET first == FirstOfType(chain.m_pWriterListeners[m], types)
     IN /\ first # None
        /\ frames' = Append(frames, NewFrame("iterate", m, first, None, types))
  /\ UNCHANGED <<chain, life, m_bModifyLocked, bLockClientList, callerLocks>>

\* A callback for the death of the modify it is registered in asks for
\* CheckRegistration; a callback may forget it.
CheckRegistration ==
  /\ frames # <<>> /\ Innermost.kind = "notify"
  /\ LET c == Innermost.m_pCurrent
         m == Innermost.dead
     IN /\ m # None /\ c \in Registered(m) /\ life[c] # "dead"
        /\ TakenFrom(m, c)
  /\ UNCHANGED <<life, m_bModifyLocked, bLockClientList, callerLocks>>

-----------------------------------------------------------------------------
(* The iteration.                                                           *)

\* Mutant of NextPosition: the iterator always steps on.
NextPosition_IgnoresChange(f) ==
  IF f.m_pPosition = None THEN None
  ELSE FirstOfType(chain.m_pRight[f.m_pPosition], f.types)

\* SwIterator::Next: an iterator whose position was changed by a removal does
\* not step on.
NextPosition(f) ==
  FirstOfType(IF f.m_pPosition = f.m_pCurrent THEN chain.m_pRight[f.m_pPosition]
              ELSE f.m_pPosition, f.types)

\* A callback returns, and the loop goes on with the next client, or ends.
Next_ ==
  /\ frames # <<>> /\ Innermost.kind # "destroy"
  /\ LET f == Innermost
         n == NextPosition(f)
     IN \/ /\ n # None
           /\ frames' = [frames EXCEPT ![Len(frames)] =
                [f EXCEPT !.m_pCurrent = n, !.m_pPosition = n, !.todo = @ \ {n},
                          !.done = IF n \in f.todo THEN @ \cup {n} ELSE @]]
           /\ UNCHANGED <<m_bModifyLocked, bLockClientList>>
        \/ /\ n = None
           /\ frames' = Front(frames)
           /\ IF f.kind = "notify"
              THEN /\ m_bModifyLocked' = [m_bModifyLocked EXCEPT ![f.m_rRoot] = FALSE]
                   /\ bLockClientList' = [bLockClientList EXCEPT ![f.m_rRoot] = FALSE]
              ELSE UNCHANGED <<m_bModifyLocked, bLockClientList>>
  /\ UNCHANGED <<chain, life, callerLocks>>

-----------------------------------------------------------------------------
(* ~SwModify.                                                               *)

\* The destructor of m starts, with the broadcast of its death if it has
\* clients.  Callers do not destroy a modify whose broadcast is still on the
\* stack, which would be an access to freed memory when it returns.
DestroyModify(m) ==
  /\ CallersRun /\ MayNest
  /\ life[m] = "alive" /\ m \notin callerLocks
  /\ ~\E k \in DOMAIN frames : frames[k].m_rRoot = m /\ frames[k].kind = "notify"
  /\ life' = [life EXCEPT ![m] = "dying"]
  /\ LET rest == [NewFrame("destroy", m, None, None, {}) EXCEPT !.todo = {}]
         below == Append(frames, rest)
     IN IF Suppressed(m)
        THEN frames' = below /\ UNCHANGED <<m_bModifyLocked, bLockClientList>>
        ELSE Broadcast(m, m, below)
  /\ UNCHANGED <<chain, callerLocks>>

\* An iteration of the loop that removes the clients which did not do so.
RemoveRest ==
  /\ frames # <<>> /\ Innermost.kind = "destroy"
  /\ LET m == Innermost.m_rRoot
         c == chain.m_pWriterListeners[m]
     IN c # None /\ TakenFrom(m, c)
  /\ UNCHANGED <<life, m_bModifyLocked, bLockClientList, callerLocks>>

\* Mutant of EndDestroy: the loop over the remaining clients is left out.
EndDestroy_KeepsClients ==
  /\ frames # <<>> /\ Innermost.kind = "destroy"
  /\ LET m == Innermost.m_rRoot
     IN /\ life' = [life EXCEPT ![m] = "dead"]
        /\ IF chain.pRegisteredIn[m] # None
           THEN /\ chain' = Unlink(chain, m)
                /\ frames' = Front(Repositioned(m))
           ELSE frames' = Front(frames) /\ UNCHANGED chain
  /\ UNCHANGED <<m_bModifyLocked, bLockClientList, callerLocks>>

\* All clients are gone; ~SwClient deregisters the modify itself.
EndDestroy ==
  /\ frames # <<>> /\ Innermost.kind = "destroy"
  /\ LET m == Innermost.m_rRoot
     IN /\ chain.m_pWriterListeners[m] = None
        /\ life' = [life EXCEPT ![m] = "dead"]
        /\ IF chain.pRegisteredIn[m] # None
           THEN /\ chain' = Unlink(chain, m)
                /\ frames' = Front(Repositioned(m))
           ELSE frames' = Front(frames) /\ UNCHANGED chain
  /\ UNCHANGED <<m_bModifyLocked, bLockClientList, callerLocks>>

\* SetInDocDTOR and delete, when the document dies: the clients only forget m,
\* and keep the links of the chain they were in.
DestroyInDocDTOR(m) ==
  /\ frames = <<>>
  /\ life[m] = "alive" /\ m \notin callerLocks
  /\ life' = [life EXCEPT ![m] = "dead"]
  /\ LET s == [chain EXCEPT !.pRegisteredIn =
                 [o \in Obj |-> IF @[o] = m THEN None ELSE @[o]]]
     IN chain' = IF chain.pRegisteredIn[m] # None THEN Unlink(s, m) ELSE s
  /\ UNCHANGED <<frames, m_bModifyLocked, bLockClientList, callerLocks>>

-----------------------------------------------------------------------------
ClientsNext ==
  \/ \E m \in Modifies, c \in Obj : Add(m, c)
  \/ \E c \in Obj : RemoveClient(c)
  \/ \E c \in Clients : DestroyClient(c)
  \/ \E m \in Modifies : LockModify(m)
  \/ \E m \in Modifies : UnlockModify(m)
  \/ \E m \in Modifies, dead \in Modifies \cup {None} : NotifyClients(m, dead)
  \/ \E m \in Modifies, types \in {Clients, Modifies} : Iterate(m, types)
  \/ CheckRegistration
  \/ Next_
  \/ \E m \in Modifies : DestroyModify(m)
  \/ RemoveRest
  \/ EndDestroy
  \/ \E m \in Modifies : DestroyInDocDTOR(m)

ClientsSpec == ClientsInit /\ [][ClientsNext]_clientVars

-----------------------------------------------------------------------------
(* Safety.                                                                  *)

\* Links lead both ways, and nothing is in front of the first client.
LinksMutual ==
  \A m \in Modifies : life[m] # "dead" =>
    LET h == chain.m_pWriterListeners[m] IN
    /\ h # None => chain.m_pLeft[h] = None
    /\ \A o \in Registered(m) : chain.m_pRight[o] # None =>
         chain.m_pLeft[chain.m_pRight[o]] = o

\* The chain of a modify that is not dead is a doubly linked list of exactly
\* the clients registered in it, whatever callbacks did on the way.
ChainsWellFormed ==
  /\ ClientsTypeOK /\ LinksMutual
  /\ \A m \in Modifies : life[m] # "dead" =>
       FromOn(chain.m_pWriterListeners[m]) = Registered(m)

\* No object is registered in a dead modify, and no dead object is registered:
\* no chain and no later destructor reaches freed memory.
NothingDangles ==
  \A o \in Obj : chain.pRegisteredIn[o] # None =>
    life[o] # "dead" /\ life[chain.pRegisteredIn[o]] # "dead"

\* An iterator never wanders out of the chain it iterates: its position is a
\* client of its root.  calbck.hxx, at m_pPosition: "in case the current object
\* is already removed, the next object in the list is marked down to become
\* the current object in the next step".  What Remove does breaks it.
PositionAlwaysInChain ==
  \A k \in DOMAIN frames : LET f == frames[k] IN
    f.m_pPosition # None => chain.pRegisteredIn[f.m_pPosition] = f.m_rRoot

\* There is only one way out: the position of an iterator is a client of its root
\* unless the client whose callback runs was removed from another chain.
PositionInChain ==
  \A k \in DOMAIN frames : LET f == frames[k] IN
    ~f.astray /\ f.m_pPosition # None => chain.pRegisteredIn[f.m_pPosition] = f.m_rRoot

\* What a frame will still visit.
Remaining(f) ==
  (IF f.m_pPosition = f.m_pCurrent /\ f.m_pPosition # None
   THEN FromOn(chain.m_pRight[f.m_pPosition]) ELSE FromOn(f.m_pPosition)) \cap f.types

\* Each client that stays in the chain during a broadcast or an iteration is
\* visited exactly once, although the callbacks may remove, move and destroy
\* clients and modifies, the current one included, and nest iterations, as long
\* as the iterator was not led astray.
VisitedExactlyOnce ==
  \A k \in DOMAIN frames : LET f == frames[k] IN
    f.kind # "destroy" /\ ~f.astray =>
      f.todo \subseteq Remaining(f) /\ f.done \cap Remaining(f) = {}

\* Is the loop of ~SwModify over the remaining clients of m the innermost?
InDestructorOf(m) == frames # <<>> /\ Innermost.kind = "destroy" /\ Innermost.m_rRoot = m

\* The loop of ~SwModify over the remaining clients ends, however callbacks left the
\* chain: it never lacks a next step, and each step takes clients out of the chain of
\* m and puts none in, or ends the destructor.
DestructorAdvances ==
  /\ [](\A m \in Modifies : InDestructorOf(m) => ENABLED <<RemoveRest \/ EndDestroy>>_clientVars)
  /\ [][\A m \in Modifies : InDestructorOf(m) =>
          \/ Registered(m)' \subseteq Registered(m) /\ Registered(m)' # Registered(m)
          \/ life'[m] = "dead"]_clientVars
=============================================================================
