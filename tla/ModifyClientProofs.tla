------------------------- MODULE ModifyClientProofs -------------------------
(***************************************************************************)
(* Proofs about ModifyClient, for any modifies, clients, depth of nested   *)
(* iterations, and whatever callbacks do.                                  *)
(***************************************************************************)
EXTENDS ModifyClient, SequenceTheorems, WellFoundedInduction, TLAPS

(* The links of the chains.  They are stated for the four functions of a    *)
(* chain record: left and right links, first clients, and registrations.    *)

\* A rank of the objects that falls along each chain from its first client to its
\* last one: a link leads to the next lower rank.  It takes the place of a statement
\* about the objects that can be reached from the first one.
Ranked(lt, rt, rg, rank) ==
  \A a, b \in Obj : rg[a] # None /\ rg[a] = rg[b] =>
    /\ a # b => rank[a] # rank[b]
    /\ b = rt[a] => rank[b] < rank[a]
    /\ rank[b] < rank[a] =>
         /\ rt[a] # None /\ rank[b] <= rank[rt[a]]
         /\ lt[b] # None /\ rank[lt[b]] <= rank[a]

\* Links are mutual and stay in the chain, and the first client is the one
\* without a left link.
Linked(lt, rt, hd, rg) ==
  \A o \in Obj : rg[o] # None =>
    /\ hd[rg[o]] # None /\ (lt[o] = None <=> hd[rg[o]] = o)
    /\ lt[o] # None => rg[lt[o]] = rg[o] /\ rt[lt[o]] = o
    /\ rt[o] # None => rg[rt[o]] = rg[o] /\ lt[rt[o]] = o

Links(s) ==
  /\ s \in Chains
  /\ Linked(s.m_pLeft, s.m_pRight, s.m_pWriterListeners, s.pRegisteredIn)
  /\ \E rank \in [Obj -> Nat] : Ranked(s.m_pLeft, s.m_pRight, s.pRegisteredIn, rank)

\* A modify is registered at one of smaller depth only, and so never at itself.
Shallower(rg) == \A m \in Modifies : rg[m] # None => Depth[rg[m]] < Depth[m]

\* The first client of a modify that is not dead is registered there.
FirstRegistered(hd, rg, lf) ==
  \A m \in Modifies : lf[m] # "dead" /\ hd[m] # None => rg[hd[m]] = m

\* What NothingDangles says, for a chain and the life of the objects.
NoneDead(rg, lf) ==
  \A o \in Obj : rg[o] # None => lf[o] # "dead" /\ lf[rg[o]] # "dead"

Sound(s, lf) ==
  /\ Links(s) /\ Shallower(s.pRegisteredIn) /\ NoneDead(s.pRegisteredIn, lf)
  /\ FirstRegistered(s.m_pWriterListeners, s.pRegisteredIn, lf)

-----------------------------------------------------------------------------
\* What Unlink does to the four functions of a chain record.
UnlinkedFields(lt, rt, hd, rg, c, lt2, rt2, hd2, rg2) ==
  /\ lt2 \in [Obj -> ObjOrNull] /\ rt2 \in [Obj -> ObjOrNull]
  /\ hd2 \in [Modifies -> ObjOrNull] /\ rg2 \in [Obj -> Modifies \cup {None}]
  /\ \A o \in Obj : lt2[o] = IF o = c THEN None ELSE IF o = rt[c] THEN lt[c] ELSE lt[o]
  /\ \A o \in Obj : rt2[o] = IF o = c THEN None ELSE IF o = lt[c] THEN rt[c] ELSE rt[o]
  /\ \A m \in Modifies : hd2[m] = IF m = rg[c] /\ hd[m] = c
                                   THEN IF lt[c] # None THEN lt[c] ELSE rt[c] ELSE hd[m]
  /\ \A o \in Obj : rg2[o] = IF o = c THEN None ELSE rg[o]

\* Taking an object out of its chain, field by field.
LEMMA UnlinkFields ==
  ASSUME NEW lt \in [Obj -> ObjOrNull], NEW rt \in [Obj -> ObjOrNull],
         NEW hd \in [Modifies -> ObjOrNull], NEW rg \in [Obj -> Modifies \cup {None}],
         NEW c \in Obj, rg[c] # None,
         NEW lt2, NEW rt2, NEW hd2, NEW rg2,
         UnlinkedFields(lt, rt, hd, rg, c, lt2, rt2, hd2, rg2),
         Linked(lt, rt, hd, rg),
         NEW rank \in [Obj -> Nat], Ranked(lt, rt, rg, rank)
  PROVE  Linked(lt2, rt2, hd2, rg2) /\ Ranked(lt2, rt2, rg2, rank)
<1> USE DEF UnlinkedFields
<1>1. None \notin Obj /\ Modifies \subseteq Obj /\ ObjOrNull = Obj \cup {None}
      /\ lt[c] \in Obj \cup {None} /\ rt[c] \in Obj \cup {None}
  BY NullAssumption DEF Obj, ObjOrNull
<1>2. /\ hd[rg[c]] # None /\ (lt[c] = None <=> hd[rg[c]] = c)
      /\ lt[c] # None => lt[c] \in Obj /\ rg[lt[c]] = rg[c] /\ rt[lt[c]] = c
      /\ rt[c] # None => rt[c] \in Obj /\ rg[rt[c]] = rg[c] /\ lt[rt[c]] = c
  BY <1>1 DEF Linked
<1>3. Linked(lt2, rt2, hd2, rg2)
  <2> SUFFICES ASSUME NEW o \in Obj, rg2[o] # None
               PROVE  /\ hd2[rg2[o]] # None /\ (lt2[o] = None <=> hd2[rg2[o]] = o)
                      /\ lt2[o] # None => rg2[lt2[o]] = rg2[o] /\ rt2[lt2[o]] = o
                      /\ rt2[o] # None => rg2[rt2[o]] = rg2[o] /\ lt2[rt2[o]] = o
    BY DEF Linked
  <2>1. /\ o # c /\ rg2[o] = rg[o] /\ rg[o] \in Modifies
        /\ lt[o] \in Obj \cup {None} /\ rt[o] \in Obj \cup {None}
        /\ hd[rg[o]] # None /\ (lt[o] = None <=> hd[rg[o]] = o)
        /\ lt[o] # None => rg[lt[o]] = rg[o] /\ rt[lt[o]] = o
        /\ rt[o] # None => rg[rt[o]] = rg[o] /\ lt[rt[o]] = o
    BY <1>1 DEF Linked
  <2>2. hd2[rg2[o]] # None
    <3>1. CASE rg[o] = rg[c] /\ hd[rg[o]] = c
      <4>1. lt[c] = None
        BY <3>1, <1>2
      <4>2. rank[o] < rank[c]
        <5>1. rank[o] # rank[c] /\ ~(rank[c] < rank[o])
          BY <2>1, <3>1, <4>1 DEF Ranked
        <5>2. rank[o] \in Nat /\ rank[c] \in Nat
          OBVIOUS
        <5> QED BY <5>1, <5>2
      <4>3. rt[c] # None
        BY <2>1, <3>1, <4>2 DEF Ranked
      <4> QED BY <2>1, <3>1, <4>1, <4>3
    <3>2. CASE ~ (rg[o] = rg[c] /\ hd[rg[o]] = c)
      BY <2>1, <3>2
    <3> QED BY <3>1, <3>2
  <2>3. lt2[o] = None <=> hd2[rg2[o]] = o
    <3>1. CASE o = rt[c]
      BY <1>1, <1>2, <2>1, <3>1
    <3>2. CASE o # rt[c]
      BY <1>1, <1>2, <2>1, <3>2
    <3> QED BY <3>1, <3>2
  <2>4. lt2[o] # None => rg2[lt2[o]] = rg2[o] /\ rt2[lt2[o]] = o
    <3>1. CASE o = rt[c]
      BY <1>1, <1>2, <2>1, <3>1
    <3>2. CASE o # rt[c]
      <4>1. lt[o] # None => lt[o] # c /\ lt[o] # lt[c]
        BY <1>1, <1>2, <2>1, <3>2
      <4> QED BY <1>1, <2>1, <3>2, <4>1
    <3> QED BY <3>1, <3>2
  <2>5. rt2[o] # None => rg2[rt2[o]] = rg2[o] /\ lt2[rt2[o]] = o
    <3>1. CASE o = lt[c]
      BY <1>1, <1>2, <2>1, <3>1
    <3>2. CASE o # lt[c]
      <4>1. rt[o] # None => rt[o] # c /\ rt[o] # rt[c]
        BY <1>1, <1>2, <2>1, <3>2
      <4> QED BY <1>1, <2>1, <3>2, <4>1
    <3> QED BY <3>1, <3>2
  <2> QED BY <2>2, <2>3, <2>4, <2>5
<1>4. Ranked(lt2, rt2, rg2, rank)
  <2> SUFFICES ASSUME NEW a \in Obj, NEW b \in Obj, rg2[a] # None, rg2[a] = rg2[b]
               PROVE  /\ a # b => rank[a] # rank[b]
                      /\ b = rt2[a] => rank[b] < rank[a]
                      /\ rank[b] < rank[a] =>
                           /\ rt2[a] # None /\ rank[b] <= rank[rt2[a]]
                           /\ lt2[b] # None /\ rank[lt2[b]] <= rank[a]
    BY DEF Ranked
  <2>1. a # c /\ b # c /\ rg[a] # None /\ rg[a] = rg[b]
    OBVIOUS
  <2>2. /\ a # b => rank[a] # rank[b]
        /\ b = rt[a] => rank[b] < rank[a]
        /\ rank[b] < rank[a] =>
             /\ rt[a] # None /\ rank[b] <= rank[rt[a]]
             /\ lt[b] # None /\ rank[lt[b]] <= rank[a]
    BY <2>1 DEF Ranked
  <2>3. a = lt[c] => rg[a] = rg[c] /\ rt[a] = c /\ rank[c] < rank[a]
    BY <1>1, <1>2, <2>1 DEF Ranked
  <2>4. b = rt[c] => rg[b] = rg[c] /\ lt[b] = c /\ rank[b] < rank[c]
    BY <1>1, <1>2, <2>1 DEF Ranked
  <2>5. ASSUME b = rt2[a] PROVE rank[b] < rank[a]
    <3>1. CASE a = lt[c]
      <4>1. b = rt[c]
        BY <2>1, <2>5, <3>1
      <4>2. rank[b] \in Nat /\ rank[c] \in Nat /\ rank[a] \in Nat
        OBVIOUS
      <4> QED BY <2>3, <2>4, <3>1, <4>1, <4>2
    <3>2. CASE a # lt[c]
      BY <2>1, <2>2, <2>5, <3>2
    <3> QED BY <3>1, <3>2
  <2>6. ASSUME rank[b] < rank[a] PROVE rt2[a] # None /\ rank[b] <= rank[rt2[a]]
    <3>1. CASE a = lt[c]
      <4>1. rank[b] <= rank[c] /\ rank[b] # rank[c] /\ rg[b] = rg[c]
        BY <2>1, <2>2, <2>3, <2>6, <3>1 DEF Ranked
      <4>2. rank[b] < rank[c]
        <5>1. rank[b] \in Nat /\ rank[c] \in Nat
          OBVIOUS
        <5> QED BY <4>1, <5>1
      <4>3. rt[c] # None /\ rank[b] <= rank[rt[c]]
        BY <4>1, <4>2 DEF Ranked
      <4> QED BY <2>1, <3>1, <4>3
    <3>2. CASE a # lt[c]
      BY <2>1, <2>2, <2>6, <3>2
    <3> QED BY <3>1, <3>2
  <2>7. ASSUME rank[b] < rank[a] PROVE lt2[b] # None /\ rank[lt2[b]] <= rank[a]
    <3>1. CASE b = rt[c]
      <4>1. rank[c] <= rank[a] /\ rank[c] # rank[a] /\ rg[a] = rg[c]
        BY <2>1, <2>2, <2>4, <2>7, <3>1 DEF Ranked
      <4>2. rank[c] < rank[a]
        <5>1. rank[a] \in Nat /\ rank[c] \in Nat
          OBVIOUS
        <5> QED BY <4>1, <5>1
      <4>3. lt[c] # None /\ rank[lt[c]] <= rank[a]
        BY <4>1, <4>2 DEF Ranked
      <4> QED BY <2>1, <3>1, <4>3
    <3>2. CASE b # rt[c]
      BY <2>1, <2>2, <2>7, <3>2
    <3> QED BY <3>1, <3>2
  <2> QED BY <2>2, <2>5, <2>6, <2>7
<1> QED BY <1>3, <1>4

\* What Link does to them; h is the first client, and r the one behind it.
LinkedFields(lt, rt, hd, rg, m, c, h, r, lt2, rt2, hd2, rg2) ==
  /\ h = hd[m] /\ r = IF h = None THEN None ELSE rt[h]
  /\ lt2 \in [Obj -> ObjOrNull] /\ rt2 \in [Obj -> ObjOrNull]
  /\ hd2 \in [Modifies -> ObjOrNull] /\ rg2 \in [Obj -> Modifies \cup {None}]
  /\ \A o \in Obj : lt2[o] = IF o = c THEN h ELSE IF o = r THEN c ELSE lt[o]
  /\ \A o \in Obj : rt2[o] = IF o = c THEN r ELSE IF o = h THEN c ELSE rt[o]
  /\ \A n \in Modifies : hd2[n] = IF h = None /\ n = m THEN c ELSE hd[n]
  /\ \A o \in Obj : rg2[o] = IF o = c THEN m ELSE rg[o]

\* The ranks with c right behind h, the first client: it takes the rank of h, which
\* takes the next higher one.
BehindFirst(rank, h, c) ==
  [o \in Obj |-> IF h = None THEN rank[o]
                 ELSE IF o = c THEN rank[h] ELSE IF o = h THEN rank[h] + 1 ELSE rank[o]]

\* Putting an object that is in no chain behind the first client of m, or making it
\* the first.
LEMMA LinkFields ==
  ASSUME NEW lt \in [Obj -> ObjOrNull], NEW rt \in [Obj -> ObjOrNull],
         NEW hd \in [Modifies -> ObjOrNull], NEW rg \in [Obj -> Modifies \cup {None}],
         NEW m \in Modifies, NEW c \in Obj, rg[c] = None,
         hd[m] # None => rg[hd[m]] = m,
         NEW h, NEW r, NEW lt2, NEW rt2, NEW hd2, NEW rg2,
         LinkedFields(lt, rt, hd, rg, m, c, h, r, lt2, rt2, hd2, rg2),
         Linked(lt, rt, hd, rg),
         NEW rank \in [Obj -> Nat], Ranked(lt, rt, rg, rank),
         NEW rank2, rank2 = BehindFirst(rank, h, c)
  PROVE  /\ Linked(lt2, rt2, hd2, rg2)
         /\ rank2 \in [Obj -> Nat] /\ Ranked(lt2, rt2, rg2, rank2)
<1> USE DEF LinkedFields
<1>1. None \notin Obj /\ Modifies \subseteq Obj /\ ObjOrNull = Obj \cup {None}
      /\ h \in Obj \cup {None} /\ r \in Obj \cup {None}
  BY NullAssumption DEF Obj, ObjOrNull
<1>2. /\ h # None => rg[h] = m /\ h # c /\ lt[h] = None
      /\ r # None => h # None /\ rg[r] = m /\ r # c /\ lt[r] = h /\ r # h
      /\ \A o \in Obj : rg[o] = m => h # None
  BY <1>1 DEF Linked
<1>3. Linked(lt2, rt2, hd2, rg2)
  <2> SUFFICES ASSUME NEW o \in Obj, rg2[o] # None
               PROVE  /\ hd2[rg2[o]] # None /\ (lt2[o] = None <=> hd2[rg2[o]] = o)
                      /\ lt2[o] # None => rg2[lt2[o]] = rg2[o] /\ rt2[lt2[o]] = o
                      /\ rt2[o] # None => rg2[rt2[o]] = rg2[o] /\ lt2[rt2[o]] = o
    BY DEF Linked
  <2>1. CASE o = c
    BY <1>1, <1>2, <2>1
  <2>2. CASE o # c
    <3>1. /\ rg2[o] = rg[o] /\ rg[o] \in Modifies
          /\ lt[o] \in Obj \cup {None} /\ rt[o] \in Obj \cup {None}
          /\ hd[rg[o]] # None /\ (lt[o] = None <=> hd[rg[o]] = o)
          /\ lt[o] # None => rg[lt[o]] = rg[o] /\ rt[lt[o]] = o
          /\ rt[o] # None => rg[rt[o]] = rg[o] /\ lt[rt[o]] = o
      BY <1>1, <2>2 DEF Linked
    <3>2. hd2[rg2[o]] = hd[rg[o]]
      BY <1>2, <2>2, <3>1
    <3>3. lt2[o] = None <=> hd2[rg2[o]] = o
      BY <1>1, <1>2, <2>2, <3>1, <3>2
    <3>4. lt2[o] # None => rg2[lt2[o]] = rg2[o] /\ rt2[lt2[o]] = o
      <4>1. CASE o = r
        BY <1>1, <1>2, <2>2, <3>1, <4>1
      <4>2. CASE o # r
        <5>1. lt[o] # None => lt[o] # c /\ lt[o] # h
          BY <1>1, <1>2, <2>2, <3>1, <4>2
        <5> QED BY <1>1, <2>2, <3>1, <4>2, <5>1
      <4> QED BY <4>1, <4>2
    <3>5. rt2[o] # None => rg2[rt2[o]] = rg2[o] /\ lt2[rt2[o]] = o
      <4>1. CASE o = h
        BY <1>1, <1>2, <2>2, <3>1, <4>1
      <4>2. CASE o # h
        <5>1. rt[o] # None => rt[o] # c /\ rt[o] # r
          BY <1>1, <1>2, <2>2, <3>1, <4>2
        <5> QED BY <1>1, <2>2, <3>1, <4>2, <5>1
      <4> QED BY <4>1, <4>2
    <3> QED BY <3>1, <3>2, <3>3, <3>4, <3>5
  <2> QED BY <2>1, <2>2
<1>4. \A b \in Obj : rg[b] = m /\ b # h =>
        rank[b] < rank[h] /\ r # None /\ rank[b] <= rank[r] /\ lt[b] # None
  <2>1. ASSUME NEW b \in Obj, rg[b] = m, b # h
        PROVE  rank[b] < rank[h] /\ r # None /\ rank[b] <= rank[r] /\ lt[b] # None
    <3>1. h \in Obj /\ rg[h] = rg[b] /\ rg[h] # None /\ r = rt[h] /\ lt[h] = None
      BY <1>1, <1>2, <2>1
    <3>2. rank[b] # rank[h] /\ ~(rank[h] < rank[b])
      BY <2>1, <3>1 DEF Ranked
    <3>3. rank[b] < rank[h]
      <4>1. rank[b] \in Nat /\ rank[h] \in Nat
        BY <3>1
      <4> QED BY <3>2, <4>1
    <3> QED BY <3>1, <3>3 DEF Ranked
  <2> QED BY <2>1
<1>5. /\ rank2 \in [Obj -> Nat]
      /\ \A o \in Obj : rank[o] \in Nat /\ (h # None => rank[h] \in Nat)
      /\ \A o \in Obj : rank2[o] = IF h = None THEN rank[o] ELSE IF o = c THEN rank[h]
                                   ELSE IF o = h THEN rank[h] + 1 ELSE rank[o]
  BY <1>1 DEF BehindFirst
<1>6. Ranked(lt2, rt2, rg2, rank2)
  <2> SUFFICES ASSUME NEW a \in Obj, NEW b \in Obj, rg2[a] # None, rg2[a] = rg2[b]
               PROVE  /\ a # b => rank2[a] # rank2[b]
                      /\ b = rt2[a] => rank2[b] < rank2[a]
                      /\ rank2[b] < rank2[a] =>
                           /\ rt2[a] # None /\ rank2[b] <= rank2[rt2[a]]
                           /\ lt2[b] # None /\ rank2[lt2[b]] <= rank2[a]
    BY DEF Ranked
  <2>1. CASE h = None
    <3>1. CASE a = c \/ b = c
      BY <1>1, <1>2, <1>5, <2>1, <3>1
    <3>2. CASE a # c /\ b # c
      <4>1. rg[a] # None /\ rg[a] = rg[b]
        BY <3>2
      <4>2. /\ a # b => rank[a] # rank[b]
            /\ b = rt[a] => rank[b] < rank[a]
            /\ rank[b] < rank[a] =>
                 /\ rt[a] # None /\ rank[b] <= rank[rt[a]]
                 /\ lt[b] # None /\ rank[lt[b]] <= rank[a]
        BY <4>1 DEF Ranked
      <4>3. /\ rt2[a] = rt[a] /\ lt2[b] = lt[b] /\ rank2[a] = rank[a] /\ rank2[b] = rank[b]
            /\ rt[a] # None => rt[a] \in Obj /\ rank2[rt[a]] = rank[rt[a]]
            /\ lt[b] # None => lt[b] \in Obj /\ rank2[lt[b]] = rank[lt[b]]
        BY <1>1, <1>5, <2>1, <3>2, <4>1
      <4> QED BY <4>2, <4>3
    <3> QED BY <3>1, <3>2
  <2>2. CASE h # None /\ a = c
    <3>1. h \in Obj /\ h # c /\ rt2[a] = r /\ rank2[a] = rank[h] /\ rank2[h] = rank[h] + 1
      BY <1>1, <1>2, <1>5, <2>2
    <3>2. CASE b = c
      BY <1>1, <1>2, <1>4, <1>5, <2>2, <3>1, <3>2
    <3>3. CASE b = h
      BY <1>1, <1>2, <1>5, <2>2, <3>1, <3>3
    <3>4. CASE b # c /\ b # h
      <4>1. rg[b] = m /\ rank2[b] = rank[b] /\ lt[b] # None /\ rank[b] < rank[h]
            /\ r # None /\ r \in Obj /\ rank[b] <= rank[r] /\ rank2[r] = rank[r]
        BY <1>1, <1>2, <1>4, <1>5, <2>2, <3>4
      <4>2. lt2[b] # None /\ rank2[lt2[b]] <= rank[h]
        <5>1. CASE b = r
          BY <1>1, <1>2, <1>5, <2>2, <3>1, <3>4, <4>1, <5>1
        <5>2. CASE b # r
          <6>1. /\ lt[b] \in Obj /\ rg[lt[b]] = m /\ rt[lt[b]] = b
                /\ lt[b] # c /\ lt[b] # h
            BY <1>1, <1>2, <2>2, <4>1, <5>2 DEF Linked
          <6>2. rank[lt[b]] < rank[h] /\ lt2[b] = lt[b] /\ rank2[lt[b]] = rank[lt[b]]
            BY <1>4, <1>5, <2>2, <3>4, <5>2, <6>1
          <6> QED BY <1>5, <3>1, <4>1, <6>1, <6>2
        <5> QED BY <5>1, <5>2
      <4> QED BY <1>5, <3>1, <4>1, <4>2, <2>2
    <3> QED BY <3>2, <3>3, <3>4
  <2>3. CASE h # None /\ a # c /\ b = c
    <3>1. /\ h \in Obj /\ h # c /\ lt2[b] = h /\ rank2[b] = rank[h] /\ rank2[h] = rank[h] + 1
          /\ rg[a] = m
      BY <1>1, <1>2, <1>5, <2>3
    <3>2. CASE a = h
      BY <1>1, <1>2, <1>5, <2>3, <3>1, <3>2
    <3>3. CASE a # h
      <4>1. rank2[a] = rank[a] /\ rank[a] < rank[h] /\ rt2[a] = rt[a] /\ rt[a] # c
        BY <1>1, <1>2, <1>4, <1>5, <2>3, <3>1, <3>3 DEF Linked
      <4> QED BY <1>5, <2>3, <3>1, <4>1
    <3> QED BY <3>2, <3>3
  <2>4. CASE h # None /\ a # c /\ b # c
    <3>1. rg[a] # None /\ rg[a] = rg[b] /\ h \in Obj /\ h # c
      BY <1>1, <1>2, <2>4
    <3>2. /\ a # b => rank[a] # rank[b]
          /\ b = rt[a] => rank[b] < rank[a]
          /\ rank[b] < rank[a] =>
               /\ rt[a] # None /\ rank[b] <= rank[rt[a]]
               /\ lt[b] # None /\ rank[lt[b]] <= rank[a]
      BY <3>1 DEF Ranked
    <3>3. /\ rt[a] # None => rt[a] \in Obj /\ rg[rt[a]] = rg[a] /\ rt[a] # c /\ rt[a] # h
          /\ lt[b] # None => lt[b] \in Obj /\ rg[lt[b]] = rg[b] /\ lt[b] # c
                             /\ rt[lt[b]] = b
      BY <1>1, <1>2, <2>4, <3>1 DEF Linked
    <3>4. a # b => rank2[a] # rank2[b]
      BY <1>1, <1>2, <1>4, <1>5, <2>4, <3>1, <3>2
    <3>5. b = rt2[a] => rank2[b] < rank2[a]
      BY <1>1, <1>2, <1>4, <1>5, <2>4, <3>1, <3>2, <3>3
    <3>6. ASSUME rank2[b] < rank2[a]
          PROVE  rt2[a] # None /\ rank2[b] <= rank2[rt2[a]]
      <4>1. CASE a = h
        <5>1. b # h /\ rg[b] = m /\ rank2[b] = rank[b] /\ rank[b] < rank[h]
          BY <1>2, <1>4, <1>5, <2>4, <3>1, <3>6, <4>1
        <5>2. rt2[a] = c /\ rank2[c] = rank[h] /\ c # None
          BY <1>1, <1>5, <2>4, <4>1
        <5> QED BY <1>5, <2>4, <5>1, <5>2
      <4>2. CASE a # h
        <5>1. b # h
          BY <1>1, <1>2, <1>4, <1>5, <2>4, <3>1, <3>6, <4>2
        <5>2. rank2[a] = rank[a] /\ rank2[b] = rank[b] /\ rt2[a] = rt[a]
          BY <1>5, <2>4, <4>2, <5>1
        <5>3. rt[a] # None /\ rank[b] <= rank[rt[a]]
          BY <3>2, <3>6, <5>2
        <5>4. rank2[rt[a]] = rank[rt[a]]
          BY <1>5, <2>4, <3>3, <5>3
        <5> QED BY <5>2, <5>3, <5>4
      <4> QED BY <4>1, <4>2
    <3>7. ASSUME rank2[b] < rank2[a]
          PROVE  lt2[b] # None /\ rank2[lt2[b]] <= rank2[a]
      <4>1. CASE b = r
        <5>1. /\ lt2[b] = c /\ c # None /\ rank2[c] = rank[h]
              /\ rg[a] = m /\ lt[b] = h /\ b # h
          BY <1>1, <1>2, <1>5, <2>4, <3>1, <4>1
        <5>2. CASE a = h
          BY <1>5, <2>4, <5>1, <5>2
        <5>3. CASE a # h
          <6>1. rank2[a] = rank[a] /\ rank[a] <= rank[r] /\ rank2[b] = rank[r]
            BY <1>4, <1>5, <2>4, <4>1, <5>1, <5>3
          <6> QED BY <1>5, <3>7, <6>1, <4>1
        <5> QED BY <5>2, <5>3
      <4>2. CASE b # r
        <5>1. b # h
          BY <1>1, <1>2, <1>4, <1>5, <2>4, <3>1, <3>7
        <5>2. rank2[b] = rank[b] /\ lt2[b] = lt[b]
          BY <1>5, <2>4, <4>2, <5>1
        <5>3. CASE a = h
          <6>1. rank[b] < rank[a]
            BY <1>2, <1>4, <2>4, <3>1, <5>1, <5>3
          <6>2. lt[b] # None /\ rank[lt[b]] <= rank[a] /\ lt[b] # h
            BY <1>2, <3>2, <3>3, <4>2, <5>1, <6>1
          <6> QED BY <1>5, <2>4, <3>1, <3>3, <5>2, <5>3, <6>2
        <5>4. CASE a # h
          <6>1. rank2[a] = rank[a] /\ rank[b] < rank[a]
            BY <1>5, <2>4, <3>7, <5>2, <5>4
          <6>2. lt[b] # None /\ rank[lt[b]] <= rank[a] /\ lt[b] # h
            BY <1>2, <3>2, <3>3, <4>2, <5>1, <6>1
          <6> QED BY <1>5, <2>4, <3>1, <3>3, <5>2, <5>4, <6>1, <6>2
        <5> QED BY <5>3, <5>4
      <4> QED BY <4>1, <4>2
    <3> QED BY <3>2, <3>4, <3>5, <3>6, <3>7
  <2> QED BY <2>1, <2>2, <2>3, <2>4
<1> QED BY <1>3, <1>5, <1>6

-----------------------------------------------------------------------------
\* Unlink leaves sound links, and c without registration.
LEMMA UnlinkLinks ==
  ASSUME NEW s, Links(s), NEW c \in Obj, s.pRegisteredIn[c] # None
  PROVE  /\ Links(Unlink(s, c))
         /\ \A rank \in [Obj -> Nat] :
              Ranked(s.m_pLeft, s.m_pRight, s.pRegisteredIn, rank) =>
                Ranked(Unlink(s, c).m_pLeft, Unlink(s, c).m_pRight,
                       Unlink(s, c).pRegisteredIn, rank)
         /\ Unlink(s, c).pRegisteredIn = [s.pRegisteredIn EXCEPT ![c] = None]
<1> DEFINE u == Unlink(s, c)
<1>1. \E rank \in [Obj -> Nat] : Ranked(s.m_pLeft, s.m_pRight, s.pRegisteredIn, rank)
  BY DEF Links
<1>2. s \in Chains /\ Linked(s.m_pLeft, s.m_pRight, s.m_pWriterListeners, s.pRegisteredIn)
  BY DEF Links
<1>3. u \in Chains /\ u.pRegisteredIn = [s.pRegisteredIn EXCEPT ![c] = None]
  BY <1>2, Z3 DEF Unlink, Chains, ObjOrNull
<1>4. /\ s.m_pLeft \in [Obj -> ObjOrNull] /\ s.m_pRight \in [Obj -> ObjOrNull]
      /\ s.m_pWriterListeners \in [Modifies -> ObjOrNull]
      /\ s.pRegisteredIn \in [Obj -> Modifies \cup {None}]
  BY <1>2 DEF Chains
<1>5. UnlinkedFields(s.m_pLeft, s.m_pRight, s.m_pWriterListeners, s.pRegisteredIn, c,
                     u.m_pLeft, u.m_pRight, u.m_pWriterListeners, u.pRegisteredIn)
  <2>1. /\ u.m_pLeft \in [Obj -> ObjOrNull] /\ u.m_pRight \in [Obj -> ObjOrNull]
        /\ u.m_pWriterListeners \in [Modifies -> ObjOrNull]
        /\ u.pRegisteredIn \in [Obj -> Modifies \cup {None}]
    BY <1>3 DEF Chains
  <2> QED BY <1>4, <2>1 DEF Unlink, UnlinkedFields
<1> HIDE DEF u
<1>6. ASSUME NEW rank \in [Obj -> Nat],
             Ranked(s.m_pLeft, s.m_pRight, s.pRegisteredIn, rank)
      PROVE  /\ Linked(u.m_pLeft, u.m_pRight, u.m_pWriterListeners, u.pRegisteredIn)
             /\ Ranked(u.m_pLeft, u.m_pRight, u.pRegisteredIn, rank)
  BY <1>2, <1>4, <1>5, <1>6, UnlinkFields
<1>7. Links(u)
  BY <1>1, <1>3, <1>6 DEF Links
<1> QED BY <1>3, <1>6, <1>7 DEF u

\* The first client of a modify stays the own one when a client is taken out.
LEMMA UnlinkFirst ==
  ASSUME NEW s, Links(s), NEW c \in Obj, s.pRegisteredIn[c] # None,
         NEW lf, FirstRegistered(s.m_pWriterListeners, s.pRegisteredIn, lf)
  PROVE  FirstRegistered(Unlink(s, c).m_pWriterListeners, Unlink(s, c).pRegisteredIn, lf)
<1> DEFINE hd == s.m_pWriterListeners  rg == s.pRegisteredIn
           hd2 == Unlink(s, c).m_pWriterListeners  rg2 == Unlink(s, c).pRegisteredIn
<1>1. /\ rg \in [Obj -> Modifies \cup {None}] /\ hd \in [Modifies -> ObjOrNull]
      /\ s.m_pRight[c] \in ObjOrNull
      /\ rg2 = [rg EXCEPT ![c] = None]
      /\ \A m \in Modifies : hd2[m] =
           IF m = rg[c] /\ hd[m] = c
           THEN IF s.m_pLeft[c] # None THEN s.m_pLeft[c] ELSE s.m_pRight[c]
           ELSE hd[m]
  BY DEF Links, Unlink, Chains
<1>2. /\ s.m_pLeft[c] = None <=> hd[rg[c]] = c
      /\ s.m_pRight[c] # None => rg[s.m_pRight[c]] = rg[c] /\ s.m_pLeft[s.m_pRight[c]] = c
  BY DEF Links, Linked
<1> SUFFICES ASSUME NEW m \in Modifies, lf[m] # "dead", hd2[m] # None
             PROVE  rg2[hd2[m]] = m
  BY DEF FirstRegistered
<1> HIDE DEF hd2, rg2
<1>3. CASE m = rg[c] /\ hd[m] = c
  <2>1. hd2[m] = s.m_pRight[c] /\ s.m_pRight[c] # c
    BY <1>1, <1>2, <1>3, NullAssumption DEF Obj
  <2> QED BY <1>1, <1>2, <1>3, <2>1 DEF ObjOrNull
<1>4. CASE ~ (m = rg[c] /\ hd[m] = c)
  <2>1. hd2[m] = hd[m] /\ rg[hd[m]] = m /\ hd[m] \in Obj
    BY <1>1, <1>4 DEF FirstRegistered, ObjOrNull
  <2>2. hd[m] # c
    BY <1>4, <2>1
  <2> QED BY <1>1, <2>1, <2>2
<1> QED BY <1>3, <1>4

\* Link leaves sound links, and c registered in m.
LEMMA LinkLinks ==
  ASSUME NEW s, Links(s), NEW m \in Modifies, NEW c \in Obj, s.pRegisteredIn[c] = None,
         s.m_pWriterListeners[m] # None =>
           s.pRegisteredIn[s.m_pWriterListeners[m]] = m
  PROVE  /\ Links(Link(s, m, c))
         /\ \A rank \in [Obj -> Nat] :
              Ranked(s.m_pLeft, s.m_pRight, s.pRegisteredIn, rank) =>
                Ranked(Link(s, m, c).m_pLeft, Link(s, m, c).m_pRight,
                       Link(s, m, c).pRegisteredIn,
                       BehindFirst(rank, s.m_pWriterListeners[m], c))
         /\ Link(s, m, c).pRegisteredIn = [s.pRegisteredIn EXCEPT ![c] = m]
<1> DEFINE u == Link(s, m, c)
           h == s.m_pWriterListeners[m]
           r == IF h = None THEN None ELSE s.m_pRight[h]
<1>1. \E rank \in [Obj -> Nat] : Ranked(s.m_pLeft, s.m_pRight, s.pRegisteredIn, rank)
  BY DEF Links
<1>2. s \in Chains /\ Linked(s.m_pLeft, s.m_pRight, s.m_pWriterListeners, s.pRegisteredIn)
  BY DEF Links
<1>3. u \in Chains /\ u.pRegisteredIn = [s.pRegisteredIn EXCEPT ![c] = m]
  BY <1>2, Z3 DEF Link, Chains, ObjOrNull
<1>4. /\ s.m_pLeft \in [Obj -> ObjOrNull] /\ s.m_pRight \in [Obj -> ObjOrNull]
      /\ s.m_pWriterListeners \in [Modifies -> ObjOrNull]
      /\ s.pRegisteredIn \in [Obj -> Modifies \cup {None}]
  BY <1>2 DEF Chains
<1>5. LinkedFields(s.m_pLeft, s.m_pRight, s.m_pWriterListeners, s.pRegisteredIn, m, c, h, r,
                   u.m_pLeft, u.m_pRight, u.m_pWriterListeners, u.pRegisteredIn)
  <2>1. /\ u.m_pLeft \in [Obj -> ObjOrNull] /\ u.m_pRight \in [Obj -> ObjOrNull]
        /\ u.m_pWriterListeners \in [Modifies -> ObjOrNull]
        /\ u.pRegisteredIn \in [Obj -> Modifies \cup {None}]
    BY <1>3 DEF Chains
  <2> QED BY <1>4, <2>1 DEF Link, LinkedFields
<1> HIDE DEF u, r
<1>6. ASSUME NEW rank \in [Obj -> Nat],
             Ranked(s.m_pLeft, s.m_pRight, s.pRegisteredIn, rank)
      PROVE  /\ Linked(u.m_pLeft, u.m_pRight, u.m_pWriterListeners, u.pRegisteredIn)
             /\ BehindFirst(rank, h, c) \in [Obj -> Nat]
             /\ Ranked(u.m_pLeft, u.m_pRight, u.pRegisteredIn, BehindFirst(rank, h, c))
  <2>1. PICK rank2 : rank2 = BehindFirst(rank, h, c)
    OBVIOUS
  <2> QED BY <1>2, <1>4, <1>5, <1>6, <2>1, LinkFields
<1>7. Links(u)
  BY <1>1, <1>3, <1>6 DEF Links
<1> QED BY <1>3, <1>6, <1>7 DEF u

\* The first client of a modify stays the own one when a client is put in.
LEMMA LinkFirst ==
  ASSUME NEW s, Links(s), NEW m \in Modifies, NEW c \in Obj, s.pRegisteredIn[c] = None,
         NEW lf, FirstRegistered(s.m_pWriterListeners, s.pRegisteredIn, lf)
  PROVE  FirstRegistered(Link(s, m, c).m_pWriterListeners, Link(s, m, c).pRegisteredIn, lf)
<1>1. /\ s.pRegisteredIn \in [Obj -> Modifies \cup {None}]
      /\ s.m_pWriterListeners \in [Modifies -> ObjOrNull]
      /\ Link(s, m, c).pRegisteredIn = [s.pRegisteredIn EXCEPT ![c] = m]
      /\ \A n \in Modifies : Link(s, m, c).m_pWriterListeners[n] =
           IF s.m_pWriterListeners[m] = None /\ n = m THEN c ELSE s.m_pWriterListeners[n]
  BY DEF Links, Link, Chains
<1> QED BY <1>1, NullAssumption DEF FirstRegistered, ObjOrNull, Obj

-----------------------------------------------------------------------------
(* What the operations on chains keep.                                      *)

\* Taking an object out keeps the chains sound, whoever lives.
LEMMA UnlinkKeeps ==
  ASSUME NEW s, NEW lf, Sound(s, lf), NEW c \in Obj, s.pRegisteredIn[c] # None
  PROVE  Sound(Unlink(s, c), lf)
<1>1. /\ Links(Unlink(s, c))
      /\ Unlink(s, c).pRegisteredIn = [s.pRegisteredIn EXCEPT ![c] = None]
      /\ s.pRegisteredIn \in [Obj -> Modifies \cup {None}]
  BY UnlinkLinks DEF Sound, Links, Chains
<1>2. FirstRegistered(Unlink(s, c).m_pWriterListeners, Unlink(s, c).pRegisteredIn, lf)
  BY UnlinkFirst DEF Sound
<1>3. Shallower(Unlink(s, c).pRegisteredIn) /\ NoneDead(Unlink(s, c).pRegisteredIn, lf)
  BY <1>1 DEF Sound, Shallower, NoneDead, Obj
<1> QED BY <1>1, <1>2, <1>3 DEF Sound

\* A client is put into a chain only if neither it nor the modify is dead.
LEMMA LinkKeeps ==
  ASSUME NEW s, NEW lf, Sound(s, lf), NEW m \in Modifies, NEW c \in Obj,
         s.pRegisteredIn[c] = None, lf[m] # "dead", lf[c] # "dead",
         c \in Modifies => Depth[m] < Depth[c]
  PROVE  Sound(Link(s, m, c), lf)
<1>1. s.m_pWriterListeners[m] # None => s.pRegisteredIn[s.m_pWriterListeners[m]] = m
  BY DEF Sound, FirstRegistered
<1>2. /\ Links(Link(s, m, c))
      /\ Link(s, m, c).pRegisteredIn = [s.pRegisteredIn EXCEPT ![c] = m]
      /\ s.pRegisteredIn \in [Obj -> Modifies \cup {None}]
  BY <1>1, LinkLinks DEF Sound, Links, Chains
<1>3. FirstRegistered(Link(s, m, c).m_pWriterListeners, Link(s, m, c).pRegisteredIn, lf)
  BY LinkFirst DEF Sound
<1>4. Shallower(Link(s, m, c).pRegisteredIn) /\ NoneDead(Link(s, m, c).pRegisteredIn, lf)
  BY <1>2 DEF Sound, Shallower, NoneDead, Obj
<1> QED BY <1>2, <1>3, <1>4 DEF Sound

\* An object may die when it is registered nowhere and nothing is registered in it.
LEMMA DeathKeeps ==
  ASSUME NEW s, NEW lf \in [Obj -> {"alive", "dying", "dead"}], Sound(s, lf),
         NEW c \in Obj, s.pRegisteredIn[c] = None,
         \A o \in Obj : s.pRegisteredIn[o] # c
  PROVE  Sound(s, [lf EXCEPT ![c] = "dead"])
<1>1. s.pRegisteredIn \in [Obj -> Modifies \cup {None}]
  BY DEF Sound, Links, Chains
<1>2. NoneDead(s.pRegisteredIn, [lf EXCEPT ![c] = "dead"])
  BY <1>1 DEF Sound, NoneDead, Obj
<1>3. FirstRegistered(s.m_pWriterListeners, s.pRegisteredIn, [lf EXCEPT ![c] = "dead"])
  BY DEF Sound, FirstRegistered, Obj
<1> QED BY <1>2, <1>3 DEF Sound

\* The frames of fs iterate and destroy what those of the stack do.
SameFrames(fs) ==
  /\ fs \in Seq(Frame) /\ Len(fs) = Len(frames)
  /\ \A k \in 1 .. Len(frames) :
       fs[k].kind = frames[k].kind /\ fs[k].m_rRoot = frames[k].m_rRoot

\* Repositioning iterators changes their positions only.
LEMMA RepositionedSame ==
  ASSUME ClientsTypeOK, NEW c \in Obj
  PROVE  SameFrames(Repositioned(c))
<1>1. /\ Len(frames) \in Nat /\ DOMAIN frames = 1 .. Len(frames)
      /\ \A k \in 1 .. Len(frames) : frames[k] \in Frame
  BY DEF ClientsTypeOK
<1>2. chain.m_pRight[c] \in ObjOrNull
  BY DEF ClientsTypeOK, Chains
<1> DEFINE g(k) == [frames[k] EXCEPT
        !.m_pPosition = IF c \in {@, frames[k].m_pCurrent}
                        THEN chain.m_pRight[c] ELSE @,
        !.todo = @ \ {c}, !.done = @ \ {c}, !.astray = @ \/ WouldStray(frames[k], c)]
<1>3. ASSUME NEW k \in 1 .. Len(frames)
      PROVE  g(k) \in Frame /\ g(k).kind = frames[k].kind /\ g(k).m_rRoot = frames[k].m_rRoot
  BY <1>1, <1>2 DEF Frame, WouldStray
<1>4. Repositioned(c) = [k \in 1 .. Len(frames) |-> g(k)]
  BY <1>1 DEF Repositioned
<1> HIDE DEF g
<1>5. [k \in 1 .. Len(frames) |-> g(k)] \in [1 .. Len(frames) -> Frame]
  BY <1>3
<1>6. Repositioned(c) \in Seq(Frame)
  BY <1>1, <1>4, <1>5, SeqDef
<1>7. Len(Repositioned(c)) = Len(frames)
  BY <1>1, <1>4, <1>6, LenProperties
<1> QED BY <1>3, <1>4, <1>6, <1>7 DEF SameFrames

\* SwModify::Remove keeps the chains sound.
LEMMA RemovedKeeps ==
  ASSUME ClientsTypeOK, Sound(chain, life), NEW c \in Obj, chain.pRegisteredIn[c] # None, Removed(c)
  PROVE  /\ Sound(chain', life) /\ SameFrames(frames')
         /\ chain'.pRegisteredIn = [chain.pRegisteredIn EXCEPT ![c] = None]
<1>1. Sound(chain', life) /\ SameFrames(frames')
  BY UnlinkKeeps, RepositionedSame DEF Removed
<1>2. Links(chain)
  BY DEF Sound
<1> QED BY <1>1, <1>2, UnlinkLinks DEF Removed

\* SwModify::Add does, for objects that live, whether the client moves or is new.
LEMMA AddedKeeps ==
  ASSUME ClientsTypeOK, Sound(chain, life), NEW m \in Modifies, NEW c \in Obj,
         life[m] # "dead", life[c] # "dead", c \in Modifies => Depth[m] < Depth[c],
         Added(m, c)
  PROVE  Sound(chain', life) /\ SameFrames(frames')
<1>1. CASE chain.pRegisteredIn[c] = None
  <2>1. chain' = Link(chain, m, c) /\ frames' = frames
    BY <1>1 DEF Added
  <2>2. Sound(chain', life)
    BY <1>1, <2>1, LinkKeeps
  <2> QED BY <2>1, <2>2 DEF SameFrames, ClientsTypeOK
<1>2. CASE chain.pRegisteredIn[c] # None
  <2>1. chain' = Link(Unlink(chain, c), m, c) /\ frames' = Repositioned(c)
    BY <1>2 DEF Added
  <2>2. Sound(Unlink(chain, c), life) /\ Links(chain)
    BY <1>2, UnlinkKeeps DEF Sound
  <2>3. Unlink(chain, c).pRegisteredIn = [chain.pRegisteredIn EXCEPT ![c] = None]
    BY <1>2, <2>2, UnlinkLinks
  <2>4. Unlink(chain, c).pRegisteredIn[c] = None
    BY <2>3 DEF ClientsTypeOK, Chains
  <2>5. Sound(chain', life)
    BY <2>1, <2>2, <2>4, LinkKeeps
  <2> QED BY <2>1, <2>5, RepositionedSame
<1> QED BY <1>1, <1>2

\* SwClient::CheckRegistration does: the modify above the dying one lives, and is
\* the shallower one.
LEMMA TakenFromKeeps ==
  ASSUME ClientsTypeOK, Sound(chain, life), NEW m \in Modifies, NEW c \in Obj,
         chain.pRegisteredIn[c] = m, TakenFrom(m, c)
  PROVE  Sound(chain', life) /\ SameFrames(frames')
<1>1. m \in Obj /\ m # None /\ chain.pRegisteredIn \in [Obj -> Modifies \cup {None}]
  BY NullAssumption DEF Obj, ClientsTypeOK, Chains
<1>2. CASE chain.pRegisteredIn[m] = None
  <2>1. Removed(c)
    BY <1>2 DEF TakenFrom
  <2> QED BY <1>1, <2>1, RemovedKeeps
<1>3. CASE chain.pRegisteredIn[m] # None
  <2> DEFINE pAbove == chain.pRegisteredIn[m]
  <2>1. pAbove \in Modifies /\ Added(pAbove, c)
    BY <1>1, <1>3 DEF TakenFrom
  <2>2. life[pAbove] # "dead" /\ life[c] # "dead"
    BY <1>1, <1>3 DEF Sound, NoneDead
  <2>3. Depth[pAbove] < Depth[m]
    BY <1>3 DEF Sound, Shallower
  <2>4. c \in Modifies => Depth[pAbove] < Depth[c]
    <3>1. c \in Modifies => Depth[m] < Depth[c]
      BY <1>1 DEF Sound, Shallower
    <3> QED BY <2>1, <2>3, <3>1, DepthAssumption
  <2> HIDE DEF pAbove
  <2> QED BY <2>1, <2>2, <2>4, AddedKeeps
<1> QED BY <1>2, <1>3

-----------------------------------------------------------------------------
(* The stack.                                                               *)

\* A modify with a destructor on the stack is dying, and has only one there.
FramesInv(fs, lf) ==
  \A k \in 1 .. Len(fs) : fs[k].kind = "destroy" =>
    /\ lf[fs[k].m_rRoot] = "dying"
    /\ \A j \in 1 .. Len(fs) :
         fs[j].kind = "destroy" /\ fs[j].m_rRoot = fs[k].m_rRoot => j = k

\* The inductive invariant.
IInv == ClientsTypeOK /\ Sound(chain, life) /\ FramesInv(frames, life)

\* Such frames keep it.
LEMMA SameKeepsFrames ==
  ASSUME NEW fs, SameFrames(fs), FramesInv(frames, life)
  PROVE  FramesInv(fs, life)
BY DEF SameFrames, FramesInv

\* The frame of a broadcast or an iteration is put on the stack.
LEMMA PushKeepsFrames ==
  ASSUME NEW fs \in Seq(Frame), NEW lf, FramesInv(fs, lf),
         NEW f \in Frame, f.kind # "destroy"
  PROVE  Append(fs, f) \in Seq(Frame) /\ FramesInv(Append(fs, f), lf)
<1>1. /\ Append(fs, f) \in Seq(Frame) /\ Len(Append(fs, f)) = Len(fs) + 1 /\ Len(fs) \in Nat
      /\ \A k \in 1 .. Len(fs) : Append(fs, f)[k] = fs[k]
      /\ Append(fs, f)[Len(fs) + 1] = f
  BY AppendProperties
<1>2. \A k \in 1 .. Len(fs) + 1 : Append(fs, f)[k].kind = "destroy" => k \in 1 .. Len(fs)
  BY <1>1
<1> QED BY <1>1, <1>2 DEF FramesInv

\* The innermost frame is taken from the stack; with a destructor its modify dies.
LEMMA PopKeepsFrames ==
  ASSUME NEW fs \in Seq(Frame), fs # <<>>, NEW lf, FramesInv(fs, lf)
  PROVE  /\ Front(fs) \in Seq(Frame) /\ FramesInv(Front(fs), lf)
         /\ \A m : fs[Len(fs)].kind = "destroy" /\ fs[Len(fs)].m_rRoot = m =>
              \A k \in 1 .. Len(Front(fs)) :
                Front(fs)[k].kind = "destroy" => Front(fs)[k].m_rRoot # m
<1>1. Len(fs) \in Nat \ {0} /\ \A i \in 1 .. Len(fs) - 1 : fs[i] \in Frame
  BY EmptySeq, ElementOfSeq
<1>2. /\ Front(fs) \in Seq(Frame)
      /\ Len(Front(fs)) = Len(fs) - 1
      /\ \A i \in 1 .. Len(fs) - 1 : Front(fs)[i] = fs[i]
  <2>1. PICK n : n = Len(fs) - 1
    OBVIOUS
  <2>2. n \in Nat /\ Front(fs) = SubSeq(fs, 1, n) /\ \A i \in 1 .. n : fs[i] \in Frame
    BY <1>1, <2>1 DEF Front
  <2>3. /\ SubSeq(fs, 1, n) \in Seq(Frame)
        /\ Len(SubSeq(fs, 1, n)) = IF 1 <= n THEN n - 1 + 1 ELSE 0
        /\ \A i \in 1 .. n - 1 + 1 : SubSeq(fs, 1, n)[i] = fs[1 + i - 1]
    BY <2>2, SubSeqProperties
  <2>4. n - 1 + 1 = n /\ \A i \in 1 .. n : 1 + i - 1 = i
    BY <2>2
  <2> QED BY <2>1, <2>2, <2>3, <2>4
<1>3. FramesInv(Front(fs), lf)
  <2>1. PICK n : n = Len(fs)
    OBVIOUS
  <2>2. PICK gs : gs = Front(fs)
    OBVIOUS
  <2>3. n \in Nat /\ Len(gs) = n - 1 /\ \A i \in 1 .. n - 1 : i \in 1 .. n /\ gs[i] = fs[i]
    BY <1>1, <1>2, <2>1, <2>2
  <2>4. \A i \in 1 .. n : fs[i].kind = "destroy" =>
          /\ lf[fs[i].m_rRoot] = "dying"
          /\ \A j \in 1 .. n :
               fs[j].kind = "destroy" /\ fs[j].m_rRoot = fs[i].m_rRoot => j = i
    BY <2>1 DEF FramesInv
  <2>5. \A i \in 1 .. n - 1 : gs[i].kind = "destroy" =>
          /\ lf[gs[i].m_rRoot] = "dying"
          /\ \A j \in 1 .. n - 1 :
               gs[j].kind = "destroy" /\ gs[j].m_rRoot = gs[i].m_rRoot => j = i
    BY <2>3, <2>4
  <2>6. FramesInv(gs, lf)
    BY <2>3, <2>5 DEF FramesInv
  <2> QED BY <2>2, <2>6
<1>4. ASSUME NEW k \in 1 .. Len(fs) - 1, fs[k].kind = "destroy",
             fs[Len(fs)].kind = "destroy"
      PROVE  fs[k].m_rRoot # fs[Len(fs)].m_rRoot
  <2>1. k \in 1 .. Len(fs) /\ Len(fs) \in 1 .. Len(fs) /\ k # Len(fs)
    BY <1>1
  <2> QED BY <2>1, <1>4 DEF FramesInv
<1> QED BY <1>2, <1>3, <1>4

\* A new frame has the type of frames.
LEMMA NewFrameType ==
  ASSUME NEW kind \in {"notify", "iterate", "destroy"}, NEW m \in Modifies,
         NEW first \in ObjOrNull, NEW dead \in Modifies \cup {None}, NEW types \in SUBSET Obj
  PROVE  /\ NewFrame(kind, m, first, dead, types) \in Frame
         /\ NewFrame(kind, m, first, dead, types).kind = kind
         /\ NewFrame(kind, m, first, dead, types).m_rRoot = m
BY DEF NewFrame, Frame, Registered

\* FirstOfType finds an object or none.
LEMMA FirstOfTypeType ==
  ASSUME NEW o, NEW types \in SUBSET Obj
  PROVE  FirstOfType(o, types) \in ObjOrNull
BY DEF FirstOfType, ObjOrNull

-----------------------------------------------------------------------------
(* The invariant is inductive.                                              *)

\* The invariant holds when nothing is registered.
LEMMA InitIInv == ClientsInit => IInv
<1> SUFFICES ASSUME ClientsInit PROVE IInv
  OBVIOUS
<1>1. None \in ObjOrNull
  BY DEF ObjOrNull
<1>2. chain \in Chains
  BY <1>1 DEF ClientsInit, Chains
<1>3. frames \in Seq(Frame) /\ Len(frames) = 0
  BY EmptySeq DEF ClientsInit
<1>4. ClientsTypeOK
  BY <1>2, <1>3 DEF ClientsInit, ClientsTypeOK
<1>5. \A o \in Obj : chain.pRegisteredIn[o] = None
  BY DEF ClientsInit
<1>6. Links(chain)
  <2>1. Linked(chain.m_pLeft, chain.m_pRight, chain.m_pWriterListeners, chain.pRegisteredIn)
    BY <1>5 DEF Linked
  <2>2. Ranked(chain.m_pLeft, chain.m_pRight, chain.pRegisteredIn, [o \in Obj |-> 0])
    BY <1>5 DEF Ranked
  <2> QED BY <1>2, <2>1, <2>2 DEF Links
<1>7. \A m \in Modifies : chain.m_pWriterListeners[m] = None
  BY DEF ClientsInit
<1>8. Sound(chain, life)
  BY <1>5, <1>6, <1>7 DEF Sound, Shallower, NoneDead, FirstRegistered, Obj
<1>9. FramesInv(frames, life)
  BY <1>3 DEF FramesInv
<1> QED BY <1>4, <1>8, <1>9 DEF IInv

\* An operation that keeps the chains sound and the frames in kind keeps the
\* invariant, when lives and locks do not change.
LEMMA ChainStep ==
  ASSUME IInv, Sound(chain', life), SameFrames(frames'),
         UNCHANGED <<life, m_bModifyLocked, bLockClientList, callerLocks>>
  PROVE  IInv'
<1>1. ClientsTypeOK'
  BY DEF IInv, ClientsTypeOK, SameFrames, Sound, Links
<1>2. FramesInv(frames', life)
  BY SameKeepsFrames DEF IInv
<1>3. FramesInv(frames, life)'
  BY <1>2
<1>4. Sound(chain, life)'
  OBVIOUS
<1> QED BY <1>1, <1>3, <1>4 DEF IInv

\* The end of a client that is in no chain, or is taken out of its chain.
LEMMA DestroyClientStep ==
  ASSUME IInv, NEW c \in Clients, DestroyClient(c)
  PROVE  IInv'
<1>1. /\ ClientsTypeOK /\ Sound(chain, life) /\ FramesInv(frames, life)
      /\ c \in Obj /\ c \notin Modifies /\ life \in [Obj -> {"alive", "dying", "dead"}]
      /\ chain.pRegisteredIn \in [Obj -> Modifies \cup {None}]
  BY NullAssumption DEF IInv, Obj, ClientsTypeOK, Chains
<1>2. /\ life' = [life EXCEPT ![c] = "dead"]
      /\ UNCHANGED <<m_bModifyLocked, bLockClientList, callerLocks>>
  BY DEF DestroyClient
<1>3. /\ Sound(chain', life) /\ SameFrames(frames') /\ chain' \in Chains
      /\ chain'.pRegisteredIn[c] = None
  <2>1. CASE chain.pRegisteredIn[c] # None
    <3>1. Removed(c)
      BY <2>1 DEF DestroyClient
    <3>2. /\ Sound(chain', life) /\ SameFrames(frames')
          /\ chain'.pRegisteredIn = [chain.pRegisteredIn EXCEPT ![c] = None]
      BY <1>1, <2>1, <3>1, RemovedKeeps
    <3> QED BY <1>1, <3>2 DEF Sound, Links
  <2>2. CASE chain.pRegisteredIn[c] = None
    <3>1. chain' = chain /\ frames' = frames
      BY <2>2 DEF DestroyClient
    <3> QED BY <1>1, <2>2, <3>1 DEF SameFrames, ClientsTypeOK
  <2> QED BY <2>1, <2>2
<1>4. \A o \in Obj : chain'.pRegisteredIn[o] # c
  BY <1>1, <1>3, NullAssumption DEF Chains
<1>5. Sound(chain', life')
  BY <1>1, <1>2, <1>3, <1>4, DeathKeeps
<1>6. FramesInv(frames', life)
  BY <1>1, <1>3, SameKeepsFrames
<1>7. \A k \in 1 .. Len(frames') : frames'[k].m_rRoot \in Modifies
  <2>1. \A k \in 1 .. Len(frames') : frames'[k] \in Frame
    BY <1>3, ElementOfSeq DEF SameFrames
  <2> QED BY <2>1 DEF Frame
<1>8. FramesInv(frames', life')
  BY <1>1, <1>2, <1>6, <1>7 DEF FramesInv, Obj
<1>9. ClientsTypeOK'
  BY <1>1, <1>2, <1>3 DEF ClientsTypeOK, SameFrames
<1> QED BY <1>5, <1>8, <1>9 DEF IInv

\* The end of a modify: it has no clients left, and leaves its own chain.
LEMMA EndDestroyStep == IInv /\ EndDestroy => IInv'
<1> SUFFICES ASSUME IInv, EndDestroy PROVE IInv'
  OBVIOUS
<1> DEFINE m == Innermost.m_rRoot
<1>1. /\ ClientsTypeOK /\ Sound(chain, life) /\ FramesInv(frames, life)
      /\ life \in [Obj -> {"alive", "dying", "dead"}] /\ chain \in Chains
      /\ chain.pRegisteredIn \in [Obj -> Modifies \cup {None}]
      /\ frames \in Seq(Frame) /\ frames # <<>>
      /\ Innermost.kind = "destroy" /\ chain.m_pWriterListeners[m] = None
      /\ life' = [life EXCEPT ![m] = "dead"]
      /\ UNCHANGED <<m_bModifyLocked, bLockClientList, callerLocks>>
  BY DEF IInv, ClientsTypeOK, Chains, EndDestroy
<1>2. Len(frames) \in 1 .. Len(frames) /\ Len(frames) \in Nat \ {0}
  BY <1>1, EmptySeq
<1>3. m \in Modifies /\ m \in Obj
  <2>1. frames[Len(frames)] \in Frame
    BY <1>1, <1>2, ElementOfSeq
  <2> QED BY <2>1 DEF Innermost, Frame, Obj
<1>4. \A o \in Obj : chain.pRegisteredIn[o] # m
  BY <1>1, <1>3, NullAssumption DEF Sound, Links, Linked, Obj
<1>5. PICK fs : /\ fs \in Seq(Frame) /\ SameFrames(fs) /\ frames' = Front(fs)
                /\ Sound(chain', life) /\ chain' \in Chains
                /\ chain'.pRegisteredIn[m] = None
                /\ \A o \in Obj : chain'.pRegisteredIn[o] # m
  <2>1. CASE chain.pRegisteredIn[m] # None
    <3>1. chain' = Unlink(chain, m) /\ frames' = Front(Repositioned(m))
      BY <1>1, <2>1 DEF EndDestroy
    <3>2. Sound(chain', life) /\ SameFrames(Repositioned(m))
      BY <1>1, <1>3, <2>1, <3>1, UnlinkKeeps, RepositionedSame
    <3>3. Links(chain)
      BY <1>1 DEF Sound
    <3>4. chain'.pRegisteredIn = [chain.pRegisteredIn EXCEPT ![m] = None]
      BY <1>3, <2>1, <3>1, <3>3, UnlinkLinks
    <3>5. chain' \in Chains
      BY <3>2 DEF Sound, Links
    <3>6. \A o \in Obj : chain'.pRegisteredIn[o] # m
      BY <1>1, <1>3, <1>4, <3>4, NullAssumption DEF Obj
    <3> QED BY <1>1, <1>3, <3>1, <3>2, <3>4, <3>5, <3>6 DEF SameFrames
  <2>2. CASE chain.pRegisteredIn[m] = None
    <3>1. chain' = chain /\ frames' = Front(frames)
      BY <1>1, <2>2 DEF EndDestroy
    <3>2. SameFrames(frames)
      BY <1>1 DEF SameFrames
    <3> QED BY <1>1, <1>4, <2>2, <3>1, <3>2
  <2> QED BY <2>1, <2>2
<1>6. Sound(chain', life')
  BY <1>1, <1>3, <1>5, DeathKeeps
<1>7. /\ Len(fs) = Len(frames) /\ fs # <<>> /\ FramesInv(fs, life)
      /\ fs[Len(fs)].kind = "destroy" /\ fs[Len(fs)].m_rRoot = m
  <2>1. Len(fs) = Len(frames) /\ fs[Len(fs)].kind = "destroy" /\ fs[Len(fs)].m_rRoot = m
    BY <1>1, <1>2, <1>5 DEF SameFrames, Innermost
  <2>2. fs # <<>>
    BY <1>2, <2>1, EmptySeq
  <2> QED BY <1>1, <1>5, <2>1, <2>2, SameKeepsFrames
<1>8. /\ frames' \in Seq(Frame) /\ FramesInv(frames', life)
      /\ \A k \in 1 .. Len(frames') :
           frames'[k].kind = "destroy" => frames'[k].m_rRoot # m
  BY <1>5, <1>7, PopKeepsFrames
<1>9. \A k \in 1 .. Len(frames') : frames'[k].m_rRoot \in Modifies
  <2>1. \A k \in 1 .. Len(frames') : frames'[k] \in Frame
    BY <1>8, ElementOfSeq
  <2> QED BY <2>1 DEF Frame
<1>10. FramesInv(frames', life')
  BY <1>1, <1>8, <1>9 DEF FramesInv, Obj
<1>11. ClientsTypeOK'
  BY <1>1, <1>5, <1>8 DEF ClientsTypeOK
<1> QED BY <1>6, <1>10, <1>11 DEF IInv

\* The end of a modify with the document: its clients forget it, links and all, and
\* then it leaves its own chain.
LEMMA DestroyInDocDTORStep ==
  ASSUME IInv, NEW m \in Modifies, DestroyInDocDTOR(m)
  PROVE  IInv'
<1>1. /\ ClientsTypeOK /\ Sound(chain, life) /\ FramesInv(frames, life) /\ m \in Obj /\ m # None
      /\ life \in [Obj -> {"alive", "dying", "dead"}] /\ chain \in Chains
      /\ chain.pRegisteredIn \in [Obj -> Modifies \cup {None}]
      /\ frames = <<>> /\ life' = [life EXCEPT ![m] = "dead"]
      /\ UNCHANGED <<frames, m_bModifyLocked, bLockClientList, callerLocks>>
  BY NullAssumption DEF IInv, ClientsTypeOK, Chains, DestroyInDocDTOR, Obj
<1>2. PICK s : /\ s = [chain EXCEPT !.pRegisteredIn =
                         [o \in Obj |-> IF @[o] = m THEN None ELSE @[o]]]
               /\ chain' = IF chain.pRegisteredIn[m] # None THEN Unlink(s, m) ELSE s
  BY DEF DestroyInDocDTOR
<1>3. /\ s \in Chains /\ s.m_pLeft = chain.m_pLeft /\ s.m_pRight = chain.m_pRight
      /\ s.m_pWriterListeners = chain.m_pWriterListeners
      /\ s.pRegisteredIn = [o \in Obj |-> IF chain.pRegisteredIn[o] = m THEN None
                                          ELSE chain.pRegisteredIn[o]]
  BY <1>1, <1>2 DEF Chains
<1>4. Links(s)
  <2>1. PICK rank \in [Obj -> Nat] :
          Ranked(chain.m_pLeft, chain.m_pRight, chain.pRegisteredIn, rank)
    BY <1>1 DEF Sound, Links
  <2>2. Ranked(s.m_pLeft, s.m_pRight, s.pRegisteredIn, rank)
    BY <1>3, <2>1 DEF Ranked
  <2>3. Linked(chain.m_pLeft, chain.m_pRight, chain.m_pWriterListeners, chain.pRegisteredIn)
    BY <1>1 DEF Sound, Links
  <2>4. Linked(s.m_pLeft, s.m_pRight, s.m_pWriterListeners, s.pRegisteredIn)
    <3> SUFFICES ASSUME NEW o \in Obj, s.pRegisteredIn[o] # None
                 PROVE  /\ s.m_pWriterListeners[s.pRegisteredIn[o]] # None
                        /\ s.m_pLeft[o] = None <=> s.m_pWriterListeners[s.pRegisteredIn[o]] = o
                        /\ s.m_pLeft[o] # None =>
                             /\ s.pRegisteredIn[s.m_pLeft[o]] = s.pRegisteredIn[o]
                             /\ s.m_pRight[s.m_pLeft[o]] = o
                        /\ s.m_pRight[o] # None =>
                             /\ s.pRegisteredIn[s.m_pRight[o]] = s.pRegisteredIn[o]
                             /\ s.m_pLeft[s.m_pRight[o]] = o
      BY DEF Linked
    <3>1. /\ chain.pRegisteredIn[o] # m /\ chain.pRegisteredIn[o] # None
          /\ s.pRegisteredIn[o] = chain.pRegisteredIn[o]
          /\ chain.m_pLeft[o] \in ObjOrNull /\ chain.m_pRight[o] \in ObjOrNull
      BY <1>1, <1>3 DEF Chains
    <3>2. chain.m_pLeft[o] # None => chain.m_pLeft[o] \in Obj
      BY <3>1 DEF ObjOrNull
    <3>3. chain.m_pRight[o] # None => chain.m_pRight[o] \in Obj
      BY <3>1 DEF ObjOrNull
    <3> QED BY <1>3, <2>3, <3>1, <3>2, <3>3 DEF Linked
  <2> QED BY <1>3, <2>1, <2>2, <2>4 DEF Links
<1>5. FirstRegistered(s.m_pWriterListeners, s.pRegisteredIn, life')
  BY <1>1, <1>3 DEF Sound, FirstRegistered, Obj, Chains, ObjOrNull
<1>6. /\ Links(chain') /\ chain' \in Chains
      /\ chain'.pRegisteredIn = [s.pRegisteredIn EXCEPT ![m] = None]
      /\ FirstRegistered(chain'.m_pWriterListeners, chain'.pRegisteredIn, life')
  <2>1. CASE chain.pRegisteredIn[m] # None
    <3>1. chain.pRegisteredIn[m] # m
      BY <1>1, <2>1, DepthAssumption DEF Sound, Shallower
    <3>2. s.pRegisteredIn[m] # None /\ chain' = Unlink(s, m)
      BY <1>1, <1>2, <1>3, <2>1, <3>1
    <3>3. Links(chain') /\ chain'.pRegisteredIn = [s.pRegisteredIn EXCEPT ![m] = None]
      BY <1>1, <1>4, <3>2, UnlinkLinks
    <3>4. FirstRegistered(chain'.m_pWriterListeners, chain'.pRegisteredIn, life')
      BY <1>1, <1>4, <1>5, <3>2, UnlinkFirst
    <3> QED BY <3>3, <3>4 DEF Links
  <2>2. CASE chain.pRegisteredIn[m] = None
    <3>1. chain' = s /\ s.pRegisteredIn = [s.pRegisteredIn EXCEPT ![m] = None]
      BY <1>1, <1>2, <1>3, <2>2
    <3> QED BY <1>3, <1>4, <1>5, <3>1
  <2> QED BY <2>1, <2>2
<1>7. \A o \in Obj : chain'.pRegisteredIn[o] # None =>
        /\ o # m /\ chain'.pRegisteredIn[o] = chain.pRegisteredIn[o]
        /\ chain.pRegisteredIn[o] # m
  BY <1>1, <1>3, <1>6
<1>8. Shallower(chain'.pRegisteredIn) /\ NoneDead(chain'.pRegisteredIn, life')
  <2>1. Shallower(chain'.pRegisteredIn)
    BY <1>1, <1>7 DEF Sound, Shallower, Obj
  <2>2. NoneDead(chain'.pRegisteredIn, life')
    BY <1>1, <1>7 DEF Sound, NoneDead, Obj
  <2> QED BY <2>1, <2>2
<1>9. Sound(chain', life')
  BY <1>6, <1>8 DEF Sound
<1>10. FramesInv(frames', life')
  <2>1. Len(frames') = 0
    BY <1>1, EmptySeq
  <2> QED BY <2>1 DEF FramesInv
<1>11. ClientsTypeOK'
  BY <1>1, <1>6 DEF ClientsTypeOK
<1> QED BY <1>9, <1>10, <1>11 DEF IInv

\* The start of a destructor: its frame, and above it that of the broadcast.
LEMMA DestroyModifyStep ==
  ASSUME IInv, NEW m \in Modifies, DestroyModify(m)
  PROVE  IInv'
<1> DEFINE rest == [NewFrame("destroy", m, None, None, {}) EXCEPT !.todo = {}]
           below == Append(frames, rest)
<1>1. /\ ClientsTypeOK /\ Sound(chain, life) /\ FramesInv(frames, life) /\ m \in Obj
      /\ life \in [Obj -> {"alive", "dying", "dead"}] /\ chain \in Chains
      /\ frames \in Seq(Frame) /\ life[m] = "alive" /\ life' = [life EXCEPT ![m] = "dying"]
      /\ UNCHANGED <<chain, callerLocks>>
  BY DEF IInv, ClientsTypeOK, DestroyModify, Obj
<1>2. rest \in Frame /\ rest.kind = "destroy" /\ rest.m_rRoot = m
  <2>1. NewFrame("destroy", m, None, None, {}) \in Frame
    BY NewFrameType DEF ObjOrNull
  <2>2. /\ NewFrame("destroy", m, None, None, {}).kind = "destroy"
        /\ NewFrame("destroy", m, None, None, {}).m_rRoot = m
    BY DEF NewFrame
  <2> QED BY <2>1, <2>2 DEF Frame
<1> HIDE DEF rest
<1>3. /\ below \in Seq(Frame) /\ Len(below) = Len(frames) + 1 /\ Len(frames) \in Nat
      /\ \A k \in 1 .. Len(frames) : below[k] = frames[k]
      /\ below[Len(frames) + 1] = rest
  BY <1>1, <1>2, AppendProperties
<1>4. \A k \in 1 .. Len(frames) : frames[k].m_rRoot \in Modifies
  <2>1. \A k \in 1 .. Len(frames) : frames[k] \in Frame
    BY <1>1, ElementOfSeq
  <2> QED BY <2>1 DEF Frame
<1>5. \A k \in 1 .. Len(frames) : frames[k].kind = "destroy" => frames[k].m_rRoot # m
  BY <1>1 DEF FramesInv
<1>6. FramesInv(below, life')
  <2> HIDE DEF below
  <2>1. \A k \in 1 .. Len(frames) : frames[k].kind = "destroy" =>
          life'[frames[k].m_rRoot] = "dying"
    BY <1>1, <1>4, <1>5 DEF FramesInv, Obj
  <2>2. life'[m] = "dying"
    BY <1>1
  <2>3. \A k \in 1 .. Len(below) : k \in 1 .. Len(frames) \/ k = Len(frames) + 1
    BY <1>3
  <2> QED BY <1>1, <1>2, <1>3, <1>5, <2>1, <2>2, <2>3 DEF FramesInv
<1>7. /\ frames' \in Seq(Frame) /\ FramesInv(frames', life')
      /\ m_bModifyLocked' \in [Modifies -> BOOLEAN]
      /\ bLockClientList' \in [Modifies -> BOOLEAN]
  <2>1. CASE Suppressed(m)
    <3>1. frames' = below /\ UNCHANGED <<m_bModifyLocked, bLockClientList>>
      BY <2>1 DEF DestroyModify, rest
    <3> QED BY <1>1, <1>3, <1>6, <3>1 DEF ClientsTypeOK
  <2>2. CASE ~Suppressed(m)
    <3>1. Broadcast(m, m, below)
      BY <2>2 DEF DestroyModify, rest
    <3> HIDE DEF below
    <3>2. PICK f : f = NewFrame("notify", m, chain.m_pWriterListeners[m], m, Obj)
      OBVIOUS
    <3>3. f \in Frame /\ f.kind = "notify"
      BY <1>1, <3>2, NewFrameType DEF Chains
    <3>4. frames' = Append(below, f)
      BY <1>3, <3>1, <3>2, AppendProperties DEF Broadcast
    <3>5. frames' \in Seq(Frame) /\ FramesInv(frames', life')
      BY <1>3, <1>6, <3>3, <3>4, PushKeepsFrames
    <3>6. /\ m_bModifyLocked' \in [Modifies -> BOOLEAN]
          /\ bLockClientList' \in [Modifies -> BOOLEAN]
      BY <1>1, <3>1 DEF Broadcast, ClientsTypeOK
    <3> QED BY <3>5, <3>6
  <2> QED BY <2>1, <2>2
<1>8. ClientsTypeOK'
  BY <1>1, <1>7 DEF ClientsTypeOK
<1>9. Sound(chain', life')
  BY <1>1 DEF Sound, NoneDead, FirstRegistered, Links, Chains, Obj
<1> QED BY <1>7, <1>8, <1>9 DEF IInv

\* A broadcast or an iteration begins.
LEMMA BeginStep ==
  ASSUME IInv, NEW m \in Modifies,
         \/ \E dead \in Modifies \cup {None} : NotifyClients(m, dead)
         \/ \E types \in {Clients, Modifies} : Iterate(m, types)
  PROVE  IInv'
<1>1. /\ ClientsTypeOK /\ Sound(chain, life) /\ FramesInv(frames, life)
      /\ frames \in Seq(Frame) /\ chain \in Chains
      /\ UNCHANGED <<chain, life, callerLocks>>
  BY DEF IInv, ClientsTypeOK, NotifyClients, Iterate
<1>2. PICK f \in Frame :
        /\ f.kind # "destroy" /\ frames' = Append(frames, f)
        /\ m_bModifyLocked' \in [Modifies -> BOOLEAN]
        /\ bLockClientList' \in [Modifies -> BOOLEAN]
  <2>1. CASE \E dead \in Modifies \cup {None} : NotifyClients(m, dead)
    <3>1. PICK dead \in Modifies \cup {None} : Broadcast(m, dead, frames)
      BY <2>1 DEF NotifyClients
    <3>2. PICK f : f = NewFrame("notify", m, chain.m_pWriterListeners[m], dead, Obj)
      OBVIOUS
    <3>3. f \in Frame /\ f.kind = "notify"
      BY <1>1, <3>2, NewFrameType DEF Chains
    <3>4. frames' = Append(frames, f)
      BY <1>1, <3>1, <3>2, AppendProperties DEF Broadcast
    <3>5. /\ m_bModifyLocked' \in [Modifies -> BOOLEAN]
          /\ bLockClientList' \in [Modifies -> BOOLEAN]
      BY <1>1, <3>1 DEF Broadcast, ClientsTypeOK
    <3> QED BY <3>3, <3>4, <3>5
  <2>2. CASE \E types \in {Clients, Modifies} : Iterate(m, types)
    <3>1. PICK types \in {Clients, Modifies} : Iterate(m, types)
      BY <2>2
    <3>2. PICK first : first = FirstOfType(chain.m_pWriterListeners[m], types)
      OBVIOUS
    <3>3. PICK f : f = NewFrame("iterate", m, first, None, types)
      OBVIOUS
    <3>4. types \in SUBSET Obj /\ first \in ObjOrNull
      BY <3>2, FirstOfTypeType DEF Obj
    <3>5. f \in Frame /\ f.kind = "iterate"
      BY <3>3, <3>4, NewFrameType
    <3>6. frames' = Append(frames, f) /\ UNCHANGED <<m_bModifyLocked, bLockClientList>>
      BY <3>1, <3>2, <3>3 DEF Iterate
    <3> QED BY <1>1, <3>5, <3>6 DEF ClientsTypeOK
  <2> QED BY <2>1, <2>2
<1>3. frames' \in Seq(Frame) /\ FramesInv(frames', life)
  BY <1>1, <1>2, PushKeepsFrames
<1> QED BY <1>1, <1>2, <1>3 DEF IInv, ClientsTypeOK

\* The iteration goes on, or ends.
LEMMA NextStep == IInv /\ Next_ => IInv'
<1> SUFFICES ASSUME IInv, Next_ PROVE IInv'
  OBVIOUS
<1>1. /\ ClientsTypeOK /\ Sound(chain, life) /\ FramesInv(frames, life)
      /\ frames \in Seq(Frame) /\ frames # <<>> /\ UNCHANGED <<chain, life, callerLocks>>
  BY DEF IInv, ClientsTypeOK, Next_
<1>2. Len(frames) \in 1 .. Len(frames) /\ Len(frames) \in Nat \ {0}
      /\ DOMAIN frames = 1 .. Len(frames)
  BY <1>1, EmptySeq, LenProperties
<1>3. PICK f : f = Innermost /\ f \in Frame
  BY <1>1, <1>2, ElementOfSeq DEF Innermost
<1>4. /\ frames' \in Seq(Frame) /\ FramesInv(frames', life)
      /\ m_bModifyLocked' \in [Modifies -> BOOLEAN]
      /\ bLockClientList' \in [Modifies -> BOOLEAN]
  <2>1. CASE NextPosition(f) # None
    <3>1. PICK n : n = NextPosition(f)
      OBVIOUS
    <3>2. n \in ObjOrNull /\ n \in Obj
      <4>1. f.types \in SUBSET Obj
        BY <1>3 DEF Frame
      <4>2. n \in ObjOrNull
        BY <3>1, <4>1, FirstOfTypeType DEF NextPosition
      <4> QED BY <2>1, <3>1, <4>2 DEF ObjOrNull
    <3>3. PICK g : g = [f EXCEPT !.m_pCurrent = n, !.m_pPosition = n, !.todo = @ \ {n},
                                 !.done = IF n \in f.todo THEN @ \cup {n} ELSE @]
      OBVIOUS
    <3>4. /\ frames' = [frames EXCEPT ![Len(frames)] = g]
          /\ UNCHANGED <<m_bModifyLocked, bLockClientList>>
      BY <1>3, <2>1, <3>1, <3>3 DEF Next_
    <3>5. g \in Frame /\ g.kind = f.kind /\ g.m_rRoot = f.m_rRoot
      BY <1>3, <3>2, <3>3 DEF Frame
    <3>6. /\ frames' \in Seq(Frame) /\ Len(frames') = Len(frames)
          /\ \A k \in 1 .. Len(frames) :
               frames'[k] = IF k = Len(frames) THEN g ELSE frames[k]
      BY <1>1, <1>2, <3>4, <3>5, ExceptSeq
    <3>7. SameFrames(frames')
      BY <1>3, <3>5, <3>6 DEF SameFrames, Innermost
    <3> QED BY <1>1, <3>4, <3>6, <3>7, SameKeepsFrames DEF ClientsTypeOK
  <2>2. CASE NextPosition(f) = None
    <3>1. frames' = Front(frames)
      BY <1>3, <2>2 DEF Next_
    <3>2. frames' \in Seq(Frame) /\ FramesInv(frames', life)
      BY <1>1, <3>1, PopKeepsFrames
    <3>3. /\ m_bModifyLocked' \in [Modifies -> BOOLEAN]
          /\ bLockClientList' \in [Modifies -> BOOLEAN]
      BY <1>1, <1>3, <2>2 DEF Next_, ClientsTypeOK
    <3> QED BY <3>2, <3>3
  <2> QED BY <2>1, <2>2
<1> QED BY <1>1, <1>4 DEF IInv, ClientsTypeOK

\* The loop of ~SwModify takes the first client, which is registered there since
\* the modify is not dead yet.
LEMMA RemoveRestStep == IInv /\ RemoveRest => IInv'
<1> SUFFICES ASSUME IInv, RemoveRest PROVE IInv'
  OBVIOUS
<1> DEFINE m == Innermost.m_rRoot  c == chain.m_pWriterListeners[m]
<1>1. /\ ClientsTypeOK /\ Sound(chain, life) /\ FramesInv(frames, life)
      /\ frames \in Seq(Frame) /\ frames # <<>> /\ Innermost.kind = "destroy"
      /\ c # None /\ TakenFrom(m, c)
      /\ UNCHANGED <<life, m_bModifyLocked, bLockClientList, callerLocks>>
  BY DEF IInv, ClientsTypeOK, RemoveRest
<1>2. Len(frames) \in 1 .. Len(frames)
  BY <1>1, EmptySeq
<1>3. m \in Modifies /\ life[m] = "dying"
  <2>1. frames[Len(frames)] \in Frame
    BY <1>1, <1>2, ElementOfSeq
  <2> QED BY <1>1, <1>2, <2>1 DEF Innermost, Frame, FramesInv
<1>4. c \in Obj /\ chain.pRegisteredIn[c] = m
  BY <1>1, <1>3 DEF Sound, FirstRegistered, ClientsTypeOK, Chains, ObjOrNull
<1> HIDE DEF m, c
<1>5. Sound(chain', life) /\ SameFrames(frames')
  BY <1>1, <1>3, <1>4, TakenFromKeeps
<1> QED BY <1>1, <1>5, ChainStep

\* Every step keeps the invariant.
LEMMA IInvStep == IInv /\ [ClientsNext]_clientVars => IInv'
<1> SUFFICES ASSUME IInv, [ClientsNext]_clientVars PROVE IInv'
  OBVIOUS
<1>1. ASSUME NEW m \in Modifies, NEW c \in Obj, Add(m, c) PROVE IInv'
  <2>1. Sound(chain', life) /\ SameFrames(frames')
    BY <1>1, AddedKeeps DEF Add, IInv
  <2> QED BY <1>1, <2>1, ChainStep DEF Add
<1>2. ASSUME NEW c \in Obj, RemoveClient(c) PROVE IInv'
  <2>1. Sound(chain', life) /\ SameFrames(frames')
    BY <1>2, RemovedKeeps DEF RemoveClient, IInv
  <2> QED BY <1>2, <2>1, ChainStep DEF RemoveClient
<1>3. ASSUME NEW m \in Modifies, LockModify(m) \/ UnlockModify(m) PROVE IInv'
  BY <1>3 DEF LockModify, UnlockModify, IInv, ClientsTypeOK
<1>4. CASE CheckRegistration
  <2>1. PICK c, m : /\ c \in Obj /\ m \in Modifies /\ chain.pRegisteredIn[c] = m
                    /\ TakenFrom(m, c)
    <3>1. Innermost.dead \in Modifies \cup {None}
      <4>1. Len(frames) \in 1 .. Len(frames) /\ frames \in Seq(Frame)
        BY <1>4, EmptySeq DEF CheckRegistration, IInv, ClientsTypeOK
      <4>2. frames[Len(frames)] \in Frame
        BY <4>1, ElementOfSeq
      <4> QED BY <4>2 DEF Innermost, Frame
    <3> QED BY <1>4, <3>1 DEF CheckRegistration, Registered
  <2>2. Sound(chain', life) /\ SameFrames(frames')
    BY <2>1, TakenFromKeeps DEF IInv
  <2> QED BY <1>4, <2>2, ChainStep DEF CheckRegistration
<1>5. CASE UNCHANGED clientVars
  BY <1>5 DEF clientVars, IInv, ClientsTypeOK
<1> QED BY <1>1, <1>2, <1>3, <1>4, <1>5, DestroyClientStep, BeginStep, NextStep,
           DestroyModifyStep, RemoveRestStep, EndDestroyStep, DestroyInDocDTORStep DEF ClientsNext

\* The invariant always holds.
LEMMA IInvAlways == ClientsSpec => []IInv
BY InitIInv, IInvStep, PTL DEF ClientsSpec

-----------------------------------------------------------------------------
(* The theorems.                                                            *)

\* Every reachable state has the declared types.
THEOREM TypeCorrect == ClientsSpec => []ClientsTypeOK
<1>1. IInv => ClientsTypeOK
  BY DEF IInv
<1> QED BY <1>1, IInvAlways, PTL

\* Whatever callbacks register, remove, move and destroy, in iterations nested to
\* any depth: no object is registered in a dead modify, and no dead one anywhere.
THEOREM NothingEverDangles == ClientsSpec => []NothingDangles
<1>1. IInv => NothingDangles
  BY DEF IInv, Sound, NoneDead, NothingDangles
<1> QED BY <1>1, IInvAlways, PTL

\* Links lead both ways and stay in their chain, the first client is the one
\* without a left link, and no chain is closed to a ring, since the links lead
\* down the ranks of its objects.
THEOREM LinksStaySound == ClientsSpec => [](LinksMutual /\ Links(chain))
<1>1. IInv => LinksMutual /\ Links(chain)
  <2> SUFFICES ASSUME IInv PROVE LinksMutual
    BY DEF IInv, Sound
  <2>1. /\ chain \in Chains
        /\ Linked(chain.m_pLeft, chain.m_pRight, chain.m_pWriterListeners, chain.pRegisteredIn)
        /\ FirstRegistered(chain.m_pWriterListeners, chain.pRegisteredIn, life)
    BY DEF IInv, Sound, Links
  <2>2. ASSUME NEW m \in Modifies, life[m] # "dead", chain.m_pWriterListeners[m] # None
        PROVE  chain.m_pLeft[chain.m_pWriterListeners[m]] = None
    <3>1. /\ chain.m_pWriterListeners[m] \in Obj
          /\ chain.pRegisteredIn[chain.m_pWriterListeners[m]] = m
      BY <2>1, <2>2 DEF FirstRegistered, Chains, ObjOrNull
    <3> QED BY <2>1, <3>1, NullAssumption DEF Linked, Obj
  <2>3. ASSUME NEW m \in Modifies, NEW o \in Registered(m), chain.m_pRight[o] # None
        PROVE  chain.m_pLeft[chain.m_pRight[o]] = o
    BY <2>1, <2>3, NullAssumption DEF Linked, Registered, Obj
  <2> QED BY <2>2, <2>3 DEF LinksMutual
<1> QED BY <1>1, IInvAlways, PTL

-----------------------------------------------------------------------------
(* The iterations: what a chain holds from an object on, where an iterator   *)
(* may stand after removals and moves, and that each client which stays in   *)
(* the chain is visited exactly once.  An iterator goes down the ranks: what *)
(* it has done lies above its position, and what it still has to do below.   *)

(* The least number of a set, without which nothing can be said about what  *)
(* is reached by following links.                                           *)

LessThan == {p \in Nat \X Nat : p[1] < p[2]}

\* The order of the naturals is well-founded.
LEMMA LessThanWellFounded == IsWellFoundedOn(LessThan, Nat)
BY NatLessThanWellFounded DEF OpToRel, LessThan

\* Some object of a set has the lowest rank.
LEMMA LowestRank ==
  ASSUME NEW T \in SUBSET Obj, T # {}, NEW rank \in [Obj -> Nat]
  PROVE  \E q \in T : \A x \in T : rank[q] <= rank[x]
<1> DEFINE R == {rank[q] : q \in T}
<1>1. R # {} /\ R \subseteq Nat
  OBVIOUS
<1>2. PICK n \in R : \A y \in R : ~ (<<y, n>> \in LessThan)
  <2> HIDE DEF R
  <2> QED BY <1>1, LessThanWellFounded, WFMin
<1>3. PICK q \in T : rank[q] = n
  BY <1>2
<1>4. ASSUME NEW x \in T PROVE rank[q] <= rank[x]
  <2>1. rank[x] \in R /\ rank[x] \in Nat /\ n \in Nat
    BY <1>1
  <2>2. ~ (rank[x] < n)
    BY <1>2, <2>1 DEF LessThan
  <2> QED BY <1>3, <2>1, <2>2
<1> QED BY <1>3, <1>4

\* Some object of a set has the highest rank, if the ranks have a bound.
LEMMA HighestRank ==
  ASSUME NEW T \in SUBSET Obj, T # {}, NEW rank \in [Obj -> Nat],
         NEW top \in Nat, \A x \in T : rank[x] <= top
  PROVE  \E q \in T : \A x \in T : rank[x] <= rank[q]
<1> DEFINE R == {top - rank[q] : q \in T}
<1>1. R # {} /\ R \subseteq Nat
  OBVIOUS
<1>2. PICK n \in R : \A y \in R : ~ (<<y, n>> \in LessThan)
  <2> HIDE DEF R
  <2> QED BY <1>1, LessThanWellFounded, WFMin
<1>3. PICK q \in T : top - rank[q] = n
  BY <1>2
<1>4. ASSUME NEW x \in T PROVE rank[x] <= rank[q]
  <2>1. top - rank[x] \in R /\ top - rank[x] \in Nat /\ n \in Nat
    BY <1>1
  <2>2. ~ (top - rank[x] < n)
    BY <1>2, <2>1 DEF LessThan
  <2>3. rank[x] \in Nat /\ rank[q] \in Nat
    OBVIOUS
  <2> QED BY <1>3, <2>1, <2>2, <2>3
<1> QED BY <1>3, <1>4

-----------------------------------------------------------------------------
(* What a chain holds from an object on.                                    *)

\* A chain record with sound links and a rank of its objects.
RankOf(s, rank) ==
  /\ s \in Chains /\ rank \in [Obj -> Nat]
  /\ Linked(s.m_pLeft, s.m_pRight, s.m_pWriterListeners, s.pRegisteredIn)
  /\ Ranked(s.m_pLeft, s.m_pRight, s.pRegisteredIn, rank)

\* A link to the right stays in the chain and leads to the next lower rank.
LEMMA RightIsBelow ==
  ASSUME NEW rank, RankOf(chain, rank), NEW p \in Obj, chain.pRegisteredIn[p] # None,
         chain.m_pRight[p] # None
  PROVE  /\ chain.m_pRight[p] \in Obj
         /\ chain.pRegisteredIn[chain.m_pRight[p]] = chain.pRegisteredIn[p]
         /\ rank[chain.m_pRight[p]] < rank[p]
         /\ \A x \in Obj : chain.pRegisteredIn[x] = chain.pRegisteredIn[p] /\ rank[x] < rank[p] =>
              rank[x] <= rank[chain.m_pRight[p]]
<1>1. chain.m_pRight[p] \in Obj
  BY DEF RankOf, Chains, ObjOrNull
<1>2. chain.pRegisteredIn[chain.m_pRight[p]] = chain.pRegisteredIn[p]
  BY DEF RankOf, Linked
<1> QED BY <1>1, <1>2 DEF RankOf, Ranked

\* The last object has the lowest rank.
LEMMA LastIsLowest ==
  ASSUME NEW rank, RankOf(chain, rank), NEW p \in Obj, chain.pRegisteredIn[p] # None,
         chain.m_pRight[p] = None, NEW x \in Obj, chain.pRegisteredIn[x] = chain.pRegisteredIn[p]
  PROVE  rank[p] <= rank[x]
<1>1. ~(rank[x] < rank[p])
  BY DEF RankOf, Ranked
<1>2. rank[x] \in Nat /\ rank[p] \in Nat
  BY DEF RankOf
<1> QED BY <1>1, <1>2

\* The first client has the highest rank.
LEMMA FirstIsHighest ==
  ASSUME NEW s, NEW rank, RankOf(s, rank), NEW m \in Modifies,
         s.m_pWriterListeners[m] # None,
         s.pRegisteredIn[s.m_pWriterListeners[m]] = m
  PROVE  /\ s.m_pWriterListeners[m] \in Obj
         /\ \A x \in Obj : s.pRegisteredIn[x] = m =>
              rank[x] <= rank[s.m_pWriterListeners[m]]
<1>1. PICK h : h = s.m_pWriterListeners[m]
  OBVIOUS
<1>2. h \in Obj /\ s.pRegisteredIn[h] = m /\ m # None /\ rank[h] \in Nat
  BY <1>1, NullAssumption DEF RankOf, Chains, ObjOrNull, Obj
<1>3. s.m_pLeft[h] = None
  BY <1>1, <1>2 DEF RankOf, Linked
<1>4. ASSUME NEW x \in Obj, s.pRegisteredIn[x] = m PROVE rank[x] <= rank[h]
  <2>1. ~(rank[h] < rank[x])
    BY <1>2, <1>3, <1>4 DEF RankOf, Ranked
  <2>2. rank[x] \in Nat
    BY DEF RankOf
  <2> QED BY <1>2, <2>1, <2>2
<1> QED BY <1>1, <1>2, <1>4

\* From an object on, a chain holds those that are no higher in rank.
LEMMA FromOnIsBelow ==
  ASSUME NEW rank, RankOf(chain, rank), NEW o \in Obj, chain.pRegisteredIn[o] # None
  PROVE  FromOn(o) = {p \in Obj : /\ chain.pRegisteredIn[p] = chain.pRegisteredIn[o]
                                  /\ rank[p] <= rank[o]}
<1> DEFINE rt == chain.m_pRight  rg == chain.pRegisteredIn
           D == {p \in Obj : rg[p] = rg[o] /\ rank[p] <= rank[o]}
<1>1. o # None /\ rank \in [Obj -> Nat]
  BY NullAssumption DEF Obj, RankOf
<1>2. ASSUME NEW x \in FromOn(o) PROVE x \in D
  <2>1. o \in D /\ D \in SUBSET Obj
    BY <1>1
  <2>2. ASSUME NEW p \in D PROVE rt[p] \in D \cup {None}
    <3>1. CASE rt[p] = None
      BY <3>1
    <3>2. CASE rt[p] # None
      <4>1. rt[p] \in Obj /\ rg[rt[p]] = rg[p] /\ rank[rt[p]] < rank[p]
        BY <2>2, <3>2, RightIsBelow
      <4>2. rank[rt[p]] \in Nat /\ rank[p] \in Nat /\ rank[o] \in Nat
        BY <1>1, <2>2, <4>1
      <4>3. rank[rt[p]] <= rank[o]
        BY <2>2, <4>1, <4>2
      <4> QED BY <2>2, <4>1, <4>3
    <3> QED BY <3>1, <3>2
  <2> HIDE DEF D
  <2> QED BY <2>1, <2>2, <1>2 DEF FromOn
<1>3. ASSUME NEW x \in D PROVE x \in FromOn(o)
  <2> SUFFICES ASSUME NEW S \in SUBSET Obj, o \in S, \A p \in S : rt[p] \in S \cup {None},
                      x \notin S
               PROVE  FALSE
    BY <1>1, <1>3 DEF FromOn
  <2> DEFINE T == {q \in S : rg[q] = rg[o] /\ rank[x] <= rank[q]}
  <2>1. T \in SUBSET Obj /\ o \in T
    BY <1>3
  <2>2. PICK q \in T : \A y \in T : rank[q] <= rank[y]
    <3> HIDE DEF T
    <3> QED BY <1>1, <2>1, LowestRank
  <2>3. q \in Obj /\ q # x /\ rg[q] = rg[x] /\ rank[q] \in Nat /\ rank[x] \in Nat
    BY <1>1, <1>3, <2>2
  <2>4. rank[x] < rank[q]
    <3>1. rank[x] # rank[q]
      BY <1>3, <2>3 DEF RankOf, Ranked
    <3> QED BY <2>2, <2>3, <3>1
  <2>5. rt[q] # None
    BY <1>3, <2>3, <2>4 DEF RankOf, Ranked
  <2>6. /\ rt[q] \in Obj /\ rg[rt[q]] = rg[q] /\ rank[rt[q]] < rank[q]
        /\ rank[x] <= rank[rt[q]]
    BY <1>3, <2>3, <2>4, <2>5, RightIsBelow
  <2>7. rt[q] \in T
    BY <2>2, <2>5, <2>6
  <2>8. rank[q] <= rank[rt[q]] /\ rank[rt[q]] \in Nat
    BY <1>1, <2>2, <2>6, <2>7
  <2> QED BY <2>3, <2>6, <2>8
<1> QED BY <1>2, <1>3

\* From no object on there is nothing.
LEMMA FromNullOn == FromOn(None) = {}
BY DEF FromOn

\* FirstOfType is the highest one of the types from an object on, or none.
LEMMA FirstOfTypeIsHighest ==
  ASSUME NEW rank, RankOf(chain, rank), NEW o \in Obj, chain.pRegisteredIn[o] # None,
         NEW types, NEW n, n = FirstOfType(o, types)
  PROVE  /\ n = None => FromOn(o) \cap types = {}
         /\ n # None => /\ n \in Obj /\ n \in types
                        /\ chain.pRegisteredIn[n] = chain.pRegisteredIn[o]
                        /\ rank[n] <= rank[o]
                        /\ \A x \in FromOn(o) \cap types : rank[x] <= rank[n]
<1> DEFINE rg == chain.pRegisteredIn
           hits == FromOn(o) \cap types
           first == {h \in hits : hits \subseteq FromOn(h)}
<1>1. /\ rank \in [Obj -> Nat]
      /\ hits = {p \in Obj : rg[p] = rg[o] /\ rank[p] <= rank[o] /\ p \in types}
  BY FromOnIsBelow DEF RankOf
<1>2. ASSUME NEW h \in hits
      PROVE  hits \subseteq FromOn(h) <=> \A x \in hits : rank[x] <= rank[h]
  <2>1. h \in Obj /\ rg[h] = rg[o]
    BY <1>1, <1>2
  <2>2. FromOn(h) = {p \in Obj : rg[p] = rg[h] /\ rank[p] <= rank[h]}
    BY <2>1, FromOnIsBelow
  <2>3. \A x \in hits : x \in FromOn(h) <=> rank[x] <= rank[h]
    BY <1>1, <2>1, <2>2
  <2> HIDE DEF hits
  <2> QED BY <2>3
<1>3. n = IF first = {} THEN None ELSE CHOOSE h \in first : TRUE
  BY DEF FirstOfType
<1>4. CASE hits = {}
  <2>1. first = {}
    BY <1>4
  <2> QED BY <1>3, <1>4, <2>1
<1>5. CASE hits # {}
  <2>1. PICK q \in hits : \A x \in hits : rank[x] <= rank[q]
    <3>1. hits \in SUBSET Obj /\ rank[o] \in Nat /\ \A x \in hits : rank[x] <= rank[o]
      BY <1>1
    <3> HIDE DEF hits
    <3> QED BY <1>1, <1>5, <3>1, HighestRank
  <2>2. q \in first
    BY <1>2, <2>1
  <2>3. n \in first
    <3> HIDE DEF first
    <3> QED BY <1>3, <2>2
  <2>4. n \in hits /\ \A x \in hits : rank[x] <= rank[n]
    BY <1>2, <2>3
  <2>5. n # None
    BY <1>1, <2>4, NullAssumption DEF Obj
  <2> QED BY <1>1, <2>4, <2>5
<1> QED BY <1>4, <1>5

\* A chain is what is reached from its first client.
LEMMA ChainFromFirst ==
  ASSUME IInv, NEW m \in Modifies, life[m] # "dead"
  PROVE  FromOn(chain.m_pWriterListeners[m]) = Registered(m)
<1>1. PICK rank : RankOf(chain, rank)
  BY DEF IInv, Sound, Links, RankOf
<1>2. PICK h : h = chain.m_pWriterListeners[m]
  OBVIOUS
<1>3. m # None
  BY NullAssumption DEF Obj
<1>4. CASE h = None
  <2>1. Registered(m) = {}
    <3>1. \A o \in Obj : chain.pRegisteredIn[o] # m
      BY <1>1, <1>2, <1>3, <1>4 DEF RankOf, Linked
    <3> QED BY <3>1 DEF Registered
  <2>2. FromOn(h) = {}
    BY <1>4, FromNullOn
  <2> QED BY <1>2, <2>1, <2>2
<1>5. CASE h # None
  <2>1. chain.pRegisteredIn[h] = m
    BY <1>2, <1>5 DEF IInv, Sound, FirstRegistered
  <2>2. h \in Obj /\ \A x \in Obj : chain.pRegisteredIn[x] = m => rank[x] <= rank[h]
    BY <1>1, <1>2, <1>5, <2>1, FirstIsHighest
  <2>3. FromOn(h) = {p \in Obj : chain.pRegisteredIn[p] = m /\ rank[p] <= rank[h]}
    BY <1>1, <1>3, <2>1, <2>2, FromOnIsBelow
  <2> QED BY <1>2, <2>2, <2>3 DEF Registered
<1> QED BY <1>4, <1>5

-----------------------------------------------------------------------------
(* Where the iterators stand.                                               *)

\* A frame of an iteration that was not led astray stands on a client of its root.
\* It stands on the client of the callback as long as that is in the chain.  The
\* clients to visit are in the chain, no higher than the position; the visited ones
\* are no lower.  The position itself is visited exactly if its callback runs.
Placed(f, rg, rank) ==
  /\ f.kind = "destroy" => f.m_pCurrent = None /\ f.m_pPosition = None
  /\ f.kind # "destroy" => f.m_pCurrent # None
  /\ f.kind # "destroy" /\ ~f.astray =>
       /\ f.m_pPosition # None => rg[f.m_pPosition] = f.m_rRoot
       /\ rg[f.m_pCurrent] = f.m_rRoot <=> f.m_pCurrent = f.m_pPosition
       /\ \A x \in f.todo \cup f.done : rg[x] = f.m_rRoot /\ x \in f.types
       /\ \A x \in f.todo : /\ f.m_pPosition # None /\ rank[x] <= rank[f.m_pPosition]
                            /\ x = f.m_pPosition => f.m_pPosition # f.m_pCurrent
       /\ \A x \in f.done : f.m_pPosition # None =>
                              /\ rank[f.m_pPosition] <= rank[x]
                              /\ x = f.m_pPosition => f.m_pPosition = f.m_pCurrent

AllPlaced(fs, rg, rank) == \A k \in 1 .. Len(fs) : Placed(fs[k], rg, rank)

\* The invariant of the iterations.
IterationInv ==
  \E rank : RankOf(chain, rank) /\ AllPlaced(frames, chain.pRegisteredIn, rank)

\* What Repositioned does to one frame when c is removed.
RepositionedFrame(f, c) ==
  [f EXCEPT !.m_pPosition = IF c \in {@, f.m_pCurrent} THEN chain.m_pRight[c] ELSE @,
            !.todo = @ \ {c}, !.done = @ \ {c}, !.astray = @ \/ WouldStray(f, c)]

\* A frame after that, field by field.
LEMMA RepositionedFields ==
  ASSUME NEW f \in Frame, NEW c \in Obj, NEW g, g = RepositionedFrame(f, c)
  PROVE  /\ g.kind = f.kind /\ g.m_rRoot = f.m_rRoot /\ g.m_pCurrent = f.m_pCurrent
         /\ g.types = f.types /\ g.todo = f.todo \ {c} /\ g.done = f.done \ {c}
         /\ g.m_pPosition = IF c = f.m_pPosition \/ c = f.m_pCurrent
                            THEN chain.m_pRight[c] ELSE f.m_pPosition
         /\ g.astray <=> f.astray \/ WouldStray(f, c)
<1>1. /\ g.kind = f.kind /\ g.m_rRoot = f.m_rRoot /\ g.m_pCurrent = f.m_pCurrent
      /\ g.types = f.types /\ g.todo = f.todo \ {c} /\ g.done = f.done \ {c}
      /\ g.m_pPosition = IF c = f.m_pPosition \/ c = f.m_pCurrent
                         THEN chain.m_pRight[c] ELSE f.m_pPosition
  BY DEF RepositionedFrame, Frame
<1>2. g.astray = (f.astray \/ WouldStray(f, c))
  BY DEF RepositionedFrame, Frame
<1> QED BY <1>1, <1>2

\* An iterator that stood right does so when c has left its chain.
LEMMA RepositionedPlaced ==
  ASSUME NEW rank, RankOf(chain, rank), NEW f \in Frame,
         Placed(f, chain.pRegisteredIn, rank),
         NEW c \in Obj, chain.pRegisteredIn[c] # None,
         NEW g, g = RepositionedFrame(f, c)
  PROVE  Placed(g, [chain.pRegisteredIn EXCEPT ![c] = None], rank)
<1> DEFINE rg == chain.pRegisteredIn  rt == chain.m_pRight
           rg2 == [rg EXCEPT ![c] = None]
<1>1. /\ g.kind = f.kind /\ g.m_rRoot = f.m_rRoot /\ g.m_pCurrent = f.m_pCurrent
      /\ g.types = f.types /\ g.todo = f.todo \ {c} /\ g.done = f.done \ {c}
      /\ g.m_pPosition = IF c = f.m_pPosition \/ c = f.m_pCurrent THEN rt[c]
                         ELSE f.m_pPosition
      /\ g.astray <=> f.astray \/ WouldStray(f, c)
  BY RepositionedFields
<1>2. /\ \A o \in Obj : rg2[o] = IF o = c THEN None ELSE rg[o]
      /\ rg[c] \in Modifies /\ None \notin Obj /\ None \notin Modifies
      /\ f.m_rRoot \in Modifies /\ f.m_pCurrent \in Obj \cup {None}
      /\ f.m_pPosition \in Obj \cup {None} /\ f.todo \subseteq Obj /\ f.done \subseteq Obj
      /\ \A o \in Obj : rank[o] \in Nat
  BY NullAssumption DEF Frame, RankOf, Chains, ObjOrNull, Obj
<1> HIDE DEF rg2
<1>3. CASE f.kind = "destroy"
  BY <1>1, <1>2, <1>3 DEF Placed
<1>4. CASE f.kind # "destroy" /\ g.astray
  BY <1>1, <1>4 DEF Placed
<1>5. CASE f.kind # "destroy" /\ ~g.astray
  <2>1. /\ ~f.astray /\ f.m_pCurrent \in Obj
        /\ c = f.m_pCurrent => rg[c] = f.m_rRoot
        /\ f.m_pPosition # None => rg[f.m_pPosition] = f.m_rRoot
        /\ rg[f.m_pCurrent] = f.m_rRoot <=> f.m_pCurrent = f.m_pPosition
    BY <1>1, <1>2, <1>5 DEF Placed, WouldStray
  <2>2. \A x \in f.todo \cup f.done : rg[x] = f.m_rRoot /\ x \in f.types
    BY <2>1, <1>5 DEF Placed
  <2>3. \A x \in f.todo : /\ f.m_pPosition # None /\ rank[x] <= rank[f.m_pPosition]
                          /\ x = f.m_pPosition => f.m_pPosition # f.m_pCurrent
    BY <2>1, <1>5 DEF Placed
  <2>4. \A x \in f.done : f.m_pPosition # None =>
                              /\ rank[f.m_pPosition] <= rank[x]
                              /\ x = f.m_pPosition => f.m_pPosition = f.m_pCurrent
    BY <2>1, <1>5 DEF Placed
  <2>5. CASE c = f.m_pPosition
    <3>1. rg[c] = f.m_rRoot /\ g.m_pPosition = rt[c]
      BY <1>1, <1>2, <2>1, <2>5
    <3>2. rt[c] # None => /\ rt[c] \in Obj /\ rg[rt[c]] = f.m_rRoot /\ rank[rt[c]] < rank[c]
                          /\ \A x \in Obj : rg[x] = f.m_rRoot /\ rank[x] < rank[c] =>
                               rank[x] <= rank[rt[c]]
      BY <1>2, <3>1, RightIsBelow
    <3>3. rt[c] = None => \A x \in Obj : rg[x] = f.m_rRoot => rank[c] <= rank[x]
      BY <1>2, <3>1, LastIsLowest
    <3>4. \A x \in f.todo : x # c => rank[x] < rank[c]
      <4>1. ASSUME NEW x \in f.todo, x # c PROVE rank[x] < rank[c]
        <5>1. rank[x] <= rank[c] /\ rg[x] = rg[c] /\ x \in Obj
          BY <1>2, <2>2, <2>3, <2>5, <3>1
        <5>2. rank[x] # rank[c]
          BY <4>1, <5>1 DEF RankOf, Ranked
        <5> QED BY <1>2, <5>1, <5>2
      <4> QED BY <4>1
    <3>5. rt[c] # f.m_pCurrent
      BY <1>2, <2>1, <2>5, <3>2
    <3>6. g.m_pPosition # None => rg2[g.m_pPosition] = f.m_rRoot
      BY <1>2, <3>1, <3>2
    <3>7. rg2[f.m_pCurrent] = f.m_rRoot <=> f.m_pCurrent = g.m_pPosition
      BY <1>2, <2>1, <2>5, <3>1, <3>5
    <3>8. \A x \in g.todo \cup g.done : rg2[x] = f.m_rRoot /\ x \in f.types
      BY <1>1, <1>2, <2>2
    <3>9. ASSUME NEW x \in g.todo
          PROVE  /\ g.m_pPosition # None /\ rank[x] <= rank[g.m_pPosition]
                 /\ g.m_pPosition # f.m_pCurrent
      <4>1. x \in Obj /\ x \in f.todo /\ x # c /\ rg[x] = f.m_rRoot /\ rank[x] < rank[c]
        BY <1>1, <1>2, <2>2, <3>4
      <4>2. rt[c] # None
        BY <1>2, <3>3, <4>1
      <4> QED BY <3>1, <3>2, <3>5, <4>1, <4>2
    <3>10. ASSUME NEW x \in g.done, g.m_pPosition # None
           PROVE  rank[g.m_pPosition] <= rank[x] /\ x # g.m_pPosition
      <4>1. x \in Obj /\ rank[c] <= rank[x]
        BY <1>1, <1>2, <2>4, <2>5
      <4>2. rank[rt[c]] < rank[c] /\ rt[c] \in Obj
        BY <3>1, <3>2, <3>10
      <4>3. rank[rt[c]] \in Nat /\ rank[x] \in Nat /\ rank[c] \in Nat
        BY <1>2, <4>1, <4>2
      <4>4. rank[rt[c]] < rank[x]
        BY <4>1, <4>2, <4>3
      <4> QED BY <3>1, <4>3, <4>4
    <3> QED BY <1>1, <1>5, <2>1, <1>2, <3>6, <3>7, <3>8, <3>9, <3>10
            DEF Placed, rg2
  <2>6. CASE c # f.m_pPosition
    <3>1. c # f.m_pCurrent
      BY <2>1, <2>6
    <3>2. g.m_pPosition = f.m_pPosition
      BY <1>1, <2>6, <3>1
    <3>3. g.m_pPosition # None => rg2[g.m_pPosition] = f.m_rRoot
      BY <1>2, <2>1, <2>6, <3>2
    <3>4. rg2[f.m_pCurrent] = f.m_rRoot <=> f.m_pCurrent = g.m_pPosition
      BY <1>2, <2>1, <3>1, <3>2
    <3>5. \A x \in g.todo \cup g.done : rg2[x] = f.m_rRoot /\ x \in f.types
      BY <1>1, <1>2, <2>2
    <3>6. \A x \in g.todo : x \in f.todo
      BY <1>1
    <3>7. \A x \in g.done : x \in f.done
      BY <1>1
    <3> QED BY <1>1, <1>2, <1>5, <2>1, <2>3, <2>4, <3>2, <3>3, <3>4, <3>5, <3>6, <3>7
            DEF Placed, rg2
  <2> QED BY <2>5, <2>6
<1> QED BY <1>3, <1>4, <1>5

\* An iterator stays placed when an object in no chain is put behind the first
\* client of m, unless it is an iterator of m that runs the callback of c.
LEMMA LinkedPlaced ==
  ASSUME NEW f \in Frame, NEW rg \in [Obj -> Modifies \cup {None}], NEW rank \in [Obj -> Nat],
         Placed(f, rg, rank),
         NEW m \in Modifies, NEW c \in Obj, rg[c] = None,
         NEW h \in ObjOrNull, h # None => rg[h] = m,
         h # None => \A x \in Obj : rg[x] = m => rank[x] <= rank[h],
         f.kind # "destroy" /\ ~f.astray /\ f.m_rRoot = m => f.m_pCurrent # c,
         \A a, b \in Obj : rg[a] # None /\ rg[a] = rg[b] /\ a # b => rank[a] # rank[b]
  PROVE  Placed(f, [rg EXCEPT ![c] = m], BehindFirst(rank, h, c))
<1> DEFINE rg2 == [rg EXCEPT ![c] = m]  rank2 == BehindFirst(rank, h, c)
<1>1. /\ None \notin Obj /\ None \notin Modifies
      /\ f.m_rRoot \in Modifies /\ f.m_pCurrent \in Obj \cup {None}
      /\ f.m_pPosition \in Obj \cup {None} /\ f.todo \subseteq Obj /\ f.done \subseteq Obj
      /\ h \in Obj \cup {None}
      /\ \A o \in Obj : rank[o] \in Nat
      /\ \A o \in Obj : rg2[o] = IF o = c THEN m ELSE rg[o]
      /\ \A o \in Obj : rank2[o] = IF h = None THEN rank[o] ELSE IF o = c THEN rank[h]
                                   ELSE IF o = h THEN rank[h] + 1 ELSE rank[o]
  BY NullAssumption DEF Frame, ObjOrNull, Obj, BehindFirst
<1> HIDE DEF rg2, rank2
<1>2. CASE f.kind = "destroy"
  BY <1>1, <1>2 DEF Placed
<1>3. CASE f.kind # "destroy" /\ f.astray
  BY <1>1, <1>3 DEF Placed
<1>4. CASE f.kind # "destroy" /\ ~f.astray
  <2>1. /\ f.m_pCurrent \in Obj
        /\ f.m_pPosition # None => rg[f.m_pPosition] = f.m_rRoot
        /\ rg[f.m_pCurrent] = f.m_rRoot <=> f.m_pCurrent = f.m_pPosition
    BY <1>1, <1>4 DEF Placed
  <2>2. \A x \in f.todo \cup f.done : rg[x] = f.m_rRoot /\ x \in f.types /\ x \in Obj /\ x # c
    BY <1>1, <1>4 DEF Placed
  <2>3. \A x \in f.todo : /\ f.m_pPosition # None /\ rank[x] <= rank[f.m_pPosition]
                          /\ x = f.m_pPosition => f.m_pPosition # f.m_pCurrent
    BY <1>4 DEF Placed
  <2>4. \A x \in f.done : f.m_pPosition # None =>
                            /\ rank[f.m_pPosition] <= rank[x]
                            /\ x = f.m_pPosition => f.m_pPosition = f.m_pCurrent
    BY <1>4 DEF Placed
  <2>5. f.m_pPosition # None => f.m_pPosition \in Obj /\ f.m_pPosition # c
    BY <1>1, <2>1
  <2>6. f.m_pPosition # None => rg2[f.m_pPosition] = f.m_rRoot
    BY <1>1, <2>1, <2>5
  <2>7. rg2[f.m_pCurrent] = f.m_rRoot <=> f.m_pCurrent = f.m_pPosition
    BY <1>1, <1>4, <2>1, <2>5
  <2>8. \A x \in f.todo \cup f.done : rg2[x] = f.m_rRoot /\ x \in f.types
    BY <1>1, <2>2
  <2>9. \A a, b \in Obj : rg[a] = f.m_rRoot /\ rg[b] = f.m_rRoot /\ rank[a] <= rank[b] =>
          rank2[a] <= rank2[b]
    <3> SUFFICES ASSUME NEW a \in Obj, NEW b \in Obj, rg[a] = f.m_rRoot, rg[b] = f.m_rRoot,
                        rank[a] <= rank[b]
                 PROVE  rank2[a] <= rank2[b]
      OBVIOUS
    <3>1. a # c /\ b # c
      BY <1>1
    <3>2. CASE h = None
      BY <1>1, <3>2
    <3>3. CASE h # None /\ a = h /\ b # h
      <4>1. rg[b] = m /\ rank[b] <= rank[h] /\ rank[b] # rank[h]
        BY <1>1, <3>3
      <4> QED BY <1>1, <3>3, <4>1
    <3>4. CASE h # None /\ a # h /\ b = h
      BY <1>1, <3>1, <3>4
    <3>5. CASE h # None /\ ((a = h /\ b = h) \/ (a # h /\ b # h))
      BY <1>1, <3>1, <3>5
    <3> QED BY <3>2, <3>3, <3>4, <3>5
  <2>10. ASSUME NEW x \in f.todo
         PROVE  /\ f.m_pPosition # None /\ rank2[x] <= rank2[f.m_pPosition]
                /\ x = f.m_pPosition => f.m_pPosition # f.m_pCurrent
    BY <2>1, <2>2, <2>3, <2>5, <2>9
  <2>11. ASSUME NEW x \in f.done, f.m_pPosition # None
         PROVE  /\ rank2[f.m_pPosition] <= rank2[x]
                /\ x = f.m_pPosition => f.m_pPosition = f.m_pCurrent
    BY <2>1, <2>2, <2>4, <2>5, <2>9, <2>11
  <2> QED BY <1>1, <1>4, <2>1, <2>6, <2>7, <2>8, <2>10, <2>11
           DEF Placed, rg2, rank2
<1> QED BY <1>2, <1>3, <1>4

-----------------------------------------------------------------------------
(* What removing and adding do to all iterators.                            *)

\* The ranks serve on when an object is taken out of its chain.
LEMMA UnlinkRankOf ==
  ASSUME NEW s, NEW rank, RankOf(s, rank), NEW c \in Obj, s.pRegisteredIn[c] # None
  PROVE  /\ RankOf(Unlink(s, c), rank)
         /\ Unlink(s, c).pRegisteredIn = [s.pRegisteredIn EXCEPT ![c] = None]
<1>1. Links(s)
  BY DEF RankOf, Links
<1>2. /\ Links(Unlink(s, c))
      /\ Unlink(s, c).pRegisteredIn = [s.pRegisteredIn EXCEPT ![c] = None]
      /\ Ranked(Unlink(s, c).m_pLeft, Unlink(s, c).m_pRight, Unlink(s, c).pRegisteredIn, rank)
  BY <1>1, UnlinkLinks DEF RankOf
<1> QED BY <1>2 DEF RankOf, Links

\* An object that is put behind the first client takes its rank.
LEMMA LinkRankOf ==
  ASSUME NEW s, NEW rank, RankOf(s, rank),
         NEW m \in Modifies, NEW c \in Obj, s.pRegisteredIn[c] = None,
         s.m_pWriterListeners[m] # None => s.pRegisteredIn[s.m_pWriterListeners[m]] = m
  PROVE  /\ RankOf(Link(s, m, c), BehindFirst(rank, s.m_pWriterListeners[m], c))
         /\ Link(s, m, c).pRegisteredIn = [s.pRegisteredIn EXCEPT ![c] = m]
<1> DEFINE h == s.m_pWriterListeners[m]
<1>1. Links(s)
  BY DEF RankOf, Links
<1>2. /\ Links(Link(s, m, c))
      /\ Link(s, m, c).pRegisteredIn = [s.pRegisteredIn EXCEPT ![c] = m]
      /\ Ranked(Link(s, m, c).m_pLeft, Link(s, m, c).m_pRight, Link(s, m, c).pRegisteredIn,
                BehindFirst(rank, h, c))
  BY <1>1, LinkLinks DEF RankOf
<1>3. BehindFirst(rank, h, c) \in [Obj -> Nat]
  <2>1. rank \in [Obj -> Nat] /\ h \in Obj \cup {None}
    BY DEF RankOf, Chains, ObjOrNull
  <2> HIDE DEF h
  <2> QED BY <2>1 DEF BehindFirst
<1> QED BY <1>2, <1>3 DEF RankOf, Links

\* All iterators stand right after c was taken out and they were repositioned.
LEMMA RepositionedAllPlaced ==
  ASSUME ClientsTypeOK, NEW rank, RankOf(chain, rank),
         AllPlaced(frames, chain.pRegisteredIn, rank),
         NEW c \in Obj, chain.pRegisteredIn[c] # None
  PROVE  /\ AllPlaced(Repositioned(c), [chain.pRegisteredIn EXCEPT ![c] = None], rank)
         /\ \A k \in 1 .. Len(frames) : Repositioned(c)[k] = RepositionedFrame(frames[k], c)
<1>1. Len(Repositioned(c)) = Len(frames)
  BY RepositionedSame DEF SameFrames
<1>2. \A k \in 1 .. Len(frames) : Repositioned(c)[k] = RepositionedFrame(frames[k], c)
  <2>1. DOMAIN frames = 1 .. Len(frames)
    BY LenProperties DEF ClientsTypeOK
  <2>2. Repositioned(c) = [k \in DOMAIN frames |-> RepositionedFrame(frames[k], c)]
    BY DEF Repositioned, RepositionedFrame
  <2> QED BY <2>1, <2>2
<1>3. ASSUME NEW k \in 1 .. Len(frames)
      PROVE  Placed(Repositioned(c)[k], [chain.pRegisteredIn EXCEPT ![c] = None], rank)
  <2>1. PICK f : f = frames[k]
    OBVIOUS
  <2>2. f \in Frame /\ Placed(f, chain.pRegisteredIn, rank)
    BY <1>3, <2>1, ElementOfSeq DEF ClientsTypeOK, AllPlaced
  <2>3. PICK g : g = RepositionedFrame(f, c)
    OBVIOUS
  <2>4. Placed(g, [chain.pRegisteredIn EXCEPT ![c] = None], rank)
    BY <2>2, <2>3, RepositionedPlaced
  <2> QED BY <1>2, <1>3, <2>1, <2>3, <2>4
<1> QED BY <1>1, <1>2, <1>3 DEF AllPlaced

\* All iterators stand right when an object in no chain is put behind the first
\* client of m, unless one of m runs the callback of c.
LEMMA LinkedAllPlaced ==
  ASSUME NEW fs \in Seq(Frame), NEW s, NEW rank, RankOf(s, rank),
         AllPlaced(fs, s.pRegisteredIn, rank),
         NEW m \in Modifies, NEW c \in Obj, s.pRegisteredIn[c] = None,
         s.m_pWriterListeners[m] # None => s.pRegisteredIn[s.m_pWriterListeners[m]] = m,
         \A k \in 1 .. Len(fs) :
           fs[k].kind # "destroy" /\ ~fs[k].astray /\ fs[k].m_rRoot = m =>
             fs[k].m_pCurrent # c
  PROVE  AllPlaced(fs, [s.pRegisteredIn EXCEPT ![c] = m],
                   BehindFirst(rank, s.m_pWriterListeners[m], c))
<1>1. PICK h : h = s.m_pWriterListeners[m]
  OBVIOUS
<1>2. PICK rg : rg = s.pRegisteredIn
  OBVIOUS
<1>3. /\ h \in ObjOrNull /\ rg \in [Obj -> Modifies \cup {None}] /\ rank \in [Obj -> Nat]
      /\ h # None => rg[h] = m
      /\ \A a, b \in Obj : rg[a] # None /\ rg[a] = rg[b] /\ a # b => rank[a] # rank[b]
  BY <1>1, <1>2 DEF RankOf, Chains, Ranked
<1>4. h # None => \A x \in Obj : rg[x] = m => rank[x] <= rank[h]
  BY <1>1, <1>2, FirstIsHighest
<1>5. ASSUME NEW k \in 1 .. Len(fs)
      PROVE  Placed(fs[k], [rg EXCEPT ![c] = m], BehindFirst(rank, h, c))
  <2>1. PICK f : f = fs[k]
    OBVIOUS
  <2>2. f \in Frame /\ Placed(f, rg, rank)
    BY <1>2, <1>5, <2>1, ElementOfSeq DEF AllPlaced
  <2>3. f.kind # "destroy" /\ ~f.astray /\ f.m_rRoot = m => f.m_pCurrent # c
    BY <1>5, <2>1
  <2>4. Placed(f, [rg EXCEPT ![c] = m], BehindFirst(rank, h, c))
    BY <1>2, <1>3, <1>4, <2>2, <2>3, LinkedPlaced
  <2> QED BY <2>1, <2>4
<1> QED BY <1>1, <1>2, <1>5 DEF AllPlaced

\* SwModify::Remove leaves all iterators right.
LEMMA RemovedPlaced ==
  ASSUME IInv, IterationInv, NEW c \in Obj, chain.pRegisteredIn[c] # None, Removed(c)
  PROVE  IterationInv'
<1>1. PICK rank : RankOf(chain, rank) /\ AllPlaced(frames, chain.pRegisteredIn, rank)
  BY DEF IterationInv
<1>2. chain' = Unlink(chain, c) /\ frames' = Repositioned(c)
  BY DEF Removed
<1>3. /\ RankOf(chain', rank)
      /\ chain'.pRegisteredIn = [chain.pRegisteredIn EXCEPT ![c] = None]
  BY <1>1, <1>2, UnlinkRankOf
<1>4. AllPlaced(frames', chain'.pRegisteredIn, rank)
  BY <1>1, <1>2, <1>3, RepositionedAllPlaced DEF IInv
<1> QED BY <1>3, <1>4 DEF IterationInv

\* SwModify::Add does, if no iterator of m is on the stack or the client comes from
\* another chain.
LEMMA AddedPlaced ==
  ASSUME IInv, IterationInv, NEW m \in Modifies, NEW c \in Obj,
         life[m] # "dead", chain.pRegisteredIn[c] # m,
         chain.pRegisteredIn[c] = None => ~IteratedAt(m), Added(m, c)
  PROVE  IterationInv'
<1>1. PICK rank : RankOf(chain, rank) /\ AllPlaced(frames, chain.pRegisteredIn, rank)
  BY DEF IterationInv
<1>2. frames \in Seq(Frame) /\ ClientsTypeOK /\ Sound(chain, life)
  BY DEF IInv, ClientsTypeOK
<1>3. CASE chain.pRegisteredIn[c] = None
  <2>1. chain' = Link(chain, m, c) /\ frames' = frames
    BY <1>3 DEF Added
  <2>2. chain.m_pWriterListeners[m] # None =>
          chain.pRegisteredIn[chain.m_pWriterListeners[m]] = m
    BY <1>2 DEF Sound, FirstRegistered
  <2>3. \A k \in 1 .. Len(frames) :
          frames[k].kind # "destroy" => frames[k].m_rRoot # m
    BY <1>2, <1>3 DEF IteratedAt
  <2>4. PICK rank2 : rank2 = BehindFirst(rank, chain.m_pWriterListeners[m], c)
    OBVIOUS
  <2>5. /\ RankOf(chain', rank2)
        /\ chain'.pRegisteredIn = [chain.pRegisteredIn EXCEPT ![c] = m]
    BY <1>1, <1>3, <2>1, <2>2, <2>4, LinkRankOf
  <2>6. AllPlaced(frames, [chain.pRegisteredIn EXCEPT ![c] = m],
                  BehindFirst(rank, chain.m_pWriterListeners[m], c))
    BY <1>1, <1>2, <1>3, <2>2, <2>3, LinkedAllPlaced
  <2>7. AllPlaced(frames', chain'.pRegisteredIn, rank2)
    BY <2>1, <2>4, <2>5, <2>6
  <2> QED BY <2>5, <2>7 DEF IterationInv
<1>4. CASE chain.pRegisteredIn[c] # None
  <2>1. PICK u : u = Unlink(chain, c)
    OBVIOUS
  <2>2. PICK fs : fs = Repositioned(c)
    OBVIOUS
  <2>3. chain' = Link(u, m, c) /\ frames' = fs
    BY <1>4, <2>1, <2>2 DEF Added
  <2>4. RankOf(u, rank) /\ u.pRegisteredIn = [chain.pRegisteredIn EXCEPT ![c] = None]
    BY <1>1, <1>4, <2>1, UnlinkRankOf
  <2>5. u.m_pWriterListeners[m] # None => u.pRegisteredIn[u.m_pWriterListeners[m]] = m
    <3>1. Sound(u, life)
      BY <1>2, <1>4, <2>1, UnlinkKeeps
    <3> QED BY <3>1 DEF Sound, FirstRegistered
  <2>6. u.pRegisteredIn[c] = None
    BY <1>2, <2>4 DEF ClientsTypeOK, Chains
  <2>7. fs \in Seq(Frame) /\ Len(fs) = Len(frames)
    BY <1>2, <2>2, RepositionedSame DEF SameFrames
  <2>8. /\ AllPlaced(fs, u.pRegisteredIn, rank)
        /\ \A k \in 1 .. Len(frames) : fs[k] = RepositionedFrame(frames[k], c)
    BY <1>1, <1>2, <1>4, <2>2, <2>4, RepositionedAllPlaced
  <2>9. ASSUME NEW k \in 1 .. Len(fs), fs[k].kind # "destroy", ~fs[k].astray,
               fs[k].m_rRoot = m
        PROVE  fs[k].m_pCurrent # c
    <3>1. PICK f : f = frames[k] /\ f \in Frame
      BY <1>2, <2>7, ElementOfSeq
    <3>2. PICK g : g = fs[k]
      OBVIOUS
    <3>3. g = RepositionedFrame(f, c)
      BY <2>7, <2>8, <3>1, <3>2
    <3>4. /\ g.m_rRoot = f.m_rRoot /\ g.m_pCurrent = f.m_pCurrent
          /\ g.astray <=> f.astray \/ WouldStray(f, c)
      BY <3>1, <3>3, RepositionedFields
    <3> QED BY <2>9, <3>2, <3>4 DEF WouldStray
  <2>10. PICK rank2 : rank2 = BehindFirst(rank, u.m_pWriterListeners[m], c)
    OBVIOUS
  <2>11. /\ RankOf(Link(u, m, c), BehindFirst(rank, u.m_pWriterListeners[m], c))
         /\ Link(u, m, c).pRegisteredIn = [u.pRegisteredIn EXCEPT ![c] = m]
    <3>1. RankOf(u, rank)
      BY <2>4
    <3> QED BY <2>5, <2>6, <3>1, LinkRankOf, Zenon
  <2>12. RankOf(chain', rank2) /\ chain'.pRegisteredIn = [u.pRegisteredIn EXCEPT ![c] = m]
    BY <2>3, <2>10, <2>11
  <2>13. AllPlaced(fs, [u.pRegisteredIn EXCEPT ![c] = m],
                   BehindFirst(rank, u.m_pWriterListeners[m], c))
    <3>1. \A k \in 1 .. Len(fs) :
            fs[k].kind # "destroy" /\ ~fs[k].astray /\ fs[k].m_rRoot = m =>
              fs[k].m_pCurrent # c
      BY <2>9
    <3> QED BY <2>4, <2>5, <2>6, <2>7, <2>8, <3>1, LinkedAllPlaced
  <2>14. AllPlaced(frames', chain'.pRegisteredIn, rank2)
    BY <2>3, <2>10, <2>12, <2>13
  <2> QED BY <2>12, <2>14 DEF IterationInv
<1> QED BY <1>3, <1>4

\* SwClient::CheckRegistration does: the client comes from the chain of the modify
\* that dies, which is not the one above it.
LEMMA TakenFromPlaced ==
  ASSUME IInv, IterationInv, NEW m \in Modifies, NEW c \in Obj,
         chain.pRegisteredIn[c] = m, TakenFrom(m, c)
  PROVE  IterationInv'
<1>1. /\ m \in Obj /\ m # None /\ chain.pRegisteredIn \in [Obj -> Modifies \cup {None}]
      /\ Sound(chain, life)
  BY NullAssumption DEF IInv, Obj, ClientsTypeOK, Chains
<1>2. CASE chain.pRegisteredIn[m] = None
  BY <1>1, <1>2, RemovedPlaced DEF TakenFrom
<1>3. CASE chain.pRegisteredIn[m] # None
  <2>1. PICK pAbove \in Modifies : pAbove = chain.pRegisteredIn[m] /\ Added(pAbove, c)
    BY <1>1, <1>3 DEF TakenFrom
  <2>2. life[pAbove] # "dead"
    BY <1>1, <1>3, <2>1 DEF Sound, NoneDead
  <2>3. pAbove # m
    BY <1>1, <1>3, <2>1, DepthAssumption DEF Sound, Shallower
  <2> QED BY <1>1, <2>1, <2>2, <2>3, AddedPlaced
<1> QED BY <1>2, <1>3

-----------------------------------------------------------------------------
(* What an iterator still visits, and the frames that come and go.          *)

\* From the placement of an iterator: it goes on in the chain of its root or is at the
\* end, it has all clients to visit before it, and none of the visited ones.
LEMMA RemainingPlaced ==
  ASSUME NEW rank, RankOf(chain, rank), NEW f \in Frame, f.kind # "destroy", ~f.astray,
         Placed(f, chain.pRegisteredIn, rank),
         NEW start, start = IF f.m_pPosition = f.m_pCurrent
                            THEN chain.m_pRight[f.m_pPosition] ELSE f.m_pPosition
  PROVE  /\ start # None => start \in Obj /\ chain.pRegisteredIn[start] = f.m_rRoot
         /\ Remaining(f) = FromOn(start) \cap f.types
         /\ f.todo \subseteq Remaining(f) /\ f.done \cap Remaining(f) = {}
         /\ f.m_pPosition # None => \A x \in Remaining(f) : rank[x] <= rank[f.m_pPosition]
<1> DEFINE rt == chain.m_pRight  rg == chain.pRegisteredIn
<1>1. PICK p : p = f.m_pPosition
  OBVIOUS
<1>2. PICK root : root = f.m_rRoot
  OBVIOUS
<1>3. /\ root \in Modifies /\ root # None /\ p \in Obj \cup {None} /\ None \notin Obj
      /\ f.m_pCurrent \in Obj
      /\ f.todo \subseteq Obj /\ f.done \subseteq Obj /\ \A o \in Obj : rank[o] \in Nat
  BY <1>1, <1>2, NullAssumption DEF Frame, RankOf, ObjOrNull, Obj, Placed
<1>4. /\ p # None => rg[p] = root
      /\ \A x \in f.todo \cup f.done : rg[x] = root /\ x \in f.types
      /\ \A x \in f.todo : /\ p # None /\ rank[x] <= rank[p]
                           /\ x = p => p # f.m_pCurrent
      /\ \A x \in f.done : p # None => /\ rank[p] <= rank[x]
                                       /\ x = p => p = f.m_pCurrent
  BY <1>1, <1>2 DEF Placed
<1>5. Remaining(f) = FromOn(start) \cap f.types
  BY <1>1, <1>3 DEF Remaining
<1>6. CASE p = None
  <2>1. start = None
    BY <1>1, <1>3, <1>6
  <2>2. FromOn(start) = {}
    BY <2>1, FromNullOn
  <2> QED BY <1>1, <1>4, <1>5, <1>6, <2>1, <2>2
<1>7. CASE p # None /\ p = f.m_pCurrent
  <2>1. start = rt[p] /\ p \in Obj /\ rg[p] # None
    BY <1>1, <1>3, <1>4, <1>7
  <2>2. ASSUME NEW x \in f.todo
        PROVE  x \in Obj /\ rg[x] = root /\ rank[x] < rank[p] /\ x \in f.types
    <3>1. x \in Obj /\ rg[x] = rg[p] /\ x # p /\ rank[x] <= rank[p] /\ x \in f.types
      BY <1>3, <1>4, <1>7
    <3>2. rank[x] # rank[p]
      BY <2>1, <3>1 DEF RankOf, Ranked
    <3> QED BY <1>3, <1>4, <1>7, <3>1, <3>2
  <2>3. CASE start = None
    <3>1. FromOn(start) = {}
      BY <2>3, FromNullOn
    <3>2. \A x \in f.todo : FALSE
      <4>1. ASSUME NEW x \in f.todo PROVE FALSE
        <5>1. rank[p] <= rank[x]
          BY <1>4, <1>7, <2>1, <2>2, <2>3, LastIsLowest
        <5> QED BY <1>3, <2>1, <2>2, <5>1
      <4> QED BY <4>1
    <3> QED BY <1>5, <2>3, <3>1, <3>2
  <2>4. CASE start # None
    <3>1. /\ start \in Obj /\ rg[start] = root /\ rank[start] < rank[p]
          /\ \A x \in Obj : rg[x] = root /\ rank[x] < rank[p] => rank[x] <= rank[start]
      BY <1>4, <1>7, <2>1, <2>4, RightIsBelow
    <3>2. FromOn(start) = {x \in Obj : rg[x] = root /\ rank[x] <= rank[start]}
      BY <1>3, <3>1, FromOnIsBelow
    <3>3. f.todo \subseteq Remaining(f)
      BY <1>5, <2>2, <3>1, <3>2
    <3>4. ASSUME NEW x \in Remaining(f) PROVE x \in Obj /\ rank[x] < rank[p]
      <4>1. x \in Obj /\ rank[x] <= rank[start]
        BY <1>5, <3>2, <3>4
      <4> QED BY <1>3, <2>1, <3>1, <4>1
    <3>5. f.done \cap Remaining(f) = {}
      <4>1. ASSUME NEW x \in f.done, x \in Remaining(f) PROVE FALSE
        <5>1. rank[p] <= rank[x] /\ rank[x] < rank[p] /\ x \in Obj
          BY <1>4, <1>7, <3>4, <4>1
        <5> QED BY <1>3, <2>1, <5>1
      <4> QED BY <4>1
    <3>6. \A x \in Remaining(f) : rank[x] <= rank[p]
      BY <1>3, <2>1, <3>4
    <3> QED BY <1>1, <1>2, <1>5, <3>1, <3>3, <3>5, <3>6
  <2> QED BY <2>3, <2>4
<1>8. CASE p # None /\ p # f.m_pCurrent
  <2>1. start = p /\ p \in Obj /\ rg[p] = root /\ rg[p] # None
    BY <1>1, <1>3, <1>4, <1>8
  <2>2. FromOn(start) = {x \in Obj : rg[x] = root /\ rank[x] <= rank[p]}
    BY <1>3, <2>1, FromOnIsBelow
  <2>3. f.todo \subseteq Remaining(f)
    BY <1>3, <1>4, <1>5, <2>2
  <2>4. \A x \in Remaining(f) : x \in Obj /\ rg[x] = root /\ rank[x] <= rank[p]
    BY <1>5, <2>2
  <2>5. f.done \cap Remaining(f) = {}
    <3>1. ASSUME NEW x \in f.done, x \in Remaining(f) PROVE FALSE
      <4>1. x \in Obj /\ rg[x] = rg[p] /\ rank[x] <= rank[p] /\ rank[p] <= rank[x] /\ x # p
        BY <1>4, <1>8, <2>1, <2>4, <3>1
      <4>2. rank[x] # rank[p]
        BY <2>1, <4>1 DEF RankOf, Ranked
      <4> QED BY <1>3, <2>1, <4>1, <4>2
    <3> QED BY <3>1
  <2> QED BY <1>1, <1>2, <1>5, <2>1, <2>3, <2>4, <2>5
<1> QED BY <1>6, <1>7, <1>8

\* A loop that begins with the first client of its types stands right.
LEMMA NewFramePlaced ==
  ASSUME NEW rank, RankOf(chain, rank), NEW kind \in {"notify", "iterate"}, NEW m \in Modifies,
         NEW first \in Obj, NEW types \in SUBSET Obj, NEW dead,
         chain.pRegisteredIn[first] = m,
         \A x \in Registered(m) \cap types : rank[x] <= rank[first],
         NEW f, f = NewFrame(kind, m, first, dead, types)
  PROVE  Placed(f, chain.pRegisteredIn, rank)
<1>1. /\ f.kind = kind /\ f.m_rRoot = m /\ f.m_pCurrent = first /\ f.m_pPosition = first
      /\ f.types = types /\ ~f.astray
      /\ f.todo = (Registered(m) \cap types) \ {first}
      /\ f.done = (Registered(m) \cap types) \cap {first}
  BY DEF NewFrame
<1>2. first # None /\ rank[first] \in Nat
  BY NullAssumption DEF Obj, RankOf
<1>3. \A x \in f.todo \cup f.done : chain.pRegisteredIn[x] = m /\ x \in types
  BY <1>1 DEF Registered
<1>4. \A x \in f.todo : rank[x] <= rank[first] /\ x # first
  BY <1>1
<1>5. \A x \in f.done : x = first
  BY <1>1
<1> QED BY <1>1, <1>2, <1>3, <1>4, <1>5 DEF Placed

\* The frame of a destructor has no position.
LEMMA DestroyFramePlaced ==
  ASSUME NEW rg, NEW rank, NEW m \in Modifies, NEW f,
         f = [NewFrame("destroy", m, None, None, {}) EXCEPT !.todo = {}]
  PROVE  Placed(f, rg, rank)
<1>1. f.kind = "destroy" /\ f.m_pCurrent = None /\ f.m_pPosition = None
  BY DEF NewFrame
<1> QED BY <1>1 DEF Placed

\* The step of an iterator to the next client of its types.
LEMMA NextPlaced ==
  ASSUME NEW rank, RankOf(chain, rank), NEW f \in Frame, f.kind # "destroy",
         Placed(f, chain.pRegisteredIn, rank),
         NEW n \in Obj, n = NextPosition(f),
         NEW g, g = [f EXCEPT !.m_pCurrent = n, !.m_pPosition = n, !.todo = @ \ {n},
                              !.done = IF n \in f.todo THEN @ \cup {n} ELSE @]
  PROVE  Placed(g, chain.pRegisteredIn, rank)
<1>1. /\ g.kind = f.kind /\ g.m_rRoot = f.m_rRoot /\ g.m_pCurrent = n /\ g.m_pPosition = n
      /\ g.types = f.types /\ g.astray = f.astray /\ g.todo = f.todo \ {n}
      /\ g.done = IF n \in f.todo THEN f.done \cup {n} ELSE f.done
  BY DEF Frame
<1>2. n # None /\ f.todo \subseteq Obj /\ f.done \subseteq Obj /\ \A o \in Obj : rank[o] \in Nat
  BY NullAssumption DEF Obj, Frame, RankOf
<1>3. CASE f.astray
  BY <1>1, <1>2, <1>3 DEF Placed
<1>4. CASE ~f.astray
  <2>1. PICK start : start = IF f.m_pPosition = f.m_pCurrent
                             THEN chain.m_pRight[f.m_pPosition] ELSE f.m_pPosition
    OBVIOUS
  <2>2. n = FirstOfType(start, f.types)
    BY <2>1 DEF NextPosition
  <2>3. /\ start # None => start \in Obj /\ chain.pRegisteredIn[start] = f.m_rRoot
        /\ Remaining(f) = FromOn(start) \cap f.types
        /\ f.todo \subseteq Remaining(f)
        /\ f.m_pPosition # None => \A x \in Remaining(f) : rank[x] <= rank[f.m_pPosition]
    BY <1>4, <2>1, RemainingPlaced
  <2>4. start # None
    <3>1. ASSUME start = None PROVE FALSE
      <4>1. FromOn(start) = {}
        BY <3>1, FromNullOn
      <4> QED BY <1>2, <2>2, <4>1 DEF FirstOfType
    <3> QED BY <3>1
  <2>5. f.m_rRoot # None
    BY NullAssumption DEF Frame, Obj
  <2>6. /\ n \in f.types /\ chain.pRegisteredIn[n] = f.m_rRoot /\ rank[n] <= rank[start]
        /\ \A x \in Remaining(f) : rank[x] <= rank[n]
    BY <1>2, <2>2, <2>3, <2>4, <2>5, FirstOfTypeIsHighest
  <2>7. f.m_pPosition # None /\ f.m_pPosition \in Obj /\ rank[n] <= rank[f.m_pPosition]
    <3>1. f.m_pPosition # None
      BY <1>2, <1>4, <2>1, <2>4, NullAssumption DEF Placed
    <3>2. f.m_pPosition \in Obj
      BY <3>1 DEF Frame, ObjOrNull
    <3>3. n \in Remaining(f)
      <4>1. n \in FromOn(start)
        <5>1. FromOn(start) = {p \in Obj : /\ chain.pRegisteredIn[p] = chain.pRegisteredIn[start]
                                           /\ rank[p] <= rank[start]}
          BY <2>3, <2>4, <2>5, FromOnIsBelow
        <5> QED BY <2>3, <2>4, <2>6, <5>1
      <4> QED BY <2>3, <2>6, <4>1
    <3> QED BY <2>3, <3>1, <3>2, <3>3
  <2>8. \A x \in g.todo \cup g.done : chain.pRegisteredIn[x] = f.m_rRoot /\ x \in f.types
    <3>1. \A x \in f.todo \cup f.done : chain.pRegisteredIn[x] = f.m_rRoot /\ x \in f.types
      BY <1>4 DEF Placed
    <3> QED BY <1>1, <2>6, <3>1
  <2>9. \A x \in g.todo : rank[x] <= rank[n] /\ x # n
    BY <1>1, <2>3, <2>6
  <2>10. \A x \in g.done : rank[n] <= rank[x]
    <3>1. \A x \in f.done : rank[f.m_pPosition] <= rank[x]
      BY <1>4, <2>7 DEF Placed
    <3>2. ASSUME NEW x \in f.done PROVE rank[n] <= rank[x]
      <4>1. rank[f.m_pPosition] <= rank[x] /\ rank[n] <= rank[f.m_pPosition]
        BY <2>7, <3>1
      <4>2. rank[n] \in Nat /\ rank[x] \in Nat /\ rank[f.m_pPosition] \in Nat
        BY <1>2, <2>7
      <4> QED BY <4>1, <4>2
    <3> QED BY <1>1, <1>2, <3>2
  <2> QED BY <1>1, <1>2, <1>4, <2>6, <2>8, <2>9, <2>10 DEF Placed
<1> QED BY <1>3, <1>4

\* A frame that stands right is put on the stack.
LEMMA PushPlaced ==
  ASSUME NEW fs \in Seq(Frame), NEW rg, NEW rank, AllPlaced(fs, rg, rank),
         NEW f \in Frame, Placed(f, rg, rank)
  PROVE  AllPlaced(Append(fs, f), rg, rank)
<1>1. /\ Len(Append(fs, f)) = Len(fs) + 1 /\ Len(fs) \in Nat
      /\ \A k \in 1 .. Len(fs) : Append(fs, f)[k] = fs[k]
      /\ Append(fs, f)[Len(fs) + 1] = f
  BY AppendProperties
<1>2. \A k \in 1 .. Len(fs) + 1 : k \in 1 .. Len(fs) \/ k = Len(fs) + 1
  BY <1>1
<1> QED BY <1>1, <1>2 DEF AllPlaced

\* The innermost frame is taken from the stack.
LEMMA PopPlaced ==
  ASSUME NEW fs \in Seq(Frame), fs # <<>>, NEW rg, NEW rank, AllPlaced(fs, rg, rank)
  PROVE  AllPlaced(Front(fs), rg, rank)
<1>1. Len(fs) \in Nat \ {0} /\ \A i \in 1 .. Len(fs) - 1 : fs[i] \in Frame
  BY EmptySeq, ElementOfSeq
<1>2. PICK n : n = Len(fs) - 1
  OBVIOUS
<1>3. n \in Nat /\ Front(fs) = SubSeq(fs, 1, n) /\ \A i \in 1 .. n : fs[i] \in Frame
  BY <1>1, <1>2 DEF Front
<1>4. /\ Len(SubSeq(fs, 1, n)) = IF 1 <= n THEN n - 1 + 1 ELSE 0
      /\ \A i \in 1 .. n - 1 + 1 : SubSeq(fs, 1, n)[i] = fs[1 + i - 1]
  BY <1>3, SubSeqProperties
<1>5. n - 1 + 1 = n /\ \A i \in 1 .. n : 1 + i - 1 = i /\ i \in 1 .. Len(fs)
  BY <1>1, <1>2, <1>3
<1>6. PICK gs : gs = Front(fs)
  OBVIOUS
<1>7. Len(gs) = n /\ \A i \in 1 .. n : gs[i] = fs[i] /\ i \in 1 .. Len(fs)
  BY <1>3, <1>4, <1>5, <1>6
<1>8. AllPlaced(gs, rg, rank)
  BY <1>7 DEF AllPlaced
<1> QED BY <1>6, <1>8

-----------------------------------------------------------------------------
(* The invariant is inductive.                                              *)

\* No iterator is there at first.
LEMMA InitIterationInv == ClientsInit => IterationInv
<1> SUFFICES ASSUME ClientsInit PROVE IterationInv
  OBVIOUS
<1>1. IInv
  BY InitIInv
<1>2. PICK rank : RankOf(chain, rank)
  BY <1>1 DEF IInv, Sound, Links, RankOf
<1>3. Len(frames) = 0
  BY EmptySeq DEF ClientsInit
<1>4. AllPlaced(frames, chain.pRegisteredIn, rank)
  BY <1>3 DEF AllPlaced
<1> QED BY <1>2, <1>4 DEF IterationInv

\* It depends on the chains and the stack only.
LEMMA SameKeepsIterationInv ==
  ASSUME IterationInv, UNCHANGED <<chain, frames>>
  PROVE  IterationInv'
BY DEF IterationInv, RankOf

\* A broadcast begins with the first client, a loop with the first one of its types.
LEMMA BeginPlaced ==
  ASSUME IInv, IterationInv, NEW m \in Modifies,
         \/ \E dead \in Modifies \cup {None} : NotifyClients(m, dead)
         \/ \E types \in {Clients, Modifies} : Iterate(m, types)
  PROVE  IterationInv'
<1>1. PICK rank : RankOf(chain, rank) /\ AllPlaced(frames, chain.pRegisteredIn, rank)
  BY DEF IterationInv
<1>2. PICK h : h = chain.m_pWriterListeners[m]
  OBVIOUS
<1>3. /\ frames \in Seq(Frame) /\ UNCHANGED chain /\ life[m] # "dead" /\ m # None
      /\ h \in ObjOrNull /\ rank \in [Obj -> Nat]
  BY <1>1, <1>2, NullAssumption DEF IInv, ClientsTypeOK, NotifyClients, Iterate, RankOf, Chains, Obj
<1>4. h # None => /\ h \in Obj /\ chain.pRegisteredIn[h] = m
                  /\ \A x \in Obj : chain.pRegisteredIn[x] = m => rank[x] <= rank[h]
  <2>1. h # None => chain.pRegisteredIn[h] = m
    BY <1>2, <1>3 DEF IInv, Sound, FirstRegistered
  <2> QED BY <1>1, <1>2, <2>1, FirstIsHighest
<1>5. PICK f \in Frame : Placed(f, chain.pRegisteredIn, rank) /\ frames' = Append(frames, f)
  <2>1. CASE \E dead \in Modifies \cup {None} : NotifyClients(m, dead)
    <3>1. PICK dead \in Modifies \cup {None} : ~Suppressed(m) /\ Broadcast(m, dead, frames)
      BY <2>1 DEF NotifyClients
    <3>2. PICK f : f = NewFrame("notify", m, h, dead, Obj)
      OBVIOUS
    <3>3. h # None
      BY <1>2, <3>1 DEF Suppressed
    <3>4. f \in Frame
      BY <1>3, <3>2, NewFrameType
    <3>5. frames' = Append(frames, f)
      BY <1>2, <1>3, <3>1, <3>2, <3>4, AppendProperties DEF Broadcast
    <3>6. \A x \in Registered(m) \cap Obj : rank[x] <= rank[h]
      BY <1>4, <3>3 DEF Registered
    <3>7. Placed(f, chain.pRegisteredIn, rank)
      BY <1>1, <1>4, <3>2, <3>3, <3>6, NewFramePlaced
    <3> QED BY <3>4, <3>5, <3>7
  <2>2. CASE \E types \in {Clients, Modifies} : Iterate(m, types)
    <3>1. PICK types \in {Clients, Modifies} : Iterate(m, types)
      BY <2>2
    <3>2. PICK first : first = FirstOfType(h, types)
      OBVIOUS
    <3>3. PICK f : f = NewFrame("iterate", m, first, None, types)
      OBVIOUS
    <3>4. first # None /\ frames' = Append(frames, f)
      BY <1>2, <3>1, <3>2, <3>3 DEF Iterate
    <3>5. types \in SUBSET Obj /\ first \in ObjOrNull
      BY <3>2, FirstOfTypeType DEF Obj
    <3>6. f \in Frame
      BY <3>3, <3>5, NewFrameType
    <3>7. h # None
      <4>1. h = None => FromOn(h) = {}
        BY FromNullOn
      <4> QED BY <3>2, <3>4, <4>1 DEF FirstOfType
    <3>8. /\ first \in Obj /\ chain.pRegisteredIn[first] = m
          /\ \A x \in FromOn(h) \cap types : rank[x] <= rank[first]
      BY <1>1, <1>3, <1>4, <3>2, <3>4, <3>7, FirstOfTypeIsHighest
    <3>9. FromOn(h) = Registered(m)
      BY <1>2, <1>3, ChainFromFirst
    <3>10. Placed(f, chain.pRegisteredIn, rank)
      BY <1>1, <3>3, <3>5, <3>8, <3>9, NewFramePlaced
    <3> QED BY <3>4, <3>6, <3>10
  <2> QED BY <2>1, <2>2
<1>6. AllPlaced(frames', chain.pRegisteredIn, rank)
  BY <1>1, <1>3, <1>5, PushPlaced
<1> QED BY <1>1, <1>3, <1>6 DEF IterationInv, RankOf

\* The iteration goes on, or ends.
LEMMA NextStepPlaced == IInv /\ IterationInv /\ Next_ => IterationInv'
<1> SUFFICES ASSUME IInv, IterationInv, Next_ PROVE IterationInv'
  OBVIOUS
<1>1. PICK rank : RankOf(chain, rank) /\ AllPlaced(frames, chain.pRegisteredIn, rank)
  BY DEF IterationInv
<1>2. /\ frames \in Seq(Frame) /\ frames # <<>> /\ UNCHANGED chain
      /\ Innermost.kind # "destroy"
  BY DEF IInv, ClientsTypeOK, Next_
<1>3. Len(frames) \in 1 .. Len(frames) /\ Len(frames) \in Nat \ {0}
  BY <1>2, EmptySeq, LenProperties
<1>4. PICK f : f = Innermost /\ f \in Frame /\ Placed(f, chain.pRegisteredIn, rank)
  BY <1>1, <1>2, <1>3, ElementOfSeq DEF Innermost, AllPlaced
<1>5. AllPlaced(frames', chain.pRegisteredIn, rank)
  <2>1. CASE NextPosition(f) # None
    <3>1. PICK n : n = NextPosition(f)
      OBVIOUS
    <3>2. n \in Obj
      <4>1. f.types \in SUBSET Obj
        BY <1>4 DEF Frame
      <4>2. n \in ObjOrNull
        BY <3>1, <4>1, FirstOfTypeType DEF NextPosition
      <4> QED BY <2>1, <3>1, <4>2 DEF ObjOrNull
    <3>3. PICK g : g = [f EXCEPT !.m_pCurrent = n, !.m_pPosition = n, !.todo = @ \ {n},
                                 !.done = IF n \in f.todo THEN @ \cup {n} ELSE @]
      OBVIOUS
    <3>4. frames' = [frames EXCEPT ![Len(frames)] = g]
      BY <1>4, <2>1, <3>1, <3>3 DEF Next_
    <3>5. g \in Frame
      BY <1>4, <3>2, <3>3 DEF Frame, ObjOrNull
    <3>6. Placed(g, chain.pRegisteredIn, rank)
      BY <1>1, <1>2, <1>4, <3>1, <3>2, <3>3, NextPlaced
    <3>7. /\ Len(frames') = Len(frames)
          /\ \A k \in 1 .. Len(frames) :
               frames'[k] = IF k = Len(frames) THEN g ELSE frames[k]
      BY <1>2, <1>3, <3>4, <3>5, ExceptSeq
    <3> QED BY <1>1, <3>6, <3>7 DEF AllPlaced
  <2>2. CASE NextPosition(f) = None
    <3>1. frames' = Front(frames)
      BY <1>4, <2>2 DEF Next_
    <3> QED BY <1>1, <1>2, <3>1, PopPlaced
  <2> QED BY <2>1, <2>2
<1> QED BY <1>1, <1>2, <1>5 DEF IterationInv, RankOf

\* A destructor begins: its frame, and above it that of the broadcast.
LEMMA DestroyModifyPlaced ==
  ASSUME IInv, IterationInv, NEW m \in Modifies, DestroyModify(m)
  PROVE  IterationInv'
<1>1. PICK rank : RankOf(chain, rank) /\ AllPlaced(frames, chain.pRegisteredIn, rank)
  BY DEF IterationInv
<1>2. PICK rest : rest = [NewFrame("destroy", m, None, None, {}) EXCEPT !.todo = {}]
  OBVIOUS
<1>3. PICK below : below = Append(frames, rest)
  OBVIOUS
<1>4. PICK h : h = chain.m_pWriterListeners[m]
  OBVIOUS
<1>5. /\ frames \in Seq(Frame) /\ UNCHANGED chain /\ life[m] = "alive" /\ h \in ObjOrNull
      /\ IF Suppressed(m) THEN frames' = below ELSE Broadcast(m, m, below)
  BY <1>2, <1>3, <1>4 DEF IInv, ClientsTypeOK, Chains, DestroyModify
<1>6. rest \in Frame
  <2>1. NewFrame("destroy", m, None, None, {}) \in Frame
    BY NewFrameType DEF ObjOrNull
  <2> QED BY <1>2, <2>1 DEF Frame
<1>7. below \in Seq(Frame) /\ AllPlaced(below, chain.pRegisteredIn, rank)
  BY <1>1, <1>2, <1>3, <1>5, <1>6, DestroyFramePlaced, PushPlaced, AppendProperties
<1>8. AllPlaced(frames', chain.pRegisteredIn, rank)
  <2>1. CASE Suppressed(m)
    BY <1>5, <1>7, <2>1
  <2>2. CASE ~Suppressed(m)
    <3>1. PICK f : f = NewFrame("notify", m, h, m, Obj)
      OBVIOUS
    <3>2. f \in Frame
      BY <1>5, <3>1, NewFrameType
    <3>3. frames' = Append(below, f)
      BY <1>4, <1>5, <1>7, <2>2, <3>1, <3>2, AppendProperties DEF Broadcast
    <3>4. h # None /\ h \in Obj
      BY <1>4, <1>5, <2>2 DEF Suppressed, ObjOrNull
    <3>5. chain.pRegisteredIn[h] = m
      BY <1>4, <1>5, <3>4 DEF IInv, Sound, FirstRegistered
    <3>6. \A x \in Registered(m) \cap Obj : rank[x] <= rank[h]
      BY <1>1, <1>4, <3>4, <3>5, FirstIsHighest DEF Registered
    <3>7. Placed(f, chain.pRegisteredIn, rank)
      BY <1>1, <3>1, <3>4, <3>5, <3>6, NewFramePlaced
    <3> QED BY <1>7, <3>2, <3>3, <3>7, PushPlaced
  <2> QED BY <2>1, <2>2
<1> QED BY <1>1, <1>5, <1>8 DEF IterationInv, RankOf

\* A modify that has lost its clients leaves its own chain, and its frame the stack.
LEMMA EndDestroyPlaced == IInv /\ IterationInv /\ EndDestroy => IterationInv'
<1> SUFFICES ASSUME IInv, IterationInv, EndDestroy PROVE IterationInv'
  OBVIOUS
<1>1. PICK rank : RankOf(chain, rank) /\ AllPlaced(frames, chain.pRegisteredIn, rank)
  BY DEF IterationInv
<1>2. PICK m : m = Innermost.m_rRoot
  OBVIOUS
<1>3. ClientsTypeOK /\ frames \in Seq(Frame) /\ frames # <<>>
  BY DEF IInv, ClientsTypeOK, EndDestroy
<1>4. Len(frames) \in 1 .. Len(frames) /\ Len(frames) \in Nat
  BY <1>3, EmptySeq
<1>5. m \in Obj
  <2>1. frames[Len(frames)] \in Frame
    BY <1>3, <1>4, ElementOfSeq
  <2> QED BY <1>2, <2>1 DEF Innermost, Frame, Obj
<1>6. CASE chain.pRegisteredIn[m] # None
  <2>1. PICK fs : fs = Repositioned(m)
    OBVIOUS
  <2>2. chain' = Unlink(chain, m) /\ frames' = Front(fs)
    BY <1>2, <1>6, <2>1 DEF EndDestroy
  <2>3. RankOf(chain', rank) /\ chain'.pRegisteredIn = [chain.pRegisteredIn EXCEPT ![m] = None]
    BY <1>1, <1>5, <1>6, <2>2, UnlinkRankOf
  <2>4. fs \in Seq(Frame) /\ fs # <<>>
    <3>1. fs \in Seq(Frame) /\ Len(fs) = Len(frames)
      BY <1>3, <1>5, <2>1, RepositionedSame DEF SameFrames
    <3> QED BY <1>4, <3>1, EmptySeq
  <2>5. AllPlaced(fs, chain'.pRegisteredIn, rank)
    BY <1>1, <1>3, <1>5, <1>6, <2>1, <2>3, RepositionedAllPlaced
  <2>6. AllPlaced(frames', chain'.pRegisteredIn, rank)
    BY <2>2, <2>4, <2>5, PopPlaced
  <2> QED BY <2>3, <2>6 DEF IterationInv
<1>7. CASE chain.pRegisteredIn[m] = None
  <2>1. chain' = chain /\ frames' = Front(frames)
    BY <1>2, <1>7 DEF EndDestroy
  <2>2. AllPlaced(frames', chain.pRegisteredIn, rank)
    BY <1>1, <1>3, <2>1, PopPlaced
  <2> QED BY <1>1, <2>1, <2>2 DEF IterationInv
<1> QED BY <1>6, <1>7

\* When the document dies no iterator is there.
LEMMA DestroyInDocDTORPlaced ==
  ASSUME IInv, IInv', NEW m \in Modifies, DestroyInDocDTOR(m)
  PROVE  IterationInv'
<1>1. PICK rank : RankOf(chain', rank)
  BY DEF IInv, Sound, Links, RankOf
<1>2. frames' = <<>>
  BY DEF DestroyInDocDTOR
<1>3. Len(frames') = 0
  BY <1>2, EmptySeq
<1>4. AllPlaced(frames', chain'.pRegisteredIn, rank)
  BY <1>3 DEF AllPlaced
<1> QED BY <1>1, <1>4 DEF IterationInv

\* Every step keeps the invariant of the iterations.
LEMMA IterationInvStep == IInv /\ IterationInv /\ [ClientsNext]_clientVars => IterationInv'
<1> SUFFICES ASSUME IInv, IterationInv, [ClientsNext]_clientVars PROVE IterationInv'
  OBVIOUS
<1>1. IInv'
  BY IInvStep
<1>2. ASSUME NEW m \in Modifies, NEW c \in Obj, Add(m, c) PROVE IterationInv'
  BY <1>2, AddedPlaced DEF Add
<1>3. ASSUME NEW c \in Obj, RemoveClient(c) PROVE IterationInv'
  BY <1>3, RemovedPlaced DEF RemoveClient
<1>4. ASSUME NEW c \in Clients, DestroyClient(c) PROVE IterationInv'
  <2>1. c \in Obj
    BY DEF Obj
  <2>2. CASE chain.pRegisteredIn[c] # None
    BY <1>4, <2>1, <2>2, RemovedPlaced DEF DestroyClient
  <2>3. CASE chain.pRegisteredIn[c] = None
    BY <1>4, <2>3, SameKeepsIterationInv DEF DestroyClient
  <2> QED BY <2>2, <2>3
<1>5. ASSUME NEW m \in Modifies, LockModify(m) \/ UnlockModify(m) PROVE IterationInv'
  BY <1>5, SameKeepsIterationInv DEF LockModify, UnlockModify
<1>6. CASE CheckRegistration
  <2>1. PICK c, m : /\ c \in Obj /\ m \in Modifies /\ chain.pRegisteredIn[c] = m
                    /\ TakenFrom(m, c)
    <3>1. Innermost.dead \in Modifies \cup {None}
      <4>1. Len(frames) \in 1 .. Len(frames) /\ frames \in Seq(Frame)
        BY <1>6, EmptySeq DEF CheckRegistration, IInv, ClientsTypeOK
      <4>2. frames[Len(frames)] \in Frame
        BY <4>1, ElementOfSeq
      <4> QED BY <4>2 DEF Innermost, Frame
    <3> QED BY <1>6, <3>1 DEF CheckRegistration, Registered
  <2> QED BY <2>1, TakenFromPlaced
<1>7. CASE RemoveRest
  <2>1. PICK c, m : m = Innermost.m_rRoot /\ c = chain.m_pWriterListeners[m]
    OBVIOUS
  <2>2. c # None /\ TakenFrom(m, c) /\ frames # <<>> /\ Innermost.kind = "destroy"
    BY <1>7, <2>1 DEF RemoveRest
  <2>3. Len(frames) \in 1 .. Len(frames) /\ frames \in Seq(Frame)
    BY <2>2, EmptySeq DEF IInv, ClientsTypeOK
  <2>4. m \in Modifies /\ life[m] = "dying"
    <3>1. frames[Len(frames)] \in Frame
      BY <2>3, ElementOfSeq
    <3> QED BY <2>1, <2>2, <2>3, <3>1 DEF Innermost, Frame, IInv, FramesInv
  <2>5. c \in Obj /\ chain.pRegisteredIn[c] = m
    BY <2>1, <2>2, <2>4 DEF IInv, Sound, FirstRegistered, ClientsTypeOK, Chains, ObjOrNull
  <2> QED BY <2>2, <2>4, <2>5, TakenFromPlaced
<1>8. CASE UNCHANGED clientVars
  BY <1>8, SameKeepsIterationInv DEF clientVars
<1> QED BY <1>1, <1>2, <1>3, <1>4, <1>5, <1>6, <1>7, <1>8, BeginPlaced, NextStepPlaced,
           DestroyModifyPlaced, EndDestroyPlaced, DestroyInDocDTORPlaced DEF ClientsNext

\* Both invariants always hold.
LEMMA InvariantsAlways == ClientsSpec => [](IInv /\ IterationInv)
<1>1. ClientsInit => IInv /\ IterationInv
  BY InitIInv, InitIterationInv
<1>2. (IInv /\ IterationInv) /\ [ClientsNext]_clientVars => (IInv /\ IterationInv)'
  BY IInvStep, IterationInvStep
<1> QED BY <1>1, <1>2, PTL DEF ClientsSpec

-----------------------------------------------------------------------------
(* The theorems.                                                            *)

\* The chain of a modify that is not dead is a doubly linked list of exactly the
\* clients registered in it: Add, Remove and CheckRegistration lose no client and
\* leave no other one in it, in whatever callbacks they are called.
THEOREM ChainsAlwaysWellFormed == ClientsSpec => []ChainsWellFormed
<1>1. IInv /\ LinksMutual => ChainsWellFormed
  BY ChainFromFirst DEF ChainsWellFormed, IInv
<1> QED BY <1>1, IInvAlways, LinksStaySound, PTL

\* An iterator leaves its chain in one way only: the client whose callback runs has
\* gone to another chain and was removed from there, see SwModify::Remove.
THEOREM PositionStaysInChain == ClientsSpec => []PositionInChain
<1>1. IInv /\ IterationInv => PositionInChain
  <2> SUFFICES ASSUME IInv, IterationInv, NEW k \in DOMAIN frames,
                      ~frames[k].astray, frames[k].m_pPosition # None
               PROVE  chain.pRegisteredIn[frames[k].m_pPosition] = frames[k].m_rRoot
    BY DEF PositionInChain
  <2>1. k \in 1 .. Len(frames)
    BY LenProperties DEF IInv, ClientsTypeOK
  <2>2. PICK rank : Placed(frames[k], chain.pRegisteredIn, rank)
    BY <2>1 DEF IterationInv, AllPlaced
  <2> QED BY <2>2 DEF Placed
<1> QED BY <1>1, InvariantsAlways, PTL

\* Every client that is in the chain when a broadcast or a loop begins, and stays
\* there, is visited once, in nested iterations of any depth too: at any time the
\* iterator has all those before it which it has not visited, and no other one.
THEOREM EachVisitedOnce == ClientsSpec => []VisitedExactlyOnce
<1>1. IInv /\ IterationInv => VisitedExactlyOnce
  <2> SUFFICES ASSUME IInv, IterationInv, NEW k \in DOMAIN frames,
                      frames[k].kind # "destroy", ~frames[k].astray
               PROVE  /\ frames[k].todo \subseteq Remaining(frames[k])
                      /\ frames[k].done \cap Remaining(frames[k]) = {}
    BY DEF VisitedExactlyOnce
  <2>1. k \in 1 .. Len(frames) /\ frames \in Seq(Frame)
    BY LenProperties DEF IInv, ClientsTypeOK
  <2>2. PICK f : f = frames[k] /\ f \in Frame
    BY <2>1, ElementOfSeq
  <2>3. PICK rank : RankOf(chain, rank) /\ Placed(f, chain.pRegisteredIn, rank)
    BY <2>1, <2>2 DEF IterationInv, AllPlaced
  <2> QED BY <2>2, <2>3, RemainingPlaced
<1> QED BY <1>1, InvariantsAlways, PTL

\* An iterator that was not led astray does not end before it has visited every
\* client that was in the chain all the time.
NobodyForgotten ==
  \A k \in DOMAIN frames : LET f == frames[k] IN
    f.kind # "destroy" /\ ~f.astray /\ NextPosition(f) = None => f.todo = {}

\* When SwIterator::Next finds no client any more, none was forgotten.
THEOREM EndsWithNobodyForgotten == ClientsSpec => []NobodyForgotten
<1>1. IInv /\ IterationInv => NobodyForgotten
  <2> SUFFICES ASSUME IInv, IterationInv, NEW k \in DOMAIN frames,
                      frames[k].kind # "destroy", ~frames[k].astray,
                      NextPosition(frames[k]) = None
               PROVE  frames[k].todo = {}
    BY DEF NobodyForgotten
  <2>1. k \in 1 .. Len(frames) /\ frames \in Seq(Frame)
    BY LenProperties DEF IInv, ClientsTypeOK
  <2>2. PICK f : f = frames[k] /\ f \in Frame
    BY <2>1, ElementOfSeq
  <2>3. PICK rank : RankOf(chain, rank) /\ Placed(f, chain.pRegisteredIn, rank)
    BY <2>1, <2>2 DEF IterationInv, AllPlaced
  <2>4. PICK start : start = IF f.m_pPosition = f.m_pCurrent
                             THEN chain.m_pRight[f.m_pPosition] ELSE f.m_pPosition
    OBVIOUS
  <2>5. /\ start # None => start \in Obj /\ chain.pRegisteredIn[start] = f.m_rRoot
        /\ Remaining(f) = FromOn(start) \cap f.types /\ f.todo \subseteq Remaining(f)
    BY <2>2, <2>3, <2>4, RemainingPlaced
  <2>6. FirstOfType(start, f.types) = None
    BY <2>2, <2>4 DEF NextPosition
  <2>7. f.m_rRoot # None
    BY <2>2, NullAssumption DEF Frame, Obj
  <2>8. FromOn(start) \cap f.types = {}
    <3>1. CASE start = None
      <4>1. FromOn(start) = {}
        BY <3>1, FromNullOn
      <4> QED BY <4>1
    <3>2. CASE start # None
      BY <2>3, <2>5, <2>6, <2>7, <3>2, FirstOfTypeIsHighest
    <3> QED BY <3>1, <3>2
  <2> QED BY <2>2, <2>5, <2>8
<1> QED BY <1>1, InvariantsAlways, PTL
=============================================================================
