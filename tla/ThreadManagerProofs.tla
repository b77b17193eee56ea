------------------------ MODULE ThreadManagerProofs ------------------------
(***************************************************************************)
(* Proofs about ThreadManager, for every limit mnStartedSize and every     *)
(* number of threads; and about GraphicRetrieval, which extends it, for    *)
(* every number of graphics: what was proved of the thread manager alone   *)
(* holds of it among its users, and no container is forgotten.             *)
(***************************************************************************)
EXTENDS GraphicRetrieval, FiniteSetTheorems, SequenceTheorems, TLAPS

(* Facts about the queue.                                                   *)

\* Taking the front element off a queue without duplicates.
LEMMA TailFacts ==
  ASSUME NEW w \in Seq(ThreadID), w # <<>>, IsInjective(w)
  PROVE  /\ Head(w) \in ThreadID /\ Tail(w) \in Seq(ThreadID)
         /\ Range(w) = {Head(w)} \cup Range(Tail(w))
         /\ Head(w) \notin Range(Tail(w))
         /\ IsInjective(Tail(w))
<1>1. /\ Head(w) \in ThreadID /\ Tail(w) \in Seq(ThreadID)
      /\ Len(w) \in Nat \ {0} /\ DOMAIN w = 1 .. Len(w)
      /\ DOMAIN Tail(w) = 1 .. (Len(w) - 1)
      /\ Head(w) = w[1]
      /\ \A k \in 1 .. (Len(w) - 1) : Tail(w)[k] = w[k + 1]
  OBVIOUS
<1>2. \A k \in 1 .. (Len(w) - 1) : k + 1 \in 1 .. Len(w) /\ k + 1 # 1
  BY <1>1
<1>3. Range(w) = {Head(w)} \cup Range(Tail(w))
  <2>1. ASSUME NEW k \in DOMAIN w  PROVE w[k] \in {Head(w)} \cup Range(Tail(w))
    <3>1. CASE k = 1
      BY <3>1, <1>1
    <3>2. CASE k # 1
      <4>1. k - 1 \in DOMAIN Tail(w) /\ Tail(w)[k - 1] = w[k]
        BY <3>2, <1>1
      <4> QED BY <4>1 DEF Range
    <3> QED BY <3>1, <3>2
  <2>2. Head(w) \in Range(w)
    BY <1>1 DEF Range
  <2>3. Range(Tail(w)) \subseteq Range(w)
    BY <1>1, <1>2 DEF Range
  <2> QED BY <2>1, <2>2, <2>3 DEF Range
<1>4. Head(w) \notin Range(Tail(w))
  BY <1>1, <1>2 DEF Range, IsInjective
<1>5. IsInjective(Tail(w))
  BY <1>1, <1>2 DEF IsInjective
<1> QED BY <1>1, <1>3, <1>4, <1>5

\* Putting an element in front of such a queue.
LEMMA ConsFacts ==
  ASSUME NEW w \in Seq(ThreadID), NEW t \in ThreadID,
         IsInjective(w), t \notin Range(w)
  PROVE  /\ <<t>> \o w \in Seq(ThreadID)
         /\ Range(<<t>> \o w) = {t} \cup Range(w)
         /\ IsInjective(<<t>> \o w)
<1> DEFINE c == <<t>> \o w
<1>1. /\ c \in Seq(ThreadID) /\ Len(w) \in Nat /\ DOMAIN w = 1 .. Len(w)
      /\ DOMAIN c = 1 .. (Len(w) + 1)
      /\ c[1] = t
      /\ \A k \in 2 .. (Len(w) + 1) : c[k] = w[k - 1]
  OBVIOUS
<1> HIDE DEF c
<1>2. \A k \in DOMAIN c : k # 1 => k - 1 \in DOMAIN w /\ c[k] = w[k - 1]
  BY <1>1
<1>3. Range(c) = {t} \cup Range(w)
  <2>1. Range(c) \subseteq {t} \cup Range(w)
    BY <1>1, <1>2 DEF Range
  <2>2. t \in Range(c)
    BY <1>1 DEF Range
  <2>3. ASSUME NEW k \in DOMAIN w  PROVE w[k] \in Range(c)
    <3>1. k + 1 \in DOMAIN c /\ c[k + 1] = w[k]
      BY <1>1
    <3> QED BY <3>1 DEF Range
  <2> QED BY <2>1, <2>2, <2>3 DEF Range
<1>4. IsInjective(c)
  <2> SUFFICES ASSUME NEW a \in DOMAIN c, NEW b \in DOMAIN c, c[a] = c[b]
               PROVE  a = b
    BY DEF IsInjective
  <2>1. CASE a # 1 /\ b # 1
    BY <2>1, <1>1, <1>2 DEF IsInjective
  <2>2. CASE a = 1 \/ b = 1
    BY <2>2, <1>1, <1>2 DEF Range
  <2> QED BY <2>1, <2>2
<1> QED BY <1>1, <1>3, <1>4 DEF c

\* Appending an element to such a queue.
LEMMA AppendFacts ==
  ASSUME NEW w \in Seq(ThreadID), NEW t \in ThreadID,
         IsInjective(w), t \notin Range(w)
  PROVE  /\ Append(w, t) \in Seq(ThreadID)
         /\ Range(Append(w, t)) = {t} \cup Range(w)
         /\ IsInjective(Append(w, t))
<1> DEFINE c == Append(w, t)
<1>1. /\ c \in Seq(ThreadID) /\ Len(w) \in Nat /\ DOMAIN w = 1 .. Len(w)
      /\ DOMAIN c = 1 .. (Len(w) + 1)
      /\ c[Len(w) + 1] = t
      /\ \A k \in 1 .. Len(w) : c[k] = w[k]
  BY AppendProperties
<1> HIDE DEF c
<1>2. Range(c) = {t} \cup Range(w)
  <2>1. Range(c) \subseteq {t} \cup Range(w)
    BY <1>1 DEF Range
  <2>2. t \in Range(c)
    BY <1>1 DEF Range
  <2>3. Range(w) \subseteq Range(c)
    BY <1>1 DEF Range
  <2> QED BY <2>1, <2>2, <2>3
<1>3. IsInjective(c)
  BY <1>1 DEF IsInjective, Range
<1> QED BY <1>1, <1>2, <1>3 DEF c

\* Erasing one element of such a queue.
LEMMA RemoveAtFacts ==
  ASSUME NEW w \in Seq(ThreadID), IsInjective(w), NEW k \in DOMAIN w
  PROVE  /\ RemoveAt(w, k) \in Seq(ThreadID)
         /\ Range(RemoveAt(w, k)) \subseteq Range(w) \ {w[k]}
         /\ IsInjective(RemoveAt(w, k))
<1> DEFINE p == SubSeq(w, 1, k - 1)
           q == SubSeq(w, k + 1, Len(w))
           r == RemoveAt(w, k)
<1>1. Len(w) \in Nat /\ DOMAIN w = 1 .. Len(w) /\ k \in 1 .. Len(w)
  OBVIOUS
<1>2. /\ p \in Seq(ThreadID) /\ Len(p) = k - 1
      /\ \A a \in 1 .. (k - 1) : p[a] = w[a]
  BY <1>1
<1>3. /\ q \in Seq(ThreadID) /\ Len(q) = Len(w) - k
      /\ \A a \in 1 .. (Len(w) - k) : q[a] = w[a + k]
  BY <1>1
<1>4. r = p \o q
  BY DEF RemoveAt
<1> HIDE DEF p, q, r
<1>5. /\ r \in Seq(ThreadID) /\ Len(r) = Len(w) - 1
      /\ DOMAIN r = 1 .. (Len(w) - 1)
      /\ \A a \in DOMAIN r : r[a] = IF a < k THEN w[a] ELSE w[a + 1]
  <2>1. /\ r \in Seq(ThreadID) /\ Len(r) = Len(p) + Len(q)
        /\ \A a \in 1 .. Len(p) + Len(q) :
             r[a] = IF a <= Len(p) THEN p[a] ELSE q[a - Len(p)]
    BY <1>2, <1>3, <1>4, ConcatProperties
  <2>2. Len(r) = Len(w) - 1 /\ DOMAIN r = 1 .. (Len(w) - 1)
    BY <1>1, <1>2, <1>3, <2>1
  <2>3. ASSUME NEW a \in DOMAIN r
        PROVE  r[a] = IF a < k THEN w[a] ELSE w[a + 1]
    <3>1. CASE a < k
      BY <3>1, <2>1, <2>2, <1>1, <1>2
    <3>2. CASE ~(a < k)
      <4>1. a - (k - 1) \in 1 .. (Len(w) - k) /\ (a - (k - 1)) + k = a + 1
        BY <3>2, <2>2, <1>1
      <4>2. a \in 1 .. Len(p) + Len(q) /\ ~(a <= Len(p))
        BY <3>2, <2>1, <2>2, <1>1, <1>2, <1>3
      <4>3. r[a] = q[a - (k - 1)]
        BY <4>2, <2>1, <1>2
      <4>4. q[a - (k - 1)] = w[(a - (k - 1)) + k]
        BY <4>1, <1>3
      <4> QED BY <3>2, <4>1, <4>3, <4>4
    <3> QED BY <3>1, <3>2
  <2> QED BY <2>1, <2>2, <2>3
<1>6. \A a \in DOMAIN r :
         LET b == IF a < k THEN a ELSE a + 1
         IN  b \in DOMAIN w /\ b # k /\ r[a] = w[b]
  BY <1>1, <1>5
<1>7. Range(r) \subseteq Range(w) \ {w[k]}
  BY <1>6 DEF Range, IsInjective
<1>8. IsInjective(r)
  BY <1>1, <1>5, <1>6 DEF IsInjective
<1> QED BY <1>5, <1>7, <1>8 DEF r

-----------------------------------------------------------------------------
(* The inductive invariant.  Its first part is stated for the arguments of   *)
(* the helpers StartThread and TryToStart, which run in the middle of a      *)
(* method.                                                                   *)

\* A scheduled idle handler means that a start failed with nothing started,
\* and from then on threads are only started within the limit: this is what
\* keeps the idle handler, which ignores the limit, to one thread above it.
QueueInv(w, s, i, l, j) ==
  /\ w \in Seq(ThreadID) /\ s \in SUBSET ThreadID /\ i \in BOOLEAN
  /\ l \in [ThreadID -> Life] /\ j \in SUBSET ThreadID
  /\ IsInjective(w) /\ Range(w) \cap s = {}
  /\ \A u \in Range(w) : l[u] = "ready"
  /\ \A u \in s : l[u] \in {"running", "finished"}
  /\ Cardinality(s) <= mnStartedSize + 1
  /\ i => Cardinality(s) <= mnStartedSize

\* Each executing thread is known to a living joiner.
JoinInv(l, j) ==
  joiner => \A u \in ThreadID : l[u] \in {"running", "finished"} => u \in j \cup handed

IInv ==
  /\ TypeOK
  /\ QueueInv(maWaitingForStartThreads, maStartedThreads, maStartNewThreadIdle,
              life, jobs)
  /\ JoinInv(life, jobs)
  /\ NoStrandedThread
  /\ \A u \in ThreadID : u > mnThreadIDCounter <=> life[u] = "unborn"

\* Sets of threads are finite; adding or removing a thread changes their size
\* by one.
LEMMA StartedSize ==
  ASSUME NEW s \in SUBSET ThreadID, NEW t \in ThreadID
  PROVE  /\ Cardinality(s) \in Nat /\ Cardinality({}) = 0
         /\ t \in s => /\ Cardinality(s \ {t}) = Cardinality(s) - 1
                       /\ Cardinality(s) > 0
         /\ t \notin s => Cardinality(s \cup {t}) = Cardinality(s) + 1
<1>1. IsFiniteSet(s)
  <2>1. IsFiniteSet(ThreadID)
    BY MaxThreadsAssumption, FS_Interval DEF ThreadID
  <2> QED BY <2>1, FS_Subset
<1>2. Cardinality(s) \in Nat /\ Cardinality({}) = 0
  BY <1>1, FS_CardinalityType, FS_EmptySet
<1>3. t \notin s => Cardinality(s \cup {t}) = Cardinality(s) + 1
  BY <1>1, FS_AddElement
<1>4. t \in s => /\ Cardinality(s \ {t}) = Cardinality(s) - 1
                 /\ Cardinality(s) > 0
  <2>1. IsFiniteSet(s \ {t}) /\ Cardinality(s \ {t}) \in Nat
    BY <1>1, FS_Subset, FS_CardinalityType
  <2>2. t \in s => Cardinality((s \ {t}) \cup {t}) = Cardinality(s \ {t}) + 1
    BY <2>1, FS_AddElement
  <2>3. t \in s => (s \ {t}) \cup {t} = s
    OBVIOUS
  <2>4. t \in s => Cardinality(s) = Cardinality(s \ {t}) + 1
    BY <2>2, <2>3
  <2> QED BY <2>1, <2>4, <1>2
<1> QED BY <1>2, <1>3, <1>4

\* What StartThread does with the values a method hands it.
LEMMA StartThreadFacts ==
  ASSUME NEW t \in ThreadID, NEW w, NEW s, NEW i, NEW l, NEW j, NEW ok \in BOOLEAN,
         QueueInv(w, s, i, l, j), JoinInv(l, j),
         t \notin Range(w), l[t] = "ready",
         Cardinality(s) <= mnStartedSize, i => Cardinality(s) < mnStartedSize,
         StartThread(t, w, s, i, l, j, ok)
  PROVE  /\ QueueInv(maWaitingForStartThreads', maStartedThreads',
                     maStartNewThreadIdle', life', jobs')
         /\ JoinInv(life', jobs')
         /\ maStartedThreads' = {} => maStartNewThreadIdle'
         /\ \A u \in ThreadID : life'[u] = "unborn" <=> l[u] = "unborn"
<1> USE DEF QueueInv
<1>1. t \notin s
  OBVIOUS
<1>2. /\ Cardinality(s) \in Nat /\ Cardinality({}) = 0
      /\ Cardinality(s \cup {t}) = Cardinality(s) + 1
  BY <1>1, StartedSize
<1>3. mnStartedSize \in Nat \ {0}
  BY StartedSizeAssumption
<1>4. CASE ok /\ StartSucceeds(t, w, s, i, l, j)
  <2>1. /\ maWaitingForStartThreads' = w /\ maStartedThreads' = s \cup {t}
        /\ maStartNewThreadIdle' = i /\ life' = [l EXCEPT ![t] = "running"]
        /\ jobs' = IF joiner THEN j \cup {t} ELSE j
    BY <1>4 DEF StartSucceeds
  <2>2. life' \in [ThreadID -> Life] /\ jobs' \in SUBSET ThreadID
    BY <2>1 DEF Life
  <2>3. /\ \A u \in Range(w) : life'[u] = "ready"
        /\ \A u \in s \cup {t} : life'[u] \in {"running", "finished"}
    BY <2>1, RangeOfSeq
  <2>4. QueueInv(maWaitingForStartThreads', maStartedThreads',
                 maStartNewThreadIdle', life', jobs')
    BY <2>1, <2>2, <2>3, <1>2, <1>3
  <2>5. JoinInv(life', jobs')
    BY <2>1 DEF JoinInv
  <2> QED BY <2>1, <2>4, <2>5
<1>5. CASE ~ok /\ StartFails(t, w, s, i, l, j)
  <2>1. /\ maWaitingForStartThreads' = <<t>> \o w /\ maStartedThreads' = s
        /\ maStartNewThreadIdle' = (i \/ s = {}) /\ life' = l /\ jobs' = j
    BY <1>5 DEF StartFails
  <2>2. /\ maWaitingForStartThreads' \in Seq(ThreadID)
        /\ Range(maWaitingForStartThreads') = {t} \cup Range(w)
        /\ IsInjective(maWaitingForStartThreads')
    BY <2>1, ConsFacts
  <2>3. QueueInv(maWaitingForStartThreads', maStartedThreads',
                 maStartNewThreadIdle', life', jobs')
    BY <2>1, <2>2, <1>1, <1>2, <1>3
  <2> QED BY <2>1, <2>3 DEF JoinInv
<1> QED BY <1>4, <1>5 DEF StartThread

\* What TryToStartNewThread does with the values a method hands it.
LEMMA TryToStartFacts ==
  ASSUME NEW w, NEW s, NEW i, NEW l, NEW j, NEW ok \in BOOLEAN,
         QueueInv(w, s, i, l, j), JoinInv(l, j),
         Cardinality(s) <= mnStartedSize, i => Cardinality(s) < mnStartedSize,
         TryToStart(w, s, i, l, j, ok)
  PROVE  /\ QueueInv(maWaitingForStartThreads', maStartedThreads',
                     maStartNewThreadIdle', life', jobs')
         /\ JoinInv(life', jobs')
         /\ \/ maStartedThreads' = {} => maStartNewThreadIdle'
            \/ mbStartingOfThreadsSuspended
            \/ maWaitingForStartThreads' = <<>>
         /\ \A u \in ThreadID : life'[u] = "unborn" <=> l[u] = "unborn"
<1>1. CASE w # <<>> /\ StartThread(Head(w), Tail(w), s, i, l, j, ok)
  <2>1. /\ Head(w) \in ThreadID /\ Tail(w) \in Seq(ThreadID)
        /\ Range(w) = {Head(w)} \cup Range(Tail(w))
        /\ Head(w) \notin Range(Tail(w)) /\ IsInjective(Tail(w))
    BY <1>1, TailFacts DEF QueueInv
  <2>2. QueueInv(Tail(w), s, i, l, j) /\ l[Head(w)] = "ready"
    BY <2>1 DEF QueueInv
  <2> QED BY <1>1, <2>1, <2>2, StartThreadFacts
<1>2. CASE /\ mbStartingOfThreadsSuspended \/ w = <<>>
           /\ NothingToStart(w, s, i, l, j)
  BY <1>2 DEF NothingToStart
<1> QED BY <1>1, <1>2 DEF TryToStart

\* RemoveThread, entered with life cycles that differ from the present ones at
\* most by the end of the removed thread.
LEMMA RemoveFromFacts ==
  ASSUME NEW t \in ThreadID, NEW fin \in BOOLEAN, NEW ok \in BOOLEAN,
         NEW l, IInv, ~resuming, RemoveFrom(t, fin, l, ok),
         \/ fin = FALSE /\ l = life
         \/ /\ fin = TRUE /\ life[t] = "finished"
            /\ l = [life EXCEPT ![t] = "terminated"],
         UNCHANGED <<mbStartingOfThreadsSuspended, resuming>>
  PROVE  /\ QueueInv(maWaitingForStartThreads', maStartedThreads',
                     maStartNewThreadIdle', life', jobs')
         /\ JoinInv(life', jobs')
         /\ NoStrandedThread'
         /\ \A u \in ThreadID : life'[u] = "unborn" <=> life[u] = "unborn"
<1> DEFINE w == maWaitingForStartThreads
           s == maStartedThreads
           i == maStartNewThreadIdle
<1> USE DEF Waiting
<1>1. QueueInv(w, s, i, life, jobs) /\ JoinInv(life, jobs) /\ NoStrandedThread
  BY DEF IInv
<1>2. /\ l \in [ThreadID -> Life]
      /\ \A u \in ThreadID : u # t => l[u] = life[u]
      /\ l[t] = life[t] \/ (l[t] = "terminated" /\ life[t] = "finished")
  BY <1>1 DEF QueueInv, Life
<1>3. /\ \A u \in Range(w) : u \in ThreadID /\ l[u] = "ready"
      /\ \A u \in s \ {t} : l[u] \in {"running", "finished"}
  BY <1>1, <1>2, RangeOfSeq DEF QueueInv
<1>4. \A u \in ThreadID : l[u] = "unborn" <=> life[u] = "unborn"
  BY <1>2
<1>5. CASE t \in maStartedThreads
  <2> DEFINE j == IF fin /\ joiner THEN jobs \ {t} ELSE jobs
  <2>1. TryToStart(w, s \ {t}, i, l, j, ok)
    BY <1>5 DEF RemoveFrom
  <2>2. /\ Cardinality(s) \in Nat /\ Cardinality(s \ {t}) = Cardinality(s) - 1
    BY <1>1, <1>5, StartedSize DEF QueueInv
  <2>3. /\ QueueInv(w, s \ {t}, i, l, j)
        /\ Cardinality(s \ {t}) <= mnStartedSize
        /\ i => Cardinality(s \ {t}) < mnStartedSize
    BY <1>1, <1>2, <1>3, <2>2, StartedSizeAssumption DEF QueueInv
  <2>4. JoinInv(l, j)
    BY <1>1, <1>2 DEF JoinInv
  <2>5. /\ QueueInv(maWaitingForStartThreads', maStartedThreads',
                    maStartNewThreadIdle', life', jobs')
        /\ JoinInv(life', jobs')
        /\ \/ maStartedThreads' = {} => maStartNewThreadIdle'
           \/ mbStartingOfThreadsSuspended
           \/ maWaitingForStartThreads' = <<>>
        /\ \A u \in ThreadID : life'[u] = "unborn" <=> l[u] = "unborn"
    BY <2>1, <2>3, <2>4, TryToStartFacts
  <2> QED BY <2>5, <1>4 DEF NoStrandedThread
<1>6. CASE t \notin maStartedThreads /\ t \in Range(maWaitingForStartThreads)
  <2>1. PICK k \in DOMAIN w :
          /\ w[k] = t
          /\ NothingToStart(RemoveAt(w, k), s, i, [l EXCEPT ![t] = "discarded"], jobs)
    BY <1>6 DEF RemoveFrom
  <2>2. /\ w' = RemoveAt(w, k) /\ s' = s /\ i' = i /\ jobs' = jobs
        /\ life' = [l EXCEPT ![t] = "discarded"]
    BY <2>1 DEF NothingToStart
  <2>3. /\ w' \in Seq(ThreadID) /\ Range(w') \subseteq Range(w) \ {t}
        /\ IsInjective(w')
    BY <1>1, <2>1, <2>2, RemoveAtFacts DEF QueueInv
  <2>4. w # <<>>
    BY <2>1
  <2>5. l[t] = "ready" /\ life[t] = "ready"
    BY <1>6, <1>1, <1>3 DEF QueueInv
  <2>6. QueueInv(w', s', i', life', jobs')
    BY <1>1, <1>2, <1>3, <1>6, <2>2, <2>3 DEF QueueInv, Life
  <2>7. JoinInv(life', jobs')
    BY <1>1, <1>2, <2>2 DEF JoinInv
  <2>8. NoStrandedThread'
    BY <1>1, <2>2, <2>4 DEF NoStrandedThread
  <2>9. \A u \in ThreadID : life'[u] = "unborn" <=> life[u] = "unborn"
    BY <1>2, <2>2, <2>5
  <2> QED BY <2>6, <2>7, <2>8, <2>9
<1>7. CASE t \notin maStartedThreads /\ t \notin Range(maWaitingForStartThreads)
  <2>1. w' = w /\ s' = s /\ i' = i /\ life' = l /\ jobs' = jobs
    BY <1>7 DEF RemoveFrom, NothingToStart
  <2>2. QueueInv(w', s', i', life', jobs')
    BY <1>1, <1>2, <1>3, <1>7, <2>1 DEF QueueInv
  <2>3. JoinInv(life', jobs')
    BY <1>1, <1>2, <2>1 DEF JoinInv
  <2>4. NoStrandedThread'
    BY <1>1, <2>1 DEF NoStrandedThread
  <2> QED BY <1>4, <2>1, <2>2, <2>3, <2>4
<1> QED BY <1>5, <1>6, <1>7

-----------------------------------------------------------------------------
\* The invariant holds in the initial states.
LEMMA IInvInit == Init => IInv
<1> SUFFICES ASSUME Init PROVE IInv
  OBVIOUS
<1> USE StartedSizeAssumption, MaxThreadsAssumption DEF Init
<1>1. Range(<<>>) = {} /\ IsInjective(<<>>) /\ <<>> \in Seq(ThreadID)
  BY DEF Range, IsInjective
<1>2. Cardinality({}) = 0
  BY FS_EmptySet
<1>3. life \in [ThreadID -> Life]
  BY DEF Life
<1>4. TypeOK
  <2>1. mnThreadIDCounter \in 0 .. MaxThreads
    OBVIOUS
  <2>2. maWaitingForStartThreads \in Seq(ThreadID)
    BY <1>1
  <2> QED BY <1>3, <2>1, <2>2 DEF TypeOK
<1>7. QueueInv(maWaitingForStartThreads, maStartedThreads, maStartNewThreadIdle,
               life, jobs)
  <2>1. maWaitingForStartThreads \in Seq(ThreadID) /\ IsInjective(maWaitingForStartThreads)
        /\ Range(maWaitingForStartThreads) = {}
    BY <1>1
  <2>2. Cardinality(maStartedThreads) <= mnStartedSize + 1
    BY <1>2
  <2> QED BY <1>3, <2>1, <2>2 DEF QueueInv
<1>5. JoinInv(life, jobs) /\ NoStrandedThread
  BY DEF JoinInv, NoStrandedThread
<1>6. \A u \in ThreadID : u > mnThreadIDCounter <=> life[u] = "unborn"
  BY DEF ThreadID
<1> QED BY <1>4, <1>5, <1>6, <1>7 DEF IInv

\* Every step keeps it.
LEMMA IInvStep == IInv /\ [Next]_vars => IInv'
<1> SUFFICES ASSUME IInv, [Next]_vars PROVE IInv'
  OBVIOUS
<1> USE StartedSizeAssumption, MaxThreadsAssumption
<1> DEFINE q == QueueInv(maWaitingForStartThreads, maStartedThreads,
                         maStartNewThreadIdle, life, jobs)
<1>0. TypeOK /\ q /\ JoinInv(life, jobs) /\ NoStrandedThread
      /\ \A u \in ThreadID : u > mnThreadIDCounter <=> life[u] = "unborn"
  BY DEF IInv
<1>1. ASSUME NEW ok \in BOOLEAN, AddThread(ok)  PROVE IInv'
  <2> DEFINE t == mnThreadIDCounter + 1
             l == [life EXCEPT ![t] = "ready"]
             w == maWaitingForStartThreads
             s == maStartedThreads
             i == maStartNewThreadIdle
  <2>1. t \in ThreadID /\ life[t] = "unborn" /\ mnThreadIDCounter' = t
        /\ t \in 0 .. MaxThreads
    BY <1>0, <1>1 DEF AddThread, TypeOK, ThreadID
  <2>2. t \notin Range(w) /\ t \notin s
    BY <1>0, <2>1 DEF QueueInv
  <2>3. l \in [ThreadID -> Life] /\ l[t] = "ready"
        /\ \A u \in ThreadID : u # t => l[u] = life[u]
    BY <1>0, <2>1 DEF QueueInv, Life
  <2>4. /\ \A u \in Range(w) : l[u] = "ready"
        /\ \A u \in s : l[u] \in {"running", "finished"}
    BY <1>0, <2>2, <2>3, RangeOfSeq DEF QueueInv
  <2>5. QueueInv(w, s, i, l, jobs) /\ JoinInv(l, jobs)
    BY <1>0, <2>3, <2>4 DEF QueueInv, JoinInv
  <2>6. Cardinality(s) \in Nat
    BY <1>0, <2>1, StartedSize DEF QueueInv
  <2>7. \A u \in ThreadID : u > t <=> l[u] = "unborn"
    BY <1>0, <2>1, <2>3 DEF ThreadID, TypeOK
  <2>8. /\ QueueInv(w', s', i', life', jobs') /\ JoinInv(life', jobs')
        /\ NoStrandedThread'
        /\ \A u \in ThreadID : life'[u] = "unborn" <=> l[u] = "unborn"
    <3>1. CASE /\ Cardinality(s) < mnStartedSize
               /\ StartThread(t, w, s, i, l, jobs, ok)
      <4> HIDE DEF t, l, w, s, i
      <4>1. /\ QueueInv(maWaitingForStartThreads', maStartedThreads',
                        maStartNewThreadIdle', life', jobs')
            /\ JoinInv(life', jobs')
            /\ maStartedThreads' = {} => maStartNewThreadIdle'
            /\ \A u \in ThreadID : life'[u] = "unborn" <=> l[u] = "unborn"
        BY <3>1, <2>1, <2>2, <2>3, <2>5, <2>6, StartThreadFacts
      <4> QED BY <4>1 DEF NoStrandedThread, w, s, i
    <3>2. CASE /\ Cardinality(s) >= mnStartedSize \/ mbStartingOfThreadsSuspended
               /\ NothingToStart(Append(w, t), s, i, l, jobs)
      <4>1. /\ w' = Append(w, t) /\ s' = s /\ i' = i /\ life' = l /\ jobs' = jobs
            /\ mbStartingOfThreadsSuspended' = mbStartingOfThreadsSuspended
        BY <3>2, <1>1 DEF NothingToStart, AddThread
      <4>2. /\ w' \in Seq(ThreadID) /\ Range(w') = {t} \cup Range(w)
            /\ IsInjective(w')
        BY <4>1, <2>1, <2>2, <2>5, AppendFacts DEF QueueInv
      <4>3. QueueInv(w', s', i', life', jobs')
        BY <4>1, <4>2, <2>2, <2>3, <2>5 DEF QueueInv
      <4>4. s # {} \/ mbStartingOfThreadsSuspended
        BY <3>2, FS_EmptySet
      <4> QED BY <4>1, <4>3, <4>4, <2>5 DEF NoStrandedThread
    <3> QED BY <3>1, <3>2, <1>1 DEF AddThread
  <2>9. /\ UNCHANGED <<mbStartingOfThreadsSuspended, resuming, joiner, handed>>
    BY <1>1 DEF AddThread
  <2>10. TypeOK'
    BY <1>0, <2>1, <2>8, <2>9 DEF TypeOK, QueueInv
  <2>11. (\A u \in ThreadID : u > mnThreadIDCounter <=> life[u] = "unborn")'
    BY <2>1, <2>7, <2>8
  <2> QED BY <2>8, <2>9, <2>10, <2>11 DEF IInv, JoinInv
<1>2. ASSUME NEW t \in ThreadID, NEW fin \in BOOLEAN, NEW ok \in BOOLEAN, NEW l,
             ~resuming, RemoveFrom(t, fin, l, ok),
             \/ fin = FALSE /\ l = life
             \/ /\ fin = TRUE /\ life[t] = "finished"
                /\ l = [life EXCEPT ![t] = "terminated"],
             UNCHANGED <<mnThreadIDCounter, mbStartingOfThreadsSuspended,
                         resuming, joiner, handed>>
      PROVE  IInv'
  <2>1. /\ QueueInv(maWaitingForStartThreads', maStartedThreads',
                    maStartNewThreadIdle', life', jobs')
        /\ JoinInv(life', jobs')
        /\ NoStrandedThread'
        /\ \A u \in ThreadID : life'[u] = "unborn" <=> life[u] = "unborn"
    BY <1>2, RemoveFromFacts
  <2>2. TypeOK'
    BY <1>0, <1>2, <2>1 DEF TypeOK, QueueInv
  <2>3. (\A u \in ThreadID : u > mnThreadIDCounter <=> life[u] = "unborn")'
    BY <1>0, <1>2, <2>1
  <2> QED BY <1>2, <2>1, <2>2, <2>3 DEF IInv, JoinInv
<1>3. ASSUME NEW t \in ThreadID, NEW ok \in BOOLEAN, RemoveThread(t, ok)
      PROVE  IInv'
  BY <1>2, <1>3 DEF RemoveThread
<1>4. CASE SuspendStartingOfThreads
  BY <1>0, <1>4 DEF SuspendStartingOfThreads, queueVars, IInv, TypeOK, JoinInv,
                    NoStrandedThread
<1>5. CASE ResumeStartingOfThreads
  BY <1>0, <1>5 DEF ResumeStartingOfThreads, queueVars, IInv, TypeOK, JoinInv,
                    NoStrandedThread
<1>6. ASSUME NEW i \in BOOLEAN, NEW ok \in BOOLEAN,
             i => maStartNewThreadIdle,
             Cardinality(maStartedThreads) <= mnStartedSize,
             i => Cardinality(maStartedThreads) < mnStartedSize,
             TryToStart(maWaitingForStartThreads, maStartedThreads, i, life, jobs, ok),
             mbStartingOfThreadsSuspended' = mbStartingOfThreadsSuspended,
             resuming' \in BOOLEAN,
             UNCHANGED <<mnThreadIDCounter, joiner, handed>>
      PROVE  IInv'
  <2>1. QueueInv(maWaitingForStartThreads, maStartedThreads, i, life, jobs)
    BY <1>0, <1>6 DEF QueueInv
  <2>2. /\ QueueInv(maWaitingForStartThreads', maStartedThreads',
                    maStartNewThreadIdle', life', jobs')
        /\ JoinInv(life', jobs')
        /\ \/ maStartedThreads' = {} => maStartNewThreadIdle'
           \/ mbStartingOfThreadsSuspended
           \/ maWaitingForStartThreads' = <<>>
        /\ \A u \in ThreadID : life'[u] = "unborn" <=> life[u] = "unborn"
    BY <1>0, <1>6, <2>1, TryToStartFacts
  <2>3. TypeOK'
    BY <1>0, <1>6, <2>2 DEF TypeOK, QueueInv
  <2>4. NoStrandedThread'
    BY <1>6, <2>2 DEF NoStrandedThread
  <2>5. (\A u \in ThreadID : u > mnThreadIDCounter <=> life[u] = "unborn")'
    BY <1>0, <1>6, <2>2
  <2> QED BY <1>6, <2>2, <2>3, <2>4, <2>5 DEF IInv, JoinInv
<1>7. ASSUME NEW ok \in BOOLEAN, ResumeIteration(ok)  PROVE IInv'
  <2>1. CASE /\ Cardinality(maStartedThreads) < mnStartedSize
             /\ TryToStart(maWaitingForStartThreads, maStartedThreads,
                           maStartNewThreadIdle, life, jobs, ok)
             /\ resuming' = (ok \/ maStartedThreads # {})
    <3>1. maStartNewThreadIdle \in BOOLEAN /\ Cardinality(maStartedThreads) \in Nat
      <4>1. maStartedThreads \in SUBSET ThreadID /\ maStartNewThreadIdle \in BOOLEAN
        BY <1>0 DEF TypeOK
      <4>2. IsFiniteSet(maStartedThreads)
        <5>1. IsFiniteSet(ThreadID)
          BY FS_Interval DEF ThreadID
        <5> QED BY <4>1, <5>1, FS_Subset
      <4> QED BY <4>1, <4>2, FS_CardinalityType
    <3>2. resuming' \in BOOLEAN
      BY <2>1
    <3> QED BY <2>1, <3>1, <3>2, <1>6, <1>7 DEF ResumeIteration
  <2>2. CASE /\ \/ Cardinality(maStartedThreads) >= mnStartedSize
                \/ maWaitingForStartThreads = <<>>
             /\ resuming' = FALSE
             /\ UNCHANGED queueVars
    <3>1. maWaitingForStartThreads = <<>> \/ maStartedThreads # {}
      BY <2>2, FS_EmptySet
    <3> QED BY <1>0, <1>7, <2>2, <3>1 DEF ResumeIteration, queueVars, IInv, TypeOK,
                                          JoinInv, NoStrandedThread
  <2> QED BY <1>7, <2>1, <2>2 DEF ResumeIteration
<1>8. ASSUME NEW ok \in BOOLEAN, IdleFires(ok)  PROVE IInv'
  <2>1. Cardinality(maStartedThreads) <= mnStartedSize /\ resuming \in BOOLEAN
    BY <1>0, <1>8 DEF IdleFires, QueueInv, TypeOK
  <2> QED BY <2>1, <1>6, <1>8 DEF IdleFires
<1>9. ASSUME NEW t \in ThreadID, ThreadFinishes(t)  PROVE IInv'
  <2>1. /\ life' \in [ThreadID -> Life] /\ life[t] = "running" /\ life'[t] = "finished"
        /\ \A u \in ThreadID : u # t => life'[u] = life[u]
    BY <1>0, <1>9 DEF ThreadFinishes, TypeOK, Life
  <2>2. QueueInv(maWaitingForStartThreads', maStartedThreads',
                 maStartNewThreadIdle', life', jobs')
    <3>1. /\ \A u \in Range(maWaitingForStartThreads) : life'[u] = "ready"
          /\ \A u \in maStartedThreads : life'[u] \in {"running", "finished"}
      BY <1>0, <2>1, RangeOfSeq DEF QueueInv
    <3> QED BY <1>0, <1>9, <2>1, <3>1 DEF ThreadFinishes, QueueInv
  <2>3. JoinInv(life', jobs')
    BY <1>0, <1>9, <2>1 DEF ThreadFinishes, JoinInv
  <2> QED BY <1>0, <1>9, <2>1, <2>2, <2>3
          DEF ThreadFinishes, IInv, TypeOK, NoStrandedThread, JoinInv
<1>10. ASSUME NEW t \in ThreadID, NEW ok \in BOOLEAN, OnTerminated(t, ok)
       PROVE  IInv'
  BY <1>2, <1>10 DEF OnTerminated
<1>11. CASE JoinerCancelsAllJobs
  BY <1>0, <1>11 DEF JoinerCancelsAllJobs, IInv, TypeOK, QueueInv, JoinInv,
                     NoStrandedThread
<1>12. CASE JoinerReleased
  BY <1>0, <1>12 DEF JoinerReleased, IInv, TypeOK, QueueInv, JoinInv, NoStrandedThread
<1>13. CASE UNCHANGED vars
  BY <1>0, <1>13 DEF vars, IInv, TypeOK, QueueInv, JoinInv, NoStrandedThread
<1> QED BY <1>1, <1>3, <1>4, <1>5, <1>7, <1>8, <1>9, <1>10, <1>11, <1>12, <1>13 DEF Next

-----------------------------------------------------------------------------
LEMMA IInvAlways == Spec => []IInv
  BY IInvInit, IInvStep, PTL DEF Spec

\* Every reachable state has the declared types.
THEOREM TypeCorrect == Spec => []TypeOK
<1>1. IInv => TypeOK
  BY DEF IInv
<1> QED BY <1>1, IInvAlways, PTL

\* A thread is never both waiting and started, nor queued twice, and only
\* threads that were not created yet wait: AddThread, failed starts, removal
\* and resumption never start one ObservableThread object twice.
THEOREM QueuesStayConsistent == Spec => []QueuesConsistent
<1>1. IInv => QueuesConsistent
  BY DEF IInv, QueueInv, QueuesConsistent, Waiting
<1> QED BY <1>1, IInvAlways, PTL

\* Whenever threads wait while none is started and starting is not suspended,
\* the idle handler is scheduled: no sequence of failed starts, removals,
\* suspension and resumption strands a waiting thread.
THEOREM NoThreadStranded == Spec => []NoStrandedThread
<1>1. IInv => NoStrandedThread
  BY DEF IInv
<1> QED BY <1>1, IInvAlways, PTL

\* However the idle handler, AddThread and the resume loop interleave, at most
\* one thread more than mnStartedSize is started at a time.
THEOREM StartedBounded == Spec => []StartedAtMostOneAbove
<1>1. IInv => StartedAtMostOneAbove
  BY DEF IInv, QueueInv, StartedAtMostOneAbove
<1> QED BY <1>1, IInvAlways, PTL

\* While the thread joiner lives, each thread that executes is one of its jobs
\* or one it is cancelling, even when the consumer has removed the thread.
THEOREM RunningIsJoined == Spec => []RunningThreadIsJoined
<1>1. IInv => RunningThreadIsJoined
  BY DEF IInv, JoinInv, RunningThreadIsJoined
<1> QED BY <1>1, IInvAlways, PTL

-----------------------------------------------------------------------------
(* Which thread a step starts.                                               *)

\* What a step that enters a method with life cycles l may start: a thread that
\* was added by the step, or the front of the queue; nothing while suspended.
StartsOnly(l) ==
  \A u \in ThreadID : life'[u] = "running" /\ l[u] # "running" =>
    /\ ~mbStartingOfThreadsSuspended
    /\ u \in Waiting => u = Head(maWaitingForStartThreads)

\* TryToStartNewThread with the queue as it is.
LEMMA TryToStartStarts ==
  ASSUME NEW s, NEW i, NEW j, NEW ok \in BOOLEAN, NEW l \in [ThreadID -> Life],
         maWaitingForStartThreads \in Seq(ThreadID),
         TryToStart(maWaitingForStartThreads, s, i, l, j, ok)
  PROVE  StartsOnly(l)
<1> DEFINE w == maWaitingForStartThreads
<1>1. CASE ~mbStartingOfThreadsSuspended /\ StartThread(Head(w), Tail(w), s, i, l, j, ok)
  <2>1. life' = l \/ life' = [l EXCEPT ![Head(w)] = "running"]
    BY <1>1 DEF StartThread, StartSucceeds, StartFails
  <2> QED BY <1>1, <2>1 DEF StartsOnly
<1>2. CASE NothingToStart(w, s, i, l, j)
  BY <1>2 DEF NothingToStart, StartsOnly
<1> QED BY <1>1, <1>2 DEF TryToStart

\* Every step: the thread that AddThread starts was not waiting.
LEMMA StepStarts == IInv /\ [Next]_vars => StartsOnly(life)
<1> SUFFICES ASSUME IInv, [Next]_vars PROVE StartsOnly(life)
  OBVIOUS
<1> DEFINE w == maWaitingForStartThreads
<1>1. /\ w \in Seq(ThreadID) /\ life \in [ThreadID -> Life]
      /\ \A u \in Waiting : life[u] = "ready"
      /\ mnThreadIDCounter \in 0 .. MaxThreads
      /\ \A u \in ThreadID : u > mnThreadIDCounter <=> life[u] = "unborn"
  BY DEF IInv, TypeOK, QueueInv, Waiting
<1>2. ASSUME NEW ok \in BOOLEAN, AddThread(ok)  PROVE StartsOnly(life)
  <2>1. mnThreadIDCounter + 1 \in ThreadID
    BY <1>1, <1>2, MaxThreadsAssumption DEF AddThread, ThreadID
  <2>2. PICK t \in ThreadID : t = mnThreadIDCounter + 1
    BY <2>1
  <2>3. life[t] = "unborn" /\ t \notin Waiting
    BY <1>1, <2>2
  <2>4. \/ ~mbStartingOfThreadsSuspended /\ life' = [life EXCEPT ![t] = "running"]
        \/ life' = [life EXCEPT ![t] = "ready"]
    <3>1. \/ /\ ~mbStartingOfThreadsSuspended
             /\ \/ life' = [[life EXCEPT ![t] = "ready"] EXCEPT ![t] = "running"]
                \/ life' = [life EXCEPT ![t] = "ready"]
          \/ life' = [life EXCEPT ![t] = "ready"]
      BY <1>2, <2>2 DEF AddThread, StartThread, StartSucceeds, StartFails, NothingToStart
    <3> QED BY <3>1, <1>1
  <2> QED BY <1>1, <2>3, <2>4 DEF StartsOnly
<1>3. ASSUME NEW t \in ThreadID, NEW fin \in BOOLEAN, NEW ok \in BOOLEAN,
             NEW l \in [ThreadID -> Life], RemoveFrom(t, fin, l, ok)
      PROVE  StartsOnly(l)
  <2>1. CASE t \in maStartedThreads
    BY <1>1, <1>3, <2>1, TryToStartStarts DEF RemoveFrom
  <2>2. CASE t \notin maStartedThreads
    <3>1. life' = l \/ life' = [l EXCEPT ![t] = "discarded"]
      BY <1>3, <2>2 DEF RemoveFrom, NothingToStart
    <3> QED BY <3>1 DEF StartsOnly
  <2> QED BY <2>1, <2>2
<1>4. ASSUME NEW t \in ThreadID, NEW ok \in BOOLEAN, RemoveThread(t, ok)
      PROVE  StartsOnly(life)
  BY <1>1, <1>3, <1>4 DEF RemoveThread
<1>5. ASSUME NEW ok \in BOOLEAN, ResumeIteration(ok)  PROVE StartsOnly(life)
  <2>1. CASE TryToStart(w, maStartedThreads, maStartNewThreadIdle, life, jobs, ok)
    BY <1>1, <2>1, TryToStartStarts
  <2>2. CASE UNCHANGED queueVars
    BY <2>2 DEF queueVars, StartsOnly
  <2> QED BY <1>5, <2>1, <2>2 DEF ResumeIteration
<1>6. ASSUME NEW ok \in BOOLEAN, IdleFires(ok)  PROVE StartsOnly(life)
  <2>1. TryToStart(w, maStartedThreads, FALSE, life, jobs, ok)
    BY <1>6 DEF IdleFires
  <2> QED BY <1>1, <2>1, TryToStartStarts
<1>7. ASSUME NEW t \in ThreadID, NEW ok \in BOOLEAN, OnTerminated(t, ok)
      PROVE  StartsOnly(life)
  <2>1. PICK l \in [ThreadID -> Life] : l = [life EXCEPT ![t] = "terminated"]
    BY <1>1 DEF Life
  <2>2. RemoveFrom(t, TRUE, l, ok) /\ life[t] = "finished"
    BY <1>7, <2>1 DEF OnTerminated
  <2>3. StartsOnly(l)
    BY <1>3, <2>2
  <2>4. \A u \in ThreadID : life[u] # "running" => l[u] # "running"
    BY <1>1, <2>1
  <2> QED BY <2>3, <2>4 DEF StartsOnly
<1>8. CASE SuspendStartingOfThreads \/ ResumeStartingOfThreads \/ UNCHANGED vars
  BY <1>8 DEF SuspendStartingOfThreads, ResumeStartingOfThreads, queueVars, vars,
              StartsOnly
<1>9. CASE JoinerCancelsAllJobs \/ JoinerReleased
  BY <1>9 DEF JoinerCancelsAllJobs, JoinerReleased, StartsOnly
<1>10. ASSUME NEW t \in ThreadID, ThreadFinishes(t)  PROVE StartsOnly(life)
  BY <1>1, <1>10 DEF ThreadFinishes, StartsOnly
<1> QED BY <1>2, <1>4, <1>5, <1>6, <1>7, <1>8, <1>9, <1>10 DEF Next

\* While starting is suspended no path starts a thread.
THEOREM NoneStartedWhileSuspended == Spec => NoStartWhileSuspended
<1>1. IInv /\ [Next]_vars =>
        [mbStartingOfThreadsSuspended =>
           \A t \in ThreadID : life'[t] = "running" => life[t] = "running"]_vars
  BY StepStarts DEF StartsOnly
<1> QED BY <1>1, IInvAlways, PTL DEF Spec, NoStartWhileSuspended

-----------------------------------------------------------------------------
(* The retrieval of graphics, in composition with the thread manager.       *)

\* The inductive invariant: thread IDs that were not handed out yet have
\* neither consumer nor container, so that the container of a discarded thread
\* never gets a consumer again; and a container is filled once, by the end of
\* its thread.
RInv ==
  /\ IInv
  /\ EntriesAccounted
  /\ \A u \in ThreadID :
       life[u] = "unborn" => u \notin consumers /\ u \notin maInputStreamData
  /\ \A u \in events : life[u] \in {"finished", "terminated"}

\* Of the given threads those that wait may be started, and the others go on.
KeepsLives(threads, l) ==
  \A u \in threads :
    /\ l[u] = "ready" => life'[u] \in {"ready", "running"}
    /\ l[u] # "ready" => life'[u] = l[u]

-----------------------------------------------------------------------------
(* Lives in the helpers of the thread manager.                               *)

\* StartThread makes at most its own thread, which waited, a running one.
LEMMA StartThreadLives ==
  ASSUME NEW t \in ThreadID, NEW w, NEW s, NEW i, NEW j, NEW ok \in BOOLEAN,
         NEW l \in [ThreadID -> Life], l[t] = "ready",
         StartThread(t, w, s, i, l, j, ok)
  PROVE  KeepsLives(ThreadID, l)
<1>1. life' = l \/ life' = [l EXCEPT ![t] = "running"]
  BY DEF StartThread, StartSucceeds, StartFails
<1> QED BY <1>1 DEF KeepsLives

\* TryToStartNewThread does so with the front of the queue.
LEMMA TryToStartLives ==
  ASSUME NEW w \in Seq(ThreadID), NEW s, NEW i, NEW j, NEW ok \in BOOLEAN,
         NEW l \in [ThreadID -> Life], \A u \in Range(w) : l[u] = "ready",
         TryToStart(w, s, i, l, j, ok)
  PROVE  KeepsLives(ThreadID, l)
<1>1. CASE w # <<>> /\ StartThread(Head(w), Tail(w), s, i, l, j, ok)
  <2>1. Head(w) \in ThreadID /\ Head(w) \in Range(w)
    BY <1>1 DEF Range
  <2> QED BY <1>1, <2>1, StartThreadLives
<1>2. CASE NothingToStart(w, s, i, l, j)
  BY <1>2 DEF NothingToStart, KeepsLives
<1> QED BY <1>1, <1>2 DEF TryToStart

\* RemoveThread discards the thread if it waits, and lets it go on if not.
LEMMA RemoveFromLives ==
  ASSUME NEW t \in ThreadID, NEW fin \in BOOLEAN, NEW ok \in BOOLEAN,
         NEW l \in [ThreadID -> Life],
         maWaitingForStartThreads \in Seq(ThreadID),
         \A u \in Waiting : l[u] = "ready",
         RemoveFrom(t, fin, l, ok)
  PROVE  /\ KeepsLives(ThreadID \ {t}, l)
         /\ l[t] = "ready" => life'[t] \in {"ready", "running", "discarded"}
         /\ l[t] # "ready" => life'[t] = l[t]
<1>1. CASE t \in maStartedThreads
  <2>1. KeepsLives(ThreadID, l)
    BY <1>1, TryToStartLives DEF RemoveFrom, Waiting
  <2> QED BY <2>1 DEF KeepsLives
<1>2. CASE /\ t \in Waiting
           /\ \E k \in DOMAIN maWaitingForStartThreads :
                NothingToStart(RemoveAt(maWaitingForStartThreads, k),
                               maStartedThreads, maStartNewThreadIdle,
                               [l EXCEPT ![t] = "discarded"], jobs)
  <2>1. life' = [l EXCEPT ![t] = "discarded"] /\ l[t] = "ready"
    BY <1>2 DEF NothingToStart
  <2> QED BY <2>1 DEF KeepsLives
<1>3. CASE NothingToStart(maWaitingForStartThreads, maStartedThreads,
                          maStartNewThreadIdle, l, jobs)
  BY <1>3 DEF NothingToStart, KeepsLives
<1> QED BY <1>1, <1>2, <1>3 DEF RemoveFrom

-----------------------------------------------------------------------------
\* Each step of the composition is one of the thread manager, or leaves it.
LEMMA RetrievalStepIsStep == [RetrievalNext]_allVars => [Next]_vars
<1> SUFFICES ASSUME [RetrievalNext]_allVars PROVE [Next]_vars
  OBVIOUS
<1>1. ASSUME NEW ok \in BOOLEAN, TriggerAsyncRetrieveInputStream(ok) PROVE Next
  BY <1>1 DEF TriggerAsyncRetrieveInputStream, CreateThread, Next
<1>2. ASSUME NEW t \in ThreadID, NEW ok \in BOOLEAN, ConsumerReset(t, ok) PROVE Next
  BY <1>2 DEF ConsumerReset, Next
<1>3. ASSUME NEW t \in ThreadID, LinkedInputStreamReady(t) PROVE UNCHANGED vars
  BY <1>3 DEF LinkedInputStreamReady
<1>4. ASSUME NEW t \in ThreadID, ThreadFunction(t) PROVE Next
  BY <1>4 DEF ThreadFunction, Next
<1>5. CASE ManagerStep
  BY <1>5 DEF ManagerStep, Next
<1>6. CASE UNCHANGED allVars
  BY <1>6 DEF allVars
<1> QED BY <1>1, <1>2, <1>3, <1>4, <1>5, <1>6 DEF RetrievalNext

\* The invariant holds in the initial states.
LEMMA RInvInit == RetrievalInit => RInv
<1> SUFFICES ASSUME RetrievalInit PROVE RInv
  OBVIOUS
<1>1. IInv
  BY IInvInit DEF RetrievalInit
<1>2. EntriesAccounted
  BY DEF RetrievalInit, EntriesAccounted, TypesOK
<1> QED BY <1>1, <1>2 DEF RInv, RetrievalInit

\* Every step keeps it.
LEMMA RInvStep == RInv /\ [RetrievalNext]_allVars => RInv'
<1> SUFFICES ASSUME RInv, [RetrievalNext]_allVars PROVE RInv'
  OBVIOUS
<1> DEFINE account(u) == \/ u \in events
                         \/ life[u] \in {"ready", "running"}
                         \/ life[u] = "discarded" /\ u \notin consumers
<1>1. IInv'
  BY IInvStep, RetrievalStepIsStep DEF RInv
<1>2. /\ mnThreadIDCounter \in 0 .. MaxThreads
      /\ maWaitingForStartThreads \in Seq(ThreadID)
      /\ life \in [ThreadID -> Life] /\ life' \in [ThreadID -> Life]
      /\ \A u \in Waiting : life[u] = "ready"
      /\ \A u \in ThreadID : u > mnThreadIDCounter <=> life[u] = "unborn"
      /\ \A u \in ThreadID : u > mnThreadIDCounter' <=> life'[u] = "unborn"
  BY <1>1 DEF RInv, IInv, TypeOK, QueueInv, Waiting
<1>3. /\ consumers \subseteq ThreadID /\ maInputStreamData \subseteq ThreadID
      /\ events \subseteq maInputStreamData
      /\ \A u \in maInputStreamData : account(u)
      /\ \A u \in ThreadID :
           life[u] = "unborn" => u \notin consumers /\ u \notin maInputStreamData
      /\ \A u \in events : life[u] \in {"finished", "terminated"}
  BY DEF RInv, EntriesAccounted, TypesOK
\* What is left to show when no consumer and no container is added.
<1>4. ASSUME consumers' \subseteq consumers,
             maInputStreamData' \subseteq maInputStreamData,
             events' \subseteq maInputStreamData',
             mnThreadIDCounter' = mnThreadIDCounter,
             \A u \in maInputStreamData' : account(u)',
             \A u \in events' : life'[u] \in {"finished", "terminated"}
      PROVE  RInv'
  BY <1>1, <1>2, <1>3, <1>4 DEF RInv, EntriesAccounted, TypesOK
<1>5. ASSUME NEW ok \in BOOLEAN, TriggerAsyncRetrieveInputStream(ok) PROVE RInv'
  <2>1. mnThreadIDCounter + 1 \in ThreadID
    BY <1>2, <1>5, MaxThreadsAssumption
       DEF TriggerAsyncRetrieveInputStream, CreateThread, AddThread, ThreadID
  <2>2. PICK t \in ThreadID : t = mnThreadIDCounter + 1
    BY <2>1
  <2>3. PICK l \in [ThreadID -> Life] : l = [life EXCEPT ![t] = "ready"]
    BY <1>2 DEF Life
  <2>4. /\ consumers' = consumers \cup {t} /\ events' = events
        /\ maInputStreamData' = maInputStreamData \cup {t}
        /\ mnThreadIDCounter' = t
        /\ \/ StartThread(t, maWaitingForStartThreads, maStartedThreads,
                          maStartNewThreadIdle, l, jobs, ok)
           \/ NothingToStart(Append(maWaitingForStartThreads, t),
                             maStartedThreads, maStartNewThreadIdle, l, jobs)
    BY <1>5, <2>2, <2>3
       DEF TriggerAsyncRetrieveInputStream, CreateThread, ReserveData, AddThread
  <2>5. life[t] = "unborn" /\ l[t] = "ready" /\ \A u \in ThreadID \ {t} : l[u] = life[u]
    BY <1>2, <2>2, <2>3
  <2>6. KeepsLives(ThreadID, l)
    <3>1. CASE NothingToStart(Append(maWaitingForStartThreads, t),
                              maStartedThreads, maStartNewThreadIdle, l, jobs)
      BY <3>1 DEF NothingToStart, KeepsLives
    <3> QED BY <2>4, <2>5, <3>1, StartThreadLives
  <2>7. life'[t] \in {"ready", "running"}
    BY <2>5, <2>6 DEF KeepsLives
  <2>8. ASSUME NEW u \in maInputStreamData  PROVE account(u)' /\ u # t
    <3>1. u \in ThreadID \ {t} /\ l[u] = life[u]
      BY <1>3, <2>5
    <3> QED BY <3>1, <1>3, <2>4, <2>6 DEF KeepsLives
  <2>9. TypesOK'
    BY <1>3, <2>4 DEF TypesOK
  <2>10. ASSUME NEW u \in ThreadID, life'[u] = "unborn"
         PROVE  u \notin consumers' /\ u \notin maInputStreamData'
    <3>1. u # t /\ life[u] = "unborn"
      BY <2>5, <2>6, <2>7, <2>10 DEF KeepsLives
    <3> QED BY <3>1, <1>3, <2>4
  <2>11. ASSUME NEW u \in events'  PROVE life'[u] \in {"finished", "terminated"}
    BY <1>3, <2>4, <2>5, <2>6, <2>8 DEF KeepsLives
  <2>12. \A u \in maInputStreamData' : account(u)'
    BY <2>4, <2>7, <2>8
  <2> QED BY <1>1, <2>9, <2>10, <2>11, <2>12 DEF RInv, EntriesAccounted
<1>6. ASSUME NEW t \in ThreadID, NEW ok \in BOOLEAN, ConsumerReset(t, ok) PROVE RInv'
  <2>1. /\ consumers' = consumers \ {t} /\ RemoveFrom(t, FALSE, life, ok)
        /\ UNCHANGED <<maInputStreamData, events, mnThreadIDCounter>>
    BY <1>6 DEF ConsumerReset, RemoveThread
  <2>2. /\ KeepsLives(ThreadID \ {t}, life)
        /\ life[t] = "ready" => life'[t] \in {"ready", "running", "discarded"}
        /\ life[t] # "ready" => life'[t] = life[t]
    BY <1>2, <2>1, RemoveFromLives
  <2>3. ASSUME NEW u \in maInputStreamData  PROVE account(u)'
    BY <1>3, <2>1, <2>2 DEF KeepsLives
  <2>4. ASSUME NEW u \in events  PROVE life'[u] \in {"finished", "terminated"}
    BY <1>3, <2>2 DEF KeepsLives
  <2> QED BY <1>3, <1>4, <2>1, <2>3, <2>4
<1>7. ASSUME NEW t \in ThreadID, LinkedInputStreamReady(t) PROVE RInv'
  BY <1>3, <1>4, <1>7 DEF LinkedInputStreamReady, vars
<1>8. ASSUME NEW t \in ThreadID, ThreadFunction(t) PROVE RInv'
  <2>1. /\ consumers' = consumers /\ mnThreadIDCounter' = mnThreadIDCounter
        /\ life[t] = "running" /\ life' = [life EXCEPT ![t] = "finished"]
        /\ t \in maInputStreamData
        /\ \/ events' = events \cup {t} /\ maInputStreamData' = maInputStreamData
           \/ maInputStreamData' = maInputStreamData \ {t} /\ events' = events
    BY <1>8 DEF ThreadFunction, ThreadFinishes, PushData
  <2>2. t \notin events
    BY <1>3, <2>1
  <2>3. ASSUME NEW u \in maInputStreamData'  PROVE account(u)'
    BY <1>2, <1>3, <2>1
  <2>4. ASSUME NEW u \in events'  PROVE life'[u] \in {"finished", "terminated"}
    BY <1>2, <1>3, <2>1
  <2>5. events' \subseteq maInputStreamData'
    BY <1>3, <2>1, <2>2
  <2> QED BY <1>4, <2>1, <2>3, <2>4, <2>5
<1>9. CASE ManagerStep
  <2>1. UNCHANGED <<consumers, maInputStreamData, events>>
    BY <1>9 DEF ManagerStep, retrievalVars
  <2>2. ASSUME mnThreadIDCounter' = mnThreadIDCounter, KeepsLives(ThreadID, life)
        PROVE  RInv'
    <3>1. ASSUME NEW u \in events  PROVE life'[u] \in {"finished", "terminated"}
      BY <1>3, <2>2 DEF KeepsLives
    <3>2. ASSUME NEW u \in maInputStreamData  PROVE account(u)'
      BY <1>3, <2>1, <2>2 DEF KeepsLives
    <3> QED BY <1>3, <1>4, <2>1, <2>2, <3>1, <3>2
  <2>3. ASSUME mnThreadIDCounter' = mnThreadIDCounter, life' = life
        PROVE  RInv'
    BY <2>2, <2>3 DEF KeepsLives
  <2>4. CASE SuspendStartingOfThreads \/ ResumeStartingOfThreads
    BY <2>3, <2>4 DEF SuspendStartingOfThreads, ResumeStartingOfThreads, queueVars
  <2>5. ASSUME NEW ok \in BOOLEAN, ResumeIteration(ok) PROVE RInv'
    <3>1. \/ TryToStart(maWaitingForStartThreads, maStartedThreads,
                        maStartNewThreadIdle, life, jobs, ok)
          \/ life' = life
      BY <2>5 DEF ResumeIteration, queueVars
    <3>2. KeepsLives(ThreadID, life) \/ life' = life
      BY <3>1, <1>2, TryToStartLives DEF Waiting
    <3> QED BY <3>2, <2>2, <2>3, <2>5 DEF ResumeIteration
  <2>6. ASSUME NEW ok \in BOOLEAN, IdleFires(ok) PROVE RInv'
    <3>1. TryToStart(maWaitingForStartThreads, maStartedThreads, FALSE, life, jobs, ok)
      BY <2>6 DEF IdleFires
    <3>2. KeepsLives(ThreadID, life)
      BY <3>1, <1>2, TryToStartLives DEF Waiting
    <3> QED BY <3>2, <2>2, <2>6 DEF IdleFires
  <2>7. ASSUME NEW t \in ThreadID, NEW ok \in BOOLEAN, OnTerminated(t, ok) PROVE RInv'
    <3>1. /\ RemoveFrom(t, TRUE, [life EXCEPT ![t] = "terminated"], ok)
          /\ life[t] = "finished" /\ mnThreadIDCounter' = mnThreadIDCounter
      BY <2>7 DEF OnTerminated
    <3>2. PICK l \in [ThreadID -> Life] : l = [life EXCEPT ![t] = "terminated"]
      BY <1>2 DEF Life
    <3>3. l[t] = "terminated" /\ \A u \in ThreadID \ {t} : l[u] = life[u]
      BY <1>2, <3>2
    <3>4. \A u \in Waiting : l[u] = "ready"
      <4>1. Waiting \subseteq ThreadID
        BY <1>2, RangeOfSeq DEF Waiting
      <4> QED BY <4>1, <1>2, <3>1, <3>3
    <3>5. KeepsLives(ThreadID \ {t}, l) /\ life'[t] = "terminated"
      <4>1. RemoveFrom(t, TRUE, l, ok) /\ l[t] # "ready"
        BY <3>1, <3>2, <3>3
      <4>2. KeepsLives(ThreadID \ {t}, l) /\ life'[t] = l[t]
        BY <4>1, <1>2, <3>4, RemoveFromLives
      <4> QED BY <4>2, <3>3
    <3>6. ASSUME NEW u \in maInputStreamData  PROVE account(u)'
      BY <1>3, <2>1, <3>1, <3>3, <3>5 DEF KeepsLives
    <3>7. ASSUME NEW u \in events  PROVE life'[u] \in {"finished", "terminated"}
      BY <1>3, <3>3, <3>5 DEF KeepsLives
    <3> QED BY <1>3, <1>4, <2>1, <3>1, <3>6, <3>7
  <2>8. CASE JoinerCancelsAllJobs \/ JoinerReleased
    BY <2>3, <2>8 DEF JoinerCancelsAllJobs, JoinerReleased
  <2> QED BY <1>9, <2>4, <2>5, <2>6, <2>7, <2>8 DEF ManagerStep
<1>10. CASE UNCHANGED allVars
  BY <1>3, <1>4, <1>10 DEF allVars, vars, retrievalVars
<1> QED BY <1>5, <1>6, <1>7, <1>8, <1>9, <1>10 DEF RetrievalNext

-----------------------------------------------------------------------------
\* The thread manager with its users is the thread manager: whatever paints,
\* user events and loading threads do, it takes only steps of its own, and so
\* keeps what ThreadManagerProofs shows of it.
THEOREM ImplementsThreadManager == RetrievalSpec => Spec
<1>1. RetrievalInit => Init
  BY DEF RetrievalInit
<1> QED BY <1>1, RetrievalStepIsStep, PTL DEF RetrievalSpec, Spec

\* However paints, the ends of threads, consumers that go away, events and the
\* end of the office interleave, a reserved container has a thread that will
\* fill it, or an event that will pop it; only the container of a thread that
\* was removed before it ran remains, and nobody waits for that one.
THEOREM EntriesStayAccounted == RetrievalSpec => []EntriesAccounted
<1>1. RInv => EntriesAccounted
  BY DEF RInv
<1> QED BY <1>1, RInvInit, RInvStep, PTL DEF RetrievalSpec
=============================================================================
