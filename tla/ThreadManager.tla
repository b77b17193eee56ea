--------------------------- MODULE ThreadManager ---------------------------
(***************************************************************************)
(* The Writer thread manager (source/core/docnode/threadmanager.cxx): the  *)
(* queue of threads that wait to be started, the set of threads that were  *)
(* started, and the idle handler that retries a failed start.              *)
(*                                                                         *)
(* Every method of the class holds maMutex from its first to its last      *)
(* statement, so a method is one step; the exception is                    *)
(* ResumeStartingOfThreads, whose loop is one step per iteration with the  *)
(* mutex held in between (variable resuming).  The observed threads run    *)
(* concurrently: they leave threadFunction without the mutex, and need it  *)
(* in onTerminated.                                                        *)
(***************************************************************************)
EXTENDS Naturals, Sequences, FiniteSets, SequencesExt

CONSTANTS
  mnStartedSize,   \* the limit of the class; 10 in the source
  MaxThreads       \* bound on the number of calls of AddThread

ASSUME StartedSizeAssumption == mnStartedSize \in Nat \ {0}
ASSUME MaxThreadsAssumption  == MaxThreads \in Nat

\* Thread IDs as RetrieveNewThreadID hands them out; 0 is "no thread".
ThreadID == 1 .. MaxThreads

VARIABLES
  mnThreadIDCounter,            \* the last ID handed out
  maWaitingForStartThreads,     \* the deque of waiting threads
  maStartedThreads,             \* the started threads; their order is never used
  maStartNewThreadIdle,         \* is the idle handler scheduled?
  mbStartingOfThreadsSuspended,
  resuming,                     \* is ResumeStartingOfThreads in its loop?
  life,                         \* the life cycle of each ObservableThread
  joiner,                       \* does the weak reference mrThreadJoiner resolve?
  jobs,                         \* jobs registered at the thread joiner
  handed                        \* jobs the joiner has taken over to cancel (join)

vars == <<mnThreadIDCounter, maWaitingForStartThreads, maStartedThreads,
          maStartNewThreadIdle, mbStartingOfThreadsSuspended, resuming, life,
          joiner, jobs, handed>>

queueVars == <<maWaitingForStartThreads, maStartedThreads,
               maStartNewThreadIdle, life, jobs>>

Waiting == Range(maWaitingForStartThreads)

Life == {"unborn",       \* AddThread not called yet
         "ready",        \* object exists, no operating system thread
         "running",      \* create() succeeded, inside threadFunction
         "finished",     \* threadFunction returned, onTerminated pending
         "terminated",   \* onTerminated done
         "discarded"}    \* removed while it was waiting

TypeOK ==
  /\ mnThreadIDCounter \in 0 .. MaxThreads
  /\ maWaitingForStartThreads \in Seq(ThreadID)
  /\ maStartedThreads \in SUBSET ThreadID
  /\ maStartNewThreadIdle \in BOOLEAN
  /\ mbStartingOfThreadsSuspended \in BOOLEAN
  /\ resuming \in BOOLEAN
  /\ life \in [ThreadID -> Life]
  /\ joiner \in BOOLEAN
  /\ jobs \in SUBSET ThreadID
  /\ handed \in SUBSET ThreadID

Init ==
  /\ mnThreadIDCounter = 0
  /\ maWaitingForStartThreads = <<>>
  /\ maStartedThreads = {}
  /\ maStartNewThreadIdle = FALSE
  /\ mbStartingOfThreadsSuspended = FALSE
  /\ resuming = FALSE
  /\ life = [t \in ThreadID |-> "unborn"]
  /\ joiner = TRUE
  /\ jobs = {}
  /\ handed = {}

-----------------------------------------------------------------------------
(* Helpers that run inside a method.  The arguments w, s, i, l, j are the   *)
(* values that the queue, the started threads, the idle flag, the life      *)
(* cycles and the joiner's jobs have when the helper is entered; ok is the  *)
(* result of create().                                                      *)

StartSucceeds(t, w, s, i, l, j) ==
  /\ maWaitingForStartThreads' = w
  /\ maStartedThreads' = s \cup {t}
  /\ maStartNewThreadIdle' = i
  /\ life' = [l EXCEPT ![t] = "running"]
  /\ jobs' = IF joiner THEN j \cup {t} ELSE j

\* Mutant of StartFails: an empty tThreadData (its ID is 0) goes to the front.
StartFails_EmptyThreadData(t, w, s, i, l, j) ==
  /\ maWaitingForStartThreads' = <<0>> \o w
  /\ maStartedThreads' = s
  /\ maStartNewThreadIdle' = (i \/ s = {})
  /\ life' = l /\ jobs' = j

\* Mutant of StartFails: nobody schedules the idle handler.
StartFails_NoIdle(t, w, s, i, l, j) ==
  /\ maWaitingForStartThreads' = <<t>> \o w
  /\ maStartedThreads' = s
  /\ maStartNewThreadIdle' = i
  /\ life' = l /\ jobs' = j

\* create() failed: the thread goes back to the front of the queue, and the
\* callers schedule the idle handler when nothing is started.
StartFails(t, w, s, i, l, j) ==
  /\ maWaitingForStartThreads' = <<t>> \o w
  /\ maStartedThreads' = s
  /\ maStartNewThreadIdle' = (i \/ s = {})
  /\ life' = l /\ jobs' = j

StartThread(t, w, s, i, l, j, ok) ==
  \/ ok /\ StartSucceeds(t, w, s, i, l, j)
  \/ ~ok /\ StartFails(t, w, s, i, l, j)

NothingToStart(w, s, i, l, j) ==
  /\ maWaitingForStartThreads' = w
  /\ maStartedThreads' = s
  /\ maStartNewThreadIdle' = i
  /\ life' = l /\ jobs' = j

\* Mutant of TryToStart: the started thread stays in the queue.
TryToStart_NoPop(w, s, i, l, j, ok) ==
  \/ /\ ~mbStartingOfThreadsSuspended /\ w # <<>>
     /\ StartThread(Head(w), w, s, i, l, j, ok)
  \/ /\ mbStartingOfThreadsSuspended \/ w = <<>>
     /\ NothingToStart(w, s, i, l, j)

\* Mutant of TryToStart: suspension is not looked at.
TryToStart_IgnoresSuspension(w, s, i, l, j, ok) ==
  \/ w # <<>> /\ StartThread(Head(w), Tail(w), s, i, l, j, ok)
  \/ w = <<>> /\ NothingToStart(w, s, i, l, j)

\* TryToStartNewThread, including StartWaitingThread.
TryToStart(w, s, i, l, j, ok) ==
  \/ /\ ~mbStartingOfThreadsSuspended /\ w # <<>>
     /\ StartThread(Head(w), Tail(w), s, i, l, j, ok)
  \/ /\ mbStartingOfThreadsSuspended \/ w = <<>>
     /\ NothingToStart(w, s, i, l, j)

\* Mutant of RemoveFrom: the job of a thread that still runs is released too.
RemoveFrom_AlwaysReleases(t, fin, l, ok) ==
  /\ t \in maStartedThreads
  /\ TryToStart(maWaitingForStartThreads, maStartedThreads \ {t},
                maStartNewThreadIdle, l, jobs \ {t}, ok)

\* Mutant of RemoveFrom: the freed place is not used for a waiting thread.
RemoveFrom_StartsNothing(t, fin, l, ok) ==
  /\ t \in maStartedThreads
  /\ NothingToStart(maWaitingForStartThreads, maStartedThreads \ {t},
                    maStartNewThreadIdle, l,
                    IF fin /\ joiner THEN jobs \ {t} ELSE jobs)

\* RemoveThread(t, fin) entered with life cycles l.
RemoveFrom(t, fin, l, ok) ==
  \/ /\ t \in maStartedThreads
     /\ TryToStart(maWaitingForStartThreads, maStartedThreads \ {t},
                   maStartNewThreadIdle, l,
                   IF fin /\ joiner THEN jobs \ {t} ELSE jobs, ok)
  \/ /\ t \notin maStartedThreads /\ t \in Waiting
     /\ \E k \in DOMAIN maWaitingForStartThreads :
          /\ maWaitingForStartThreads[k] = t
          /\ NothingToStart(RemoveAt(maWaitingForStartThreads, k),
                            maStartedThreads, maStartNewThreadIdle,
                            [l EXCEPT ![t] = "discarded"], jobs)
  \/ /\ t \notin maStartedThreads /\ t \notin Waiting
     /\ NothingToStart(maWaitingForStartThreads, maStartedThreads,
                       maStartNewThreadIdle, l, jobs)

-----------------------------------------------------------------------------
(* Calls of the Writer's threads.                                           *)

\* Mutant of AddThread: <= for < in the comparison with the limit.
AddThread_OffByOne(ok) ==
  /\ ~resuming
  /\ mnThreadIDCounter < MaxThreads
  /\ mnThreadIDCounter' = mnThreadIDCounter + 1
  /\ LET t == mnThreadIDCounter + 1
         l == [life EXCEPT ![t] = "ready"]
     IN \/ /\ Cardinality(maStartedThreads) <= mnStartedSize
           /\ ~mbStartingOfThreadsSuspended
           /\ StartThread(t, maWaitingForStartThreads, maStartedThreads,
                          maStartNewThreadIdle, l, jobs, ok)
        \/ /\ \/ Cardinality(maStartedThreads) > mnStartedSize
              \/ mbStartingOfThreadsSuspended
           /\ NothingToStart(Append(maWaitingForStartThreads, t),
                             maStartedThreads, maStartNewThreadIdle, l, jobs)
  /\ UNCHANGED <<mbStartingOfThreadsSuspended, resuming, joiner, handed>>

\* AddThread: the new thread is started at once, or queued.
AddThread(ok) ==
  /\ ~resuming
  /\ mnThreadIDCounter < MaxThreads
  /\ mnThreadIDCounter' = mnThreadIDCounter + 1
  /\ LET t == mnThreadIDCounter + 1
         l == [life EXCEPT ![t] = "ready"]
     IN \/ /\ Cardinality(maStartedThreads) < mnStartedSize
           /\ ~mbStartingOfThreadsSuspended
           /\ StartThread(t, maWaitingForStartThreads, maStartedThreads,
                          maStartNewThreadIdle, l, jobs, ok)
        \/ /\ \/ Cardinality(maStartedThreads) >= mnStartedSize
              \/ mbStartingOfThreadsSuspended
           /\ NothingToStart(Append(maWaitingForStartThreads, t),
                             maStartedThreads, maStartNewThreadIdle, l, jobs)
  /\ UNCHANGED <<mbStartingOfThreadsSuspended, resuming, joiner, handed>>

\* RemoveThread(t, false): the consumer of thread t is destroyed.
RemoveThread(t, ok) ==
  /\ ~resuming
  /\ t <= mnThreadIDCounter
  /\ RemoveFrom(t, FALSE, life, ok)
  /\ UNCHANGED <<mnThreadIDCounter, mbStartingOfThreadsSuspended, resuming,
                 joiner, handed>>

SuspendStartingOfThreads ==
  /\ ~resuming
  /\ mbStartingOfThreadsSuspended' = TRUE
  /\ UNCHANGED <<mnThreadIDCounter, resuming, joiner, handed, queueVars>>

\* Overlapping pauses may resume what is not suspended any more: no guard.
ResumeStartingOfThreads ==
  /\ ~resuming
  /\ mbStartingOfThreadsSuspended' = FALSE
  /\ resuming' = TRUE
  /\ UNCHANGED <<mnThreadIDCounter, joiner, handed, queueVars>>

\* Mutant of ResumeIteration: with the limit reached, the loop waits for a
\* thread to end instead of being left.
ResumeIteration_WaitsForPlace(ok) ==
  /\ resuming
  /\ \/ /\ Cardinality(maStartedThreads) < mnStartedSize
        /\ maWaitingForStartThreads # <<>>
        /\ TryToStart(maWaitingForStartThreads, maStartedThreads,
                      maStartNewThreadIdle, life, jobs, ok)
        /\ resuming' = (ok \/ maStartedThreads # {})
     \/ /\ maWaitingForStartThreads = <<>>
        /\ resuming' = FALSE
        /\ UNCHANGED queueVars
  /\ UNCHANGED <<mnThreadIDCounter, mbStartingOfThreadsSuspended, joiner, handed>>

\* One iteration of the loop in ResumeStartingOfThreads, which is left when
\* the limit is reached, the queue is empty, or a start fails with nothing
\* started.  A start that fails while threads are started is retried at once.
ResumeIteration(ok) ==
  /\ resuming
  /\ \/ /\ Cardinality(maStartedThreads) < mnStartedSize
        /\ maWaitingForStartThreads # <<>>
        /\ TryToStart(maWaitingForStartThreads, maStartedThreads,
                      maStartNewThreadIdle, life, jobs, ok)
        /\ resuming' = (ok \/ maStartedThreads # {})
     \/ /\ \/ Cardinality(maStartedThreads) >= mnStartedSize
           \/ maWaitingForStartThreads = <<>>
        /\ resuming' = FALSE
        /\ UNCHANGED queueVars
  /\ UNCHANGED <<mnThreadIDCounter, mbStartingOfThreadsSuspended, joiner, handed>>

\* The scheduler calls the idle handler; an Idle is one-shot.
IdleFires(ok) ==
  /\ ~resuming
  /\ maStartNewThreadIdle
  /\ TryToStart(maWaitingForStartThreads, maStartedThreads, FALSE, life, jobs, ok)
  /\ UNCHANGED <<mnThreadIDCounter, mbStartingOfThreadsSuspended, resuming,
                 joiner, handed>>

-----------------------------------------------------------------------------
(* Steps of an observed thread.                                             *)

\* threadFunction returns; no mutex of the manager is needed.
ThreadFinishes(t) ==
  /\ life[t] = "running"
  /\ life' = [life EXCEPT ![t] = "finished"]
  /\ UNCHANGED <<mnThreadIDCounter, maWaitingForStartThreads, maStartedThreads,
                 maStartNewThreadIdle, mbStartingOfThreadsSuspended, resuming,
                 joiner, jobs, handed>>

\* onTerminated -> NotifyAboutFinishedThread -> RemoveThread(t, true).
OnTerminated(t, ok) ==
  /\ ~resuming
  /\ life[t] = "finished"
  /\ RemoveFrom(t, TRUE, [life EXCEPT ![t] = "terminated"], ok)
  /\ UNCHANGED <<mnThreadIDCounter, mbStartingOfThreadsSuspended, resuming,
                 joiner, handed>>

-----------------------------------------------------------------------------
(* Steps of the thread joiner, as far as the manager sees them.             *)

\* FinalThreadManager::cancelAllJobs takes all registered jobs.
JoinerCancelsAllJobs ==
  /\ joiner /\ jobs # {}
  /\ handed' = handed \cup jobs
  /\ jobs' = {}
  /\ UNCHANGED <<mnThreadIDCounter, maWaitingForStartThreads, maStartedThreads,
                 maStartNewThreadIdle, mbStartingOfThreadsSuspended, resuming,
                 life, joiner>>

\* The joiner dies: FinalThreadManager::notifyTermination cancels all jobs and
\* gives up the last strong reference.
JoinerReleased ==
  /\ joiner
  /\ joiner' = FALSE
  /\ handed' = handed \cup jobs
  /\ jobs' = {}
  /\ UNCHANGED <<mnThreadIDCounter, maWaitingForStartThreads, maStartedThreads,
                 maStartNewThreadIdle, mbStartingOfThreadsSuspended, resuming, life>>

-----------------------------------------------------------------------------
Next ==
  \/ \E ok \in BOOLEAN : AddThread(ok)
  \/ \E t \in ThreadID, ok \in BOOLEAN : RemoveThread(t, ok)
  \/ SuspendStartingOfThreads
  \/ ResumeStartingOfThreads
  \/ \E ok \in BOOLEAN : ResumeIteration(ok)
  \/ \E ok \in BOOLEAN : IdleFires(ok)
  \/ \E t \in ThreadID : ThreadFinishes(t)
  \/ \E t \in ThreadID, ok \in BOOLEAN : OnTerminated(t, ok)
  \/ JoinerCancelsAllJobs
  \/ JoinerReleased

Spec == Init /\ [][Next]_vars

-----------------------------------------------------------------------------
(* Safety.                                                                  *)

\* A thread is never both waiting and started, is queued at most once, and
\* only a thread that exists and has not been created yet can wait: no path
\* through AddThread, a failed start, removal and resumption starts one
\* thread object twice.
QueuesConsistent ==
  /\ Waiting \cap maStartedThreads = {}
  /\ IsInjective(maWaitingForStartThreads)
  /\ \A t \in Waiting : life[t] = "ready"
  /\ \A t \in maStartedThreads : life[t] \in {"running", "finished"}

\* No thread is stranded: when threads wait, starting is not suspended and no
\* thread is started whose end would start the next, the idle handler is
\* scheduled.  Failed starts, removals and suspension all have to keep this.
NoStrandedThread ==
  maWaitingForStartThreads # <<>> /\ maStartedThreads = {}
    /\ ~mbStartingOfThreadsSuspended /\ ~resuming
  => maStartNewThreadIdle

\* threadmanager.hxx, at the class: "It assures that not more than <mnStartedSize>
\* threads are started."  The idle handler breaks it: AddThread may take the free
\* place while the handler is scheduled, which starts a thread all the same.
StartedAtMostLimit == Cardinality(maStartedThreads) <= mnStartedSize

\* The limit the code really keeps: the idle handler does not look at the
\* number of started threads, so one thread above mnStartedSize can be
\* started, and never more than one.
StartedAtMostOneAbove == Cardinality(maStartedThreads) <= mnStartedSize + 1

\* While the joiner lives, each thread that still executes is known to it, as
\* a registered job or as one it is cancelling: at the end of the office no
\* running thread is left unjoined, not even one whose consumer is gone.
RunningThreadIsJoined ==
  joiner => \A t \in ThreadID :
              life[t] \in {"running", "finished"} => t \in jobs \cup handed

(* Action properties.                                                       *)

\* While starting is suspended no thread is started, by no path.
NoStartWhileSuspended ==
  [][mbStartingOfThreadsSuspended =>
       \A t \in ThreadID : life'[t] = "running" => life[t] = "running"]_vars

(* Liveness, under the fairness that GraphicRetrieval states.               *)

\* The loop of ResumeStartingOfThreads, which holds the mutex throughout, ends:
\* also when starts keep failing while threads are started and end.
ResumeReturns == resuming ~> ~resuming
=============================================================================
