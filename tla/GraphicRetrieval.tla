-------------------------- MODULE GraphicRetrieval --------------------------
(***************************************************************************)
(* The retrieval of linked graphics: a graphic node (core/graphic/         *)
(* ndgrf.cxx) has a consumer that reserves a container for the stream and  *)
(* hands a loading thread to the thread manager; the thread fills the      *)
(* container and posts an event, by which the main thread gives the stream *)
(* to the consumer, if that still exists                                   *)
(* (core/docnode/retrievedinputstreamdata.cxx).                            *)
(*                                                                         *)
(* A consumer is made for its node and its one thread; keys of containers  *)
(* and thread IDs are both counted from 1 in CreateThread, and nobody else *)
(* adds threads: t stands for all of them.                                 *)
(***************************************************************************)
EXTENDS ThreadManager, Functions

VARIABLES
  consumers,             \* the consumers that live: mpThreadConsumer of some node
  maInputStreamData,     \* the keys of the reserved containers
  events                 \* those that are filled: the user events not handled yet

retrievalVars == <<consumers, maInputStreamData, events>>
allVars == <<vars, retrievalVars>>

TypesOK ==
  /\ consumers \subseteq ThreadID
  /\ maInputStreamData \subseteq ThreadID /\ events \subseteq maInputStreamData

RetrievalInit ==
  /\ Init
  /\ consumers = {}
  /\ maInputStreamData = {}
  /\ events = {}

-----------------------------------------------------------------------------
(* The main thread.                                                         *)

ReserveData == maInputStreamData' = maInputStreamData \cup {mnThreadIDCounter'}

\* The container is reserved for the thread that is added with it.
CreateThread(ok) == AddThread(ok) /\ ReserveData

\* A paint finds the graphic of a node without a consumer missing.
TriggerAsyncRetrieveInputStream(ok) ==
  /\ CreateThread(ok)
  /\ consumers' = consumers \cup {mnThreadIDCounter'}
  /\ UNCHANGED events

\* The container is popped, and its stream applied to the consumer, if that
\* still exists; the node takes it if the file could be read and the graphic is
\* still linked, perhaps to another file by now.
LinkedInputStreamReady(t) ==
  /\ t \in events
  /\ events' = events \ {t}
  /\ maInputStreamData' = maInputStreamData \ {t}
  /\ UNCHANGED <<vars, consumers>>

\* A node gives up its consumer, whose destructor removes the thread: after
\* UpdateLinkWithInputStream has loaded the graphic in a paint, or in ~SwGrfNode.
ConsumerReset(t, ok) ==
  /\ t \in consumers
  /\ consumers' = consumers \ {t}
  /\ RemoveThread(t, ok)
  /\ UNCHANGED <<maInputStreamData, events>>

-----------------------------------------------------------------------------
(* The loading thread.  PushData is the last thing threadFunction does.     *)

\* Mutant of PushData: a file that could not be read is not reported.
PushData_OnlyStreams(t) ==
  /\ t \in maInputStreamData
  /\ events' \in {events, events \cup {t}}
  /\ UNCHANGED maInputStreamData

PushData(t) ==
  /\ t \in maInputStreamData
  /\ \/ events' = events \cup {t} /\ UNCHANGED maInputStreamData
     \/ /\ ~joiner      \* without an application nobody gets the data
        /\ maInputStreamData' = maInputStreamData \ {t}
        /\ UNCHANGED events

ThreadFunction(t) ==
  /\ ThreadFinishes(t)
  /\ PushData(t)
  /\ UNCHANGED consumers

ManagerStep ==
  /\ \/ SuspendStartingOfThreads
     \/ ResumeStartingOfThreads
     \/ \E ok \in BOOLEAN : ResumeIteration(ok)
     \/ \E ok \in BOOLEAN : IdleFires(ok)
     \/ \E t \in ThreadID, ok \in BOOLEAN : OnTerminated(t, ok)
     \/ JoinerCancelsAllJobs
     \/ JoinerReleased
  /\ UNCHANGED retrievalVars

RetrievalNext ==
  \/ \E ok \in BOOLEAN : TriggerAsyncRetrieveInputStream(ok)
  \/ \E t \in ThreadID, ok \in BOOLEAN : ConsumerReset(t, ok)
  \/ \E t \in ThreadID : LinkedInputStreamReady(t)
  \/ \E t \in ThreadID : ThreadFunction(t)
  \/ ManagerStep

(***************************************************************************)
(* Fairness.  A thread's function returns, its onTerminated then gets the  *)
(* mutex, and the event loop handles the event; each of these happens only *)
(* once to a thread, so fairness of all threads together is that of each.  *)
(* The scheduler runs a pending idle handler; whoever suspended the        *)
(* starting of threads (a SwPauseThreadStarting: of a save or load, or of  *)
(* FinalThreadManager::queryTermination until cancelTermination) resumes   *)
(* it, and its loop proceeds.  create() does not fail for ever: a start    *)
(* that is attempted again and again succeeds at last, which is strong     *)
(* fairness of the successful attempt.                                     *)
(***************************************************************************)
RetrievalFairness ==
  /\ WF_allVars(\E t \in ThreadID : ThreadFunction(t))
  /\ WF_allVars(\E t \in ThreadID : LinkedInputStreamReady(t))
  /\ SF_allVars(\E t \in ThreadID, ok \in BOOLEAN :
                  OnTerminated(t, ok) /\ UNCHANGED retrievalVars)
  /\ WF_allVars(mbStartingOfThreadsSuspended /\ ResumeStartingOfThreads
                  /\ UNCHANGED retrievalVars)
  /\ SF_allVars(ResumeIteration(TRUE) /\ UNCHANGED retrievalVars)
  /\ SF_allVars(IdleFires(TRUE) /\ UNCHANGED retrievalVars)

RetrievalSpec == RetrievalInit /\ [][RetrievalNext]_allVars /\ RetrievalFairness

-----------------------------------------------------------------------------
\* No container is forgotten: its thread waits or runs, or its event is posted;
\* the one exception is the container of a thread that was removed while it
\* waited, and that one's consumer is gone.
EntriesAccounted ==
  /\ TypesOK
  /\ \A t \in maInputStreamData :
       \/ t \in events
       \/ life[t] \in {"ready", "running"}
       \/ life[t] = "discarded" /\ t \notin consumers

\* The data of each retrieval reach the consumer, or that is given up before:
\* whether the thread waits, fails to start or runs when the consumer asks.
RetrievalEnds ==
  \A t \in ThreadID :
    t \in consumers /\ t \in maInputStreamData
      ~> t \notin consumers \/ t \notin maInputStreamData
=============================================================================
