---------------------- MODULE FinalThreadManagerProofs ----------------------
(***************************************************************************)
(* Proofs about FinalThreadManager, for every set of jobs and terminators  *)
(* and every number of terminations.                                       *)
(***************************************************************************)
EXTENDS FinalThreadManager, TLAPS

-----------------------------------------------------------------------------
(* The inductive invariant.                                                 *)

\* A terminator that may still terminate the office.
ActiveIn(ts, t) ==
  ts[t].pc \in {"test", "check", "test2", "perform", "terminate"} /\ ~ts[t].stopped

\* A section of the thread manager that releases a job was entered by the job, and
\* one that registers a job has started it.
SectionsInv ==
  tm # Void => /\ tm.does = "release" => job[tm.job] = "blocked"
               /\ tm.does = "register" => job[tm.job] # "unborn"

\* The canceller joins one job at a time, and is stopped at the end only.
CancellerInv ==
  canceller # Void =>
    /\ canceller.pc # "join" => canceller.cur = Void
    /\ canceller.pc = "ended" => canceller.stopped
    /\ canceller.stopped => stage = "joinCanceller"

\* A job that is not registered yet is in no list.
Registering(j) == tm # Void /\ tm.does = "register" /\ tm.job = j

UnregisteredInv ==
  \A j \in Jobs : job[j] = "unborn" \/ Registering(j) =>
    j \notin maThreads /\ j \notin taken /\ j \notin WithCanceller

\* The local list of cancelAllJobs is in use in three stages.
TakenInv == taken # {} => stage \in {"joinAll", "handOver", "notifyJoinAll"}

ListsInv ==
  SectionsInv /\ CancellerInv /\ UnregisteredInv /\ TakenInv /\ JobsAccounted

\* From the list's being emptied on, a query holds the mutex until starting is
\* suspended, unless another one has suspended it: no job registers, and what is
\* in the canceller when it consents becomes less.
Querying == {"query", "joinAll", "test1", "sleep", "test2", "pause", "suspend"}
Consented == {"pause", "suspend", "queried", "notify", "handOver", "notifyJoinAll",
              "stop", "joinCanceller", "terminated"}

QuietInv ==
  /\ stage \in Querying => ftm
  /\ stage \in Querying \ {"query"} => maThreads = {}
  /\ pausedBy["save"] = "absent" =>
       /\ suspended <=> pausedBy["query"] = "paused"
       /\ stage \notin Consented \ {"pause"} => pausedBy["query"] = "none"
       /\ stage = "suspend" => pausedBy["query"] = "seenRunning"
       /\ stage \in Consented \ {"pause", "suspend"} =>
            /\ suspended
            /\ tm # Void => tm.does = "release"
            /\ maThreads = {} /\ taken = {}
       /\ stage \in Consented /\ canceller # Void => canceller.jobs = {}

IInv == FinalTypeOK /\ OneActiveTerminator /\ ListsInv /\ QuietInv
-----------------------------------------------------------------------------
(* Types.                                                                   *)

\* The initial states have the declared types.
LEMMA InitType == FinalInit => FinalTypeOK
<1> SUFFICES ASSUME FinalInit PROVE FinalTypeOK
  OBVIOUS
<1>1. job \in [Jobs -> JobState] /\ terminator \in [Terminators -> Terminator]
  BY DEF FinalInit, JobState, Terminator
<1>2. pausedBy \in [{"query", "save"} -> PauseState]
  BY DEF FinalInit, PauseState
<1>3. queries \in 0 .. MaxQueries
  BY BoundAssumption DEF FinalInit
<1> QED BY <1>1, <1>2, <1>3 DEF FinalInit, FinalTypeOK, JoinsItsJob, Stage

\* What HandOver does with the types of the canceller and of the lists.
LEMMA HandOverType ==
  ASSUME FinalTypeOK, NEW js \in SUBSET Jobs, NEW done \in Stage, NEW failed \in Stage,
         HandOver(js, done, failed)
  PROVE  /\ canceller' \in Canceller \cup {Void} /\ JoinsItsJob(canceller')
         /\ taken' \in SUBSET Jobs /\ stage' \in Stage
<1>1. NewCanceller(js) \in Canceller /\ JoinsItsJob(NewCanceller(js))
  BY DEF NewCanceller, Canceller, JoinsItsJob
<1>2. canceller # Void =>
        LET c == [canceller EXCEPT !.jobs = @ \cup js, !.all = TRUE]
        IN c \in Canceller /\ JoinsItsJob(c)
  BY DEF FinalTypeOK, Canceller, JoinsItsJob
<1> QED BY <1>1, <1>2 DEF HandOver, FinalTypeOK

\* The terminators keep their type when some are dismissed or return.
LEMMA TerminatorsType ==
  ASSUME NEW ts \in [Terminators -> Terminator]
  PROVE  /\ \A t \in Terminators :
              /\ [ts EXCEPT ![t].stopped = TRUE] \in [Terminators -> Terminator]
              /\ \A pc \in {"test", "over", "deleted"} :
                   [ts EXCEPT ![t].pc = pc] \in [Terminators -> Terminator]
         /\ Returned(ts) \in [Terminators -> Terminator]
<1>1. ASSUME NEW t \in Terminators
      PROVE  /\ [ts EXCEPT ![t].stopped = TRUE] \in [Terminators -> Terminator]
             /\ \A pc \in {"test", "over", "deleted"} :
                  [ts EXCEPT ![t].pc = pc] \in [Terminators -> Terminator]
  BY DEF Terminator
<1> QED BY <1>1 DEF Returned

\* Every step keeps the types.
LEMMA TypeStep == FinalTypeOK /\ [FinalNext]_finalVars => FinalTypeOK'
<1> SUFFICES ASSUME FinalTypeOK, [FinalNext]_finalVars PROVE FinalTypeOK'
  OBVIOUS
<1>1. ASSUME NEW by \in Jobs \cup {"program"}, NEW j \in Jobs, Starts(by, j)
      PROVE  job' \in [Jobs -> JobState] /\ started' \in SUBSET Jobs /\ tm' \in Section
  BY <1>1 DEF Starts, FinalTypeOK, JobState, Section
<1>2. ASSUME NEW j \in Jobs, StartJob(j)  PROVE FinalTypeOK'
  BY <1>1, <1>2 DEF StartJob, FinalTypeOK, termVars
<1>3. CASE RegisterJob
  <2>1. tm \in Section
    BY <1>3 DEF RegisterJob, FinalTypeOK
  <2>2. tm.job \in Jobs /\ tm.by \in Jobs \cup {"program"}
    BY <2>1 DEF Section
  <2>3. job' \in [Jobs -> JobState]
    BY <1>3, <2>2 DEF RegisterJob, FinalTypeOK, JobState
  <2> QED BY <1>3, <2>2, <2>3 DEF RegisterJob, FinalTypeOK, termVars
<1>4. ASSUME NEW j \in Jobs, ConsumerRemoves(j)  PROVE FinalTypeOK'
  BY <1>4 DEF ConsumerRemoves, FinalTypeOK, termVars
<1>5. ASSUME NEW j \in Jobs, JobEnds(j)  PROVE FinalTypeOK'
  BY <1>5 DEF JobEnds, FinalTypeOK, JobState, termVars
<1>6. ASSUME NEW j \in Jobs, OnTerminated(j)  PROVE FinalTypeOK'
  <2>1. job' \in [Jobs -> JobState] /\ started' \in SUBSET Jobs
        /\ tm' \in Section \cup {Void}
    BY <1>6 DEF OnTerminated, FinalTypeOK, JobState, Section
  <2> QED BY <1>6, <2>1 DEF OnTerminated, FinalTypeOK, termVars
<1>7. CASE ReleaseJob
  <2>1. tm \in Section
    BY <1>7 DEF ReleaseJob, FinalTypeOK
  <2>2. tm.job \in Jobs /\ tm.by \in Jobs \cup {"program"}
    BY <2>1 DEF Section
  <2>3. job' \in [Jobs -> JobState] /\ started' \in SUBSET Jobs
        /\ tm' \in Section \cup {Void}
    <3>1. CASE \E k \in Jobs : Starts(tm.by, k)
      BY <3>1, <1>1, <2>2
    <3>2. CASE job' = [job EXCEPT ![tm.job] = "done"] /\ tm' = Void /\ UNCHANGED started
      BY <3>2 DEF FinalTypeOK, JobState
    <3> QED BY <1>7, <3>1, <3>2 DEF ReleaseJob
  <2> QED BY <1>7, <2>2, <2>3 DEF ReleaseJob, FinalTypeOK, termVars
<1>8. CASE CancellerTests
  <2>1. canceller' \in Canceller /\ JoinsItsJob(canceller')
    BY <1>8 DEF CancellerTests, FinalTypeOK, Canceller, JoinsItsJob
  <2> QED BY <1>8, <2>1 DEF CancellerTests, FinalTypeOK, jobVars, termVars
<1>9. CASE CancellerGets
  <2>1. \A j \in Jobs : j # Void
    BY VoidAssumption
  <2>2. canceller' \in Canceller
    BY <1>9 DEF CancellerGets, FinalTypeOK, Canceller
  <2>3. canceller \in Canceller /\ canceller.cur = Void
    BY <1>9 DEF CancellerGets, FinalTypeOK, JoinsItsJob
  <2>4. JoinsItsJob(canceller')
    BY <1>9, <2>1, <2>3 DEF CancellerGets, Canceller, JoinsItsJob
  <2> QED BY <1>9, <2>2, <2>4 DEF CancellerGets, FinalTypeOK, jobVars, termVars
<1>10. CASE CancellerJoins
  <2>1. canceller' \in Canceller /\ JoinsItsJob(canceller')
    BY <1>10 DEF CancellerJoins, FinalTypeOK, Canceller, JoinsItsJob
  <2> QED BY <1>10, <2>1 DEF CancellerJoins, FinalTypeOK, jobVars, termVars
<1>11. CASE CancellerSets
  <2>1. canceller' \in Canceller /\ JoinsItsJob(canceller')
    BY <1>11 DEF CancellerSets, FinalTypeOK, Canceller, JoinsItsJob
  <2> QED BY <1>11, <2>1 DEF CancellerSets, FinalTypeOK, jobVars, termVars
<1>12. ASSUME NEW t \in Terminators,
              NEW pc \in {"test", "check", "test2", "perform", "terminate", "over",
                          "lingers", "finished", "deleted"},
              TerminatorGoes(t, pc), UNCHANGED notTerminators
       PROVE  FinalTypeOK'
  <2>1. terminator' \in [Terminators -> Terminator]
    BY <1>12 DEF TerminatorGoes, FinalTypeOK, Terminator
  <2> QED BY <1>12, <2>1 DEF notTerminators, FinalTypeOK, jobVars
<1>13. ASSUME NEW t \in Terminators,
              TerminatorTests(t) \/ TerminatorChecks(t) \/ TerminatorPerforms(t)
                \/ TerminatorEnds(t)
       PROVE  FinalTypeOK'
  <2>1. CASE TerminatorTests(t)
    BY <1>12, <2>1 DEF TerminatorTests
  <2>2. CASE TerminatorChecks(t)
    BY <1>12, <2>2 DEF TerminatorChecks
  <2>3. CASE TerminatorPerforms(t)
    BY <1>12, <2>3 DEF TerminatorPerforms
  <2>4. CASE TerminatorEnds(t)
    BY <1>12, <2>4 DEF TerminatorEnds
  <2> QED BY <1>13, <2>1, <2>2, <2>3, <2>4
<1>14. ASSUME NEW c \in Terminators \cup {"program"}, QueryTermination(c)  PROVE FinalTypeOK'
  <2>1. queries' \in 0 .. MaxQueries
    BY <1>14, BoundAssumption DEF QueryTermination, FinalTypeOK
  <2> QED BY <1>14, <2>1 DEF QueryTermination, FinalTypeOK, Stage, jobVars, termVars
<1>15. CASE QueryCancelsAllJobs
  <2>1. /\ HandOver(maThreads, "test1", "joinAll") /\ maThreads \in SUBSET Jobs
        /\ "test1" \in Stage /\ "joinAll" \in Stage
    BY <1>15 DEF QueryCancelsAllJobs, FinalTypeOK, Stage
  <2>2. /\ canceller' \in Canceller \cup {Void} /\ JoinsItsJob(canceller')
        /\ taken' \in SUBSET Jobs /\ stage' \in Stage
    BY <2>1, HandOverType
  <2> QED BY <1>15, <2>2 DEF QueryCancelsAllJobs, FinalTypeOK, termVars
<1>16. CASE JoinNext
  BY <1>16 DEF JoinNext, FinalTypeOK, Stage, jobVars, termVars
<1>17. CASE QuerySleeps
  BY <1>17 DEF QuerySleeps, FinalTypeOK, Stage, jobVars, termVars
<1>18. CASE Veto
  <2>1. Dismissed(mpTerminateOfficeThread) \in [Terminators -> Terminator]
    BY TerminatorsType DEF Dismissed, FinalTypeOK
  <2>2. PICK old \in [Terminators -> Terminator] :
               old = Returned(Dismissed(mpTerminateOfficeThread))
    BY <2>1, TerminatorsType
  <2>3. \/ \E t \in Terminators : /\ mpTerminateOfficeThread' = t
                                  /\ terminator' = [old EXCEPT ![t].pc = "test"]
        \/ mpTerminateOfficeThread' = Void /\ terminator' = old
    BY <1>18, <2>2 DEF Veto
  <2>4. terminator' \in [Terminators -> Terminator]
        /\ mpTerminateOfficeThread' \in Terminators \cup {Void}
    <3>1. \A t \in Terminators :
             [old EXCEPT ![t].pc = "test"] \in [Terminators -> Terminator]
      BY TerminatorsType
    <3> QED BY <2>3, <3>1
  <2> QED BY <1>18, <2>4 DEF Veto, FinalTypeOK, Stage, jobVars
<1>19. CASE NoVeto
  BY <1>19 DEF NoVeto, FinalTypeOK, Stage, jobVars, termVars
<1>20. ASSUME NEW p \in {"query", "save"}, NEW v \in PauseState,
              pausedBy' = [pausedBy EXCEPT ![p] = v]
       PROVE  pausedBy' \in [{"query", "save"} -> PauseState]
  BY <1>20 DEF FinalTypeOK
<1>21. ASSUME NEW p \in {"query", "save"},
              \/ PauseLooks(p) /\ UNCHANGED suspended
              \/ PauseSuspends(p)
              \/ PauseEnds(p)
       PROVE  pausedBy' \in [{"query", "save"} -> PauseState] /\ suspended' \in BOOLEAN
  <2>1. \E v \in PauseState : pausedBy' = [pausedBy EXCEPT ![p] = v]
    BY <1>21 DEF PauseLooks, PauseSuspends, PauseEnds, PauseState
  <2>2. suspended' \in BOOLEAN
    BY <1>21 DEF PauseSuspends, PauseEnds, FinalTypeOK
  <2> QED BY <2>1, <2>2, <1>20
<1>22. CASE QueryPauses
  <2>1. pausedBy' \in [{"query", "save"} -> PauseState] /\ suspended' \in BOOLEAN
    BY <1>21, <1>22 DEF QueryPauses
  <2> QED BY <1>22, <2>1 DEF QueryPauses, FinalTypeOK, Stage, jobVars, termVars
<1>23. CASE CancelTermination
  <2>1. pausedBy' \in [{"query", "save"} -> PauseState] /\ suspended' \in BOOLEAN
    BY <1>21, <1>23 DEF CancelTermination
  <2>2. terminator' \in [Terminators -> Terminator]
    BY <1>23, TerminatorsType DEF CancelTermination, FinalTypeOK
  <2> QED BY <1>23, <2>1, <2>2 DEF CancelTermination, FinalTypeOK, Stage, jobVars
<1>24. CASE SavePauses
  <2>1. pausedBy' \in [{"query", "save"} -> PauseState] /\ suspended' \in BOOLEAN
    BY <1>21, <1>24 DEF SavePauses
  <2> QED BY <1>24, <2>1 DEF SavePauses, FinalTypeOK, jobVars, termVars
<1>25. CASE NotifyTermination
  <2>1. Dismissed(mpTerminateOfficeThread) \in [Terminators -> Terminator]
    BY TerminatorsType DEF Dismissed, FinalTypeOK
  <2> QED BY <1>25, <2>1 DEF NotifyTermination, FinalTypeOK, Stage, jobVars
<1>26. CASE NotifyTakesJobs
  BY <1>26 DEF NotifyTakesJobs, FinalTypeOK, Stage, termVars
<1>27. CASE NotifyHandsOver
  <2>1. /\ HandOver(taken, "stop", "notifyJoinAll") /\ taken \in SUBSET Jobs
        /\ "stop" \in Stage /\ "notifyJoinAll" \in Stage
    BY <1>27 DEF NotifyHandsOver, FinalTypeOK, Stage
  <2>2. /\ canceller' \in Canceller \cup {Void} /\ JoinsItsJob(canceller')
        /\ taken' \in SUBSET Jobs /\ stage' \in Stage
    BY <2>1, HandOverType
  <2> QED BY <1>27, <2>2 DEF NotifyHandsOver, FinalTypeOK, jobVars, termVars
<1>28. CASE NotifyStops
  <2>1. /\ canceller' \in Canceller \cup {Void} /\ JoinsItsJob(canceller')
        /\ stage' \in Stage
    BY <1>28 DEF NotifyStops, FinalTypeOK, Canceller, Stage, JoinsItsJob
  <2> QED BY <1>28, <2>1 DEF NotifyStops, FinalTypeOK, jobVars, termVars
<1>29. CASE NotifyJoins
  BY <1>29 DEF NotifyJoins, FinalTypeOK, JoinsItsJob, Stage, jobVars, termVars
<1>30. CASE UNCHANGED finalVars
  BY <1>30 DEF finalVars, FinalTypeOK, jobVars, termVars
<1> QED BY <1>2, <1>3, <1>4, <1>5, <1>6, <1>7, <1>8, <1>9, <1>10, <1>11, <1>13, <1>14,
           <1>15, <1>16, <1>17, <1>18, <1>19, <1>22, <1>23, <1>24, <1>25, <1>26, <1>27,
           <1>28, <1>29, <1>30 DEF FinalNext

-----------------------------------------------------------------------------
(* Terminators.                                                             *)

\* Dismissing the old terminator leaves none that may go on; those that were to
\* stop stay so.
LEMMA DismissedFacts ==
  ASSUME FinalTypeOK, OneActiveTerminator,
         NEW ts, ts = Dismissed(mpTerminateOfficeThread)
  PROVE  /\ ts \in [Terminators -> Terminator]
         /\ \A t \in Terminators : ~ ActiveIn(ts, t)
<1>1. ts \in [Terminators -> Terminator]
  BY TerminatorsType DEF Dismissed, FinalTypeOK
<1>2. ASSUME NEW t \in Terminators, t # mpTerminateOfficeThread  PROVE ~ ActiveIn(ts, t)
  BY <1>2 DEF OneActiveTerminator, Dismissed, ActiveIn, FinalTypeOK
<1>3. ASSUME mpTerminateOfficeThread \in Terminators
      PROVE  ~ ActiveIn(ts, mpTerminateOfficeThread)
  <2>1. mpTerminateOfficeThread # Void
    BY <1>3, VoidAssumption
  <2> QED BY <1>3, <2>1 DEF Dismissed, ActiveIn, FinalTypeOK, Terminator
<1> QED BY <1>1, <1>2, <1>3

\* Every step keeps that at most the last terminator may go on: a veto dismisses it
\* before it makes another one.
LEMMA TerminatorStep == FinalTypeOK /\ OneActiveTerminator /\ [FinalNext]_finalVars => OneActiveTerminator'
<1> SUFFICES ASSUME FinalTypeOK, OneActiveTerminator, [FinalNext]_finalVars PROVE OneActiveTerminator'
  OBVIOUS
<1>1. CASE UNCHANGED termVars
  BY <1>1 DEF termVars, OneActiveTerminator
<1>2. ASSUME NEW t \in Terminators, NEW pc, TerminatorGoes(t, pc),
             ActiveIn(terminator', t) => ActiveIn(terminator, t),
             UNCHANGED notTerminators
      PROVE  OneActiveTerminator'
  BY <1>2 DEF TerminatorGoes, notTerminators, OneActiveTerminator, ActiveIn, FinalTypeOK
<1>3. ASSUME NEW t \in Terminators, TerminatorTests(t)  PROVE OneActiveTerminator'
  BY <1>2, <1>3 DEF TerminatorTests, TerminatorGoes, ActiveIn, FinalTypeOK, Terminator
<1>4. ASSUME NEW t \in Terminators, TerminatorChecks(t)  PROVE OneActiveTerminator'
  <2>1. PICK pc \in {"test", "test2"} : TerminatorGoes(t, pc)
    BY <1>4 DEF TerminatorChecks
  <2>2. ActiveIn(terminator', t) => ActiveIn(terminator, t)
    BY <1>4, <2>1 DEF TerminatorChecks, TerminatorGoes, ActiveIn, FinalTypeOK, Terminator
  <2> QED BY <1>2, <1>4, <2>1, <2>2 DEF TerminatorChecks
<1>5. ASSUME NEW t \in Terminators, TerminatorPerforms(t)  PROVE OneActiveTerminator'
  BY <1>2, <1>5 DEF TerminatorPerforms, TerminatorGoes, ActiveIn, FinalTypeOK, Terminator
<1>6. ASSUME NEW t \in Terminators, TerminatorEnds(t)  PROVE OneActiveTerminator'
  <2>1. PICK pc \in {"deleted", "lingers", "finished"} : TerminatorGoes(t, pc)
    BY <1>6 DEF TerminatorEnds
  <2>2. ~ ActiveIn(terminator', t)
    BY <2>1 DEF TerminatorGoes, ActiveIn, FinalTypeOK, Terminator
  <2> QED BY <1>2, <1>6, <2>1, <2>2 DEF TerminatorEnds
\* A thread that returns from terminate() does not go on.
<1>7. ASSUME NEW ts \in [Terminators -> Terminator], NEW t \in Terminators,
             ActiveIn(Returned(ts), t)
      PROVE  ActiveIn(ts, t)
  BY <1>7 DEF Returned, ActiveIn
<1>8. CASE Veto
  <2>1. PICK ts : ts = Dismissed(mpTerminateOfficeThread)
    OBVIOUS
  <2>2. ts \in [Terminators -> Terminator] /\ \A t \in Terminators : ~ ActiveIn(ts, t)
    BY <2>1, DismissedFacts
  <2>3. PICK old \in [Terminators -> Terminator] : old = Returned(ts)
    BY <2>2, TerminatorsType
  <2>4. \A t \in Terminators : ~ ActiveIn(old, t)
    BY <1>7, <2>2, <2>3
  <2>5. \/ \E t \in Terminators : /\ mpTerminateOfficeThread' = t
                                  /\ terminator' = [old EXCEPT ![t].pc = "test"]
        \/ terminator' = old
    BY <1>8, <2>1, <2>3 DEF Veto
  <2> QED BY <2>4, <2>5 DEF OneActiveTerminator, ActiveIn
<1>9. CASE CancelTermination
  BY <1>7, <1>9 DEF CancelTermination, OneActiveTerminator, ActiveIn, FinalTypeOK
<1>10. CASE NotifyTermination
  <2>1. \A t \in Terminators : ~ ActiveIn(terminator', t)
    BY <1>10, DismissedFacts DEF NotifyTermination
  <2> QED BY <2>1 DEF OneActiveTerminator, ActiveIn
<1>11. ASSUME \/ \E j \in Jobs : StartJob(j) \/ ConsumerRemoves(j) \/ JobEnds(j)
                                   \/ OnTerminated(j)
              \/ RegisterJob \/ ReleaseJob
              \/ CancellerTests \/ CancellerGets \/ CancellerJoins \/ CancellerSets
       PROVE  UNCHANGED termVars
  BY <1>11 DEF StartJob, ConsumerRemoves, JobEnds, OnTerminated, RegisterJob, ReleaseJob,
     CancellerTests, CancellerGets, CancellerJoins, CancellerSets
<1>12. ASSUME \/ \E c \in Terminators \cup {"program"} : QueryTermination(c)
              \/ QueryCancelsAllJobs \/ JoinNext \/ QuerySleeps \/ NoVeto
              \/ QueryPauses \/ SavePauses \/ NotifyTakesJobs \/ NotifyHandsOver
              \/ NotifyStops \/ NotifyJoins
       PROVE  UNCHANGED termVars
  BY <1>12 DEF QueryTermination, QueryCancelsAllJobs, JoinNext, QuerySleeps, NoVeto,
     QueryPauses, SavePauses, NotifyTakesJobs, NotifyHandsOver, NotifyStops, NotifyJoins
<1>13. CASE UNCHANGED finalVars
  BY <1>1, <1>13 DEF finalVars, termVars
<1> QED BY <1>1, <1>3, <1>4, <1>5, <1>6, <1>8, <1>9, <1>10, <1>11, <1>12, <1>13 DEF FinalNext

-----------------------------------------------------------------------------
(* Jobs and the lists they are in.                                          *)

\* What is with the canceller, when it exists.
LEMMA WithCancellerFacts ==
  FinalTypeOK => \A j \in Jobs : j \in WithCanceller <=>
              canceller # Void /\ (j \in canceller.jobs \/ j = canceller.cur)
  BY VoidAssumption DEF FinalTypeOK, Canceller, WithCanceller

\* The sets of jobs do not overlap and hold what runs, stated job by job.
LEMMA AccountedJobwise ==
  FinalTypeOK =>
    (JobsAccounted <=>
       \A j \in Jobs :
         /\ ~ (j \in maThreads /\ j \in taken)
         /\ ~ (j \in maThreads /\ j \in WithCanceller)
         /\ ~ (j \in taken /\ j \in WithCanceller)
         /\ stage \notin {"joinCanceller", "terminated"} /\ job[j] \in {"running", "ended"}
              /\ ~ Registering(j)
            => j \in maThreads \/ j \in taken \/ j \in WithCanceller)
  BY DEF FinalTypeOK, JobsAccounted, Registering

\* Every step keeps the jobs in their lists, and apart from those that are still
\* to be registered.
LEMMA ListsStep ==
  FinalTypeOK /\ FinalTypeOK' /\ ListsInv /\ [FinalNext]_finalVars => ListsInv'
<1> SUFFICES ASSUME FinalTypeOK, FinalTypeOK', ListsInv, [FinalNext]_finalVars PROVE ListsInv'
  OBVIOUS
<1> DEFINE with(j) == j \in WithCanceller
           placed(j) ==
             /\ ~ (j \in maThreads /\ j \in taken)
             /\ ~ (j \in maThreads /\ with(j)) /\ ~ (j \in taken /\ with(j))
             /\ stage \notin {"joinCanceller", "terminated"}
                  /\ job[j] \in {"running", "ended"} /\ ~ Registering(j)
                => j \in maThreads \/ j \in taken \/ with(j)
             /\ job[j] = "unborn" \/ Registering(j) =>
                  j \notin maThreads /\ j \notin taken /\ ~ with(j)
<1>1. /\ SectionsInv /\ CancellerInv /\ TakenInv /\ \A j \in Jobs : placed(j)
      /\ job \in [Jobs -> JobState] /\ tm \in Section \cup {Void}
      /\ maThreads \in SUBSET Jobs /\ taken \in SUBSET Jobs
      /\ canceller \in Canceller \cup {Void} /\ Void \notin Canceller /\ Void \notin Section
  BY AccountedJobwise, VoidAssumption DEF ListsInv, UnregisteredInv, FinalTypeOK
<1>2. ASSUME SectionsInv', CancellerInv', TakenInv', \A j \in Jobs : placed(j)'
      PROVE  ListsInv'
  <2>1. JobsAccounted'
    BY <1>2 DEF JobsAccounted, Registering, FinalTypeOK
  <2> QED BY <1>2, <2>1 DEF ListsInv, UnregisteredInv, Registering
\* Steps that leave jobs and lists alone.
<1>3. ASSUME UNCHANGED <<job, tm, maThreads, taken, canceller>>,
             \/ stage' = stage
             \/ stage \notin {"joinAll", "handOver", "notifyJoinAll", "joinCanceller",
                              "terminated"}
      PROVE  ListsInv'
  BY <1>1, <1>2, <1>3 DEF SectionsInv, CancellerInv, TakenInv, WithCanceller, Registering
\* Steps of jobs, which leave the canceller alone.
<1>4. ASSUME UNCHANGED <<taken, canceller, stage>>, SectionsInv',
             \A j \in Jobs : placed(j)'
      PROVE  ListsInv'
  BY <1>1, <1>2, <1>4 DEF CancellerInv, TakenInv
<1>5. ASSUME NEW j \in Jobs, StartJob(j)  PROVE ListsInv'
  <2>1. /\ tm = Void /\ job[j] = "unborn" /\ job' = [job EXCEPT ![j] = "running"]
        /\ tm' = [by |-> "program", does |-> "register", job |-> j]
        /\ UNCHANGED <<maThreads, taken, canceller, stage>>
    BY <1>5 DEF StartJob, Starts
  <2>2. \A k \in Jobs : Registering(k)' <=> k = j
    <3>1. tm' \in Section
      BY <2>1 DEF Section
    <3> QED BY <2>1, <3>1, <1>1 DEF Registering
  <2>3. SectionsInv'
    BY <1>1, <2>1 DEF SectionsInv
  <2>4. ASSUME NEW k \in Jobs  PROVE placed(k)'
    BY <1>1, <2>1, <2>2 DEF WithCanceller, Registering
  <2> QED BY <1>4, <2>1, <2>3, <2>4
<1>6. CASE RegisterJob
  <2>1. /\ tm # Void /\ tm.does = "register" /\ tm' = Void /\ tm.job \in Jobs
        /\ maThreads' = IF stage = "terminated" THEN maThreads ELSE maThreads \cup {tm.job}
        /\ job' = IF tm.by = "program" THEN job ELSE [job EXCEPT ![tm.by] = "done"]
        /\ UNCHANGED <<taken, canceller, stage>>
    BY <1>1, <1>6 DEF RegisterJob, Section
  <2>2. PICK r \in Jobs : r = tm.job
    BY <2>1
  <2>3. /\ \A k \in Jobs : (Registering(k) <=> k = r) /\ ~ Registering(k)'
        /\ job[r] # "unborn"
    BY <1>1, <2>1, <2>2 DEF Registering, SectionsInv
  <2>4. \A k \in Jobs : job'[k] = job[k] \/ job'[k] = "done"
    BY <1>1, <2>1
  <2>5. ASSUME NEW k \in Jobs  PROVE placed(k)'
    BY <1>1, <2>1, <2>2, <2>3, <2>4 DEF WithCanceller
  <2>6. SectionsInv'
    BY <2>1 DEF SectionsInv
  <2> QED BY <1>4, <2>1, <2>5, <2>6
<1>7. ASSUME NEW j \in Jobs, ConsumerRemoves(j)  PROVE ListsInv'
  BY <1>3, <1>7 DEF ConsumerRemoves
<1>8. ASSUME NEW j \in Jobs, JobEnds(j)  PROVE ListsInv'
  <2>1. /\ job[j] = "running" /\ job' = [job EXCEPT ![j] = "ended"]
        /\ UNCHANGED <<tm, maThreads, taken, canceller, stage>>
    BY <1>8 DEF JobEnds
  <2>2. ASSUME NEW k \in Jobs  PROVE placed(k)'
    BY <1>1, <2>1 DEF WithCanceller, Registering
  <2>3. SectionsInv'
    <3>1. tm # Void => tm.job \in Jobs
      BY <1>1 DEF Section
    <3> QED BY <3>1, <1>1, <2>1 DEF SectionsInv
  <2> QED BY <1>4, <2>1, <2>2, <2>3
<1>9. ASSUME NEW j \in Jobs, OnTerminated(j)  PROVE ListsInv'
  <2>1. /\ job[j] = "ended" /\ tm = Void /\ UNCHANGED <<maThreads, taken, canceller, stage>>
        /\ \/ /\ tm' = [by |-> j, does |-> "release", job |-> j]
              /\ job' = [job EXCEPT ![j] = "blocked"]
           \/ tm' = tm /\ job' = [job EXCEPT ![j] = "done"]
    BY <1>9 DEF OnTerminated
  <2>2. \A k \in Jobs : ~ Registering(k)'
    BY <2>1 DEF Registering
  <2>3. ASSUME NEW k \in Jobs  PROVE placed(k)'
    BY <1>1, <2>1, <2>2 DEF WithCanceller, Registering
  <2>4. SectionsInv'
    BY <1>1, <2>1 DEF SectionsInv
  <2> QED BY <1>4, <2>1, <2>3, <2>4
<1>10. CASE ReleaseJob
  <2>1. PICK r \in Jobs : r = tm.job
    BY <1>1, <1>10 DEF ReleaseJob, Section
  <2>2. /\ tm # Void /\ tm.does = "release" /\ maThreads' = maThreads \ {r}
        /\ job[r] = "blocked" /\ UNCHANGED <<taken, canceller, stage>>
    BY <1>1, <1>10, <2>1 DEF ReleaseJob, SectionsInv
  <2>3. \A k \in Jobs : ~ Registering(k)
    BY <2>2 DEF Registering
  <2>4. ASSUME NEW n \in Jobs, Starts(tm.by, n)  PROVE ListsInv'
    <3>1. /\ job[n] = "unborn" /\ job' = [job EXCEPT ![n] = "running"]
          /\ tm' = [by |-> tm.by, does |-> "register", job |-> n]
      BY <2>4 DEF Starts
    <3>2. \A k \in Jobs : Registering(k)' <=> k = n
      <4>1. tm' \in Section
        BY <1>1, <1>10, <3>1 DEF ReleaseJob, Section
      <4> QED BY <3>1, <4>1, <1>1 DEF Registering
    <3>3. ASSUME NEW k \in Jobs  PROVE placed(k)'
      BY <1>1, <2>2, <2>3, <3>1, <3>2 DEF WithCanceller
    <3>4. SectionsInv'
      BY <1>1, <3>1 DEF SectionsInv
    <3> QED BY <1>4, <2>2, <3>3, <3>4
  <2>5. ASSUME job' = [job EXCEPT ![r] = "done"], tm' = Void  PROVE ListsInv'
    <3>1. \A k \in Jobs : ~ Registering(k)'
      BY <2>5 DEF Registering
    <3>2. ASSUME NEW k \in Jobs  PROVE placed(k)'
      BY <1>1, <2>2, <2>3, <2>5, <3>1 DEF WithCanceller
    <3>3. SectionsInv'
      BY <2>5 DEF SectionsInv
    <3> QED BY <1>4, <2>2, <3>2, <3>3
  <2> QED BY <1>10, <2>1, <2>4, <2>5 DEF ReleaseJob
\* Steps of the canceller, which leave the other lists and the jobs alone.
<1>11. ASSUME UNCHANGED <<jobVars, taken, stage>>, canceller # Void, canceller' \in Canceller,
              CancellerInv',
              \A j \in Jobs : /\ with(j)' => with(j)
                              /\ with(j) /\ ~ with(j)' => job[j] = "done"
       PROVE  ListsInv'
  <2>1. UNCHANGED <<job, tm, maThreads>>
    BY <1>11 DEF jobVars
  <2>2. ASSUME NEW j \in Jobs  PROVE placed(j)'
    BY <1>1, <1>11, <2>1 DEF Registering
  <2>3. SectionsInv' /\ TakenInv'
    BY <1>1, <1>11, <2>1 DEF SectionsInv, TakenInv
  <2> QED BY <1>2, <1>11, <2>2, <2>3
<1>12. /\ \A j \in Jobs : with(j) <=>
             canceller # Void /\ (j \in canceller.jobs \/ j = canceller.cur)
       /\ \A j \in Jobs : with(j)' <=>
             canceller' # Void /\ (j \in canceller'.jobs \/ j = canceller'.cur)
  BY VoidAssumption DEF WithCanceller, FinalTypeOK, Canceller
<1>13. CASE CancellerTests
  <2>1. /\ canceller \in Canceller /\ canceller # Void /\ canceller' \in Canceller
        /\ canceller'.jobs = canceller.jobs /\ canceller'.cur = canceller.cur
        /\ canceller'.stopped = canceller.stopped /\ canceller.pc = "test"
        /\ canceller'.pc = IF canceller.stopped THEN "ended" ELSE "exist"
        /\ UNCHANGED <<jobVars, taken, stage>>
    BY <1>1, <1>13 DEF CancellerTests, Canceller
  <2>2. CancellerInv'
    BY <1>1, <2>1 DEF CancellerInv
  <2>3. \A j \in Jobs : with(j)' <=> with(j)
    BY <1>1, <1>12, <2>1
  <2> QED BY <1>11, <2>1, <2>2, <2>3
<1>14. CASE CancellerGets
  <2>1. /\ canceller \in Canceller /\ canceller # Void /\ canceller' \in Canceller
        /\ canceller'.stopped = canceller.stopped /\ canceller.pc = "exist"
        /\ \/ canceller'.jobs = canceller.jobs /\ canceller'.cur = canceller.cur
              /\ canceller'.pc = "set"
           \/ \E j \in canceller.jobs : /\ canceller'.jobs = canceller.jobs \ {j}
                                        /\ canceller'.cur = j /\ canceller'.pc = "join"
        /\ UNCHANGED <<jobVars, taken, stage>>
    BY <1>1, <1>14 DEF CancellerGets, Canceller
  <2>2. CancellerInv' /\ canceller.cur = Void
    BY <1>1, <2>1 DEF CancellerInv
  <2>3. \A j \in Jobs : with(j)' <=> with(j)
    BY <1>12, <2>1, <2>2, VoidAssumption
  <2> QED BY <1>1, <1>11, <2>1, <2>2, <2>3
<1>15. CASE CancellerJoins
  <2>1. /\ canceller \in Canceller /\ canceller # Void /\ canceller' \in Canceller
        /\ canceller'.jobs = canceller.jobs /\ canceller'.cur = Void
        /\ canceller'.stopped = canceller.stopped /\ canceller'.pc = "exist"
        /\ job[canceller.cur] = "done" /\ UNCHANGED <<jobVars, taken, stage>>
    BY <1>1, <1>15 DEF CancellerJoins, Canceller
  <2>2. CancellerInv'
    BY <1>1, <2>1 DEF CancellerInv
  <2>3. \A j \in Jobs : /\ with(j)' => with(j)
                        /\ with(j) /\ ~ with(j)' => job[j] = "done"
    BY <1>12, <2>1, VoidAssumption
  <2> QED BY <1>11, <2>1, <2>2, <2>3
<1>16. CASE CancellerSets
  <2>1. /\ canceller \in Canceller /\ canceller # Void /\ canceller' \in Canceller
        /\ canceller'.jobs = canceller.jobs /\ canceller'.cur = canceller.cur
        /\ canceller'.stopped = canceller.stopped /\ canceller.pc = "set"
        /\ canceller'.pc = "test" /\ UNCHANGED <<jobVars, taken, stage>>
    BY <1>1, <1>16 DEF CancellerSets, Canceller
  <2>2. CancellerInv'
    BY <1>1, <2>1 DEF CancellerInv
  <2>3. \A j \in Jobs : with(j)' <=> with(j)
    BY <1>1, <1>12, <2>1
  <2> QED BY <1>11, <2>1, <2>2, <2>3
\* cancelAllJobs gives js to the canceller, or keeps them to join them itself.
<1>17. ASSUME NEW js \in SUBSET Jobs, NEW done \in Stage, NEW failed \in Stage,
              HandOver(js, done, failed), UNCHANGED <<job, tm>>,
              maThreads' \subseteq maThreads, taken \subseteq js,
              \A j \in Jobs : j \in maThreads /\ j \notin maThreads' <=> j \in js \ taken,
              failed \in {"joinAll", "notifyJoinAll"},
              stage \notin {"joinCanceller", "terminated"}
       PROVE  ListsInv'
  <2>1. canceller # Void => canceller.stopped = FALSE
    BY <1>1, <1>17 DEF CancellerInv, Canceller
  <2>2. CASE js = {} /\ stage' = done /\ UNCHANGED <<canceller, taken>>
    <3>1. ASSUME NEW j \in Jobs  PROVE placed(j)'
      BY <1>1, <1>17, <2>2 DEF WithCanceller, Registering
    <3>2. SectionsInv' /\ TakenInv' /\ CancellerInv'
      BY <1>1, <1>17, <2>1, <2>2 DEF SectionsInv, TakenInv, CancellerInv
    <3> QED BY <1>2, <3>1, <3>2
  <2>3. CASE /\ js # {} /\ canceller # Void
             /\ canceller' = [canceller EXCEPT !.jobs = @ \cup js, !.all = TRUE]
             /\ taken' = {} /\ stage' = done
    <3>1. /\ canceller'.jobs = canceller.jobs \cup js /\ canceller'.cur = canceller.cur
          /\ canceller'.pc = canceller.pc /\ canceller'.stopped = canceller.stopped
          /\ canceller' \in Canceller
      BY <1>1, <2>3 DEF Canceller
    <3>2. \A j \in Jobs : with(j)' <=> with(j) \/ j \in js
      BY <1>1, <1>12, <2>3, <3>1
    <3>3. ASSUME NEW j \in Jobs  PROVE placed(j)'
      BY <1>1, <1>17, <2>3, <3>2 DEF Registering
    <3>4. SectionsInv' /\ TakenInv' /\ CancellerInv'
      BY <1>1, <1>17, <2>1, <2>3, <3>1 DEF SectionsInv, TakenInv, CancellerInv
    <3> QED BY <1>2, <3>3, <3>4
  <2>4. CASE js # {} /\ canceller = Void /\ canceller' = NewCanceller(js)
             /\ taken' = {} /\ stage' = done
    <3>1. /\ canceller' \in Canceller /\ canceller'.jobs = js /\ canceller'.cur = Void
          /\ canceller'.pc = "test" /\ canceller'.stopped = FALSE
      BY <2>4 DEF NewCanceller, Canceller
    <3>2. \A j \in Jobs : ~ with(j) /\ (with(j)' <=> j \in js)
      BY <1>1, <1>12, <2>4, <3>1, VoidAssumption
    <3>3. ASSUME NEW j \in Jobs  PROVE placed(j)'
      BY <1>1, <1>17, <2>4, <3>2 DEF Registering
    <3>4. SectionsInv' /\ TakenInv' /\ CancellerInv'
      BY <1>1, <1>17, <2>4, <3>1 DEF SectionsInv, TakenInv, CancellerInv
    <3> QED BY <1>2, <3>3, <3>4
  <2>5. CASE js # {} /\ canceller = Void /\ taken' = js /\ stage' = failed
             /\ UNCHANGED canceller
    <3>1. ASSUME NEW j \in Jobs  PROVE placed(j)'
      BY <1>1, <1>17, <2>5 DEF WithCanceller, Registering
    <3>2. SectionsInv' /\ TakenInv' /\ CancellerInv'
      BY <1>1, <1>17, <2>5 DEF SectionsInv, TakenInv, CancellerInv
    <3> QED BY <1>2, <3>1, <3>2
  <2> QED BY <1>17, <2>2, <2>3, <2>4, <2>5 DEF HandOver
<1>18. CASE QueryCancelsAllJobs
  <2>1. taken = {} /\ stage = "query" /\ "test1" \in Stage /\ "joinAll" \in Stage
    BY <1>1, <1>18 DEF QueryCancelsAllJobs, TakenInv, Stage
  <2>2. /\ HandOver(maThreads, "test1", "joinAll") /\ maThreads' = {}
        /\ UNCHANGED <<job, tm>>
    BY <1>18 DEF QueryCancelsAllJobs
  <2> QED BY <1>1, <1>17, <2>1, <2>2
<1>19. CASE NotifyTakesJobs
  <2>1. /\ taken = {} /\ stage = "notify" /\ taken' = maThreads /\ maThreads' = {}
        /\ stage' = "handOver" /\ UNCHANGED <<job, tm, canceller>>
    BY <1>1, <1>19 DEF NotifyTakesJobs, TakenInv
  <2>2. ASSUME NEW j \in Jobs  PROVE placed(j)'
    BY <1>1, <2>1 DEF WithCanceller, Registering
  <2>3. SectionsInv' /\ TakenInv' /\ CancellerInv'
    BY <1>1, <2>1 DEF SectionsInv, TakenInv, CancellerInv
  <2> QED BY <1>2, <2>2, <2>3
<1>20. CASE NotifyHandsOver
  <2>1. stage = "handOver" /\ "stop" \in Stage /\ "notifyJoinAll" \in Stage
    BY <1>20 DEF NotifyHandsOver, Stage
  <2>2. HandOver(taken, "stop", "notifyJoinAll") /\ UNCHANGED <<job, tm, maThreads>>
    BY <1>20 DEF NotifyHandsOver, jobVars
  <2> QED BY <1>1, <1>17, <2>1, <2>2
<1>21. CASE JoinNext
  <2>1. PICK j \in taken : job[j] = "done" /\ taken' = taken \ {j}
    BY <1>21 DEF JoinNext
  <2>2. /\ stage \in {"joinAll", "notifyJoinAll"} /\ UNCHANGED <<job, tm, maThreads, canceller>>
        /\ stage' = IF taken' # {} THEN stage
                    ELSE IF stage = "joinAll" THEN "test1" ELSE "stop"
    BY <1>21 DEF JoinNext, jobVars
  <2>3. ASSUME NEW k \in Jobs  PROVE placed(k)'
    BY <1>1, <2>1, <2>2 DEF WithCanceller, Registering
  <2>4. SectionsInv' /\ TakenInv' /\ CancellerInv'
    BY <1>1, <2>1, <2>2 DEF SectionsInv, TakenInv, CancellerInv
  <2> QED BY <1>2, <2>3, <2>4
<1>22. CASE NotifyStops
  <2>1. /\ stage = "stop" /\ stage' \in {"terminated", "joinCanceller"} /\ taken = {}
        /\ UNCHANGED <<job, tm, maThreads, taken>>
    BY <1>1, <1>22 DEF NotifyStops, jobVars, TakenInv
  <2>2. \/ canceller = Void /\ canceller' = Void
        \/ /\ canceller # Void /\ canceller' \in Canceller /\ stage' = "joinCanceller"
           /\ canceller'.jobs = canceller.jobs /\ canceller'.cur = canceller.cur
           /\ canceller'.pc = canceller.pc /\ canceller'.stopped = TRUE
    BY <1>1, <1>22 DEF NotifyStops, Canceller
  <2>3. \A k \in Jobs : with(k)' <=> with(k)
    BY <1>1, <1>12, <2>2
  <2>4. ASSUME NEW k \in Jobs  PROVE placed(k)'
    BY <1>1, <2>1, <2>3 DEF Registering
  <2>5. SectionsInv' /\ TakenInv' /\ CancellerInv'
    BY <1>1, <2>1, <2>2 DEF SectionsInv, TakenInv, CancellerInv
  <2> QED BY <1>2, <2>4, <2>5
<1>23. CASE NotifyJoins
  <2>1. /\ stage = "joinCanceller" /\ stage' = "terminated" /\ canceller' = Void /\ taken = {}
        /\ UNCHANGED <<job, tm, maThreads, taken>>
    BY <1>1, <1>23 DEF NotifyJoins, jobVars, TakenInv
  <2>2. \A k \in Jobs : ~ with(k)'
    BY <1>12, <2>1
  <2>3. ASSUME NEW k \in Jobs  PROVE placed(k)'
    BY <1>1, <2>1, <2>2 DEF Registering
  <2>4. SectionsInv' /\ TakenInv' /\ CancellerInv'
    BY <1>1, <2>1 DEF SectionsInv, TakenInv, CancellerInv
  <2> QED BY <1>2, <2>3, <2>4
<1>24. ASSUME NEW t \in Terminators,
              TerminatorTests(t) \/ TerminatorChecks(t) \/ TerminatorPerforms(t)
                \/ TerminatorEnds(t)
       PROVE  ListsInv'
  <2>1. UNCHANGED notTerminators
    BY <1>24 DEF TerminatorTests, TerminatorChecks, TerminatorPerforms, TerminatorEnds
  <2> QED BY <1>3, <2>1 DEF notTerminators, jobVars
<1>25. CASE \/ \E c \in Terminators \cup {"program"} : QueryTermination(c)
            \/ QuerySleeps \/ Veto \/ NoVeto
  BY <1>3, <1>25 DEF QueryTermination, QuerySleeps, Veto, NoVeto, jobVars
<1>26. CASE QueryPauses \/ CancelTermination \/ SavePauses \/ NotifyTermination
  BY <1>3, <1>26 DEF QueryPauses, CancelTermination, SavePauses, NotifyTermination, jobVars
<1>27. CASE UNCHANGED finalVars
  BY <1>3, <1>27 DEF finalVars, jobVars
<1> QED BY <1>5, <1>6, <1>7, <1>8, <1>9, <1>10, <1>13, <1>14, <1>15, <1>16, <1>18, <1>19,
           <1>20, <1>21, <1>22, <1>23, <1>24, <1>25, <1>26, <1>27 DEF FinalNext

-----------------------------------------------------------------------------
(* Between the consent of a query and the end of the office.                *)

\* Every step keeps that nothing is registered, and nothing handed over, behind a
\* consent.
LEMMA QuietStep ==
  FinalTypeOK /\ FinalTypeOK' /\ ListsInv /\ QuietInv /\ [FinalNext]_finalVars => QuietInv'
<1> SUFFICES ASSUME FinalTypeOK, FinalTypeOK', ListsInv, QuietInv, [FinalNext]_finalVars PROVE QuietInv'
  OBVIOUS
<1> USE DEF Querying, Consented
<1>1. /\ stage \in Querying => ftm
      /\ stage \in Querying \ {"query"} => maThreads = {}
      /\ taken # {} => stage \in {"joinAll", "handOver", "notifyJoinAll"}
      /\ stage \in Stage /\ Void \notin Canceller /\ Void \notin Section
      /\ canceller \in Canceller \cup {Void} /\ tm \in Section \cup {Void}
      /\ pausedBy \in [{"query", "save"} -> PauseState]
  BY VoidAssumption DEF QuietInv, ListsInv, TakenInv, FinalTypeOK
<1> DEFINE quiet == /\ suspended <=> pausedBy["query"] = "paused"
                    /\ stage \notin Consented \ {"pause"} => pausedBy["query"] = "none"
                    /\ stage = "suspend" => pausedBy["query"] = "seenRunning"
                    /\ stage \in Consented \ {"pause", "suspend"} =>
                         /\ suspended
                         /\ tm # Void => tm.does = "release"
                         /\ maThreads = {} /\ taken = {}
                    /\ stage \in Consented /\ canceller # Void => canceller.jobs = {}
<1>2. pausedBy["save"] = "absent" => quiet
  BY DEF QuietInv
<1>3. ASSUME stage' \in Querying => ftm',
             stage' \in Querying \ {"query"} => maThreads' = {},
             pausedBy'["save"] = "absent" => quiet'
      PROVE  QuietInv'
  BY <1>3 DEF QuietInv
\* Steps of jobs: none registers while the mutex is held, and none starts while
\* starting is suspended.
<1>4. ASSUME UNCHANGED <<suspended, ftm, taken, canceller, stage, pausedBy>>,
             ftm => maThreads' = maThreads,
             \/ maThreads' \subseteq maThreads
             \/ tm # Void /\ tm.does = "register",
             tm' = tm \/ tm' = Void \/ tm'.does = "release" \/ ~suspended
      PROVE  QuietInv'
  BY <1>1, <1>2, <1>3, <1>4
<1>5. ASSUME NEW by, NEW j \in Jobs, Starts(by, j)  PROVE ~suspended
  BY <1>5 DEF Starts
<1>6. ASSUME NEW j \in Jobs, StartJob(j)  PROVE QuietInv'
  BY <1>4, <1>5, <1>6 DEF StartJob
<1>7. CASE RegisterJob
  BY <1>4, <1>7 DEF RegisterJob
<1>8. ASSUME NEW j \in Jobs, ConsumerRemoves(j) \/ JobEnds(j)  PROVE QuietInv'
  BY <1>4, <1>8 DEF ConsumerRemoves, JobEnds
<1>9. ASSUME NEW j \in Jobs, OnTerminated(j)  PROVE QuietInv'
  BY <1>4, <1>9 DEF OnTerminated
<1>10. CASE ReleaseJob
  BY <1>4, <1>5, <1>10 DEF ReleaseJob
\* Steps of the canceller, which never give it more to do.
<1>11. ASSUME UNCHANGED <<tm, maThreads, suspended, ftm, taken, stage, pausedBy>>,
              canceller # Void, canceller'.jobs \subseteq canceller.jobs
       PROVE  QuietInv'
  BY <1>1, <1>2, <1>3, <1>11
<1>12. CASE CancellerTests
  BY <1>1, <1>11, <1>12 DEF CancellerTests, Canceller, jobVars
<1>13. CASE CancellerGets
  BY <1>1, <1>11, <1>13 DEF CancellerGets, Canceller, jobVars
<1>14. CASE CancellerJoins
  BY <1>1, <1>11, <1>14 DEF CancellerJoins, Canceller, jobVars
<1>15. CASE CancellerSets
  BY <1>1, <1>11, <1>15 DEF CancellerSets, Canceller, jobVars
\* Steps that change only the stage, or nothing of interest.
<1>16. ASSUME UNCHANGED <<tm, maThreads, suspended, ftm, taken, canceller, pausedBy>>,
              \/ stage' = stage
              \/ stage \in Querying \ {"query", "pause", "suspend"}
                   /\ stage' \in Querying \ {"query", "pause", "suspend"}
              \/ stage \in Consented \ {"pause", "suspend"}
                   /\ stage' \in Consented \ {"pause", "suspend"}
       PROVE  QuietInv'
  BY <1>1, <1>2, <1>3, <1>16
<1>17. ASSUME NEW t \in Terminators,
              TerminatorTests(t) \/ TerminatorChecks(t) \/ TerminatorPerforms(t)
                \/ TerminatorEnds(t)
       PROVE  QuietInv'
  <2>1. UNCHANGED notTerminators
    BY <1>17 DEF TerminatorTests, TerminatorChecks, TerminatorPerforms, TerminatorEnds
  <2> QED BY <1>16, <2>1 DEF notTerminators, jobVars
<1>18. ASSUME NEW c \in Terminators \cup {"program"}, QueryTermination(c)  PROVE QuietInv'
  BY <1>1, <1>2, <1>3, <1>18 DEF QueryTermination, jobVars
<1>19. CASE QueryCancelsAllJobs
  <2>1. stage = "query" /\ stage' \in {"test1", "joinAll"} /\ maThreads' = {}
        /\ UNCHANGED <<suspended, ftm, pausedBy>>
    BY <1>19 DEF QueryCancelsAllJobs, HandOver
  <2> QED BY <1>1, <1>2, <1>3, <2>1
<1>20. CASE JoinNext
  <2>1. /\ stage \in {"joinAll", "notifyJoinAll"} /\ taken # {}
        /\ stage' = IF taken' # {} THEN stage
                    ELSE IF stage = "joinAll" THEN "test1" ELSE "stop"
        /\ ftm' = (stage' \notin {"stop"})
        /\ UNCHANGED <<tm, maThreads, suspended, canceller, pausedBy>>
    BY <1>20 DEF JoinNext, jobVars
  <2> QED BY <1>1, <1>2, <1>3, <2>1
<1>21. CASE QuerySleeps
  BY <1>16, <1>21 DEF QuerySleeps, jobVars
<1>22. CASE Veto
  BY <1>1, <1>2, <1>3, <1>22 DEF Veto, jobVars
<1>23. CASE NoVeto
  <2>1. /\ stage = "test2" /\ stage' = "pause"
        /\ canceller # Void => canceller.jobs = {}
        /\ UNCHANGED <<tm, maThreads, suspended, ftm, taken, canceller, pausedBy>>
    BY <1>23 DEF NoVeto, AllJobsCancelled, jobVars
  <2> QED BY <1>1, <1>2, <1>3, <2>1
\* The query suspends the starting of threads, unless a save has done so.
<1>24. CASE QueryPauses
  <2>1. CASE stage = "pause" /\ PauseLooks("query") /\ UNCHANGED suspended
    <3>1. /\ pausedBy' = [pausedBy EXCEPT !["query"] =
                            IF suspended THEN "didNothing" ELSE "seenRunning"]
          /\ UNCHANGED <<tm, maThreads, taken, canceller>>
          /\ IF suspended THEN stage' = "queried" /\ ftm' = FALSE
             ELSE stage' = "suspend" /\ UNCHANGED ftm
      BY <1>24, <2>1 DEF QueryPauses, PauseLooks, jobVars
    <3> QED BY <1>1, <1>2, <1>3, <2>1, <3>1
  <2>2. CASE stage = "suspend" /\ PauseSuspends("query") /\ stage' = "queried" /\ ftm' = FALSE
    <3>1. /\ pausedBy' = [pausedBy EXCEPT !["query"] = "paused"] /\ suspended' = TRUE
          /\ tm = Void /\ UNCHANGED <<tm, maThreads, taken, canceller>>
      BY <1>24, <2>2 DEF QueryPauses, PauseSuspends, jobVars
    <3> QED BY <1>1, <1>2, <1>3, <2>2, <3>1
  <2> QED BY <1>24, <2>1, <2>2 DEF QueryPauses
<1>25. CASE CancelTermination
  <2>1. /\ stage = "queried" /\ stage' = "idle" /\ pausedBy["query"] \in {"paused", "didNothing"}
        /\ pausedBy' = [pausedBy EXCEPT !["query"] = "none"]
        /\ pausedBy["query"] = "paused" => suspended' = FALSE
    BY <1>25 DEF CancelTermination, PauseEnds
  <2> QED BY <1>1, <1>2, <1>3, <2>1
<1>26. CASE SavePauses
  <2>1. /\ pausedBy["save"] # "absent" /\ pausedBy'["save"] # "absent"
        /\ UNCHANGED <<maThreads, ftm, stage>>
    BY <1>1, <1>26 DEF SavePauses, PauseLooks, PauseSuspends, PauseEnds, jobVars
  <2> QED BY <1>1, <1>3, <2>1
<1>27. CASE NotifyTermination
  BY <1>16, <1>27 DEF NotifyTermination, jobVars
<1>28. CASE NotifyTakesJobs
  <2>1. /\ stage = "notify" /\ stage' = "handOver" /\ taken' = maThreads /\ maThreads' = {}
        /\ UNCHANGED <<tm, suspended, ftm, canceller, pausedBy>>
    BY <1>28 DEF NotifyTakesJobs
  <2> QED BY <1>1, <1>2, <1>3, <2>1
<1>29. CASE NotifyHandsOver
  <2>1. /\ stage = "handOver" /\ stage' \in {"stop", "notifyJoinAll"}
        /\ taken = {} => UNCHANGED <<canceller, taken>>
        /\ UNCHANGED <<tm, maThreads, suspended, pausedBy>>
    BY <1>29 DEF NotifyHandsOver, HandOver, jobVars
  <2> QED BY <1>1, <1>2, <1>3, <2>1
<1>30. CASE NotifyStops
  <2>1. /\ stage = "stop" /\ stage' \in {"terminated", "joinCanceller"}
        /\ canceller' # Void => canceller # Void /\ canceller'.jobs = canceller.jobs
        /\ UNCHANGED <<tm, maThreads, suspended, ftm, taken, pausedBy>>
    BY <1>1, <1>30 DEF NotifyStops, Canceller, jobVars
  <2> QED BY <1>1, <1>2, <1>3, <2>1
<1>31. CASE NotifyJoins
  <2>1. /\ stage = "joinCanceller" /\ stage' = "terminated" /\ canceller' = Void
        /\ UNCHANGED <<tm, maThreads, suspended, ftm, taken, pausedBy>>
    BY <1>31 DEF NotifyJoins, jobVars
  <2> QED BY <1>1, <1>2, <1>3, <2>1
<1>32. CASE UNCHANGED finalVars
  BY <1>16, <1>32 DEF finalVars
<1> QED BY <1>6, <1>7, <1>8, <1>9, <1>10, <1>12, <1>13, <1>14, <1>15, <1>17, <1>18, <1>19,
           <1>20, <1>21, <1>22, <1>23, <1>24, <1>25, <1>26, <1>27, <1>28, <1>29, <1>30,
           <1>31, <1>32 DEF FinalNext

-----------------------------------------------------------------------------
(* The theorems.                                                            *)

\* The invariant holds in the initial states,
LEMMA IInvInit == FinalInit => IInv
<1> SUFFICES ASSUME FinalInit PROVE IInv
  OBVIOUS
<1>1. FinalTypeOK
  BY InitType
<1>2. ListsInv
  BY DEF FinalInit, ListsInv, SectionsInv, CancellerInv, UnregisteredInv, TakenInv,
         JobsAccounted, WithCanceller, Registering
<1>3. OneActiveTerminator
  BY DEF FinalInit, OneActiveTerminator
<1>4. QuietInv
  BY DEF FinalInit, QuietInv, Querying, Consented
<1> QED BY <1>1, <1>2, <1>3, <1>4 DEF IInv

\* and always.
LEMMA IInvAlways == FinalSpec => []IInv
<1>1. IInv /\ [FinalNext]_finalVars => IInv'
  BY TypeStep, TerminatorStep, ListsStep, QuietStep DEF IInv
<1> QED BY IInvInit, <1>1, PTL DEF FinalSpec

\* Every reachable state has the declared types.
THEOREM TypeCorrect == FinalSpec => []FinalTypeOK
<1>1. IInv => FinalTypeOK
  BY DEF IInv
<1> QED BY <1>1, IInvAlways, PTL

\* However registration, release, removal by the consumer, cancellation and
\* termination overlap, with any number of jobs and whatever thread cannot be
\* created: until the canceller is stopped each registered job that is not done is
\* in one and only one place from which it will be joined or released.
THEOREM JobsStayAccounted == FinalSpec => []JobsAccounted
<1>1. IInv => JobsAccounted
  BY DEF IInv, ListsInv
<1> QED BY <1>1, IInvAlways, PTL

\* However many queries are vetoed, at most the last TerminateOfficeThread may
\* still terminate the office.
THEOREM TerminatorIsOnlyOne == FinalSpec => []OneActiveTerminator
<1>1. IInv => OneActiveTerminator
  BY DEF IInv
<1> QED BY <1>1, IInvAlways, PTL

\* If nobody but the query pauses the starting of threads, the canceller that
\* notifyTermination stops has no jobs left when it ends.
THEOREM CancellerEndsWithoutJobs == FinalSpec => []EndsWithoutJobs
<1>1. IInv => EndsWithoutJobs
  <2> SUFFICES ASSUME IInv, pausedBy["save"] = "absent", canceller # Void,
                      canceller.pc = "ended"
               PROVE  WithCanceller = {}
    BY DEF EndsWithoutJobs
  <2>1. canceller.cur = Void /\ stage = "joinCanceller"
    BY DEF IInv, ListsInv, CancellerInv
  <2>2. canceller.jobs = {}
    BY <2>1 DEF IInv, QuietInv, Consented
  <2> QED BY <2>1, <2>2 DEF WithCanceller
<1> QED BY <1>1, IInvAlways, PTL
=============================================================================
