------------------------- MODULE FinalThreadManager -------------------------
(***************************************************************************)
(* The job manager that ends the Writer's threads when the office          *)
(* terminates (source/core/docnode/finalthreadmanager.cxx) together with   *)
(* the two mutexes it shares with the thread manager.                      *)
(*                                                                         *)
(* Processes: the job threads; the CancelJobsThread, which joins them; the *)
(* TerminateOfficeThreads; the program, which starts jobs and terminates   *)
(* the office; and another thread that pauses the starting of threads      *)
(* while it saves a document.  A section under a mutex that waits for      *)
(* nothing is one step.  The sections that wait inside are those of the    *)
(* thread manager (tm) and queryTermination and cancelAllJobs (ftm).       *)
(***************************************************************************)
EXTENDS Naturals, FiniteSets

CONSTANTS
  Jobs,            \* the ObservableThreads, each with its CancellableJob
  Terminators,     \* the TerminateOfficeThread objects
  MaxQueries,      \* bound on the number of terminations of the office
  CreateMayFail,   \* may create() fail for CancelJobsThread and terminators?
  Void             \* no thread, no job, no section: the null pointer

ASSUME BoundAssumption ==
  MaxQueries \in Nat /\ CreateMayFail \in BOOLEAN

\* A section of the thread manager that needs the job manager's mutex: thread
\* by releases its own job, or starts and registers job.
Section == [by : Jobs \cup {"program"}, does : {"release", "register"}, job : Jobs]

Canceller == [jobs : SUBSET Jobs, cur : Jobs \cup {Void}, all : BOOLEAN,
              stopped : BOOLEAN, pc : {"test", "exist", "join", "set", "ended"}]

ASSUME VoidAssumption ==
  Void \notin Jobs \cup Terminators \cup {"program"} \cup Section \cup Canceller

VARIABLES
  job,          \* the state of each job thread
  started,      \* maStartedThreads of the thread manager
  tm,           \* ThreadManager::maMutex: Void, or the section that holds it
  suspended,    \* ThreadManager::mbStartingOfThreadsSuspended
  ftm,          \* FinalThreadManager::maMutex: is it held by the termination?
  maThreads,    \* the registered jobs
  taken,        \* the local list aThreads of cancelAllJobs
  canceller,    \* mpCancelJobsThread: Void, or its state
  terminator,   \* the state of each TerminateOfficeThread
  mpTerminateOfficeThread,
  stage,        \* how far the termination of the office has come
  caller,       \* the thread that terminates the office
  queries,
  pausedBy      \* the SwPauseThreadStarting objects, and what they did

finalVars == <<job, started, tm, suspended, ftm, maThreads, taken, canceller,
          terminator, mpTerminateOfficeThread, stage, caller, queries, pausedBy>>

jobVars  == <<job, started, tm, maThreads>>
termVars == <<terminator, mpTerminateOfficeThread>>

\* "unborn", then "running" in threadFunction, "ended" and in need of the thread
\* manager's mutex, "blocked" in a section of it, "done" and joinable.
JobState == {"unborn", "running", "ended", "blocked", "done"}

Terminator == [pc : {"none", "test", "check", "test2", "perform", "terminate",
                     "over", "lingers", "finished", "deleted"},
               stopped : BOOLEAN]

Stage == {"idle", "query", "joinAll", "test1", "sleep", "test2", "pause", "suspend",
          "queried", "notify", "handOver", "notifyJoinAll", "stop", "joinCanceller",
          "terminated"}

\* "absent": there will be no such object.
PauseState == {"absent", "none", "seenRunning", "paused", "didNothing"}

\* The canceller c joins a job exactly while it holds one.
JoinsItsJob(c) == c # Void => (c.cur # Void <=> c.pc = "join")

FinalTypeOK ==
  /\ job \in [Jobs -> JobState] /\ started \in SUBSET Jobs
  /\ tm \in Section \cup {Void} /\ suspended \in BOOLEAN /\ ftm \in BOOLEAN
  /\ maThreads \in SUBSET Jobs /\ taken \in SUBSET Jobs
  /\ canceller \in Canceller \cup {Void}
  /\ JoinsItsJob(canceller)
  /\ terminator \in [Terminators -> Terminator]
  /\ mpTerminateOfficeThread \in Terminators \cup {Void}
  /\ stage \in Stage /\ caller \in Terminators \cup {"program", Void}
  /\ queries \in 0 .. MaxQueries
  /\ pausedBy \in [{"query", "save"} -> PauseState]

FinalInit ==
  /\ job = [j \in Jobs |-> "unborn"] /\ started = {}
  /\ tm = Void /\ suspended = FALSE /\ ftm = FALSE
  /\ maThreads = {} /\ taken = {} /\ canceller = Void
  /\ terminator = [t \in Terminators |-> [pc |-> "none", stopped |-> FALSE]]
  /\ mpTerminateOfficeThread = Void
  /\ stage = "idle" /\ caller = Void /\ queries = 0
  /\ \E save \in {"none", "absent"} :
       pausedBy = [p \in {"query", "save"} |-> IF p = "save" THEN save ELSE "none"]

-----------------------------------------------------------------------------
(* Job threads, and the thread manager as far as the mutexes go.            *)

\* A job is started under the thread manager's mutex, by the program or by a
\* job that ends; registerJob still has to come.
Starts(by, j) ==
  /\ ~suspended /\ job[j] = "unborn"
  /\ job' = [job EXCEPT ![j] = "running"]
  /\ started' = started \cup {j}
  /\ tm' = [by |-> by, does |-> "register", job |-> j]

StartJob(j) ==
  /\ tm = Void /\ caller # "program"
  /\ Starts("program", j)
  /\ UNCHANGED <<suspended, ftm, maThreads, taken, canceller, termVars, stage,
                 caller, queries, pausedBy>>

\* registerJob has been called: with the first job the manager makes itself a listener
\* of the desktop, by registerAsListenerAtDesktop.
mbRegisteredAtDesktop ==
  \E j \in Jobs : job[j] # "unborn" /\ ~(tm # Void /\ tm.does = "register" /\ tm.job = j)

\* registerJob, by which mbRegisteredAtDesktop comes to hold; when the joiner is gone
\* the job stays unregistered.
RegisterJob ==
  /\ tm # Void /\ tm.does = "register" /\ ~ftm
  /\ maThreads' = IF stage = "terminated" THEN maThreads ELSE maThreads \cup {tm.job}
  /\ job' = IF tm.by = "program" THEN job ELSE [job EXCEPT ![tm.by] = "done"]
  /\ tm' = Void
  /\ UNCHANGED <<started, suspended, ftm, taken, canceller, termVars, stage, caller,
                 queries, pausedBy>>

\* The consumer of a started job removes it: it will not be released.
ConsumerRemoves(j) ==
  /\ tm = Void /\ j \in started
  /\ started' = started \ {j}
  /\ UNCHANGED <<job, tm, suspended, ftm, maThreads, taken, canceller, termVars,
                 stage, caller, queries, pausedBy>>

JobEnds(j) ==
  /\ job[j] = "running"
  /\ job' = [job EXCEPT ![j] = "ended"]
  /\ UNCHANGED <<started, tm, suspended, ftm, maThreads, taken, canceller, termVars,
                 stage, caller, queries, pausedBy>>

\* onTerminated: RemoveThread(j, true) takes the thread manager's mutex.
OnTerminated(j) ==
  /\ job[j] = "ended" /\ tm = Void
  /\ IF j \in started
     THEN /\ tm' = [by |-> j, does |-> "release", job |-> j]
          /\ started' = started \ {j}
          /\ job' = [job EXCEPT ![j] = "blocked"]
     ELSE job' = [job EXCEPT ![j] = "done"] /\ UNCHANGED <<tm, started>>
  /\ UNCHANGED <<suspended, ftm, maThreads, taken, canceller, termVars, stage, caller,
                 queries, pausedBy>>

\* releaseJob; then the place may go to a job that waits.
ReleaseJob ==
  /\ tm # Void /\ tm.does = "release" /\ ~ftm
  /\ maThreads' = maThreads \ {tm.job}
  /\ \/ \E k \in Jobs : Starts(tm.by, k)
     \/ /\ job' = [job EXCEPT ![tm.job] = "done"]
        /\ tm' = Void
        /\ UNCHANGED started
  /\ UNCHANGED <<suspended, ftm, taken, canceller, termVars, stage, caller, queries,
                 pausedBy>>

-----------------------------------------------------------------------------
(* CancelJobsThread.                                                        *)

AllJobsCancelled == canceller.jobs = {} /\ canceller.all

CancellerTests ==
  /\ canceller # Void /\ canceller.pc = "test"
  /\ canceller' = [canceller EXCEPT !.pc = IF canceller.stopped THEN "ended" ELSE "exist"]
  /\ UNCHANGED <<jobVars, suspended, ftm, taken, termVars, stage, caller, queries, pausedBy>>

\* Mutant of CancellerGets: getNextJob without existJobs, whatever it returns.
CancellerGets_Unasked ==
  /\ canceller # Void /\ canceller.pc = "exist"
  /\ \E j \in IF canceller.jobs = {} THEN {Void} ELSE canceller.jobs :
       canceller' = [canceller EXCEPT !.jobs = @ \ {j}, !.cur = j, !.pc = "join"]
  /\ UNCHANGED <<jobVars, suspended, ftm, taken, termVars, stage, caller, queries, pausedBy>>

\* existJobs and getNextJob; nobody else takes jobs out.
CancellerGets ==
  /\ canceller # Void /\ canceller.pc = "exist"
  /\ \/ /\ canceller.jobs = {}
        /\ canceller' = [canceller EXCEPT !.pc = "set"]
     \/ \E j \in canceller.jobs :
          canceller' = [canceller EXCEPT !.jobs = @ \ {j}, !.cur = j, !.pc = "join"]
  /\ UNCHANGED <<jobVars, suspended, ftm, taken, termVars, stage, caller, queries, pausedBy>>

\* cancel() of a CancellableJob is a join of its thread.
CancellerJoins ==
  /\ canceller # Void /\ canceller.pc = "join" /\ job[canceller.cur] = "done"
  /\ canceller' = [canceller EXCEPT !.cur = Void, !.pc = "exist"]
  /\ UNCHANGED <<jobVars, suspended, ftm, taken, termVars, stage, caller, queries, pausedBy>>

\* mbAllJobsCancelled = true, without the mutex; then a sleep.
CancellerSets ==
  /\ canceller # Void /\ canceller.pc = "set"
  /\ canceller' = [canceller EXCEPT !.all = TRUE, !.pc = "test"]
  /\ UNCHANGED <<jobVars, suspended, ftm, taken, termVars, stage, caller, queries, pausedBy>>

-----------------------------------------------------------------------------
(* TerminateOfficeThread.                                                   *)

\* Everything but the states of the terminators.
notTerminators == <<jobVars, suspended, ftm, taken, canceller, mpTerminateOfficeThread,
                    stage, caller, queries, pausedBy>>

TerminatorGoes(t, pc) == terminator' = [terminator EXCEPT ![t].pc = pc]

\* The head of the loop, and the test behind it.
TerminatorTests(t) ==
  /\ \/ /\ terminator[t].pc = "test"
        /\ TerminatorGoes(t, IF terminator[t].stopped THEN "test2" ELSE "check")
     \/ /\ terminator[t].pc = "test2"
        /\ TerminatorGoes(t, IF terminator[t].stopped THEN "over" ELSE "perform")
  /\ UNCHANGED notTerminators

\* allJobsCancelled of the CancelJobsThread, which may have been deleted since
\* the head of the loop: then the answer is arbitrary.
TerminatorChecks(t) ==
  /\ terminator[t].pc = "check"
  /\ \E cancelled \in IF canceller = Void THEN BOOLEAN ELSE {AllJobsCancelled} :
       TerminatorGoes(t, IF cancelled THEN "test2" ELSE "test")
  /\ UNCHANGED notTerminators

\* PerformOfficeTermination: the desktop has frames, or terminate() is called.
TerminatorPerforms(t) ==
  /\ terminator[t].pc = "perform"
  /\ \/ TerminatorGoes(t, "over")
     \/ ~terminator[t].stopped /\ TerminatorGoes(t, "terminate")
     \/ terminator[t].stopped /\ TerminatorGoes(t, "over")
  /\ UNCHANGED notTerminators

\* onTerminated; the thread counts as running a little longer.
TerminatorEnds(t) ==
  /\ \/ /\ terminator[t].pc = "over"
        /\ TerminatorGoes(t, IF terminator[t].stopped THEN "deleted" ELSE "lingers")
     \/ /\ terminator[t].pc = "lingers"
        /\ TerminatorGoes(t, "finished")
  /\ UNCHANGED notTerminators

\* What is done with the old terminator before its pointer is overwritten.
Dismissed(t) ==
  IF t = Void THEN terminator
  ELSE IF terminator[t].pc = "finished" THEN [terminator EXCEPT ![t].pc = "deleted"]
  ELSE [terminator EXCEPT ![t].stopped = TRUE]

-----------------------------------------------------------------------------
(* Termination of the office.  The desktop asks its listeners, and then     *)
(* tells them that the termination is cancelled or goes on; it runs one     *)
(* termination at a time.                                                   *)

\* terminate() is called by the program or by a terminator, and the desktop
\* calls queryTermination of its listener, which locks the mutex.
QueryTermination(c) ==
  /\ stage = "idle" /\ queries < MaxQueries /\ ~ftm /\ mbRegisteredAtDesktop
  /\ c # "program" => terminator[c].pc = "terminate"
  /\ c = "program" => (tm # Void => tm.by # "program")
  /\ stage' = "query" /\ caller' = c /\ queries' = queries + 1 /\ ftm' = TRUE
  /\ UNCHANGED <<jobVars, suspended, taken, canceller, termVars, pausedBy>>

NewCanceller(js) ==
  [jobs |-> js, cur |-> Void, all |-> FALSE, stopped |-> FALSE, pc |-> "test"]

\* Mutant of HandOver: a new list replaces the jobs that still wait.
HandOver_Replaces(js, done, failed) ==
  \/ js = {} /\ stage' = done /\ UNCHANGED <<canceller, taken>>
  \/ /\ js # {} /\ canceller # Void
     /\ canceller' = [canceller EXCEPT !.jobs = js, !.all = TRUE]
     /\ taken' = {} /\ stage' = done
  \/ /\ js # {} /\ canceller = Void
     /\ canceller' = NewCanceller(js) /\ taken' = {} /\ stage' = done

\* cancelAllJobs, once it has emptied maThreads: js goes to the
\* CancelJobsThread, or is joined here when that thread cannot be created.
HandOver(js, done, failed) ==
  \/ js = {} /\ stage' = done /\ UNCHANGED <<canceller, taken>>
  \/ /\ js # {} /\ canceller # Void
     /\ canceller' = [canceller EXCEPT !.jobs = @ \cup js, !.all = TRUE]
     /\ taken' = {} /\ stage' = done
  \/ /\ js # {} /\ canceller = Void
     /\ canceller' = NewCanceller(js) /\ taken' = {} /\ stage' = done
  \/ /\ js # {} /\ canceller = Void /\ CreateMayFail
     /\ taken' = js /\ stage' = failed /\ UNCHANGED canceller

QueryCancelsAllJobs ==
  /\ stage = "query"
  /\ HandOver(maThreads, "test1", "joinAll")
  /\ maThreads' = {}
  /\ UNCHANGED <<job, started, tm, suspended, ftm, termVars, caller, queries, pausedBy>>

\* The loop over the jobs when there is no CancelJobsThread; ftm is held.
JoinNext ==
  /\ stage \in {"joinAll", "notifyJoinAll"}
  /\ \E j \in taken : job[j] = "done" /\ taken' = taken \ {j}
  /\ stage' = IF taken' # {} THEN stage ELSE IF stage = "joinAll" THEN "test1" ELSE "stop"
  /\ ftm' = (stage' \notin {"stop"})
  /\ UNCHANGED <<jobVars, suspended, canceller, termVars, caller, queries, pausedBy>>

QuerySleeps ==
  /\ \/ /\ stage = "test1"
        /\ stage' = IF canceller # Void /\ ~AllJobsCancelled THEN "sleep" ELSE "test2"
     \/ stage = "sleep" /\ stage' = "test2"
  /\ UNCHANGED <<jobVars, suspended, ftm, taken, canceller, termVars, caller, queries,
                 pausedBy>>

\* Mutant of Veto: the old terminator is not stopped.
Veto_KeepsOld ==
  /\ stage = "test2" /\ canceller # Void /\ ~AllJobsCancelled
  /\ \E t \in Terminators :
       /\ terminator[t].pc = "none"
       /\ mpTerminateOfficeThread' = t
       /\ terminator' = [terminator EXCEPT ![t].pc = "test"]
  /\ stage' = "idle" /\ ftm' = FALSE /\ caller' = Void
  /\ UNCHANGED <<jobVars, suspended, taken, canceller, queries, pausedBy>>

\* Where a thread goes on that called terminate().
Returned(ts) ==
  IF caller \in Terminators THEN [ts EXCEPT ![caller].pc = "over"] ELSE ts

\* A veto: a new terminator is to terminate the office later.
Veto ==
  /\ stage = "test2" /\ canceller # Void /\ ~AllJobsCancelled
  /\ LET old == Returned(Dismissed(mpTerminateOfficeThread))
     IN \/ \E t \in Terminators :
             /\ terminator[t].pc = "none"
             /\ mpTerminateOfficeThread' = t
             /\ terminator' = [old EXCEPT ![t].pc = "test"]
        \/ /\ CreateMayFail
           /\ mpTerminateOfficeThread' = Void
           /\ terminator' = old
  /\ stage' = "idle" /\ ftm' = FALSE /\ caller' = Void
  /\ UNCHANGED <<jobVars, suspended, taken, canceller, queries, pausedBy>>

NoVeto ==
  /\ stage = "test2" /\ (canceller # Void => AllJobsCancelled)
  /\ stage' = "pause"
  /\ UNCHANGED <<jobVars, suspended, ftm, taken, canceller, termVars, caller, queries,
                 pausedBy>>

-----------------------------------------------------------------------------
(* SwPauseThreadStarting.  Its constructor looks at the flag in one section *)
(* of the thread manager's mutex and sets it in another.                    *)

PauseLooks(p) ==
  /\ tm = Void /\ pausedBy[p] = "none"
  /\ pausedBy' = [pausedBy EXCEPT ![p] = IF suspended THEN "didNothing" ELSE "seenRunning"]

PauseSuspends(p) ==
  /\ tm = Void /\ pausedBy[p] = "seenRunning"
  /\ suspended' = TRUE
  /\ pausedBy' = [pausedBy EXCEPT ![p] = "paused"]

\* The destructor; the jobs that ResumeStartingOfThreads starts start later.
PauseEnds(p) ==
  /\ pausedBy[p] \in {"paused", "didNothing"}
  /\ pausedBy' = [pausedBy EXCEPT ![p] = "none"]
  /\ IF pausedBy[p] = "paused" THEN tm = Void /\ suspended' = FALSE
     ELSE UNCHANGED suspended

\* Mutant of QueryPauses: the flag is looked at and not set.
QueryPauses_OnlyLooks ==
  /\ stage = "pause" /\ PauseLooks("query")
  /\ stage' = "queried" /\ ftm' = FALSE
  /\ UNCHANGED <<jobVars, suspended, taken, canceller, termVars, caller, queries>>

\* At the end of queryTermination; the old pointer is overwritten.
QueryPauses ==
  /\ \/ /\ stage = "pause" /\ PauseLooks("query")
        /\ IF suspended THEN stage' = "queried" /\ ftm' = FALSE
           ELSE stage' = "suspend" /\ UNCHANGED ftm
        /\ UNCHANGED suspended
     \/ /\ stage = "suspend" /\ PauseSuspends("query")
        /\ stage' = "queried" /\ ftm' = FALSE
  /\ UNCHANGED <<jobVars, taken, canceller, termVars, caller, queries>>

\* Another listener vetoes, and the desktop calls cancelTermination.
CancelTermination ==
  /\ stage = "queried" /\ PauseEnds("query")
  /\ stage' = "idle" /\ caller' = Void
  /\ terminator' = Returned(terminator)
  /\ UNCHANGED <<jobVars, ftm, taken, canceller, mpTerminateOfficeThread, queries>>

SavePauses ==
  /\ \/ PauseLooks("save") /\ UNCHANGED suspended
     \/ PauseSuspends("save")
     \/ PauseEnds("save")
  /\ UNCHANGED <<jobVars, ftm, taken, canceller, termVars, stage, caller, queries>>

-----------------------------------------------------------------------------
(* notifyTermination, which does not hold the mutex.                        *)

NotifyTermination ==
  /\ stage = "queried"
  /\ terminator' = Dismissed(mpTerminateOfficeThread)
  /\ mpTerminateOfficeThread' = Void
  /\ stage' = "notify"
  /\ UNCHANGED <<jobVars, suspended, ftm, taken, canceller, caller, queries, pausedBy>>

\* The first section of cancelAllJobs.
NotifyTakesJobs ==
  /\ stage = "notify" /\ ~ftm
  /\ taken' = maThreads /\ maThreads' = {}
  /\ stage' = "handOver"
  /\ UNCHANGED <<job, started, tm, suspended, ftm, canceller, termVars, caller, queries,
                 pausedBy>>

NotifyHandsOver ==
  /\ stage = "handOver" /\ ~ftm
  /\ HandOver(taken, "stop", "notifyJoinAll")
  /\ ftm' = (stage' = "notifyJoinAll")
  /\ UNCHANGED <<jobVars, suspended, termVars, caller, queries, pausedBy>>

\* stopWhenAllJobsCancelled, join and delete of the CancelJobsThread, and the
\* release of the joiner.
NotifyStops ==
  /\ stage = "stop"
  /\ IF canceller = Void THEN stage' = "terminated" /\ UNCHANGED canceller
     ELSE stage' = "joinCanceller" /\ canceller' = [canceller EXCEPT !.stopped = TRUE]
  /\ UNCHANGED <<jobVars, suspended, ftm, taken, termVars, caller, queries, pausedBy>>

NotifyJoins ==
  /\ stage = "joinCanceller" /\ canceller.pc = "ended"
  /\ canceller' = Void /\ stage' = "terminated"
  /\ UNCHANGED <<jobVars, suspended, ftm, taken, termVars, caller, queries, pausedBy>>

-----------------------------------------------------------------------------
FinalNext ==
  \/ \E j \in Jobs : StartJob(j)
  \/ RegisterJob
  \/ \E j \in Jobs : ConsumerRemoves(j)
  \/ \E j \in Jobs : JobEnds(j)
  \/ \E j \in Jobs : OnTerminated(j)
  \/ ReleaseJob
  \/ CancellerTests
  \/ CancellerGets
  \/ CancellerJoins
  \/ CancellerSets
  \/ \E t \in Terminators : TerminatorTests(t)
  \/ \E t \in Terminators : TerminatorChecks(t)
  \/ \E t \in Terminators : TerminatorPerforms(t)
  \/ \E t \in Terminators : TerminatorEnds(t)
  \/ \E c \in Terminators \cup {"program"} : QueryTermination(c)
  \/ QueryCancelsAllJobs
  \/ JoinNext
  \/ QuerySleeps
  \/ Veto
  \/ NoVeto
  \/ QueryPauses
  \/ CancelTermination
  \/ SavePauses
  \/ NotifyTermination
  \/ NotifyTakesJobs
  \/ NotifyHandsOver
  \/ NotifyStops
  \/ NotifyJoins

FinalSpec == FinalInit /\ [][FinalNext]_finalVars

-----------------------------------------------------------------------------
(* Safety.                                                                  *)

\* The job that the canceller joins, and those it will join.
WithCanceller == IF canceller = Void THEN {}
                 ELSE canceller.jobs \cup ({canceller.cur} \ {Void})

\* While the joiner lives and its canceller was not stopped, each registered job
\* thread is in one and only one place from which it will be joined or released,
\* whatever registration, release and cancellation overlap.
JobsAccounted ==
  /\ maThreads \cap taken = {} /\ maThreads \cap WithCanceller = {}
  /\ taken \cap WithCanceller = {}
  /\ stage \notin {"joinCanceller", "terminated"} =>
       \A j \in Jobs :
         /\ job[j] \in {"running", "ended"}
         /\ ~(tm # Void /\ tm.does = "register" /\ tm.job = j)
         => j \in maThreads \cup taken \cup WithCanceller

\* At most one terminator may still terminate the office; the others were told
\* to stop before a new one was made.
OneActiveTerminator ==
  \A t \in Terminators :
    terminator[t].pc \in {"test", "check", "test2", "perform", "terminate"}
      /\ ~terminator[t].stopped
    => t = mpTerminateOfficeThread

\* While nobody else pauses the starting of threads, the canceller that
\* notifyTermination stops does not end with jobs left, although it tests
\* stopped() before it looks at its jobs: no job registers between the consent of
\* queryTermination and the end.
EndsWithoutJobs ==
  pausedBy["save"] = "absent" /\ canceller # Void /\ canceller.pc = "ended"
    => WithCanceller = {}

\* Every thread is scheduled, every section that was entered goes on, a job thread
\* ends some time, and the program's terminate() call is carried through.
FinalFairness ==
  /\ WF_finalVars(RegisterJob) /\ WF_finalVars(ReleaseJob)
  /\ \A j \in Jobs : WF_finalVars(JobEnds(j)) /\ WF_finalVars(OnTerminated(j))
  /\ WF_finalVars(CancellerTests) /\ WF_finalVars(CancellerGets)
  /\ WF_finalVars(CancellerJoins) /\ WF_finalVars(CancellerSets)
  /\ \A t \in Terminators : WF_finalVars(TerminatorTests(t)) /\ WF_finalVars(TerminatorChecks(t))
                            /\ WF_finalVars(TerminatorPerforms(t)) /\ WF_finalVars(TerminatorEnds(t))
  /\ WF_finalVars(QueryCancelsAllJobs) /\ WF_finalVars(JoinNext) /\ WF_finalVars(QuerySleeps)
  /\ WF_finalVars(Veto) /\ WF_finalVars(NoVeto) /\ WF_finalVars(QueryPauses)
  /\ WF_finalVars(CancelTermination \/ NotifyTermination)
  /\ WF_finalVars(NotifyTakesJobs) /\ WF_finalVars(NotifyHandsOver)
  /\ WF_finalVars(NotifyStops) /\ WF_finalVars(NotifyJoins) /\ WF_finalVars(SavePauses)

FinalFairSpec == FinalSpec /\ FinalFairness

\* finalthreadmanager.cxx:32: "thread to cancel a give list of cancellable jobs".  A
\* list handed to the CancelJobsThread is worked off, or the thread is told to stop.
ListIsCancelled ==
  (canceller # Void /\ canceller.jobs # {})
    ~> (canceller = Void \/ canceller.stopped \/ WithCanceller = {})
=============================================================================
