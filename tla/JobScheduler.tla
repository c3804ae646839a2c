---------------------------- MODULE JobScheduler ----------------------------
(***************************************************************************)
(* JobSchedulerBase::run() of src/threads.cpp with its two subclasses, and *)
(* the counters of src/statistics.cpp.  The parent forks TotalNumJobs jobs,*)
(* at most Jobs of them at a time; each sends its result through a pipe of *)
(* its own and exits; the parent reaps a job with waitpid(-1), reads its   *)
(* pipe and accounts for the result.  A job is identified by its Id, which *)
(* stands for its pid and its pipe too.                                    *)
(***************************************************************************)
EXTENDS Integers, FiniteSets, ExitStates

CONSTANTS
  TestRuns,  \* -test-runs
  Jobs       \* -j

ASSUME TestRunsAssumption == TestRuns \in Nat
ASSUME JobsAssumption == Jobs \in Nat \ {0}

VARIABLES
  kind,        \* "orig": OrigJobScheduler, "test": TestJobScheduler
  ppc,         \* where the parent is
  Id,          \* the loop counter of run()
  activeJobs,  \* ActiveJobs, by Id
  cur,         \* the job waitForJob() has just reaped
  barCnt,      \* BarCnt
  job,         \* the state of each job process
  pipe,        \* what each job wrote to its pipe
  held,        \* the workload of a job survives and holds its pipe open
  ULongMap,    \* Statistics: the outcome counters
  TotalInjOK,  \* Statistics: outcomes other than InjFailed and Skipped
  GrandTotal,  \* Statistics: all outcomes
  origFrom     \* the job OrigExitState was received from

parentVars == <<ppc, Id, activeJobs, cur, barCnt>>
statsVars == <<ULongMap, TotalInjOK, GrandTotal>>
jobVars == <<job, pipe, held>>
vars == <<kind, parentVars, statsVars, jobVars, origFrom>>

(* The argument of run(): the timing run takes no more jobs than run at a  *)
(* time.                                                                   *)
TotalNumJobs == IF kind = "orig" /\ Jobs < TestRuns THEN Jobs ELSE TestRuns

Ids == 0..(TotalNumJobs - 1)
NoId == -1
Counted == FtStatus \ {"None"}

(* What a job of this kind may send: the exit state of its original run,   *)
(* or a verdict (see TestJob: never None or InjFailed).                    *)
Messages == IF kind = "orig" THEN {"state"} ELSE Counted \ {"InjFailed"}

(* What FaultStatus may hold when nothing was read into it. *)
Uninitialized == FtStatus \cup {"garbage"}

TypeOK ==
  /\ kind \in {"orig", "test"}
  /\ ppc \in {"loop", "read", "done", "abort"}
  /\ Id \in 0..TotalNumJobs
  /\ activeJobs \subseteq Ids
  /\ cur \in Ids \cup {NoId}
  /\ barCnt \in Nat
  /\ job \in [Ids -> {"none", "running", "exit0", "exit1", "abort", "reaped"}]
  /\ pipe \in [Ids -> Messages \cup {"empty"}]
  /\ held \in [Ids -> BOOLEAN]
  /\ ULongMap \in [Counted -> Nat]
  /\ TotalInjOK \in Nat /\ GrandTotal \in Nat
  /\ origFrom \in Ids \cup {NoId}

Init ==
  /\ kind \in {"orig", "test"}
  /\ ppc = "loop" /\ Id = 0 /\ activeJobs = {} /\ cur = NoId /\ barCnt = 0
  /\ job = [j \in Ids |-> "none"]
  /\ pipe = [j \in Ids |-> "empty"]
  /\ held = [j \in Ids |-> FALSE]
  /\ ULongMap = [s \in Counted |-> 0]
  /\ TotalInjOK = 0 /\ GrandTotal = 0
  /\ origFrom = NoId

-----------------------------------------------------------------------------
(* The parent.                                                             *)

(* A mutant of MustWait: one job too many. *)
MustWaitLate == IF Id # TotalNumJobs THEN Cardinality(activeJobs) > Jobs
                ELSE activeJobs # {}

(* ActiveJobs.size() == Jobs blocks the loop; afterwards all are drained. *)
MustWait == IF Id # TotalNumJobs THEN Cardinality(activeJobs) = Jobs
            ELSE activeJobs # {}

Zombie(j) == job[j] \in {"exit0", "exit1", "abort"}

(* Mutants of Spawn: the loop counter stands still; one iteration too many; *)
(* the statistics are zeroed for every job.                                 *)
SpawnUncounted ==
  /\ ppc = "loop"
  /\ Id # TotalNumJobs /\ ~MustWait
  /\ activeJobs' = activeJobs \cup {Id}
  /\ job' = [job EXCEPT ![Id] = "running"]
  /\ UNCHANGED <<kind, ppc, Id, cur, barCnt, pipe, held, statsVars, origFrom>>
SpawnOneMore ==
  /\ ppc = "loop"
  /\ Id <= TotalNumJobs /\ ~MustWait
  /\ activeJobs' = activeJobs \cup {Id}
  /\ job' = IF Id \in Ids THEN [job EXCEPT ![Id] = "running"] ELSE job
  /\ Id' = Id + 1
  /\ UNCHANGED <<kind, ppc, cur, barCnt, pipe, held, statsVars, origFrom>>
SpawnZeroes ==
  /\ ppc = "loop"
  /\ Id # TotalNumJobs /\ ~MustWait
  /\ activeJobs' = activeJobs \cup {Id}
  /\ job' = [job EXCEPT ![Id] = "running"]
  /\ Id' = Id + 1
  /\ ULongMap' = [s \in Counted |-> 0] /\ TotalInjOK' = 0 /\ GrandTotal' = 0
  /\ UNCHANGED <<kind, ppc, cur, barCnt, pipe, held, origFrom>>

Spawn ==
  /\ ppc = "loop"
  /\ Id # TotalNumJobs /\ ~MustWait
  /\ activeJobs' = activeJobs \cup {Id}
  /\ job' = [job EXCEPT ![Id] = "running"]
  /\ Id' = Id + 1
  /\ UNCHANGED <<kind, ppc, cur, barCnt, pipe, held, statsVars, origFrom>>

(* waitForJob(), first half: waitpid(-1) returns j; the asserts want it to *)
(* have exited and to be one of ActiveJobs.                                *)
WaitForJob(j) ==
  /\ ppc = "loop" /\ MustWait
  /\ Zombie(j)
  /\ job' = [job EXCEPT ![j] = "reaped"]
  /\ IF job[j] # "abort" /\ j \in activeJobs
     THEN ppc' = "read" /\ cur' = j
     ELSE ppc' = "abort" /\ UNCHANGED cur
  /\ UNCHANGED <<kind, Id, activeJobs, barCnt, pipe, held, statsVars, origFrom>>

(* Mutants of Incr: a missing break counts Masked as Exception as well;     *)
(* runs that were not checked count as injected.                            *)
IncrFallsThrough(s) ==
  /\ ULongMap' = [t \in Counted |-> IF t = s \/ (s = "Masked" /\ t = "Exception")
                                    THEN ULongMap[t] + 1 ELSE ULongMap[t]]
  /\ TotalInjOK' = IF s \in {"InjFailed", "Skipped"} THEN TotalInjOK
                   ELSE TotalInjOK + 1
  /\ GrandTotal' = GrandTotal + 1
IncrSkippedOK(s) ==
  /\ ULongMap' = [ULongMap EXCEPT ![s] = @ + 1]
  /\ TotalInjOK' = IF s = "InjFailed" THEN TotalInjOK ELSE TotalInjOK + 1
  /\ GrandTotal' = GrandTotal + 1

(* Statistics::incr(s). *)
Incr(s) ==
  /\ ULongMap' = [ULongMap EXCEPT ![s] = @ + 1]
  /\ TotalInjOK' = IF s \in {"InjFailed", "Skipped"} THEN TotalInjOK
                   ELSE TotalInjOK + 1
  /\ GrandTotal' = GrandTotal + 1

(* incrStatsCounter(): None fails an assert; a value that is no FtStatus   *)
(* matches no case.                                                        *)
IncrStatsCounter(s) ==
  IF s \in Counted THEN Incr(s) ELSE UNCHANGED statsVars

(* Mutants of Forget: the job stays in ActiveJobs; the bar stands still. *)
ForgetKeepsJob ==
  /\ UNCHANGED activeJobs
  /\ barCnt' = barCnt + 1
  /\ ppc' = "loop"
  /\ cur' = NoId
ForgetWithoutBar ==
  /\ activeJobs' = activeJobs \ {cur}
  /\ UNCHANGED barCnt
  /\ ppc' = "loop"
  /\ cur' = NoId

(* The end of waitForJob() and the bar, when it is shown: the pipe is      *)
(* closed and the job forgotten.                                           *)
Forget ==
  /\ activeJobs' = activeJobs \ {cur}
  /\ barCnt' = barCnt + 1
  /\ ppc' = "loop"
  /\ cur' = NoId

(* A mutant of Collect: the exit state is taken from every job. *)
CollectAnyOrig ==
  /\ ppc = "read"
  /\ pipe[cur] # "empty"
  /\ IF kind = "test" THEN IncrStatsCounter(pipe[cur]) /\ UNCHANGED origFrom
     ELSE origFrom' = cur /\ UNCHANGED statsVars
  /\ Forget
  /\ UNCHANGED <<kind, Id, jobVars>>

(* jobFinishedParentCode() and the end of waitForJob(), when the pipe has  *)
(* the job's result.                                                       *)
Collect ==
  /\ ppc = "read"
  /\ pipe[cur] # "empty"
  /\ IF kind = "test" THEN IncrStatsCounter(pipe[cur]) /\ UNCHANGED origFrom
     ELSE /\ origFrom' = IF cur = 0 THEN cur ELSE origFrom
          /\ UNCHANGED statsVars
  /\ Forget
  /\ UNCHANGED <<kind, Id, jobVars>>

(* The same when the job wrote nothing.  An OrigJobScheduler does not read *)
(* the pipe of any job but the first.  read() returns once no process      *)
(* holds the write end; FaultStatus keeps whatever the stack had there.    *)
CollectNothing(s) ==
  /\ ppc = "read"
  /\ pipe[cur] = "empty"
  /\ ~held[cur] \/ (kind = "orig" /\ cur # 0)
  /\ IF kind = "test" /\ s = "None"
     THEN ppc' = "abort" /\ UNCHANGED <<activeJobs, cur, barCnt, statsVars>>
     ELSE /\ Forget
          /\ IF kind = "test" THEN IncrStatsCounter(s)
             ELSE UNCHANGED statsVars
  /\ UNCHANGED <<kind, Id, jobVars, origFrom>>

(* A mutant of Return: the jobs still active are not waited for. *)
ReturnUndrained ==
  /\ ppc = "loop"
  /\ Id = TotalNumJobs
  /\ ppc' = "done"
  /\ UNCHANGED <<kind, Id, activeJobs, cur, barCnt, jobVars, statsVars, origFrom>>

Return ==
  /\ ppc = "loop"
  /\ Id = TotalNumJobs /\ activeJobs = {}
  /\ ppc' = "done"
  /\ UNCHANGED <<kind, Id, activeJobs, cur, barCnt, jobVars, statsVars, origFrom>>

-----------------------------------------------------------------------------
(* The jobs, in any order and at any speed.                                *)

(* childJobCode() writes the result; close and exit(0). *)
JobReports(j, m) ==
  /\ job[j] = "running"
  /\ m \in Messages
  /\ pipe' = [pipe EXCEPT ![j] = m]
  /\ job' = [job EXCEPT ![j] = "exit0"]
  /\ UNCHANGED <<kind, parentVars, held, statsVars, origFrom>>

(* userDie() or die() in the job.  The workload it was tracing, if alive,  *)
(* goes on untraced and has inherited the write end of the pipe.           *)
JobFails(j, how, h) ==
  /\ job[j] = "running"
  /\ job' = [job EXCEPT ![j] = how]
  /\ held' = [held EXCEPT ![j] = h]
  /\ UNCHANGED <<kind, parentVars, pipe, statsVars, origFrom>>

(* Such a workload ends, or is ended by its own alarm. *)
HolderEnds(j) ==
  /\ held[j]
  /\ held' = [held EXCEPT ![j] = FALSE]
  /\ UNCHANGED <<kind, parentVars, job, pipe, statsVars, origFrom>>

-----------------------------------------------------------------------------
Parent ==
  \/ Spawn
  \/ \E j \in Ids : WaitForJob(j)
  \/ Collect
  \/ \E s \in Uninitialized : CollectNothing(s)
  \/ Return

JobStep(j) ==
  \/ \E m \in Messages : JobReports(j, m)
  \/ \E how \in {"exit1", "abort"}, h \in BOOLEAN : JobFails(j, how, h)
  \/ HolderEnds(j)

Over == ppc \in {"done", "abort"} /\ UNCHANGED vars

Next == Parent \/ (\E j \in Ids : JobStep(j)) \/ Over

Spec == Init /\ [][Next]_vars

(* The parent is scheduled; a job ends (Runner!TerminatesInTime) and so    *)
(* does a workload that outlives its job.                                  *)
FairSpec ==
  /\ Spec
  /\ WF_vars(Parent)
  /\ \A j \in 0..(TestRuns - 1) : WF_vars(j \in Ids /\ JobStep(j))

-----------------------------------------------------------------------------
(* Properties. *)

Collected == {j \in Ids : j < Id} \ activeJobs

(* Never more than Jobs job processes exist, running or not yet reaped,    *)
(* however their ends interleave with the forks.                           *)
JobsBound ==
  Cardinality({j \in Ids : job[j] \notin {"none", "reaped"}}) <= Jobs

(* "Pid not found in Active Jobs!" cannot happen: the processes that       *)
(* waitpid(-1) may return, with the one whose pipe is being read, are      *)
(* exactly ActiveJobs, until the parent aborts.                            *)
EveryPidKnown ==
  ppc # "abort" =>
    activeJobs = {j \in Ids : job[j] \notin {"none", "reaped"}} \cup
                 (IF ppc = "read" THEN {cur} ELSE {})

AllReported == \A j \in Collected : pipe[j] # "empty"

(* As long as every collected job had sent its outcome, each counter is    *)
(* the number of collected jobs that sent that outcome, whatever the order *)
(* in which they ended and whatever the jobs still active do.              *)
CountsMatchReports ==
  kind = "test" /\ AllReported =>
    /\ \A s \in Counted :
         ULongMap[s] = Cardinality({j \in Collected : pipe[j] = s})
    /\ GrandTotal = Cardinality(Collected)

(* Percentages are of TotalInjOK: it is the sum of the outcomes that are   *)
(* printed, even when jobs fail.                                           *)
TotalsAgree ==
  /\ TotalInjOK = ULongMap["Masked"] + ULongMap["Exception"] +
       ULongMap["InfExec"] + ULongMap["Corrupted"] + ULongMap["Detected"]
  /\ GrandTotal = TotalInjOK + ULongMap["InjFailed"] + ULongMap["Skipped"]
  /\ GrandTotal <= barCnt

(* The progress bar has counted exactly the jobs spawned and no longer     *)
(* active; it ends at TotalNumJobs.                                        *)
BarCountsCollected ==
  ppc # "abort" => barCnt + Cardinality(activeJobs) = Id

(* The original exit state comes from job 0, whichever job of the timing   *)
(* run is reaped first; it stays unset only if job 0 failed.               *)
OrigFromFirstJob ==
  kind = "orig" /\ ppc = "done" /\ TotalNumJobs > 0 =>
    origFrom = IF pipe[0] = "empty" THEN NoId ELSE 0

(* A job is counted at most once, and only after it has ended: an outcome  *)
(* is counted in the step in which one reaped job becomes a collected one, *)
(* and a collected job never becomes active again.                         *)
CountsOncePerJob ==
  [][/\ Collected \subseteq Collected'
     /\ GrandTotal' # GrandTotal =>
          /\ GrandTotal' = GrandTotal + 1
          /\ \E j \in Ids \ Collected :
               Collected' = Collected \cup {j} /\ job[j] = "reaped"]_vars

(* run() returns, or the parent aborts. *)
Terminates == <>(ppc \in {"done", "abort"})

(* Every outcome that is counted was reported by a job. *)
OnlyReportsCounted ==
  kind = "test" =>
    \A s \in Counted :
      ULongMap[s] <= Cardinality({j \in Ids : pipe[j] = s})

(* The scheduler as main() relies on it (module JobBatch).  A job is        *)
(* collected when the parent forgets it; until then it has ended even if   *)
(* it has been reaped.                                                     *)
BatchTask == [kind |-> kind, total |-> TotalNumJobs, limit |-> Jobs]

BatchPhase == IF ppc = "done" THEN "returned"
              ELSE IF ppc = "abort" THEN "aborted" ELSE "running"

BatchStatus ==
  [j \in Ids |-> IF job[j] = "none" THEN "todo"
                 ELSE IF job[j] = "running" THEN "active"
                 ELSE IF j \in Collected THEN "collected" ELSE "ended"]

Batch == INSTANCE JobBatch WITH
  task <- BatchTask, phase <- BatchPhase, status <- BatchStatus,
  result <- pipe, counts <- ULongMap, kept <- origFrom

(* run() does no more than main() may expect: it starts the jobs in order  *)
(* and within -j, collects each once and after its end, counts what it     *)
(* sent and nothing else, keeps job 0's state, and aborts only over a job  *)
(* that sent nothing.                                                      *)
KeepsBatch == Batch!Spec

-----------------------------------------------------------------------------
(* The inductive invariant behind these properties. *)

Live == {j \in Ids : job[j] \notin {"none", "reaped"}}

SpawnedInOrder == \A j \in Ids : job[j] = "none" <=> j >= Id

ActiveCoversLive == Live \subseteq activeJobs /\ \A j \in activeJobs : j < Id

ActiveBound == Cardinality(activeJobs) <= Jobs

ReadingReaped == ppc = "read" => cur \in activeJobs /\ job[cur] = "reaped"

NothingSent ==
  \A j \in Ids : job[j] \in {"none", "running", "exit1", "abort"} =>
    pipe[j] = "empty"

(* The processes and the jobs the parent knows of, step by step. *)
ProcessInv ==
  /\ SpawnedInOrder
  /\ ActiveCoversLive
  /\ ActiveBound
  /\ ReadingReaped
  /\ EveryPidKnown
  /\ NothingSent

(* The exit state kept is that of job 0 as soon as job 0 is collected. *)
OrigInv ==
  /\ ppc = "done" => Id = TotalNumJobs /\ activeJobs = {}
  /\ kind = "orig" =>
       origFrom = IF 0 \in Collected /\ pipe[0] # "empty" THEN 0 ELSE NoId
=============================================================================
