------------------------- MODULE JobSchedulerProofs -------------------------
(***************************************************************************)
(* Proofs about JobScheduler for every number of jobs and every limit on   *)
(* the jobs at a time.                                                     *)
(***************************************************************************)
EXTENDS JobScheduler, FiniteSetTheorems, TLAPS

USE TestRunsAssumption, JobsAssumption

(* The number of jobs run() is called with is a natural number, and the    *)
(* same throughout the call.                                               *)
LEMMA TotalNat == TotalNumJobs \in Nat
BY DEF TotalNumJobs

LEMMA SameCall ==
  ASSUME UNCHANGED kind
  PROVE  TotalNumJobs' = TotalNumJobs /\ Ids' = Ids /\ Messages' = Messages
BY DEF TotalNumJobs, Ids, Messages

LEMMA KindStays == [Next]_vars => UNCHANGED kind
BY DEF Next, Parent, JobStep, Spawn, WaitForJob, Collect, CollectNothing,
   Return, JobReports, JobFails, HolderEnds, Over, vars

(* Sets of jobs are finite, and their sizes natural numbers. *)
LEMMA FiniteIds ==
  ASSUME NEW S \in SUBSET Ids
  PROVE  IsFiniteSet(S) /\ Cardinality(S) \in Nat
<1>1. IsFiniteSet(Ids)
  BY TotalNat, FS_Interval DEF Ids
<1>2. IsFiniteSet(S)
  BY <1>1, FS_Subset
<1> QED
  BY <1>2, FS_CardinalityType

-----------------------------------------------------------------------------

(* Statistics::incr() and incrStatsCounter() keep the counters natural     *)
(* numbers.                                                                *)
LEMMA IncrTypes ==
  ASSUME TypeOK, NEW s, IncrStatsCounter(s)
  PROVE  /\ ULongMap' \in [Counted -> Nat]
         /\ TotalInjOK' \in Nat
         /\ GrandTotal' \in Nat
BY DEF TypeOK, IncrStatsCounter, Incr, statsVars

(* The parent and the jobs keep every variable in its type: no counter     *)
(* leaves the naturals and no Id leaves the jobs of this run.              *)
THEOREM TypeCorrect == Spec => []TypeOK
<1>1. Init => TypeOK
  BY TotalNat DEF Init, TypeOK, Ids, Messages, NoId
<1>2. TypeOK /\ [Next]_vars => TypeOK'
  <2> SUFFICES ASSUME TypeOK, [Next]_vars PROVE TypeOK'
    OBVIOUS
  <2>1. CASE Spawn
    BY SameCall, TotalNat, <2>1 DEF TypeOK, Spawn, Ids, statsVars
  <2>2. ASSUME NEW j \in Ids, WaitForJob(j) PROVE TypeOK'
    BY SameCall, <2>2 DEF TypeOK, WaitForJob, statsVars
  <2>3. CASE Collect
    <3>1. ULongMap' \in [Counted -> Nat] /\ TotalInjOK' \in Nat
          /\ GrandTotal' \in Nat
      BY <2>3, IncrTypes DEF Collect, TypeOK, statsVars
    <3> QED
      BY SameCall, <2>3, <3>1 DEF TypeOK, Collect, Forget, jobVars
  <2>4. ASSUME NEW s \in Uninitialized, CollectNothing(s) PROVE TypeOK'
    <3>1. ULongMap' \in [Counted -> Nat] /\ TotalInjOK' \in Nat
          /\ GrandTotal' \in Nat
      BY <2>4, IncrTypes DEF CollectNothing, TypeOK, statsVars
    <3> QED
      BY SameCall, <2>4, <3>1 DEF TypeOK, CollectNothing, Forget, jobVars
  <2>5. CASE Return
    BY SameCall, <2>5 DEF TypeOK, Return, jobVars, statsVars
  <2>6. ASSUME NEW j \in Ids, JobStep(j) PROVE TypeOK'
    BY SameCall, <2>6 DEF TypeOK, JobStep, JobReports, JobFails, HolderEnds,
                parentVars, statsVars
  <2>7. CASE UNCHANGED vars
    BY SameCall, <2>7 DEF TypeOK, vars, parentVars, statsVars, jobVars
  <2> QED
    BY <2>1, <2>2, <2>3, <2>4, <2>5, <2>6, <2>7 DEF Next, Parent, Over
<1> QED
  BY <1>1, <1>2, PTL DEF Spec

-----------------------------------------------------------------------------
(* The processes that exist and the jobs the parent knows of.              *)

(* The initial state satisfies ProcessInv. *)
LEMMA ProcessInit == Init => ProcessInv
BY FS_EmptySet DEF Init, ProcessInv, SpawnedInOrder, ActiveCoversLive, Live,
   ActiveBound, ReadingReaped, EveryPidKnown, NothingSent, Ids

(* Spawning: the loop counter is no active job, and one more fits. *)
LEMMA ProcessSpawn ==
  ASSUME TypeOK, ProcessInv, Spawn PROVE ProcessInv'
<1>1. Id \in Ids /\ Id \notin activeJobs
  BY TotalNat DEF TypeOK, ProcessInv, Spawn, Ids, ActiveCoversLive
<1>2. ActiveBound'
  <2>1. IsFiniteSet(activeJobs) /\ Cardinality(activeJobs) \in Nat
    BY FiniteIds DEF TypeOK
  <2>2. Cardinality(activeJobs \cup {Id}) = Cardinality(activeJobs) + 1
    BY <1>1, <2>1, FS_AddElement
  <2>3. Cardinality(activeJobs) # Jobs /\ Cardinality(activeJobs) <= Jobs
    BY DEF Spawn, MustWait, ProcessInv, ActiveBound
  <2> QED
    BY <2>1, <2>2, <2>3 DEF Spawn, ActiveBound
<1>3. SpawnedInOrder' /\ ActiveCoversLive' /\ NothingSent'
  BY SameCall, <1>1 DEF TypeOK, ProcessInv, Spawn, Ids, SpawnedInOrder,
     ActiveCoversLive, Live, NothingSent
<1>4. ReadingReaped' /\ EveryPidKnown'
  BY SameCall, <1>1 DEF TypeOK, ProcessInv, Spawn, ReadingReaped, EveryPidKnown
<1> QED
  BY <1>2, <1>3, <1>4 DEF ProcessInv

(* Reaping: waitpid(-1) can only return an active job. *)
LEMMA ProcessWait ==
  ASSUME TypeOK, ProcessInv, NEW j \in Ids, WaitForJob(j) PROVE ProcessInv'
<1>1. j \in activeJobs
  BY DEF WaitForJob, Zombie, ProcessInv, ActiveCoversLive, Live
<1>2. SpawnedInOrder' /\ ActiveCoversLive' /\ ActiveBound'
  BY SameCall DEF TypeOK, ProcessInv, WaitForJob, Zombie, SpawnedInOrder,
     ActiveCoversLive, Live, ActiveBound
<1>3. ReadingReaped' /\ EveryPidKnown'
  BY SameCall, <1>1 DEF TypeOK, ProcessInv, WaitForJob, ReadingReaped,
     EveryPidKnown
<1>4. NothingSent'
  BY SameCall DEF TypeOK, ProcessInv, WaitForJob, Zombie, NothingSent
<1> QED
  BY <1>2, <1>3, <1>4 DEF ProcessInv

(* Forgetting the job that was read. *)
LEMMA ProcessForget ==
  ASSUME TypeOK, ProcessInv, ppc = "read", Forget, UNCHANGED <<kind, Id, jobVars>>
  PROVE  ProcessInv'
<1>1. cur \in activeJobs /\ job[cur] = "reaped"
  BY DEF ProcessInv, ReadingReaped
<1>2. ActiveBound'
  <2>1. IsFiniteSet(activeJobs) /\ Cardinality(activeJobs) \in Nat
    BY FiniteIds DEF TypeOK
  <2>2. Cardinality(activeJobs \ {cur}) = Cardinality(activeJobs) - 1
    BY <1>1, <2>1, FS_RemoveElement
  <2> QED
    BY <2>1, <2>2 DEF Forget, ProcessInv, ActiveBound
<1>3. SpawnedInOrder' /\ ActiveCoversLive' /\ NothingSent'
  BY SameCall, <1>1 DEF ProcessInv, Forget, SpawnedInOrder, ActiveCoversLive,
     Live,
     NothingSent, jobVars
<1>4. ReadingReaped' /\ EveryPidKnown'
  BY SameCall, <1>1 DEF ProcessInv, Forget, ReadingReaped, EveryPidKnown,
     jobVars
<1> QED
  BY <1>2, <1>3, <1>4 DEF ProcessInv

(* A job that reports or fails stays alive for waitpid(). *)
LEMMA ProcessJob ==
  ASSUME TypeOK, ProcessInv, NEW j \in Ids, JobStep(j) PROVE ProcessInv'
<1>1. ASSUME NEW m \in Messages, JobReports(j, m) PROVE ProcessInv'
  <2>1. m # "empty"
    BY DEF Messages, Counted, FtStatus
  <2> QED
    BY SameCall, <1>1, <2>1 DEF TypeOK, ProcessInv, JobReports, SpawnedInOrder,
       ActiveCoversLive, Live, ActiveBound, ReadingReaped, EveryPidKnown,
       NothingSent, parentVars
<1>2. ASSUME NEW how \in {"exit1", "abort"}, NEW h \in BOOLEAN,
             JobFails(j, how, h)
      PROVE ProcessInv'
  BY SameCall, <1>2 DEF TypeOK, ProcessInv, JobFails, SpawnedInOrder,
     ActiveCoversLive, Live, ActiveBound, ReadingReaped, EveryPidKnown,
     NothingSent, parentVars
<1>3. CASE HolderEnds(j)
  BY SameCall, <1>3 DEF ProcessInv, HolderEnds, SpawnedInOrder,
     ActiveCoversLive, Live,
     ActiveBound, ReadingReaped, EveryPidKnown, NothingSent, parentVars
<1> QED
  BY <1>1, <1>2, <1>3 DEF JobStep

(* A step that leaves the processes, the loop and the pipes alone.         *)
LEMMA ProcessUnchanged ==
  ASSUME ProcessInv, UNCHANGED <<kind, Id, activeJobs, job, pipe>>,
         ppc' # "read", ppc' = "abort" \/ ppc # "read",
         ppc = "abort" => ppc' = "abort"
  PROVE  ProcessInv'
BY SameCall DEF ProcessInv, SpawnedInOrder, ActiveCoversLive, Live, ActiveBound,
   ReadingReaped, EveryPidKnown, NothingSent

(* ProcessInv is inductive. *)
LEMMA ProcessNext == TypeOK /\ ProcessInv /\ [Next]_vars => ProcessInv'
<1> SUFFICES ASSUME TypeOK, ProcessInv, [Next]_vars PROVE ProcessInv'
  OBVIOUS
<1>1. CASE Spawn
  BY <1>1, ProcessSpawn
<1>2. ASSUME NEW j \in Ids, WaitForJob(j) PROVE ProcessInv'
  BY <1>2, ProcessWait
<1>3. CASE Collect
  BY <1>3, ProcessForget DEF Collect
<1>4. ASSUME NEW s \in Uninitialized, CollectNothing(s) PROVE ProcessInv'
  BY <1>4, ProcessForget, ProcessUnchanged DEF CollectNothing, jobVars
<1>5. CASE Return
  BY <1>5, ProcessUnchanged DEF Return, jobVars
<1>6. ASSUME NEW j \in Ids, JobStep(j) PROVE ProcessInv'
  BY <1>6, ProcessJob
<1>7. CASE UNCHANGED vars
  BY SameCall, <1>7 DEF vars, parentVars, jobVars, ProcessInv, SpawnedInOrder,
     ActiveCoversLive, Live, ActiveBound, ReadingReaped, EveryPidKnown,
     NothingSent
<1> QED
  BY <1>1, <1>2, <1>3, <1>4, <1>5, <1>6, <1>7 DEF Next, Parent, Over

(* Processes, ActiveJobs and pipes agree in every state of the scheduler.  *)
THEOREM ProcessInvariant == Spec => []ProcessInv
BY TypeCorrect, ProcessInit, ProcessNext, PTL DEF Spec

(* "Pid not found in Active Jobs!" is never reached: the processes         *)
(* waitpid(-1) may return are exactly the active jobs.                     *)
THEOREM PidsKnown == Spec => []EveryPidKnown
<1>1. ProcessInv => EveryPidKnown
  BY DEF ProcessInv
<1> QED
  BY <1>1, ProcessInvariant, PTL

(* The -j limit holds for every number of jobs and every order in which    *)
(* they end.                                                               *)
THEOREM BoundRespected == Spec => []JobsBound
<1>1. TypeOK /\ ProcessInv => JobsBound
  <2> SUFFICES ASSUME TypeOK, ProcessInv PROVE JobsBound
    OBVIOUS
  <2>1. IsFiniteSet(activeJobs) /\ Cardinality(activeJobs) \in Nat
    BY FiniteIds DEF TypeOK
  <2>2. Live \in SUBSET activeJobs
    BY DEF ProcessInv, ActiveCoversLive
  <2>3. Cardinality(Live) <= Cardinality(activeJobs) /\ IsFiniteSet(Live)
    BY <2>1, <2>2, FS_Subset
  <2>4. Cardinality(Live) \in Nat
    BY <2>3, FS_CardinalityType
  <2> QED
    BY <2>1, <2>3, <2>4 DEF JobsBound, Live, ProcessInv, ActiveBound
<1> QED
  BY <1>1, TypeCorrect, ProcessInvariant, PTL

-----------------------------------------------------------------------------
(* Accounting.                                                             *)

(* How the set of collected jobs changes: it grows by the job that is      *)
(* forgotten, and a job still alive is not in it.                          *)
LEMMA CollectedSpawn ==
  ASSUME TypeOK, ProcessInv, Spawn PROVE Collected' = Collected
BY SameCall DEF TypeOK, ProcessInv, Spawn, Collected, ActiveCoversLive, Ids

(* The job that was read becomes a collected one when it is forgotten. *)
LEMMA CollectedForget ==
  ASSUME TypeOK, ProcessInv, ppc = "read", Forget, UNCHANGED <<kind, Id, jobVars>>
  PROVE  /\ Collected' = Collected \cup {cur}
         /\ cur \in Ids /\ cur \notin Collected
BY SameCall DEF TypeOK, ProcessInv, ReadingReaped, ActiveCoversLive, Forget,
   Collected, jobVars

(* A collected job has been reaped. *)
LEMMA CollectedNotRunning ==
  ASSUME TypeOK, ProcessInv, NEW j \in Collected PROVE job[j] = "reaped"
BY DEF TypeOK, ProcessInv, Collected, ActiveCoversLive, Live,
   SpawnedInOrder, Ids

(* Counting one outcome keeps the totals in step with the counters. *)
LEMMA IncrTotals ==
  ASSUME TypeOK, TotalsAgree, NEW s, IncrStatsCounter(s),
         barCnt' = barCnt + 1
  PROVE  TotalsAgree'
<1>1. CASE s \in Counted
  <2>1. s \in {"Masked", "Exception", "InfExec", "Corrupted", "Detected",
               "InjFailed", "Skipped"}
    BY <1>1 DEF Counted, FtStatus
  <2>2. Incr(s)
    BY <1>1 DEF IncrStatsCounter
  <2>3. \A c \in Counted : ULongMap'[c] = IF c = s THEN ULongMap[c] + 1
                                          ELSE ULongMap[c]
    BY <2>2 DEF TypeOK, Incr
  <2>4. \A c \in {"Masked", "Exception", "InfExec", "Corrupted", "Detected",
                  "InjFailed", "Skipped"} :
          ULongMap[c] \in Nat /\ c \in Counted
    BY DEF TypeOK, Counted, FtStatus
  <2> QED
    BY <2>1, <2>2, <2>3, <2>4 DEF TypeOK, TotalsAgree, Incr
<1>2. CASE s \notin Counted
  BY <1>2 DEF IncrStatsCounter, TypeOK, TotalsAgree, statsVars
<1> QED
  BY <1>1, <1>2

(* TotalInjOK, the base of the percentages, is always the sum of the       *)
(* outcomes printed, and no outcome is counted without a collected job.    *)
THEOREM TotalsCorrect == Spec => []TotalsAgree
<1>1. Init => TotalsAgree
  BY DEF Init, TotalsAgree, Counted, FtStatus
<1>2. TypeOK /\ TotalsAgree /\ [Next]_vars => TotalsAgree'
  <2> SUFFICES ASSUME TypeOK, TotalsAgree, [Next]_vars PROVE TotalsAgree'
    OBVIOUS
  <2>1. CASE UNCHANGED <<statsVars, barCnt>>
    BY <2>1 DEF TotalsAgree, statsVars
  <2>2. ASSUME UNCHANGED statsVars, barCnt' = barCnt + 1 PROVE TotalsAgree'
    BY <2>2 DEF TypeOK, TotalsAgree, statsVars
  <2>3. CASE Collect
    BY <2>2, <2>3, IncrTotals DEF Collect, Forget
  <2>4. ASSUME NEW s \in Uninitialized, CollectNothing(s) PROVE TotalsAgree'
    BY <2>1, <2>2, <2>4, IncrTotals DEF CollectNothing, Forget
  <2>5. CASE Spawn \/ Return \/ \E j \in Ids : WaitForJob(j)
    BY <2>1, <2>5 DEF Spawn, Return, WaitForJob
  <2>6. CASE \E j \in Ids : JobStep(j)
    BY <2>1, <2>6 DEF JobStep, JobReports, JobFails, HolderEnds, parentVars
  <2>7. CASE UNCHANGED vars
    BY <2>1, <2>7 DEF vars, parentVars
  <2> QED
    BY <2>3, <2>4, <2>5, <2>6, <2>7 DEF Next, Parent, Over
<1> QED
  BY <1>1, <1>2, TypeCorrect, PTL DEF Spec

(* A job is counted at most once, in the step in which it becomes a        *)
(* collected one, after it has ended.                                      *)
THEOREM CountedOnce == Spec => CountsOncePerJob
<1> DEFINE Once == /\ Collected \subseteq Collected'
                   /\ GrandTotal' # GrandTotal =>
                        /\ GrandTotal' = GrandTotal + 1
                        /\ \E j \in Ids \ Collected :
                             Collected' = Collected \cup {j} /\ job[j] = "reaped"
<1>1. TypeOK /\ ProcessInv /\ [Next]_vars => [Once]_vars
  <2> SUFFICES ASSUME TypeOK, ProcessInv, Next PROVE Once
    OBVIOUS
  <2>1. ASSUME ppc = "read", Forget, UNCHANGED <<kind, Id, jobVars>>,
               GrandTotal' \in {GrandTotal, GrandTotal + 1}
        PROVE  Once
    <3>1. /\ Collected' = Collected \cup {cur}
          /\ cur \in Ids /\ cur \notin Collected
      BY <2>1, CollectedForget
    <3>2. job[cur] = "reaped"
      BY <2>1 DEF ProcessInv, ReadingReaped
    <3> QED
      BY <2>1, <3>1, <3>2
  <2>2. CASE UNCHANGED statsVars /\ Collected' = Collected
    BY <2>2 DEF statsVars
  <2>3. ASSUME NEW s, IncrStatsCounter(s)
        PROVE GrandTotal' \in {GrandTotal, GrandTotal + 1}
    BY <2>3 DEF IncrStatsCounter, Incr, statsVars
  <2>4. CASE Collect
    <3>1. GrandTotal' \in {GrandTotal, GrandTotal + 1}
      BY <2>3, <2>4 DEF Collect, statsVars
    <3> QED
      BY <2>1, <2>4, <3>1 DEF Collect
  <2>5. ASSUME NEW s \in Uninitialized, CollectNothing(s) PROVE Once
    <3>1. CASE Forget
      <4>1. GrandTotal' \in {GrandTotal, GrandTotal + 1}
        BY <2>3, <2>5 DEF CollectNothing, statsVars
      <4> QED
        BY <2>1, <2>5, <3>1, <4>1 DEF CollectNothing
    <3>2. CASE ~Forget
      <4>1. Collected' = Collected /\ UNCHANGED statsVars
        BY SameCall, <2>5, <3>2 DEF CollectNothing, Collected
      <4> QED
        BY <2>2, <4>1
    <3> QED
      BY <3>1, <3>2
  <2>6. CASE Spawn
    BY <2>2, <2>6, CollectedSpawn DEF Spawn
  <2>7. CASE Return \/ \E j \in Ids : WaitForJob(j)
    <3>1. Collected' = Collected /\ UNCHANGED statsVars
      BY SameCall, <2>7 DEF Return, WaitForJob, Collected
    <3> QED
      BY <2>2, <3>1
  <2>8. CASE \E j \in Ids : JobStep(j)
    <3>1. Collected' = Collected /\ UNCHANGED statsVars
      BY SameCall, <2>8 DEF JobStep, JobReports, JobFails, HolderEnds,
         parentVars,
                  Collected
    <3> QED
      BY <2>2, <3>1
  <2>9. CASE Over
    <3>1. Collected' = Collected /\ UNCHANGED statsVars
      BY SameCall, <2>9 DEF Over, vars, parentVars, Collected
    <3> QED
      BY <2>2, <3>1
  <2> QED
    BY <2>4, <2>5, <2>6, <2>7, <2>8, <2>9 DEF Next, Parent
<1> QED
  BY <1>1, TypeCorrect, ProcessInvariant, PTL DEF Spec, CountsOncePerJob

(* As long as every collected job had sent its outcome, every counter is   *)
(* the number of collected jobs that sent that outcome, whatever the order *)
(* in which they end.                                                      *)
THEOREM CountsCorrect == Spec => []CountsMatchReports
<1> DEFINE Sent(s) == {j \in Collected : pipe[j] = s}
<1>1. Init => CountsMatchReports
  <2> SUFFICES ASSUME Init PROVE CountsMatchReports
    OBVIOUS
  <2>1. Collected = {}
    BY DEF Init, Collected, Ids
  <2>2. \A s : Sent(s) = {}
    BY <2>1
  <2> QED
    BY <2>1, <2>2, FS_EmptySet DEF Init, CountsMatchReports
<1>2. TypeOK /\ ProcessInv /\ CountsMatchReports /\ [Next]_vars
        => CountsMatchReports'
  <2> SUFFICES ASSUME TypeOK, ProcessInv, CountsMatchReports, [Next]_vars,
                      kind = "test", AllReported'
               PROVE  /\ \A s \in Counted : ULongMap'[s] = Cardinality(Sent(s)')
                      /\ GrandTotal' = Cardinality(Collected')
    BY KindStays DEF CountsMatchReports
  <2>1. ASSUME Collected \subseteq Collected',
               \A j \in Collected : pipe'[j] = pipe[j]
        PROVE  /\ \A s \in Counted : ULongMap[s] = Cardinality(Sent(s))
               /\ GrandTotal = Cardinality(Collected)
    BY <2>1 DEF CountsMatchReports, AllReported
  <2> DEFINE Goal == /\ \A s \in Counted :
                            ULongMap'[s] = Cardinality(Sent(s)')
                     /\ GrandTotal' = Cardinality(Collected')
  <2>2. CASE UNCHANGED statsVars /\ Collected' = Collected
             /\ \A j \in Collected : pipe'[j] = pipe[j]
    <3>1. \A s : Sent(s)' = Sent(s)
      BY <2>2
    <3>2. /\ \A s \in Counted : ULongMap[s] = Cardinality(Sent(s))
          /\ GrandTotal = Cardinality(Collected)
      BY <2>1, <2>2
    <3> QED
      BY <2>2, <3>1, <3>2 DEF statsVars
  <2>3. CASE Collect
    <3>1. /\ Collected' = Collected \cup {cur}
          /\ cur \in Ids /\ cur \notin Collected
      BY <2>3, CollectedForget DEF Collect
    <3>2. IsFiniteSet(Collected) /\ Cardinality(Collected) \in Nat
      BY FiniteIds DEF Collected
    <3>0. /\ \A s \in Counted : ULongMap[s] = Cardinality(Sent(s))
          /\ GrandTotal = Cardinality(Collected)
      BY <2>1, <2>3, <3>1 DEF Collect, jobVars
    <3>3. Cardinality(Collected') = Cardinality(Collected) + 1
      BY <3>1, <3>2, FS_AddElement
    <3>4. pipe[cur] \in Counted /\ Incr(pipe[cur]) /\ pipe' = pipe
      BY <2>3, <3>1 DEF Collect, IncrStatsCounter, TypeOK, Messages, jobVars
    <3>5. ASSUME NEW s \in Counted
          PROVE ULongMap'[s] = Cardinality(Sent(s)')
      <4>1. IsFiniteSet(Sent(s)) /\ Cardinality(Sent(s)) \in Nat
        BY FiniteIds DEF Collected
      <4>2. CASE s = pipe[cur]
        <5>1. Sent(s)' = Sent(s) \cup {cur} /\ cur \notin Sent(s)
          BY <3>1, <3>4, <4>2
        <5>2. Cardinality(Sent(s)') = Cardinality(Sent(s)) + 1
          BY <4>1, <5>1, FS_AddElement
        <5> QED
          BY <3>0, <3>4, <4>2, <5>2 DEF Incr, TypeOK
      <4>3. CASE s # pipe[cur]
        <5>1. Sent(s)' = Sent(s)
          BY <3>1, <3>4, <4>3
        <5> QED
          BY <3>0, <3>4, <4>3, <5>1 DEF Incr, TypeOK
      <4> QED
        BY <4>2, <4>3
    <3> QED
      BY <3>0, <3>3, <3>4, <3>5 DEF Incr
  <2>4. ASSUME NEW s \in Uninitialized, CollectNothing(s) PROVE Goal
    <3>1. CASE Forget
      <4>1. cur \in Collected' /\ pipe'[cur] = "empty"
        BY <2>4, <3>1, CollectedForget DEF CollectNothing, jobVars
      <4> QED
        BY <4>1 DEF AllReported
    <3>2. CASE ~Forget
      <4>1. UNCHANGED <<kind, activeJobs, statsVars, Id, jobVars>>
        BY <2>4, <3>2 DEF CollectNothing
      <4>2. Collected' = Collected /\ pipe' = pipe
        BY SameCall, <4>1 DEF Collected, jobVars
      <4> QED
        BY <2>2, <4>1, <4>2
    <3> QED
      BY <3>1, <3>2
  <2>5. CASE Spawn
    BY <2>2, <2>5, CollectedSpawn DEF Spawn
  <2>6. CASE Return \/ \E j \in Ids : WaitForJob(j)
    <3>1. Collected' = Collected /\ pipe' = pipe /\ UNCHANGED statsVars
      BY SameCall, <2>6 DEF Return, WaitForJob, Collected, jobVars
    <3> QED
      BY <2>2, <3>1
  <2>7. ASSUME NEW k \in Ids, JobStep(k) PROVE Goal
    <3>1. Collected' = Collected /\ UNCHANGED statsVars
      BY SameCall, <2>7 DEF JobStep, JobReports, JobFails, HolderEnds,
         parentVars,
                  Collected
    <3>2. \A j \in Collected : job[j] = "reaped"
      BY CollectedNotRunning
    <3>3. \A j \in Collected : pipe'[j] = pipe[j]
      BY <2>7, <3>2 DEF JobStep, JobReports, JobFails, HolderEnds, TypeOK,
                        Collected
    <3> QED
      BY <2>2, <3>1, <3>3
  <2>8. CASE UNCHANGED vars
    <3>1. Collected' = Collected /\ pipe' = pipe /\ UNCHANGED statsVars
      BY SameCall, <2>8 DEF vars, parentVars, jobVars, Collected
    <3> QED
      BY <2>2, <3>1
  <2> QED
    BY <2>3, <2>4, <2>5, <2>6, <2>7, <2>8 DEF Next, Parent, Over
<1> QED
  BY <1>1, <1>2, TypeCorrect, ProcessInvariant, PTL DEF Spec

(* The progress bar has counted exactly the jobs that were spawned and are *)
(* no longer active.                                                       *)
THEOREM BarCorrect == Spec => []BarCountsCollected
<1>1. Init => BarCountsCollected
  BY FS_EmptySet DEF Init, BarCountsCollected
<1>2. TypeOK /\ ProcessInv /\ BarCountsCollected /\ [Next]_vars
        => BarCountsCollected'
  <2> SUFFICES ASSUME TypeOK, ProcessInv, BarCountsCollected, [Next]_vars
               PROVE  BarCountsCollected'
    OBVIOUS
  <2>1. IsFiniteSet(activeJobs) /\ Cardinality(activeJobs) \in Nat
    BY FiniteIds DEF TypeOK
  <2>2. CASE UNCHANGED <<Id, activeJobs, barCnt>> /\ (ppc = "abort" => ppc' = "abort")
    BY <2>2 DEF BarCountsCollected
  <2>3. CASE Spawn
    <3>1. Id \notin activeJobs
      BY DEF TypeOK, ProcessInv, ActiveCoversLive, Ids
    <3>2. Cardinality(activeJobs \cup {Id}) = Cardinality(activeJobs) + 1
      BY <2>1, <3>1, FS_AddElement
    <3> QED
      BY <2>1, <2>3, <3>2 DEF Spawn, BarCountsCollected, TypeOK
  <2>4. ASSUME ppc = "read", Forget, Id' = Id PROVE BarCountsCollected'
    <3>1. cur \in activeJobs
      BY <2>4 DEF ProcessInv, ReadingReaped
    <3>2. Cardinality(activeJobs \ {cur}) = Cardinality(activeJobs) - 1
      BY <2>1, <3>1, FS_RemoveElement
    <3> QED
      BY <2>1, <2>4, <3>2 DEF Forget, BarCountsCollected, TypeOK
  <2>5. CASE Collect
    BY <2>4, <2>5 DEF Collect
  <2>6. ASSUME NEW s \in Uninitialized, CollectNothing(s)
        PROVE BarCountsCollected'
    BY <2>2, <2>4, <2>6 DEF CollectNothing
  <2>7. CASE Return \/ \E j \in Ids : WaitForJob(j)
    BY <2>2, <2>7 DEF Return, WaitForJob
  <2>8. CASE \E j \in Ids : JobStep(j)
    BY <2>2, <2>8 DEF JobStep, JobReports, JobFails, HolderEnds, parentVars
  <2>9. CASE UNCHANGED vars
    BY <2>2, <2>9 DEF vars, parentVars
  <2> QED
    BY <2>3, <2>5, <2>6, <2>7, <2>8, <2>9 DEF Next, Parent, Over
<1> QED
  BY <1>1, <1>2, TypeCorrect, ProcessInvariant, PTL DEF Spec

(* The original exit state is job 0's, whichever job is reaped first.      *)
THEOREM OrigCorrect == Spec => []OrigFromFirstJob
<1>1. Init => OrigInv
  BY DEF Init, OrigInv, Collected, Ids
<1>2. TypeOK /\ ProcessInv /\ OrigInv /\ [Next]_vars => OrigInv'
  <2> SUFFICES ASSUME TypeOK, ProcessInv, OrigInv, [Next]_vars PROVE OrigInv'
    OBVIOUS
  <2>1. CASE /\ UNCHANGED <<kind, Id, activeJobs, origFrom>>
             /\ ppc' = "done" => ppc = "done"
             /\ 0 \in Collected => pipe'[0] = pipe[0]
    BY SameCall, <2>1 DEF OrigInv, Collected
  <2>2. CASE Spawn
    BY <2>2, CollectedSpawn DEF Spawn, OrigInv
  <2>3. CASE Collect
    <3>1. Collected' = Collected \cup {cur} /\ cur \notin Collected
      BY <2>3, CollectedForget DEF Collect
    <3>2. ppc' # "done" /\ pipe' = pipe
      BY <2>3 DEF Collect, Forget, jobVars
    <3> QED
      BY <2>3, <3>1, <3>2 DEF Collect, OrigInv
  <2>4. ASSUME NEW s \in Uninitialized, CollectNothing(s) PROVE OrigInv'
    <3>1. CASE UNCHANGED <<activeJobs, cur, barCnt, statsVars>> /\ ppc' = "abort"
      BY <2>1, <2>4, <3>1 DEF CollectNothing, jobVars
    <3>2. CASE Forget
      <4>1. Collected' = Collected \cup {cur}
        BY <2>4, <3>2, CollectedForget DEF CollectNothing
      <4> QED
        BY <2>4, <3>2, <4>1 DEF CollectNothing, Forget, jobVars, OrigInv
    <3> QED
      BY <2>4, <3>1, <3>2 DEF CollectNothing
  <2>5. CASE Return
    BY SameCall, <2>5 DEF Return, OrigInv, Collected, jobVars
  <2>6. ASSUME NEW j \in Ids, WaitForJob(j) PROVE OrigInv'
    BY <2>1, <2>6 DEF WaitForJob
  <2>7. ASSUME NEW k \in Ids, JobStep(k) PROVE OrigInv'
    <3>1. 0 \in Collected => job[0] = "reaped" /\ 0 \in Ids
      BY CollectedNotRunning DEF Collected
    <3>2. 0 \in Collected => pipe'[0] = pipe[0]
      BY <2>7, <3>1 DEF JobStep, JobReports, JobFails, HolderEnds, TypeOK
    <3> QED
      BY <2>1, <2>7, <3>2 DEF JobStep, JobReports, JobFails, HolderEnds,
                              parentVars
  <2>8. CASE UNCHANGED vars
    BY <2>1, <2>8 DEF vars, parentVars, jobVars
  <2> QED
    BY <2>2, <2>3, <2>4, <2>5, <2>6, <2>7, <2>8 DEF Next, Parent, Over
<1>3. TypeOK /\ OrigInv => OrigFromFirstJob
  BY DEF TypeOK, OrigInv, OrigFromFirstJob, Collected, Ids
<1> QED
  BY <1>1, <1>2, <1>3, TypeCorrect, ProcessInvariant, PTL DEF Spec

-----------------------------------------------------------------------------
(* The scheduler implements JobBatch.                                      *)

(* The jobs in flight are those the parent knows of. *)
LEMMA StatusFacts ==
  ASSUME TypeOK, ProcessInv
  PROVE  /\ Batch!Ids = Ids
         /\ BatchStatus \in [Ids -> {"todo", "active", "ended", "collected"}]
         /\ \A j \in Ids : /\ BatchStatus[j] = "todo" <=> j >= Id
                           /\ BatchStatus[j] = "collected" <=> j \in Collected
         /\ Batch!InFlight = activeJobs
<1>1. Batch!Ids = Ids
  BY DEF Batch!Ids, Ids, BatchTask
<1>2. BatchStatus \in [Ids -> {"todo", "active", "ended", "collected"}]
  BY DEF BatchStatus
<1>3. ASSUME NEW j \in Ids
      PROVE  /\ BatchStatus[j] = "todo" <=> j >= Id
             /\ BatchStatus[j] = "collected" <=> j \in Collected
             /\ BatchStatus[j] \in {"active", "ended"} <=> j \in activeJobs
  <2>1. job[j] = "none" <=> j >= Id
    BY DEF ProcessInv, SpawnedInOrder
  <2>2. /\ j \in Collected => job[j] = "reaped"
        /\ j \in activeJobs => ~(j >= Id) /\ j \notin Collected
        /\ ~(j >= Id) /\ j \notin Collected => j \in activeJobs
    BY CollectedNotRunning DEF TypeOK, ProcessInv, ActiveCoversLive,
       Collected, Ids
  <2> QED
    BY <2>1, <2>2 DEF BatchStatus
<1> QED
  BY <1>1, <1>2, <1>3 DEF Batch!InFlight, TypeOK

(* Operators the instance has of its own. *)
LEMMA CardinalitySame ==
  ASSUME NEW S PROVE Batch!Cardinality(S) = Cardinality(S)
BY DEF Batch!Cardinality, Cardinality

LEMMA CountedSame == Batch!Counted = Counted
BY DEF Batch!Counted, Counted, Batch!FtStatus, FtStatus

LEMMA BatchInit == Init => Batch!Init
<1> SUFFICES ASSUME Init PROVE Batch!Init
  OBVIOUS
<1>1. BatchTask \in Batch!Task
  BY TotalNat, JobsAssumption DEF Init, BatchTask, Batch!Task
<1>2. BatchPhase = "running"
  BY DEF Init, BatchPhase
<1>3. BatchStatus = Batch!InitialStatus(BatchTask)
  BY DEF Init, BatchStatus, Batch!InitialStatus, BatchTask, Ids
<1>4. /\ pipe = Batch!InitialResult(BatchTask)
      /\ ULongMap = Batch!Zero /\ origFrom = Batch!NoId
  BY CountedSame DEF Init, Batch!InitialResult, BatchTask, Ids, Batch!Zero,
                     NoId, Batch!NoId
<1> QED
  BY <1>1, <1>2, <1>3, <1>4 DEF Batch!Init

LEMMA BatchStart ==
  ASSUME TypeOK, ProcessInv, Spawn PROVE Batch!Next
<1>1. Id \in Ids
  BY TotalNat DEF TypeOK, Spawn, Ids
<1>2. Cardinality(activeJobs) < Jobs
  BY FiniteIds, JobsAssumption DEF TypeOK, ProcessInv, ActiveBound, Spawn,
     MustWait
<1>3. Collected' = Collected
  BY CollectedSpawn
<1>4. BatchStatus' = [BatchStatus EXCEPT ![Id] = "active"]
  BY SameCall, <1>1, <1>3 DEF Spawn, BatchStatus, TypeOK
<1>5. BatchPhase = "running" /\ BatchPhase' = BatchPhase
  BY DEF Spawn, BatchPhase
<1>6. BatchStatus[Id] = "todo" /\ \A k \in Ids : k < Id => BatchStatus[k] # "todo"
  <2>1. Id >= Id /\ \A k \in Ids : k < Id => ~(k >= Id)
    BY TotalNat DEF Ids, TypeOK
  <2>2. \A j \in Ids : BatchStatus[j] = "todo" <=> j >= Id
    BY StatusFacts
  <2> QED
    BY <1>1, <2>1, <2>2
<1>7. Batch!Start(Id)
  <2>1. Batch!Ids = Ids /\ Batch!InFlight = activeJobs /\ BatchTask.limit = Jobs
    BY StatusFacts DEF BatchTask
  <2>2. BatchTask' = BatchTask /\ UNCHANGED <<pipe, ULongMap, origFrom>>
    BY SameCall DEF BatchTask, Spawn, statsVars
  <2>3. \A k \in Batch!Ids : k < Id => BatchStatus[k] # "todo"
    BY <1>6, <2>1
  <2>4. Batch!Cardinality(Batch!InFlight) < BatchTask.limit
    BY <1>2, <2>1, CardinalitySame
  <2>5. UNCHANGED <<BatchTask, BatchPhase, pipe, ULongMap, origFrom>>
    BY <1>5, <2>2
  <2>6. BatchPhase = "running" /\ Id \in Batch!Ids /\ BatchStatus[Id] = "todo"
    BY <1>1, <1>5, <1>6, <2>1
  <2> QED
    BY <1>4, <2>3, <2>4, <2>5, <2>6 DEF Batch!Start
<1> QED
  BY <1>1, <1>7, StatusFacts DEF Batch!Next

(* A job that ended without a word makes the parent abort. *)
LEMMA BatchAbort ==
  ASSUME TypeOK, ProcessInv, NEW j \in Ids, j \in activeJobs,
         job[j] \notin {"none", "running"}, pipe[j] = "empty",
         BatchPhase = "running", ppc' = "abort",
         UNCHANGED <<kind, BatchStatus, pipe, ULongMap, origFrom>>
  PROVE  Batch!Next
<1>1. BatchStatus[j] = "ended"
  BY DEF BatchStatus, Collected
<1>2. BatchPhase' = "aborted"
  BY DEF BatchPhase
<1>3. BatchTask' = BatchTask
  BY SameCall DEF BatchTask
<1>4. Batch!Abort
  BY <1>1, <1>2, <1>3, StatusFacts DEF Batch!Abort
<1> QED
  BY <1>4 DEF Batch!Next

LEMMA BatchWait ==
  ASSUME TypeOK, ProcessInv, NEW j \in Ids, WaitForJob(j)
  PROVE  [Batch!Next]_(Batch!vars)
<1>1. j \in activeJobs
  BY DEF WaitForJob, Zombie, ProcessInv, ActiveCoversLive, Live
<1>2. Collected' = Collected
  BY SameCall DEF WaitForJob, Collected
<1>3. BatchStatus' = BatchStatus
  <2>1. job[j] \in {"exit0", "exit1", "abort"} /\ j \notin Collected
    BY <1>1 DEF WaitForJob, Zombie, Collected
  <2>2. job' = [job EXCEPT ![j] = "reaped"]
    BY DEF WaitForJob
  <2>3. ASSUME NEW k \in Ids
        PROVE  (IF job'[k] = "none" THEN "todo"
                ELSE IF job'[k] = "running" THEN "active"
                ELSE IF k \in Collected THEN "collected" ELSE "ended")
               = BatchStatus[k]
    BY <2>1, <2>2 DEF BatchStatus, TypeOK
  <2>4. Ids' = Ids
    BY SameCall DEF WaitForJob
  <2> QED
    BY <1>2, <2>3, <2>4 DEF BatchStatus
<1>4. CASE job[j] # "abort"
  <2>1. BatchPhase' = BatchPhase /\ BatchTask' = BatchTask
    BY SameCall, <1>1, <1>4 DEF WaitForJob, BatchPhase, BatchTask
  <2> QED
    BY <1>3, <2>1 DEF Batch!vars, WaitForJob, statsVars
<1>5. CASE job[j] = "abort"
  <2>1. pipe[j] = "empty"
    BY <1>5 DEF ProcessInv, NothingSent
  <2>2. BatchPhase = "running" /\ ppc' = "abort"
    BY <1>5 DEF WaitForJob, BatchPhase
  <2> QED
    BY <1>1, <1>3, <1>5, <2>1, <2>2, BatchAbort DEF WaitForJob, statsVars
<1> QED
  BY <1>4, <1>5

(* What forgetting a job does to the batch. *)
LEMMA BatchForget ==
  ASSUME TypeOK, ProcessInv, ppc = "read", Forget, UNCHANGED <<kind, Id, jobVars>>,
         \/ kind = "orig" /\ ULongMap' = ULongMap
         \/ /\ kind = "test" /\ pipe[cur] = "empty"
            /\ \/ ULongMap' = ULongMap
               \/ \E s \in Counted : Incr(s)
         \/ kind = "test" /\ pipe[cur] # "empty" /\ Incr(pipe[cur]),
         origFrom' = IF kind = "orig" /\ cur = 0 /\ pipe[cur] # "empty" THEN cur
                     ELSE origFrom
  PROVE  Batch!Next
<1>1. cur \in Ids /\ cur \notin Collected /\ Collected' = Collected \cup {cur}
  BY CollectedForget
<1>2. job[cur] = "reaped"
  BY DEF ProcessInv, ReadingReaped
<1>3. BatchStatus[cur] = "ended"
  BY <1>1, <1>2 DEF BatchStatus
<1>4. BatchStatus' = [BatchStatus EXCEPT ![cur] = "collected"]
  <2>1. job' = job
    BY DEF jobVars
  <2> QED
    BY SameCall, <1>1, <1>2, <2>1 DEF BatchStatus
<1>5. BatchPhase = "running" /\ BatchPhase' = "running" /\ BatchTask' = BatchTask
  BY SameCall DEF BatchPhase, Forget, BatchTask
<1>6. IF kind = "orig" THEN ULongMap' = ULongMap
      ELSE IF pipe[cur] = "empty"
      THEN ULongMap' = ULongMap \/ \E s \in Batch!Counted : ULongMap' = Batch!Counting(s)
      ELSE ULongMap' = Batch!Counting(pipe[cur])
  BY CountedSame DEF Incr, Batch!Counting
<1>7. Batch!Collect(cur)
  BY <1>1, <1>3, <1>4, <1>5, <1>6, StatusFacts
     DEF Batch!Collect, BatchTask, jobVars
<1> QED
  BY <1>1, <1>7, StatusFacts DEF Batch!Next

LEMMA BatchCollect ==
  ASSUME TypeOK, ProcessInv, Collect PROVE Batch!Next
<1>1. cur \in Ids
  BY DEF TypeOK, ProcessInv, ReadingReaped, Collect
<1>2. pipe[cur] \in Messages
  BY <1>1 DEF TypeOK, Collect
<1>3. kind = "test" => pipe[cur] \in Counted
  BY <1>2 DEF Messages
<1>4. kind \in {"orig", "test"}
  BY DEF TypeOK
<1> QED
  BY <1>3, <1>4, BatchForget DEF Collect, IncrStatsCounter, statsVars

LEMMA BatchCollectNothing ==
  ASSUME TypeOK, ProcessInv, NEW s \in Uninitialized, CollectNothing(s)
  PROVE  Batch!Next
<1>1. cur \in Ids /\ cur \in activeJobs /\ job[cur] = "reaped"
  BY DEF TypeOK, ProcessInv, ReadingReaped, CollectNothing
<1>2. CASE kind = "test" /\ s = "None"
  <2>1. BatchStatus' = BatchStatus
    BY SameCall, <1>2 DEF CollectNothing, BatchStatus, Collected, jobVars
  <2> QED
    BY <1>1, <1>2, <2>1, BatchAbort
       DEF CollectNothing, BatchPhase, jobVars, statsVars
<1>3. CASE ~(kind = "test" /\ s = "None")
  <2>1. \/ UNCHANGED ULongMap
        \/ kind = "test" /\ \E t \in Counted : Incr(t)
    BY <1>3 DEF CollectNothing, IncrStatsCounter, statsVars
  <2>2. kind \in {"orig", "test"}
    BY DEF TypeOK
  <2> QED
    BY <1>3, <2>1, <2>2, BatchForget DEF CollectNothing
<1> QED
  BY <1>2, <1>3

LEMMA BatchReturn ==
  ASSUME TypeOK, ProcessInv, Return PROVE Batch!Next
<1>1. Collected = Ids
  BY TotalNat DEF Return, Collected, Ids
<1>2. BatchPhase = "running" /\ BatchPhase' = "returned" /\ BatchTask' = BatchTask
  BY SameCall DEF Return, BatchPhase, BatchTask
<1>3. BatchStatus' = BatchStatus
  BY SameCall DEF Return, BatchStatus, Collected, jobVars
<1>4. Batch!Return
  BY <1>1, <1>2, <1>3, StatusFacts DEF Batch!Return, Return, jobVars, statsVars
<1> QED
  BY <1>4 DEF Batch!Next

LEMMA BatchJob ==
  ASSUME TypeOK, ProcessInv, NEW j \in Ids, JobStep(j)
  PROVE  [Batch!Next]_(Batch!vars)
<1>1. /\ Collected' = Collected /\ BatchPhase' = BatchPhase
      /\ BatchTask' = BatchTask /\ Ids' = Ids
  BY SameCall DEF JobStep, JobReports, JobFails, HolderEnds, parentVars,
     Collected,
         BatchPhase, BatchTask
<1>2. job[j] = "running" => j \notin Collected /\ BatchStatus[j] = "active"
  BY CollectedNotRunning DEF BatchStatus
<1>3. ASSUME NEW m \in Messages \cup {"empty"},
             NEW how \in {"exit0", "exit1", "abort"}, job[j] = "running",
             job' = [job EXCEPT ![j] = how], pipe' = [pipe EXCEPT ![j] = m],
             UNCHANGED <<ULongMap, origFrom>>
      PROVE  Batch!Next
  <2>1. BatchStatus' = [BatchStatus EXCEPT ![j] = "ended"]
    BY SameCall, <1>1, <1>2, <1>3 DEF BatchStatus, TypeOK
  <2>2. m \in Batch!Messages \cup {"empty"}
    BY <1>3, CountedSame DEF Batch!Messages, Messages, BatchTask
  <2>3. Batch!End(j, m)
    BY <1>1, <1>2, <1>3, <2>1, <2>2, StatusFacts DEF Batch!End
  <2> QED
    BY <2>2, <2>3, StatusFacts DEF Batch!Next
<1>4. ASSUME NEW m \in Messages, JobReports(j, m) PROVE Batch!Next
  BY <1>3, <1>4 DEF JobReports, statsVars
<1>5. ASSUME NEW how \in {"exit1", "abort"}, NEW h \in BOOLEAN, JobFails(j, how, h)
      PROVE  Batch!Next
  <2>1. pipe[j] = "empty"
    BY <1>5 DEF JobFails, ProcessInv, NothingSent
  <2>2. pipe' = [pipe EXCEPT ![j] = "empty"]
    BY <1>5, <2>1 DEF JobFails, TypeOK
  <2> QED
    BY <1>3, <1>5, <2>2 DEF JobFails, statsVars
<1>6. CASE HolderEnds(j)
  BY SameCall, <1>1, <1>6 DEF HolderEnds, Batch!vars, BatchStatus, statsVars
<1> QED
  BY <1>4, <1>5, <1>6 DEF JobStep

(* run() implements what main() takes it to be, for every number of jobs,  *)
(* every -j and every order of ends: jobs are started in order and within  *)
(* the limit, each is collected once, after its end, what it sent is       *)
(* counted, and nothing but a job without a result makes zofi abort.       *)
THEOREM BatchImplemented == Spec => KeepsBatch
<1>1. TypeOK /\ ProcessInv /\ [Next]_vars => [Batch!Next]_(Batch!vars)
  <2> SUFFICES ASSUME TypeOK, ProcessInv, [Next]_vars
               PROVE  [Batch!Next]_(Batch!vars)
    OBVIOUS
  <2>1. CASE UNCHANGED vars
    <3>1. UNCHANGED <<BatchTask, BatchPhase, BatchStatus>>
      BY SameCall, <2>1 DEF vars, parentVars, statsVars, jobVars, BatchTask,
         BatchPhase,
                  BatchStatus, Collected
    <3> QED
      BY <2>1, <3>1 DEF vars, statsVars, jobVars, Batch!vars
  <2> QED
    BY <2>1, BatchStart, BatchWait, BatchCollect, BatchCollectNothing,
       BatchReturn, BatchJob DEF Next, Parent, Over
<1> QED
  BY <1>1, BatchInit, TypeCorrect, ProcessInvariant, PTL
     DEF Spec, KeepsBatch, Batch!Spec
=============================================================================
