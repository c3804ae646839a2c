---------------------------- MODULE RunnerProofs ----------------------------
(***************************************************************************)
(* Proofs about Runner for every limit on the attempts, every number of    *)
(* threads and every set of settings.                                      *)
(***************************************************************************)
EXTENDS Runner, TLAPS

(* The wait statuses the model writes are wait statuses. *)
LEMMA StatusTypes ==
  /\ NoStatus \in WaitStatus
  /\ \A c \in ExitCodes : Exited(c) \in WaitStatus
  /\ \A s \in Signals \cup {"CLONE"} :
       Stopped(s) \in WaitStatus /\ Signaled(s) \in WaitStatus
  /\ {"SIGTRAP", "SIGALRM", "SIGSTOP", "SIGSEGV", "SIGKILL"} \subseteq Signals
  /\ "code0" \in ExitCodes
BY DEF WaitStatus, NoStatus, Exited, Stopped, Signaled, Signals, ExitCodes

(* Main threads are threads, and NoTid is none. *)
LEMMA TidFacts ==
  /\ \A k \in Procs : Leader(k) \in Tids /\ Leader(k)[1] = k /\ Leader(k)[2] = 0
  /\ \A t \in Tids : t[1] \in Procs /\ t[2] \in 0..NThreads
  /\ NoTid \notin Tids
BY UIntMaxAssumption, NThreadsAssumption DEF Tids, Procs, Leader, NoTid

(* Every way the model changes one entry of the thread table keeps it a    *)
(* thread table.                                                           *)
LEMMA ThreadTableTypes ==
  ASSUME thr \in [Tids -> Thread], NEW t \in Tids
  PROVE  /\ \A s \in ThreadState, w \in WaitStatus :
              SetThread(t, s, w) \in [Tids -> Thread]
         /\ Reported(t) \in [Tids -> Thread]
         /\ \A m \in ThreadState : Resumed(t, m) \in [Tids -> Thread]
<1>1. \A s \in ThreadState, w \in WaitStatus :
              SetThread(t, s, w) \in [Tids -> Thread]
  BY DEF Thread, SetThread
<1>2. NoStatus \in WaitStatus
  BY StatusTypes
<1>3. (IF thr[t].st = "dead" THEN "gone" ELSE thr[t].st) \in ThreadState
  BY DEF Thread, ThreadState
<1> QED
  BY <1>1, <1>2, <1>3 DEF Reported, Resumed

(* The same for the end of a whole process. *)
LEMMA GroupTypes ==
  ASSUME thr \in [Tids -> Thread], proc \in [Procs -> Process],
         NEW k \in Procs, NEW w \in WaitStatus, EndProcess(k, w)
  PROVE  thr' \in [Tids -> Thread] /\ proc' \in [Procs -> Process]
<1>1. \A t \in Tids : [thr[t] EXCEPT !.st = "dying", !.ws = NoStatus] \in Thread
  BY StatusTypes DEF Thread, ThreadState
<1>2. [proc EXCEPT ![k].ends = w] \in [Procs -> Process]
  BY DEF Process
<1> QED
  BY <1>1, <1>2 DEF EndProcess, GroupDying

(* The single fields of a process that the model updates keep it one. *)
LEMMA ProcessTypes ==
  ASSUME proc \in [Procs -> Process], NEW k \in Procs
  PROVE  /\ \A c \in Chunk :
              [proc EXCEPT ![k].wrote = c] \in [Procs -> Process]
         /\ [proc EXCEPT ![k].hit = TRUE] \in [Procs -> Process]
         /\ [proc EXCEPT ![k].armed = TRUE] \in [Procs -> Process]
         /\ \A s \in SUBSET {"SIGTRAP", "SIGALRM"} :
              /\ [proc EXCEPT ![k].pend = s] \in [Procs -> Process]
              /\ [proc EXCEPT ![k].armed = FALSE, ![k].pend = s]
                   \in [Procs -> Process]
         /\ proc[k].pend \in SUBSET {"SIGTRAP", "SIGALRM"}
         /\ proc[k].ends \in WaitStatus
<1>1. \A c \in Chunk : [proc EXCEPT ![k].wrote = c] \in [Procs -> Process]
  BY DEF Process
<1>2. [proc EXCEPT ![k].hit = TRUE] \in [Procs -> Process]
  BY DEF Process
<1>3. [proc EXCEPT ![k].armed = TRUE] \in [Procs -> Process]
  BY DEF Process
<1>4. ASSUME NEW s \in SUBSET {"SIGTRAP", "SIGALRM"}
      PROVE  /\ [proc EXCEPT ![k].pend = s] \in [Procs -> Process]
             /\ [proc EXCEPT ![k].armed = FALSE, ![k].pend = s]
                  \in [Procs -> Process]
  <2>1. [proc EXCEPT ![k].pend = s] \in [Procs -> Process]
    BY DEF Process
  <2>2. [proc EXCEPT ![k].armed = FALSE, ![k].pend = s] \in [Procs -> Process]
    BY DEF Process
  <2> QED
    BY <2>1, <2>2
<1>5. /\ proc[k].pend \in SUBSET {"SIGTRAP", "SIGALRM"}
      /\ proc[k].ends \in WaitStatus
  BY DEF Process
<1> QED
  BY <1>1, <1>2, <1>3, <1>4, <1>5

(* A thread table in which a thread has called clone() is one. *)
LEMMA CloneTypes ==
  ASSUME thr \in [Tids -> Thread], NEW t \in Tids, NEW u \in Tids
  PROVE  [thr EXCEPT ![t].st = "cloning", ![t].new = u, ![u].st = "born"]
           \in [Tids -> Thread]
BY DEF Thread, ThreadState

(* Types of the kernel's state. *)
KernelTypeOK ==
  /\ thr \in [Tids -> Thread]
  /\ proc \in [Procs -> Process]
  /\ file \in [hole : BOOLEAN, data : Chunk]

(* A step of the kernel or of the workload keeps the types of its state. *)
LEMMA KernelTypes == KernelTypeOK /\ (Kernel \/ Workload) => KernelTypeOK'
<1> SUFFICES ASSUME KernelTypeOK, Kernel \/ Workload PROVE KernelTypeOK'
  OBVIOUS
<1>1. thr \in [Tids -> Thread] /\ proc \in [Procs -> Process]
      /\ file \in [hole : BOOLEAN, data : Chunk]
  BY DEF KernelTypeOK
<1>2. {"stop", "dead", "cloning", "born"} \subseteq ThreadState
  BY DEF ThreadState
<1>3. ASSUME NEW k \in Procs, ChildExec(k) PROVE KernelTypeOK'
  <2>1. thr' \in [Tids -> Thread]
    BY <1>1, <1>2, <1>3, StatusTypes, TidFacts, ThreadTableTypes DEF ChildExec
  <2>2. file' \in [hole : BOOLEAN, data : Chunk]
    BY <1>1, <1>3 DEF ChildExec, Chunk
  <2> QED
    BY <1>1, <1>3, <2>1, <2>2 DEF ChildExec, KernelTypeOK
<1>4. ASSUME NEW k \in Procs, ChildDiesEarly(k) PROVE KernelTypeOK'
  BY <1>1, <1>2, <1>4, StatusTypes, TidFacts, ThreadTableTypes
     DEF ChildDiesEarly, KernelTypeOK
<1>5. ASSUME NEW t \in Tids, NEW s \in {"SIGTRAP", "SIGALRM"}, StopOnSignal(t, s)
      PROVE KernelTypeOK'
  <2>1. t[1] \in Procs
    BY TidFacts
  <2>2. proc[t[1]].pend \ {s} \in SUBSET {"SIGTRAP", "SIGALRM"}
    BY <1>1, <2>1, ProcessTypes
  <2>3. proc' \in [Procs -> Process]
    BY <1>1, <1>5, <2>1, <2>2, ProcessTypes DEF StopOnSignal
  <2>4. thr' \in [Tids -> Thread]
    BY <1>1, <1>2, <1>5, StatusTypes, ThreadTableTypes DEF StopOnSignal
  <2> QED
    BY <1>1, <1>5, <2>3, <2>4 DEF StopOnSignal, KernelTypeOK
<1>6. ASSUME NEW k \in Procs, AlarmFires(k) PROVE KernelTypeOK'
  <2>1. proc[k].pend \cup {"SIGALRM"} \in SUBSET {"SIGTRAP", "SIGALRM"}
    BY <1>1, ProcessTypes
  <2>2. proc' \in [Procs -> Process]
    BY <1>1, <1>6, <2>1, ProcessTypes DEF AlarmFires
  <2> QED
    BY <1>1, <1>6, <2>2 DEF AlarmFires, KernelTypeOK
<1>7. ASSUME NEW t \in Tids, StepDone(t) \/ CloneStop(t) \/ ThreadStop(t)
      PROVE KernelTypeOK'
  BY <1>1, <1>2, <1>7, StatusTypes, ThreadTableTypes
     DEF StepDone, CloneStop, ThreadStop, KernelTypeOK
<1>8. ASSUME NEW t \in Tids, Die(t) PROVE KernelTypeOK'
  <2>1. proc[t[1]].ends \in WaitStatus
    BY <1>1, TidFacts, ProcessTypes
  <2> QED
    BY <1>1, <1>2, <1>8, <2>1, ThreadTableTypes DEF Die, KernelTypeOK
<1>9. ASSUME NEW t \in Tids, NEW c \in Chunk, WriteOutput(t, c)
      PROVE KernelTypeOK'
  <2>1. t[1] \in Procs
    BY TidFacts
  <2>2. proc' \in [Procs -> Process]
    BY <1>1, <1>9, <2>1, ProcessTypes DEF WriteOutput
  <2>3. file' \in [hole : BOOLEAN, data : Chunk]
    BY <1>1, <1>9 DEF WriteOutput, Chunk
  <2> QED
    BY <1>1, <1>9, <2>2, <2>3 DEF WriteOutput, KernelTypeOK
<1>10. ASSUME NEW t \in Tids, NEW c \in ExitCodes, ExitGroup(t, c)
       PROVE KernelTypeOK'
  BY <1>1, <1>10, GroupTypes, StatusTypes, TidFacts DEF ExitGroup, KernelTypeOK
<1>11. ASSUME NEW t \in Tids, Fault(t) \/ ThreadExit(t) PROVE KernelTypeOK'
  <2>1. Stopped("SIGSEGV") \in WaitStatus /\ Exited("code0") \in WaitStatus
    BY StatusTypes
  <2> QED
    BY <1>1, <1>2, <1>11, <2>1, ThreadTableTypes DEF Fault, ThreadExit,
       KernelTypeOK
<1>12. ASSUME NEW t \in Tids, NEW u \in Tids, Clone(t, u) PROVE KernelTypeOK'
  BY <1>1, <1>12, CloneTypes DEF Clone, KernelTypeOK
<1>13. ASSUME NEW k \in Procs, OomKill(k) PROVE KernelTypeOK'
  BY <1>1, <1>13, GroupTypes, StatusTypes DEF OomKill, KernelTypeOK
<1> QED
  BY <1>3, <1>4, <1>5, <1>6, <1>7, <1>8, <1>9, <1>10, <1>11, <1>12, <1>13
     DEF Kernel, Workload
-----------------------------------------------------------------------------
(* The attempts.                                                           *)

(* What the settings say about the number of attempts. *)
LEMMA AllowedFacts ==
  ASSUME TypeOK
  PROVE  /\ UIntMax \in Nat /\ UIntMax > 0
         /\ opt.MaxInjectionAttempts \in 0..UIntMax
         /\ RunsAllowed \in 0..UIntMax
         /\ opt.MaxInjectionAttempts > 0 =>
              RunsAllowed + 1 = opt.MaxInjectionAttempts
         /\ opt.MaxInjectionAttempts = 0 => RunsAllowed = UIntMax
         /\ attempts \in 0..UIntMax /\ try \in 0..UIntMax /\ injFailed \in Nat
<1>1. opt.MaxInjectionAttempts \in 0..UIntMax
  BY ConfigsAssumption DEF TypeOK, Config
<1> QED
  BY <1>1, UIntMaxAssumption DEF RunsAllowed, TypeOK

(* Every step keeps the count of the attempts. *)
LEMMA AttemptsNext ==
  TypeOK /\ AttemptsInv /\ KnownInv /\ [Next]_vars => AttemptsInv'
<1> SUFFICES ASSUME TypeOK, AttemptsInv, KnownInv, [Next]_vars
             PROVE  AttemptsInv'
  OBVIOUS
<1>1. CASE UNCHANGED vars
  BY <1>1 DEF vars, mainVars, AttemptsInv, RunsAllowed
<1>2. CASE Kernel \/ Workload \/ Over
  BY <1>2 DEF Kernel, Workload, Over, vars, mainVars, AttemptsInv, RunsAllowed
<1>3. CASE Sleeper
  BY <1>3 DEF Sleeper, SleeperWakes, SleeperPicks, SleeperFindsNone,
     SleeperKills, Abort, mainVars, AttemptsInv, RunsAllowed, KnownInv, Terminal
<1>4. CASE GiveUp
  BY <1>4, AllowedFacts DEF GiveUp, Decremented, AttemptsInv, RunsAllowed
<1>5. CASE Launch
  BY <1>5, AllowedFacts DEF Launch, Decremented, AttemptsInv, RunsAllowed
<1>6. CASE RunWaits \/ RunTraces \/ RunFails \/ RunDies \/ RunSucceeds
  BY <1>6, AllowedFacts DEF RunWaits, RunTraces, RunFails, RunDies, RunSucceeds,
     Abort, AttemptsInv, RunsAllowed
<1>7. CASE \E t \in Tids : \/ SkipClone(t) \/ SkipThreadStop(t)
                           \/ SkipThreadEnd(t) \/ SkipReturns(t)
  BY <1>7 DEF SkipClone, SkipThreadStop, SkipThreadEnd, SkipReturns, Abort,
     mainVars, AttemptsInv, RunsAllowed
<1>8. CASE WaitNoChild \/ FlipNoRegs \/ StepAsserts \/ FlipWritten
  BY <1>8 DEF WaitNoChild, FlipNoRegs, StepAsserts, FlipWritten, Abort,
     AttemptsInv, RunsAllowed
<1>9. CASE StopFails \/ StopSucceeds
  BY <1>9, AllowedFacts DEF StopFails, StopSucceeds, AttemptsInv, RunsAllowed
<1>10. CASE FlipRefused \/ StepRefused
  BY <1>10, AllowedFacts DEF FlipRefused, StepRefused, InjectionFails, Abort,
     AttemptsInv, RunsAllowed
<1>11. CASE FlipRead \/ StepFlip
  BY <1>11 DEF FlipRead, StepFlip, InjectionSucceeds, AttemptsInv, RunsAllowed
<1>12. CASE CleanupPoll \/ CleanupBlock
  BY <1>12, AllowedFacts DEF CleanupPoll, CleanupBlock, AttemptsInv, RunsAllowed
<1>13. CASE VerdictAsserts
  BY <1>13 DEF VerdictAsserts, Abort, AttemptsInv, RunsAllowed
<1>14. CASE VerdictNoOrig \/ FlipUnknown
  BY <1>14 DEF VerdictNoOrig, FlipUnknown, NeedsOrig, AttemptsInv, RunsAllowed
<1>15. CASE VerdictReached
  BY <1>15 DEF VerdictReached, AttemptsInv, RunsAllowed
<1>16. CASE Finish
  BY <1>16 DEF Finish, AttemptsInv, RunsAllowed
<1> QED
  BY <1>1, <1>2, <1>3, <1>4, <1>5, <1>6, <1>7, <1>8, <1>9, <1>10, <1>11,
     <1>12, <1>13, <1>14, <1>15, <1>16 DEF Next, Main
-----------------------------------------------------------------------------
(* Types.                                                                  *)

(* Types of the state of the job's two threads. *)
MainTypeOK ==
  /\ opt \in Configs
  /\ pc \in Labels /\ ret \in Labels
  /\ attempts \in 0..UIntMax
  /\ try \in 0..UIntMax
  /\ childThreads \subseteq Tids
  /\ status \in [Pid : Tids \cup {NoTid}, Status : WaitStatus]
  /\ ftStatus \in FtStatus
  /\ injFailed \in Nat

SleeperTypeOK ==
  /\ sl \in {"idle", "sleep", "iter", "kill"}
  /\ rnd \in Nat
  /\ target \in Tids \cup {NoTid}
  /\ killOK \in BOOLEAN

(* Where the main thread works on a run, there is one. *)
LEMMA RunExists ==
  ASSUME TypeOK, AttemptsInv, pc \notin {"attempt", "exit1"}
  PROVE  try \in Procs /\ ChildPID \in Tids
<1>1. try \in Procs
  BY AllowedFacts DEF AttemptsInv, Procs
<1> QED
  BY <1>1, TidFacts DEF ChildPID

(* PTRACE_KILL keeps the types of the kernel's state. *)
LEMMA KillTypes ==
  ASSUME KernelTypeOK, NEW k \in Procs, PtraceKill(k), UNCHANGED file
  PROVE  KernelTypeOK'
BY GroupTypes, StatusTypes DEF KernelTypeOK, PtraceKill

(* A step of the main thread keeps the types of the kernel's state. *)
LEMMA MainKernelTypes ==
  TypeOK /\ AttemptsInv /\ KnownInv /\ Main => KernelTypeOK'
<1> SUFFICES ASSUME TypeOK, AttemptsInv, KnownInv, Main PROVE KernelTypeOK'
  OBVIOUS
<1>1. KernelTypeOK /\ thr \in [Tids -> Thread]
  BY DEF TypeOK, KernelTypeOK
<1>2. {"forked", "run", "step"} \subseteq ThreadState
  BY DEF ThreadState
<1>3. CASE GiveUp \/ WaitNoChild \/ StopSucceeds \/ RunTraces \/ RunFails
           \/ RunDies \/ FlipNoRegs \/ VerdictAsserts \/ VerdictNoOrig \/ FlipUnknown
  BY <1>1, <1>3 DEF GiveUp, WaitNoChild, StopSucceeds, RunTraces, RunFails,
     RunDies,
     FlipNoRegs,
     VerdictAsserts, VerdictNoOrig, FlipUnknown, kernelVars, KernelTypeOK
<1>4. CASE Launch
  <2>1. try + 1 \in Procs
    BY <1>4, AllowedFacts DEF Launch, Decremented, AttemptsInv, Procs
  <2>2. proc' \in [Procs -> Process]
    BY <1>1, <1>4, <2>1, ProcessTypes DEF Launch, KernelTypeOK
  <2>3. Leader(try + 1) \in Tids
    BY <2>1, TidFacts
  <2>4. thr' \in [Tids -> Thread]
    BY <1>1, <1>2, <1>4, <2>3 DEF Launch, Thread
  <2> QED
    BY <1>1, <1>4, <2>2, <2>4 DEF Launch, KernelTypeOK
<1>5. CASE RunSucceeds \/ RunWaits \/ CleanupPoll \/ CleanupBlock
  <2>1. ChildPID \in Tids
    BY <1>5, RunExists DEF RunSucceeds, RunWaits, CleanupPoll, CleanupBlock
  <2> QED
    BY <1>1, <1>2, <1>5, <2>1, ThreadTableTypes
       DEF RunSucceeds, RunWaits, CleanupPoll, CleanupBlock, KernelTypeOK
<1>6. ASSUME NEW t \in Tids, SkipClone(t) PROVE KernelTypeOK'
  <2>1. ChildPID \in Tids
    BY <1>6, RunExists DEF SkipClone
  <2>2. Reported(t) \in [Tids -> Thread]
    BY <1>1, ThreadTableTypes
  <2>3. \A f \in [Tids -> Thread] :
          [f EXCEPT ![ChildPID].st = "run", ![ChildPID].ws = NoStatus]
            \in [Tids -> Thread]
    BY <1>2, <2>1, StatusTypes DEF Thread
  <2> QED
    BY <1>1, <1>6, <2>2, <2>3 DEF SkipClone, KernelTypeOK
<1>7. ASSUME NEW t \in Tids, SkipThreadStop(t) \/ SkipThreadEnd(t) \/ SkipReturns(t)
      PROVE  KernelTypeOK'
  BY <1>1, <1>2, <1>7, ThreadTableTypes
     DEF SkipThreadStop, SkipThreadEnd, SkipReturns, KernelTypeOK
<1>8. CASE StopFails \/ VerdictReached \/ Finish
  <2>1. try \in Procs
    BY <1>8, RunExists DEF StopFails, VerdictReached, Finish
  <2> QED
    BY <1>1, <1>8, <2>1, KillTypes
       DEF StopFails, VerdictReached, Finish, KernelTypeOK
<1>9. CASE FlipRefused \/ StepRefused
  <2>1. try \in Procs
    BY <1>9, RunExists DEF FlipRefused, StepRefused
  <2>2. InjectionFails
    BY <1>9 DEF FlipRefused, StepRefused
  <2> QED
    BY <1>1, <2>1, <2>2, GroupTypes, StatusTypes
       DEF InjectionFails, KernelTypeOK
<1>10. CASE FlipRead \/ StepFlip \/ FlipWritten \/ StepAsserts
  <2>1. target \in Tids
    BY <1>10 DEF FlipRead, StepFlip, FlipWritten, StepAsserts, KnownInv, TypeOK
  <2>2. target[1] \in Procs
    BY <2>1, TidFacts
  <2>3. thr' \in [Tids -> Thread]
    BY <1>1, <1>2, <1>10, <2>1, ThreadTableTypes
       DEF FlipRead, StepFlip, FlipWritten, StepAsserts, InjectionSucceeds
  <2>4. proc' \in [Procs -> Process]
    <3>1. [proc EXCEPT ![target[1]].hit = TRUE] \in [Procs -> Process]
      BY <1>1, <2>2, ProcessTypes DEF KernelTypeOK
    <3>2. proc' = proc \/ proc' = [proc EXCEPT ![target[1]].hit = TRUE]
      BY <1>10
         DEF FlipRead, StepFlip, FlipWritten, StepAsserts, InjectionSucceeds
    <3> QED
      BY <1>1, <3>1, <3>2 DEF KernelTypeOK
  <2> QED
    BY <1>1, <1>10, <2>3, <2>4
       DEF FlipRead, StepFlip, FlipWritten, StepAsserts, InjectionSucceeds,
           KernelTypeOK
<1> QED
  BY <1>3, <1>4, <1>5, <1>6, <1>7, <1>8, <1>9, <1>10 DEF Main

(* The verdicts are verdicts. *)
LEMMA VerdictTypes == Verdict \in FtStatus
BY DEF Verdict, FtStatus

(* A step of the main thread keeps the types of its own state. *)
LEMMA MainTypes ==
  TypeOK /\ AttemptsInv /\ CloneInv /\ Main => MainTypeOK'
<1> SUFFICES ASSUME TypeOK, AttemptsInv, CloneInv, Main PROVE MainTypeOK'
  OBVIOUS
<1>1. MainTypeOK /\ thr \in [Tids -> Thread]
  BY DEF TypeOK, MainTypeOK
<1>2. CASE GiveUp
  BY <1>1, <1>2, UIntMaxAssumption DEF GiveUp, MainTypeOK, Labels, Terminal
<1>3. CASE Launch
  BY <1>1, <1>3, AllowedFacts
     DEF Launch, Decremented, AttemptsInv, MainTypeOK, Labels, Terminal
<1>4. CASE RunSucceeds \/ RunWaits \/ CleanupPoll \/ CleanupBlock
  BY <1>1, <1>4 DEF RunSucceeds, RunWaits, CleanupPoll, CleanupBlock,
     MainTypeOK, Labels, Terminal
<1>5. ASSUME NEW t \in Tids, SkipClone(t) PROVE MainTypeOK'
  <2>1. thr[t].new \in Tids
    BY <1>5 DEF SkipClone, IsCloneEvent, CloneInv, Announcing
  <2> QED
    BY <1>1, <1>5, <2>1 DEF SkipClone, Abort, MainTypeOK, Labels, Terminal
<1>6. ASSUME NEW t \in Tids, SkipThreadStop(t) \/ SkipThreadEnd(t)
      PROVE  MainTypeOK'
  BY <1>1, <1>6 DEF SkipThreadStop, SkipThreadEnd, mainVars, MainTypeOK
<1>7. ASSUME NEW t \in Tids, SkipReturns(t) PROVE MainTypeOK'
  <2>1. thr[t].ws \in WaitStatus
    BY <1>1 DEF Thread
  <2> QED
    BY <1>1, <1>7, <2>1 DEF SkipReturns, MainTypeOK
<1>8. CASE WaitNoChild \/ FlipNoRegs \/ StepAsserts \/ VerdictAsserts
           \/ VerdictNoOrig \/ FlipUnknown \/ StopSucceeds \/ FlipWritten
           \/ Finish \/ RunTraces \/ RunFails \/ RunDies
  BY <1>1, <1>8 DEF WaitNoChild, FlipNoRegs, StepAsserts, VerdictAsserts,
     VerdictNoOrig, FlipUnknown, StopSucceeds, FlipWritten, Finish, Abort,
     RunTraces, RunFails, RunDies,
     MainTypeOK,
     Labels, Terminal
<1>9. CASE StopFails \/ FlipRefused \/ StepRefused \/ FlipRead \/ StepFlip
  BY <1>1, <1>9 DEF StopFails, FlipRefused, StepRefused, FlipRead, StepFlip,
     InjectionFails, InjectionSucceeds, Abort, MainTypeOK, Labels, Terminal
<1>10. CASE VerdictReached
  BY <1>1, <1>10, VerdictTypes DEF VerdictReached, MainTypeOK, Labels, Terminal
<1> QED
  BY <1>2, <1>3, <1>4, <1>5, <1>6, <1>7, <1>8, <1>9, <1>10 DEF Main

(* A step of the main thread keeps the types of the sleeping thread's      *)
(* state.                                                                  *)
LEMMA MainSleeperTypes == SleeperTypeOK /\ Main => SleeperTypeOK'
BY DEF SleeperTypeOK, sleeperVars, Main, GiveUp, Launch, RunSucceeds, RunWaits,
   SkipClone, SkipThreadStop, SkipThreadEnd, SkipReturns, WaitNoChild,
   StopFails, StopSucceeds, RunTraces, RunFails, RunDies,
     FlipNoRegs, FlipRefused, FlipRead, FlipWritten,
   StepRefused, StepFlip, StepAsserts, CleanupPoll, CleanupBlock,
   VerdictAsserts, VerdictNoOrig, FlipUnknown, VerdictReached, Finish,
   InjectionFails,
   InjectionSucceeds

(* A step of the sleeping thread keeps all types. *)
LEMMA SleeperTypes ==
  TypeOK /\ AttemptsInv /\ KnownInv /\ Sleeper => TypeOK'
<1> SUFFICES ASSUME TypeOK, AttemptsInv, KnownInv, Sleeper PROVE TypeOK'
  OBVIOUS
<1>1. ASSUME NEW r \in 0..NThreads, SleeperWakes(r) PROVE TypeOK'
  BY <1>1, NThreadsAssumption DEF SleeperWakes, kernelVars, mainVars, TypeOK
<1>2. ASSUME NEW t \in Tids, SleeperPicks(t) PROVE TypeOK'
  BY <1>2 DEF SleeperPicks, kernelVars, mainVars, TypeOK
<1>3. CASE SleeperFindsNone
  BY <1>3 DEF SleeperFindsNone, Abort, kernelVars, sleeperVars, TypeOK, Labels,
     Terminal
<1>4. CASE SleeperKills
  <2>1. target \in Tids
    BY <1>4 DEF SleeperKills, KnownInv, TypeOK
  <2>2. target[1] \in Procs
    BY <2>1, TidFacts
  <2>3. proc \in [Procs -> Process]
    BY DEF TypeOK
  <2>4. proc[target[1]].pend \cup {"SIGTRAP"} \in SUBSET {"SIGTRAP", "SIGALRM"}
    BY <2>2, <2>3, ProcessTypes
  <2>5. proc' \in [Procs -> Process]
    BY <1>4, <2>2, <2>3, <2>4, ProcessTypes DEF SleeperKills
  <2>6. killOK' \in BOOLEAN
    BY <1>4 DEF SleeperKills
  <2> QED
    BY <1>4, <2>5, <2>6 DEF SleeperKills, mainVars, TypeOK
<1> QED
  BY <1>1, <1>2, <1>3, <1>4 DEF Sleeper

(* The initial state is of its type. *)
LEMMA TypeInit == Init => TypeOK
<1> SUFFICES ASSUME Init PROVE TypeOK
  OBVIOUS
<1>1. opt.MaxInjectionAttempts \in 0..UIntMax
  BY ConfigsAssumption DEF Init, Config
<1>2. thr \in [Tids -> Thread]
  BY StatusTypes DEF Init, Thread, ThreadState
<1>3. proc \in [Procs -> Process]
  <2>1. [pend |-> {}, armed |-> FALSE, hit |-> FALSE, wrote |-> "none",
         ends |-> NoStatus] \in Process
    BY StatusTypes DEF Process, Chunk
  <2> QED
    BY <2>1 DEF Init
<1>4. attempts \in 0..UIntMax /\ try \in 0..UIntMax
  BY <1>1, UIntMaxAssumption DEF Init
<1>5. status \in [Pid : Tids \cup {NoTid}, Status : WaitStatus]
  BY StatusTypes DEF Init
<1>6. file \in [hole : BOOLEAN, data : Chunk]
  BY DEF Init, Chunk
<1> QED
  BY <1>2, <1>3, <1>4, <1>5, <1>6
     DEF Init, TypeOK, Labels, Terminal, FtStatus

(* Every step keeps the types. *)
LEMMA TypeNext ==
  TypeOK /\ AttemptsInv /\ CloneInv /\ KnownInv /\ [Next]_vars => TypeOK'
<1> SUFFICES ASSUME TypeOK, AttemptsInv, CloneInv, KnownInv, [Next]_vars
             PROVE  TypeOK'
  OBVIOUS
<1>1. CASE UNCHANGED vars \/ Over
  BY <1>1 DEF Over, vars, kernelVars, mainVars, sleeperVars, TypeOK
<1>2. CASE Sleeper
  BY <1>2, SleeperTypes
<1>3. CASE Kernel \/ Workload
  <2>1. KernelTypeOK'
    BY <1>3, KernelTypes DEF KernelTypeOK, TypeOK
  <2>2. UNCHANGED <<opt, mainVars, sleeperVars>>
    BY <1>3 DEF Kernel, Workload
  <2> QED
    BY <2>1, <2>2 DEF KernelTypeOK, mainVars, sleeperVars, TypeOK
<1>4. CASE Main
  <2>1. KernelTypeOK' /\ MainTypeOK'
    BY <1>4, MainKernelTypes, MainTypes
  <2>2. SleeperTypeOK'
    BY <1>4, MainSleeperTypes DEF SleeperTypeOK, TypeOK
  <2> QED
    BY <2>1, <2>2 DEF KernelTypeOK, MainTypeOK, SleeperTypeOK, TypeOK
<1> QED
  BY <1>1, <1>2, <1>3, <1>4 DEF Next
-----------------------------------------------------------------------------
(* The thread table.                                                       *)

(* What one change of the thread table does to each of its fields. *)
LEMMA SetThreadFacts ==
  ASSUME thr \in [Tids -> Thread], NEW t \in Tids, NEW s, NEW w
  PROVE  /\ SetThread(t, s, w)[t].st = s
         /\ SetThread(t, s, w)[t].ws = w
         /\ SetThread(t, s, w)[t].new = thr[t].new
         /\ \A u \in Tids : u # t => SetThread(t, s, w)[u] = thr[u]
BY DEF SetThread, Thread

(* What the end of a process does to them. *)
LEMMA GroupDyingFacts ==
  ASSUME thr \in [Tids -> Thread], NEW k, NEW t \in Tids
  PROVE  /\ t[1] = k /\ Alive(t) => /\ GroupDying(k)[t].st = "dying"
                                    /\ GroupDying(k)[t].ws = NoStatus
                                    /\ GroupDying(k)[t].new = thr[t].new
         /\ ~(t[1] = k /\ Alive(t)) => GroupDying(k)[t] = thr[t]
BY DEF GroupDying, Thread

(* The statuses that the proofs must tell apart. *)
LEMMA StatusNames ==
  /\ NoStatus # Stopped("CLONE") /\ NoStatus.Type = "Invalid"
  /\ \A s \in Signals : Stopped(s) # Stopped("CLONE") /\ Stopped(s) # NoStatus
  /\ \A s : Stopped(s).Type = "Stopped" /\ Signaled(s).Type = "Signaled"
  /\ \A s : Signaled(s) # Stopped("CLONE")
  /\ \A c : Exited(c).Type = "Exited" /\ Exited(c) # Stopped("CLONE")
BY DEF NoStatus, Stopped, Signaled, Exited, Signals

(* The end of a process announces no thread and forgets those it did. *)
LEMMA CloneGroup ==
  ASSUME TypeOK, CloneInv, NEW k, thr' = GroupDying(k),
         UNCHANGED <<childThreads, target>>
  PROVE  CloneInv'
<1> SUFFICES ASSUME NEW t \in Tids, Announcing(t)' PROVE
      /\ thr'[t].new \in Tids /\ thr'[t].new[2] # 0
      /\ thr'[t].new[1] = t[1]
      /\ thr'[t].st \in {"cloning", "stop"}
      /\ thr'[t].ws = Stopped("CLONE") => thr'[t].st = "stop"
      /\ thr'[thr'[t].new].st \in {"born", "stop"}
      /\ thr'[t].new \notin childThreads
      /\ thr'[t].new # target
      /\ \A u \in Tids : Announcing(u)' /\ thr'[u].new = thr'[t].new => u = t
  BY DEF CloneInv
<1>1. thr \in [Tids -> Thread]
  BY DEF TypeOK
<1>2. \A u \in Tids : Announcing(u)' => Announcing(u) /\ thr'[u] = thr[u] /\ u[1] # k
  BY <1>1, GroupDyingFacts, StatusNames DEF Announcing, CloneInv, Alive
<1>3. Announcing(t) /\ thr'[t] = thr[t] /\ t[1] # k
  BY <1>2
<1>4. thr'[thr[t].new] = thr[thr[t].new]
  BY <1>1, <1>3, GroupDyingFacts DEF CloneInv
<1> QED
  BY <1>2, <1>3, <1>4 DEF CloneInv

(* Nor does a change of one thread that is not about to be announced, or   *)
(* that only stops it, when the change announces none itself.              *)
LEMMA CloneSet ==
  ASSUME TypeOK, CloneInv, NEW t \in Tids, NEW s, NEW w,
         thr' = SetThread(t, s, w), UNCHANGED <<childThreads, target>>,
         s # "cloning", w # Stopped("CLONE"),
         \/ \A u \in Tids : Announcing(u) => thr[u].new # t
         \/ s \in {"born", "stop"}
  PROVE  CloneInv'
<1>1. thr \in [Tids -> Thread]
  BY DEF TypeOK
<1>2. /\ \A u \in Tids : u # t => thr'[u] = thr[u]
      /\ thr'[t].st = s /\ thr'[t].ws = w
  BY <1>1, SetThreadFacts
<1>3. \A u \in Tids : Announcing(u)' => Announcing(u) /\ u # t
  BY <1>2 DEF Announcing
<1> QED
  BY <1>2, <1>3 DEF CloneInv
(* Returning a status from waitpid() changes no thread that is about to be *)
(* announced, and announces none.                                          *)
LEMMA CloneReported ==
  ASSUME TypeOK, CloneInv, NEW t \in Tids, thr' = Reported(t),
         childThreads' \subseteq childThreads, UNCHANGED target
  PROVE  CloneInv'
<1>1. thr \in [Tids -> Thread]
  BY DEF TypeOK
<1>2. /\ \A u \in Tids : u # t => thr'[u] = thr[u]
      /\ thr'[t].st = IF thr[t].st = "dead" THEN "gone" ELSE thr[t].st
      /\ thr'[t].ws = NoStatus /\ thr'[t].new = thr[t].new
  BY <1>1, SetThreadFacts DEF Reported
<1>3. \A u \in Tids : Announcing(u)' => Announcing(u)
  BY <1>2, StatusNames DEF Announcing
<1> QED
  BY <1>2, <1>3, StatusNames DEF CloneInv

(* A step of the kernel or of the workload keeps the announcements.        *)
LEMMA CloneKernel ==
  TypeOK /\ CloneInv /\ DeathInv /\ KnownInv /\ (Kernel \/ Workload)
    => CloneInv'
<1> SUFFICES ASSUME TypeOK, CloneInv, DeathInv, KnownInv, Kernel \/ Workload
             PROVE  CloneInv'
  OBVIOUS
<1>1. thr \in [Tids -> Thread] /\ proc \in [Procs -> Process]
  BY DEF TypeOK
<1>2. UNCHANGED <<childThreads, target>>
  BY DEF Kernel, Workload, mainVars, sleeperVars
<1>3. \A u, t \in Tids : Announcing(u) /\ thr[u].new = t
                           => thr[t].st \in {"born", "stop"}
  BY DEF CloneInv
<1>4. ASSUME NEW k \in Procs, ChildExec(k) \/ ChildDiesEarly(k) PROVE CloneInv'
  <2>1. Leader(k) \in Tids /\ thr[Leader(k)].st = "forked"
    BY <1>4, TidFacts DEF ChildExec, ChildDiesEarly
  <2> QED
    BY <1>2, <1>3, <1>4, <2>1, CloneSet, StatusNames
       DEF ChildExec, ChildDiesEarly, Signals
<1>5. ASSUME NEW t \in Tids, NEW s \in {"SIGTRAP", "SIGALRM"}, StopOnSignal(t, s)
      PROVE  CloneInv'
  <2>1. Stopped(s) # Stopped("CLONE")
    BY StatusNames DEF Signals
  <2> QED
    BY <1>2, <1>5, <2>1, CloneSet DEF StopOnSignal
<1>6. ASSUME NEW k \in Procs, AlarmFires(k) PROVE CloneInv'
  BY <1>2, <1>6 DEF AlarmFires, CloneInv, Announcing
<1>7. ASSUME NEW t \in Tids, StepDone(t) \/ ThreadStop(t) \/ Fault(t)
      PROVE  CloneInv'
  BY <1>2, <1>7, CloneSet, StatusNames DEF StepDone, ThreadStop, Fault, Signals
<1>8. ASSUME NEW t \in Tids, Die(t) PROVE CloneInv'
  <2>1. proc[t[1]].ends # Stopped("CLONE")
    BY <1>8, StatusNames DEF Die, DeathInv
  <2> QED
    BY <1>2, <1>3, <1>8, <2>1, CloneSet DEF Die
<1>9. ASSUME NEW t \in Tids, CloneStop(t) PROVE CloneInv'
  <2>1. /\ \A u \in Tids : u # t => thr'[u] = thr[u]
        /\ thr'[t].st = "stop" /\ thr'[t].new = thr[t].new
    BY <1>1, <1>9, SetThreadFacts DEF CloneStop
  <2>2. Announcing(t) /\ thr[t].st = "cloning"
    BY <1>9 DEF CloneStop, Announcing
  <2>3. \A u \in Tids : Announcing(u)' => Announcing(u)
    BY <2>1, <2>2 DEF Announcing
  <2> QED
    BY <1>2, <2>1, <2>2, <2>3 DEF CloneInv
<1>10. ASSUME NEW t \in Tids, NEW c, WriteOutput(t, c) PROVE CloneInv'
  BY <1>2, <1>10 DEF WriteOutput, CloneInv, Announcing
<1>11. ASSUME NEW t \in Tids, NEW c, ExitGroup(t, c) PROVE CloneInv'
  BY <1>2, <1>11, CloneGroup DEF ExitGroup, EndProcess
<1>12. ASSUME NEW t \in Tids, ThreadExit(t) PROVE CloneInv'
  BY <1>2, <1>3, <1>12, CloneSet, StatusNames DEF ThreadExit, MayCall
<1>13. ASSUME NEW t \in Tids, NEW u \in Tids, Clone(t, u) PROVE CloneInv'
  <2>1. /\ thr[t].st \in {"run", "step"} /\ thr[u].st = "none" /\ u # t
        /\ u[1] = t[1] /\ u[2] # 0
    BY <1>13 DEF Clone, MayCall
  <2>2. /\ thr'[t].st = "cloning" /\ thr'[t].new = u /\ thr'[t].ws = thr[t].ws
        /\ thr'[u].st = "born" /\ thr'[u].ws = thr[u].ws
        /\ \A v \in Tids : v # t /\ v # u => thr'[v] = thr[v]
    BY <1>1, <1>13, <2>1 DEF Clone, Thread
  <2>3. ~Announcing(t) /\ ~Announcing(u)
    BY <2>1 DEF CloneInv
  <2>4. \A v \in Tids : Announcing(v)' => v = t \/ (v # u /\ Announcing(v))
    BY <2>1, <2>2, <2>3 DEF Announcing
  <2>5. u \notin childThreads /\ u # target
    BY <2>1, TidFacts DEF KnownInv
  <2>6. \A v \in Tids : Announcing(v) => thr[v].new # u /\ thr[v].new # t
    BY <1>3, <2>1
  <2> SUFFICES ASSUME NEW v \in Tids, Announcing(v)' PROVE
    /\ thr'[v].new \in Tids /\ thr'[v].new[2] # 0
    /\ thr'[v].new[1] = v[1]
    /\ thr'[v].st \in {"cloning", "stop"}
    /\ thr'[v].ws = Stopped("CLONE") => thr'[v].st = "stop"
    /\ thr'[thr'[v].new].st \in {"born", "stop"}
    /\ thr'[v].new \notin childThreads
    /\ thr'[v].new # target
    /\ \A x \in Tids : Announcing(x)' /\ thr'[x].new = thr'[v].new => x = v
    BY <1>2 DEF CloneInv
  <2>7. CASE v = t
    BY <2>1, <2>2, <2>3, <2>4, <2>5, <2>6, <2>7 DEF Announcing
  <2>8. CASE v # t
    <3>1. Announcing(v) /\ v # u /\ thr'[v] = thr[v]
      BY <2>2, <2>4, <2>8
    <3>2. thr'[thr[v].new] = thr[thr[v].new]
      BY <2>2, <2>6, <3>1 DEF CloneInv
    <3>3. \A x \in Tids : Announcing(x)' /\ thr'[x].new = thr'[v].new => x = v
      BY <2>2, <2>4, <2>6, <3>1 DEF CloneInv
    <3> QED
      BY <3>1, <3>2, <3>3 DEF CloneInv
  <2> QED
    BY <2>7, <2>8
<1>14. ASSUME NEW k \in Procs, OomKill(k) PROVE CloneInv'
  BY <1>2, <1>14, CloneGroup DEF OomKill, EndProcess
<1> QED
  BY <1>4, <1>5, <1>6, <1>7, <1>8, <1>9, <1>10, <1>11, <1>12, <1>13, <1>14
     DEF Kernel, Workload
(* A step of the job's own threads keeps the announcements. *)
LEMMA CloneJob ==
  TypeOK /\ AttemptsInv /\ CloneInv /\ KnownInv /\ (Main \/ Sleeper) => CloneInv'
<1> SUFFICES ASSUME TypeOK, AttemptsInv, CloneInv, KnownInv, Main \/ Sleeper
             PROVE  CloneInv'
  OBVIOUS
<1>1. thr \in [Tids -> Thread]
  BY DEF TypeOK
<1>2. \A u \in Tids : Announcing(u) =>
        /\ thr[u].new[2] # 0 /\ thr[u].new \notin childThreads
        /\ thr[u].new # target
  BY DEF CloneInv
<1>3. try \in Procs => \A u \in Tids : Announcing(u) => thr[u].new # ChildPID
  BY <1>2, TidFacts DEF ChildPID
<1>4. CASE \/ GiveUp \/ WaitNoChild \/ StopSucceeds \/ RunTraces \/ RunFails \/ RunDies
           \/ FlipNoRegs
           \/ VerdictAsserts \/ VerdictNoOrig \/ FlipUnknown \/ SleeperFindsNone
           \/ SleeperKills \/ \E r \in 0..NThreads : SleeperWakes(r)
  <2>1. UNCHANGED <<thr, childThreads, target>>
    BY <1>4 DEF GiveUp, WaitNoChild, StopSucceeds, RunTraces, RunFails, RunDies,
     FlipNoRegs, VerdictAsserts,
       VerdictNoOrig, FlipUnknown, SleeperFindsNone, SleeperKills, SleeperWakes,
       kernelVars, mainVars, sleeperVars
  <2> QED
    BY <2>1 DEF CloneInv, Announcing
<1>5. ASSUME NEW t \in Tids, SleeperPicks(t) PROVE CloneInv'
  <2>1. try \in Procs
    BY <1>5, RunExists DEF SleeperPicks, KnownInv
  <2>2. \A u \in Tids : Announcing(u) => thr[u].new # t
    BY <1>2, <1>3, <1>5, <2>1 DEF SleeperPicks
  <2>3. UNCHANGED <<thr, childThreads>> /\ target' = t
    BY <1>5 DEF SleeperPicks, kernelVars, mainVars
  <2> QED
    BY <2>2, <2>3 DEF CloneInv, Announcing
<1>6. CASE Launch
  <2>1. try + 1 \in Procs /\ try \in Nat
    BY <1>6, AllowedFacts DEF Launch, Decremented, AttemptsInv, Procs
  <2>2. Leader(try + 1) \in Tids /\ Leader(try + 1)[1] > try
    BY <2>1, TidFacts
  <2>3. thr[Leader(try + 1)].st = "none"
    BY <2>2 DEF KnownInv
  <2>4. /\ \A u \in Tids : u # Leader(try + 1) => thr'[u] = thr[u]
        /\ thr'[Leader(try + 1)].st = "forked"
        /\ thr'[Leader(try + 1)].ws = thr[Leader(try + 1)].ws
    BY <1>1, <1>6, <2>2 DEF Launch, Thread
  <2>5. \A u \in Tids : Announcing(u)' => Announcing(u) /\ u # Leader(try + 1)
    BY <2>3, <2>4 DEF Announcing, CloneInv
  <2>6. \A u \in Tids : Announcing(u) => thr[u].new # Leader(try + 1)
    BY <2>3 DEF CloneInv
  <2>7. childThreads' = {} /\ target' = target
    BY <1>6 DEF Launch, sleeperVars
  <2> QED
    BY <2>4, <2>5, <2>6, <2>7 DEF CloneInv
<1>7. CASE RunSucceeds
  <2>1. ChildPID \in Tids /\ try \in Procs
    BY <1>7, RunExists DEF RunSucceeds
  <2>2. thr' = SetThread(ChildPID, "run", NoStatus)
    BY <1>7 DEF RunSucceeds, Resumed
  <2>3. UNCHANGED <<childThreads, target>>
    BY <1>7 DEF RunSucceeds
  <2> QED
    BY <1>3, <2>1, <2>2, <2>3, CloneSet, StatusNames
<1>8. CASE RunWaits \/ CleanupPoll \/ CleanupBlock
  <2>1. ChildPID \in Tids
    BY <1>8, RunExists DEF RunWaits, CleanupPoll, CleanupBlock
  <2>2. /\ thr' = Reported(ChildPID) \/ thr' = thr
        /\ UNCHANGED <<childThreads, target>>
    BY <1>8 DEF RunWaits, CleanupPoll, CleanupBlock, sleeperVars
  <2>3. CASE thr' = thr
    BY <2>2, <2>3 DEF CloneInv, Announcing
  <2> QED
    BY <2>1, <2>2, <2>3, CloneReported
<1>9. ASSUME NEW t \in Tids, SkipClone(t) PROVE CloneInv'
  <2>1. ChildPID \in Tids /\ try \in Procs
    BY <1>9, RunExists DEF SkipClone
  <2>2. childThreads' = childThreads \cup {thr[t].new} /\ target' = target
    BY <1>9 DEF SkipClone, sleeperVars
  <2>3. Announcing(t) /\ thr[t].st # "dead" /\ thr[t].st # "cloning"
    BY <1>9, StatusNames DEF SkipClone, IsCloneEvent, Announcing, CloneInv,
       Waitable
  <2>4. /\ Reported(t) \in [Tids -> Thread]
        /\ \A u \in Tids : u # t => Reported(t)[u] = thr[u]
        /\ Reported(t)[t].st = thr[t].st /\ Reported(t)[t].ws = NoStatus
    BY <1>1, <2>3, SetThreadFacts, ThreadTableTypes DEF Reported
  <2>5. \/ thr' = Reported(t)
        \/ thr' = [Reported(t) EXCEPT ![ChildPID].st = "run",
                                      ![ChildPID].ws = NoStatus]
    BY <1>9 DEF SkipClone
  <2>6. \A u \in Tids : thr'[u] = Reported(t)[u] \/
          (u = ChildPID /\ thr'[u].st = "run" /\ thr'[u].ws = NoStatus)
    BY <2>1, <2>4, <2>5 DEF Thread
  <2>7. \A u \in Tids : Announcing(u)' => Announcing(u) /\ u # t /\ thr'[u] = thr[u]
    BY <2>3, <2>4, <2>6, StatusNames DEF Announcing
  <2>8. \A u \in Tids : Announcing(u)' => thr[u].new # thr[t].new
    BY <2>3, <2>7 DEF CloneInv
  <2>9. \A u \in Tids : Announcing(u)' =>
          thr'[thr[u].new].st = thr[thr[u].new].st
    BY <1>3, <2>1, <2>4, <2>6, <2>7 DEF CloneInv
  <2> QED
    BY <2>2, <2>7, <2>8, <2>9 DEF CloneInv
<1>10. ASSUME NEW t \in Tids, SkipThreadStop(t) PROVE CloneInv'
  <2>1. /\ thr' = SetThread(t, "run", NoStatus)
        /\ t \in childThreads /\ UNCHANGED <<childThreads, target>>
    BY <1>10 DEF SkipThreadStop, Resumed, mainVars, sleeperVars
  <2> QED
    BY <1>2, <2>1, CloneSet, StatusNames
<1>11. ASSUME NEW t \in Tids, SkipThreadEnd(t) \/ SkipReturns(t) PROVE CloneInv'
  <2>1. /\ thr' = Reported(t) /\ childThreads' \subseteq childThreads
        /\ target' = target
    BY <1>11 DEF SkipThreadEnd, SkipReturns, sleeperVars
  <2> QED
    BY <2>1, CloneReported
<1>12. CASE StopFails \/ FlipRefused \/ StepRefused \/ VerdictReached \/ Finish
  <2>1. /\ thr' = thr \/ thr' = GroupDying(try)
        /\ UNCHANGED <<childThreads, target>>
    BY <1>12 DEF StopFails, FlipRefused, StepRefused, VerdictReached, Finish,
       InjectionFails, PtraceKill, EndProcess, sleeperVars
  <2>2. CASE thr' = thr
    BY <2>1, <2>2 DEF CloneInv, Announcing
  <2> QED
    BY <2>1, <2>2, CloneGroup
<1>13. CASE FlipRead \/ StepFlip \/ FlipWritten
  <2>1. target \in Tids
    BY <1>13 DEF FlipRead, StepFlip, FlipWritten, KnownInv, TypeOK
  <2>2. /\ \E m \in {"run", "step"} : thr' = SetThread(target, m, NoStatus)
        /\ UNCHANGED <<childThreads, target>>
    BY <1>13 DEF FlipRead, StepFlip, FlipWritten, InjectionSucceeds, Resumed,
       sleeperVars
  <2> QED
    BY <1>2, <2>1, <2>2, CloneSet, StatusNames
<1>14. CASE StepAsserts
  <2>1. target \in Tids
    BY <1>14 DEF StepAsserts, KnownInv, TypeOK
  <2>2. thr' = Reported(target) /\ UNCHANGED <<childThreads, target>>
    BY <1>14 DEF StepAsserts, sleeperVars
  <2> QED
    BY <2>1, <2>2, CloneReported
<1> QED
  BY <1>4, <1>5, <1>6, <1>7, <1>8, <1>9, <1>10, <1>11, <1>12, <1>13, <1>14
     DEF Main, Sleeper
(* The end of a process gives all its threads a status of an end. *)
LEMMA DeathGroup ==
  ASSUME TypeOK, DeathInv, NEW k \in Procs, NEW w \in WaitStatus,
         EndProcess(k, w), w.Type \in {"Exited", "Signaled"}
  PROVE  DeathInv'
<1>1. thr \in [Tids -> Thread] /\ proc \in [Procs -> Process]
  BY DEF TypeOK
<1>2. \A j \in Procs : proc'[j].ends = proc[j].ends \/ proc'[j].ends = w
  BY <1>1 DEF EndProcess, Process
<1>3. (\E t \in ThreadsOf(k) : Alive(t)) => proc'[k].ends = w
  BY <1>1 DEF EndProcess, Process
<1> SUFFICES ASSUME NEW t \in Tids
             PROVE  /\ thr'[t].st = "dead" => thr'[t].ws.Type \in {"Exited", "Signaled"}
                    /\ thr'[t].st = "dying" =>
                         proc'[t[1]].ends.Type \in {"Exited", "Signaled"}
  BY DEF DeathInv
<1>4. t[1] \in Procs
  BY TidFacts
<1>5. CASE t[1] = k /\ Alive(t)
  BY <1>1, <1>3, <1>5, GroupDyingFacts DEF EndProcess, ThreadsOf
<1>6. CASE ~(t[1] = k /\ Alive(t))
  <2>1. thr'[t] = thr[t]
    BY <1>1, <1>6, GroupDyingFacts DEF EndProcess
  <2> QED
    BY <1>2, <1>4, <2>1 DEF DeathInv
<1> QED
  BY <1>5, <1>6

(* A change of one thread keeps DeathInv unless it makes it die or leaves  *)
(* it dead without the status of an end.                                   *)
LEMMA DeathSet ==
  ASSUME TypeOK, DeathInv, NEW t \in Tids, NEW s, NEW w,
         thr' = SetThread(t, s, w),
         \A j \in Procs : proc'[j].ends = proc[j].ends,
         s = "dying" => thr[t].st = "dying",
         s = "dead" => w.Type \in {"Exited", "Signaled"}
  PROVE  DeathInv'
<1>1. thr \in [Tids -> Thread]
  BY DEF TypeOK
<1>2. /\ \A u \in Tids : u # t => thr'[u] = thr[u]
      /\ thr'[t].st = s /\ thr'[t].ws = w
  BY <1>1, SetThreadFacts
<1> QED
  BY <1>2, TidFacts DEF DeathInv

(* Every step keeps DeathInv. *)
LEMMA DeathNext ==
  TypeOK /\ AttemptsInv /\ CloneInv /\ DeathInv /\ KnownInv /\ [Next]_vars
    => DeathInv'
<1> SUFFICES ASSUME TypeOK, AttemptsInv, CloneInv, DeathInv, KnownInv,
                    [Next]_vars
             PROVE  DeathInv'
  OBVIOUS
<1>1. thr \in [Tids -> Thread] /\ proc \in [Procs -> Process]
  BY DEF TypeOK
<1>2. CASE UNCHANGED vars \/ Over
  BY <1>2 DEF vars, kernelVars, Over, DeathInv
<1>3. CASE Kernel \/ Workload
  <2>1. ASSUME NEW k \in Procs, ChildExec(k) \/ ChildDiesEarly(k) PROVE DeathInv'
    <3>1. Leader(k) \in Tids /\ proc' = proc
      BY <2>1, TidFacts DEF ChildExec, ChildDiesEarly
    <3> QED
      BY <2>1, <3>1, DeathSet, StatusNames DEF ChildExec, ChildDiesEarly
  <2>2. ASSUME NEW t \in Tids, NEW s \in {"SIGTRAP", "SIGALRM"}, StopOnSignal(t, s)
        PROVE  DeathInv'
    <3>1. \A j \in Procs : proc'[j].ends = proc[j].ends
      BY <1>1, <2>2 DEF StopOnSignal, Process
    <3> QED
      BY <2>2, <3>1, DeathSet DEF StopOnSignal
  <2>3. ASSUME NEW k \in Procs, AlarmFires(k) PROVE DeathInv'
    <3>1. \A j \in Procs : proc'[j].ends = proc[j].ends
      BY <1>1, <2>3 DEF AlarmFires, Process
    <3> QED
      BY <2>3, <3>1, TidFacts DEF AlarmFires, DeathInv
  <2>4. ASSUME NEW t \in Tids,
               StepDone(t) \/ CloneStop(t) \/ ThreadStop(t) \/ Fault(t)
        PROVE  DeathInv'
    BY <2>4, DeathSet DEF StepDone, CloneStop, ThreadStop, Fault
  <2>5. ASSUME NEW t \in Tids, Die(t) PROVE DeathInv'
    BY <2>5, DeathSet DEF Die, DeathInv
  <2>6. ASSUME NEW t \in Tids, NEW c, WriteOutput(t, c) PROVE DeathInv'
    <3>1. \A j \in Procs : proc'[j].ends = proc[j].ends
      BY <1>1, <2>6 DEF WriteOutput, Process
    <3> QED
      BY <2>6, <3>1, TidFacts DEF WriteOutput, DeathInv
  <2>7. ASSUME NEW t \in Tids, NEW c \in ExitCodes, ExitGroup(t, c)
        PROVE  DeathInv'
    BY <2>7, DeathGroup, StatusNames, StatusTypes, TidFacts DEF ExitGroup
  <2>8. ASSUME NEW t \in Tids, ThreadExit(t) PROVE DeathInv'
    BY <2>8, DeathSet, StatusNames DEF ThreadExit
  <2>9. ASSUME NEW t \in Tids, NEW u \in Tids, Clone(t, u) PROVE DeathInv'
    <3>1. \A v \in Tids :
            thr'[v] = thr[v] \/ thr'[v].st \in {"cloning", "born"}
      BY <1>1, <2>9 DEF Clone, Thread
    <3> QED
      BY <2>9, <3>1 DEF Clone, DeathInv
  <2>10. ASSUME NEW k \in Procs, OomKill(k) PROVE DeathInv'
    BY <2>10, DeathGroup, StatusNames, StatusTypes DEF OomKill
  <2> QED
    BY <1>3, <2>1, <2>2, <2>3, <2>4, <2>5, <2>6, <2>7, <2>8, <2>9, <2>10
       DEF Kernel, Workload
<1>4. CASE Sleeper
  <2>1. \A j \in Procs : proc'[j].ends = proc[j].ends
    BY <1>1, <1>4 DEF Sleeper, SleeperWakes, SleeperPicks, SleeperFindsNone,
       SleeperKills, kernelVars, Process
  <2>2. thr' = thr
    BY <1>4 DEF Sleeper, SleeperWakes, SleeperPicks, SleeperFindsNone,
       SleeperKills, kernelVars
  <2> QED
    BY <2>1, <2>2, TidFacts DEF DeathInv
<1>5. CASE GiveUp \/ WaitNoChild \/ StopSucceeds \/ RunTraces \/ RunFails
           \/ RunDies \/ FlipNoRegs \/ VerdictAsserts \/ VerdictNoOrig \/ FlipUnknown
  BY <1>5 DEF GiveUp, WaitNoChild, StopSucceeds, RunTraces, RunFails, RunDies,
     FlipNoRegs, VerdictAsserts,
     VerdictNoOrig, FlipUnknown, kernelVars, DeathInv
<1>6. CASE Launch
  <2>1. Leader(try + 1) \in Tids
    BY <1>6, AllowedFacts, TidFacts DEF Launch, Decremented, AttemptsInv, Procs
  <2>2. \A u \in Tids : thr'[u] = thr[u] \/ thr'[u].st = "forked"
    BY <1>1, <1>6, <2>1 DEF Launch, Thread
  <2>3. \A j \in Procs : proc'[j].ends = proc[j].ends
    BY <1>1, <1>6 DEF Launch, Process
  <2> QED
    BY <2>2, <2>3, TidFacts DEF DeathInv
<1>7. CASE RunSucceeds \/ RunWaits \/ CleanupPoll \/ CleanupBlock
  <2>1. ChildPID \in Tids
    BY <1>7, RunExists DEF RunSucceeds, RunWaits, CleanupPoll, CleanupBlock
  <2>2. /\ \/ thr' = Resumed(ChildPID, "run") \/ thr' = Reported(ChildPID)
           \/ thr' = thr
        /\ proc' = proc
    BY <1>7 DEF RunSucceeds, RunWaits, CleanupPoll, CleanupBlock
  <2>3. CASE thr' = thr
    BY <2>2, <2>3 DEF DeathInv
  <2> QED
    BY <2>1, <2>2, <2>3, DeathSet DEF Resumed, Reported
<1>8. ASSUME NEW t \in Tids, SkipClone(t) PROVE DeathInv'
  <2>1. ChildPID \in Tids /\ proc' = proc
    BY <1>8, RunExists DEF SkipClone
  <2>2. Reported(t) \in [Tids -> Thread]
    BY <1>1, ThreadTableTypes
  <2>3. \A u \in Tids : \/ Reported(t)[u] = thr[u]
                        \/ Reported(t)[u].st = "gone"
                        \/ Reported(t)[u].st = thr[u].st /\ thr[u].st # "dead"
    BY <1>1, SetThreadFacts DEF Reported
  <2>4. \A u \in Tids : thr'[u] = Reported(t)[u] \/ thr'[u].st = "run"
    BY <1>8, <2>1, <2>2 DEF SkipClone, Thread
  <2> QED
    BY <2>1, <2>3, <2>4 DEF DeathInv
<1>9. ASSUME NEW t \in Tids, SkipThreadStop(t) \/ SkipThreadEnd(t) \/ SkipReturns(t)
      PROVE  DeathInv'
  <2>1. /\ thr' = Resumed(t, "run") \/ thr' = Reported(t)
        /\ proc' = proc
    BY <1>9 DEF SkipThreadStop, SkipThreadEnd, SkipReturns
  <2> QED
    BY <2>1, DeathSet DEF Resumed, Reported
<1>10. CASE StopFails \/ FlipRefused \/ StepRefused \/ VerdictReached \/ Finish
  <2>1. try \in Procs
    BY <1>10, RunExists DEF StopFails, FlipRefused, StepRefused,
       VerdictReached, Finish
  <2>2. UNCHANGED <<thr, proc>> \/ EndProcess(try, Signaled("SIGKILL"))
    BY <1>10 DEF StopFails, FlipRefused, StepRefused, VerdictReached, Finish,
       InjectionFails, PtraceKill
  <2>3. CASE UNCHANGED <<thr, proc>>
    BY <2>3 DEF DeathInv
  <2> QED
    BY <2>1, <2>2, <2>3, DeathGroup, StatusNames, StatusTypes
<1>11. CASE FlipRead \/ StepFlip \/ FlipWritten \/ StepAsserts
  <2>1. target \in Tids
    BY <1>11 DEF FlipRead, StepFlip, FlipWritten, StepAsserts, KnownInv, TypeOK
  <2>2. \/ \E m \in {"run", "step"} : thr' = SetThread(target, m, NoStatus)
        \/ thr' = Reported(target)
    BY <1>11 DEF FlipRead, StepFlip, FlipWritten, StepAsserts,
       InjectionSucceeds, Resumed
  <2>3. \A j \in Procs : proc'[j].ends = proc[j].ends
    BY <1>1, <1>11 DEF FlipRead, StepFlip, FlipWritten, StepAsserts,
       InjectionSucceeds, Process
  <2> QED
    BY <2>1, <2>2, <2>3, DeathSet DEF Reported
<1> QED
  BY <1>2, <1>3, <1>4, <1>5, <1>6, <1>7, <1>8, <1>9, <1>10, <1>11
     DEF Next, Main
(* A step that makes a thread neither appear, nor vanish, nor be reaped. *)
Keeps(t) == \/ thr'[t].st = thr[t].st
            \/ thr[t].st # "none" /\ thr'[t].st \notin {"none", "gone"}

(* A change of one thread that exists does neither. *)
LEMMA KeepsSet ==
  ASSUME TypeOK, NEW t \in Tids, NEW s, NEW w, thr' = SetThread(t, s, w),
         thr[t].st # "none", s \notin {"none", "gone"}
  PROVE  \A u \in Tids : Keeps(u)
BY SetThreadFacts DEF TypeOK, Keeps

(* Nor does the end of a process. *)
LEMMA KeepsGroup ==
  ASSUME TypeOK, NEW k, thr' = GroupDying(k)
  PROVE  \A u \in Tids : Keeps(u)
BY GroupDyingFacts DEF TypeOK, Keeps, Alive

(* A step of the kernel or of the workload reaps no thread; it creates     *)
(* threads of runs that were started.                                      *)
LEMMA KeepsKernel ==
  TypeOK /\ KnownInv /\ (Kernel \/ Workload) =>
    \A u \in Tids :
      \/ Keeps(u)
      \/ thr'[u].st = "born" /\ u[1] <= try /\ u[2] \in 1..opt.Threads
<1> SUFFICES ASSUME TypeOK, KnownInv, Kernel \/ Workload
    PROVE  \A u \in Tids :
             \/ Keeps(u)
             \/ thr'[u].st = "born" /\ u[1] <= try /\ u[2] \in 1..opt.Threads
  OBVIOUS
<1>1. thr \in [Tids -> Thread]
  BY DEF TypeOK
<1>2. ASSUME NEW k \in Procs, ChildExec(k) \/ ChildDiesEarly(k)
      PROVE  \A u \in Tids : Keeps(u)
  BY <1>2, KeepsSet, TidFacts DEF ChildExec, ChildDiesEarly
<1>3. ASSUME NEW t \in Tids, NEW s, StopOnSignal(t, s)
      PROVE  \A u \in Tids : Keeps(u)
  BY <1>3, KeepsSet DEF StopOnSignal, Running
<1>4. ASSUME NEW k \in Procs, AlarmFires(k) PROVE \A u \in Tids : Keeps(u)
  BY <1>4 DEF AlarmFires, Keeps
<1>5. ASSUME NEW t \in Tids,
             \/ StepDone(t) \/ CloneStop(t) \/ ThreadStop(t)
             \/ Die(t) \/ Fault(t) \/ ThreadExit(t)
      PROVE  \A u \in Tids : Keeps(u)
  BY <1>5, KeepsSet DEF StepDone, CloneStop, ThreadStop, Die, Fault, ThreadExit,
     Running, MayCall
<1>6. ASSUME NEW t \in Tids, NEW c, WriteOutput(t, c)
      PROVE  \A u \in Tids : Keeps(u)
  BY <1>6 DEF WriteOutput, Keeps
<1>7. ASSUME NEW t \in Tids, NEW c, ExitGroup(t, c)
      PROVE  \A u \in Tids : Keeps(u)
  BY <1>7, KeepsGroup DEF ExitGroup, EndProcess
<1>8. ASSUME NEW k \in Procs, OomKill(k) PROVE \A u \in Tids : Keeps(u)
  BY <1>8, KeepsGroup DEF OomKill, EndProcess
<1>9. ASSUME NEW t \in Tids, NEW u \in Tids, Clone(t, u)
      PROVE  \A v \in Tids :
               \/ Keeps(v)
               \/ thr'[v].st = "born" /\ v[1] <= try /\ v[2] \in 1..opt.Threads
  <2>1. thr[t].st \in {"run", "step"} /\ u[1] = t[1] /\ u[2] \in 1..opt.Threads
    BY <1>9 DEF Clone, MayCall
  <2>2. u[1] <= try
    BY <2>1, TidFacts DEF KnownInv, TypeOK, Procs
  <2>3. \A v \in Tids : \/ thr'[v] = thr[v]
                        \/ v = u /\ thr'[v].st = "born"
                        \/ v = t /\ thr'[v].st = "cloning"
    BY <1>1, <1>9 DEF Clone, Thread
  <2> QED
    BY <2>1, <2>2, <2>3 DEF Keeps
<1> QED
  BY <1>2, <1>3, <1>4, <1>5, <1>6, <1>7, <1>8, <1>9 DEF Kernel, Workload

(* What a step of the main thread does to the existence of threads: Launch *)
(* creates the main thread of the next run, and only a status returned by  *)
(* waitpid() reaps a thread, one that was dead.                            *)
LEMMA KeepsMain ==
  ASSUME TypeOK, AttemptsInv, CloneInv, KnownInv, Main
  PROVE  \A u \in Tids : \/ Keeps(u)
                         \/ Launch /\ u = Leader(try + 1) /\ thr'[u].st = "forked"
                         \/ thr[u].st = "dead" /\ thr'[u].st = "gone"
<1> DEFINE Allows(u) ==
      \/ Keeps(u)
      \/ Launch /\ u = Leader(try + 1) /\ thr'[u].st = "forked"
      \/ thr[u].st = "dead" /\ thr'[u].st = "gone"
<1>1. thr \in [Tids -> Thread]
  BY DEF TypeOK
<1>2. CASE GiveUp \/ WaitNoChild \/ StopSucceeds \/ RunTraces \/ RunFails
           \/ RunDies \/ FlipNoRegs \/ VerdictAsserts \/ VerdictNoOrig \/ FlipUnknown
  BY <1>2 DEF GiveUp, WaitNoChild, StopSucceeds, RunTraces, RunFails, RunDies,
     FlipNoRegs, VerdictAsserts,
     VerdictNoOrig, FlipUnknown, kernelVars, Keeps
<1>3. CASE Launch
  <2>1. Leader(try + 1) \in Tids
    BY <1>3, AllowedFacts, TidFacts DEF Launch, Decremented, AttemptsInv, Procs
  <2>2. \A u \in Tids : \/ thr'[u] = thr[u]
                        \/ u = Leader(try + 1) /\ thr'[u].st = "forked"
    BY <1>1, <1>3, <2>1 DEF Launch, Thread
  <2> QED
    BY <1>3, <2>2 DEF Keeps
<1>4. ASSUME NEW t \in Tids, thr' = Reported(t)
      PROVE  \A u \in Tids : Keeps(u) \/ (thr[u].st = "dead" /\ thr'[u].st = "gone")
  BY <1>1, <1>4, SetThreadFacts DEF Reported, Keeps
<1>5. CASE RunSucceeds
  <2>1. ChildPID \in Tids /\ thr[ChildPID].st = "stop"
    BY <1>5, RunExists DEF RunSucceeds
  <2> QED
    BY <1>5, <2>1, KeepsSet DEF RunSucceeds, Resumed
<1>6. CASE RunWaits \/ CleanupPoll \/ CleanupBlock
  <2>1. ChildPID \in Tids
    BY <1>6, RunExists DEF RunWaits, CleanupPoll, CleanupBlock
  <2>2. thr' = Reported(ChildPID) \/ thr' = thr
    BY <1>6 DEF RunWaits, CleanupPoll, CleanupBlock
  <2> QED
    BY <1>4, <2>1, <2>2 DEF Keeps
<1>7. ASSUME NEW t \in Tids, SkipClone(t) PROVE \A u \in Tids : Allows(u)
  <2>1. ChildPID \in Tids
    BY <1>7, RunExists DEF SkipClone
  <2>2. Reported(t) \in [Tids -> Thread]
    BY <1>1, ThreadTableTypes
  <2>3. thr[t].st = "stop"
    BY <1>7 DEF SkipClone, IsCloneEvent, CloneInv, Announcing
  <2>4. \A u \in Tids : Reported(t)[u].st = thr[u].st
    BY <1>1, <2>3, SetThreadFacts DEF Reported
  <2>5. \A u \in Tids : \/ thr'[u] = Reported(t)[u]
                        \/ thr[u].st = "stop" /\ thr'[u].st = "run"
    BY <1>7, <2>1, <2>2 DEF SkipClone, Thread
  <2> QED
    BY <2>4, <2>5 DEF Keeps
<1>8. ASSUME NEW t \in Tids, SkipThreadStop(t) PROVE \A u \in Tids : Keeps(u)
  BY <1>8, KeepsSet DEF SkipThreadStop, Resumed, KnownInv
<1>9. ASSUME NEW t \in Tids, SkipThreadEnd(t) \/ SkipReturns(t)
      PROVE  \A u \in Tids : Allows(u)
  BY <1>4, <1>9 DEF SkipThreadEnd, SkipReturns
<1>10. CASE StopFails \/ FlipRefused \/ StepRefused \/ VerdictReached \/ Finish
  <2>1. thr' = thr \/ thr' = GroupDying(try)
    BY <1>10 DEF StopFails, FlipRefused, StepRefused, VerdictReached, Finish,
       InjectionFails, PtraceKill, EndProcess
  <2> QED
    BY <2>1, KeepsGroup DEF Keeps
<1>11. CASE FlipRead \/ StepFlip \/ FlipWritten \/ StepAsserts
  <2>1. target \in Tids /\ thr[target].st # "none"
    BY <1>11 DEF FlipRead, StepFlip, FlipWritten, StepAsserts, KnownInv, TypeOK
  <2>2. \/ \E m \in {"run", "step"} : thr' = SetThread(target, m, NoStatus)
        \/ thr' = Reported(target)
    BY <1>11 DEF FlipRead, StepFlip, FlipWritten, StepAsserts,
       InjectionSucceeds, Resumed
  <2> QED
    BY <1>4, <2>1, <2>2, KeepsSet
<1> QED
  BY <1>2, <1>3, <1>5, <1>6, <1>7, <1>8, <1>9, <1>10, <1>11 DEF Main
-----------------------------------------------------------------------------
(* The threads known to the job.                                           *)

(* Every step keeps KnownInv. *)
LEMMA KnownNext ==
  TypeOK /\ AttemptsInv /\ CloneInv /\ KnownInv /\ [Next]_vars => KnownInv'
<1> SUFFICES ASSUME TypeOK, AttemptsInv, CloneInv, KnownInv, [Next]_vars
             PROVE  KnownInv'
  OBVIOUS
<1>1. thr \in [Tids -> Thread] /\ childThreads \subseteq Tids
      /\ target \in Tids \cup {NoTid} /\ try \in 0..UIntMax
  BY DEF TypeOK
<1>2. try > 0 => ChildPID \in Tids
  BY <1>1, TidFacts, UIntMaxAssumption DEF ChildPID, Procs
<1>3. ASSUME UNCHANGED <<thr, mainVars, sleeperVars>> PROVE KnownInv'
  BY <1>3 DEF mainVars, sleeperVars, KnownInv, ChildPID
<1>4. CASE UNCHANGED vars \/ Over
  BY <1>3, <1>4 DEF Over, vars, kernelVars
<1>5. CASE Kernel \/ Workload
  <2>1. UNCHANGED <<mainVars, sleeperVars>>
    BY <1>5 DEF Kernel, Workload
  <2>2. \A u \in Tids : thr[u].st # "none" => thr'[u].st # "none"
    BY <1>5, KeepsKernel DEF Keeps
  <2>3. \A u \in Tids : u[1] > try => thr'[u].st = "none"
    <3> SUFFICES ASSUME NEW u \in Tids, u[1] > try PROVE thr'[u].st = "none"
      OBVIOUS
    <3>1. u[1] \in Nat /\ try \in Nat /\ thr[u].st = "none"
      BY <1>1, TidFacts, UIntMaxAssumption DEF KnownInv, Procs
    <3> QED
      BY <1>5, <3>1, KeepsKernel DEF Keeps
  <2> QED
    BY <1>1, <1>2, <2>1, <2>2, <2>3 DEF mainVars, sleeperVars, KnownInv,
       ChildPID
<1>6. CASE Sleeper
  <2>1. UNCHANGED <<thr, ret, try, childThreads>> /\ sl # "idle"
    BY <1>6 DEF Sleeper, SleeperWakes, SleeperPicks, SleeperFindsNone,
       SleeperKills, kernelVars, mainVars
  <2>2. ASSUME NEW r \in 0..NThreads, SleeperWakes(r) PROVE KnownInv'
    BY <2>1, <2>2 DEF SleeperWakes, mainVars, KnownInv, ChildPID
  <2>3. ASSUME NEW t \in Tids, SleeperPicks(t) PROVE KnownInv'
    <3>1. try > 0
      BY <2>3, RunExists DEF SleeperPicks, KnownInv, Procs
    <3>2. thr[t].st # "none" /\ t # NoTid
      BY <2>3, <3>1, TidFacts DEF SleeperPicks, KnownInv
    <3> QED
      BY <2>1, <2>3, <3>2 DEF SleeperPicks, mainVars, KnownInv, ChildPID
  <2>4. CASE SleeperFindsNone
    BY <2>1, <2>4 DEF SleeperFindsNone, Abort, sleeperVars, KnownInv, ChildPID
  <2>5. CASE SleeperKills
    BY <2>1, <2>5 DEF SleeperKills, mainVars, KnownInv, ChildPID
  <2> QED
    BY <1>6, <2>2, <2>3, <2>4, <2>5 DEF Sleeper
<1>7. CASE Main
  <2>1. \A u \in Tids : thr[u].st # "none" => thr'[u].st # "none"
    BY <1>7, KeepsMain DEF Keeps
  <2>2. ~Launch => \A u \in Tids : thr[u].st = "none" => thr'[u].st = "none"
    BY <1>7, KeepsMain DEF Keeps
  <2>3. CASE Launch
    <3>1. try + 1 \in Procs /\ try \in Nat
      BY <2>3, AllowedFacts DEF Launch, Decremented, AttemptsInv, Procs
    <3>2. Leader(try + 1) \in Tids /\ Leader(try + 1)[1] = try + 1
      BY <3>1, TidFacts
    <3>3. thr'[Leader(try + 1)].st = "forked"
      BY <1>1, <2>3, <3>2 DEF Launch, Thread
    <3>4. /\ try' = try + 1 /\ childThreads' = {} /\ pc = "attempt"
          /\ pc' = "runwait" /\ UNCHANGED sleeperVars
      BY <2>3 DEF Launch
    <3>5. \A u \in Tids : u[1] > try + 1 => thr'[u].st = "none"
      <4> SUFFICES ASSUME NEW u \in Tids, u[1] > try + 1
                   PROVE  thr'[u].st = "none"
        OBVIOUS
      <4>1. u[1] \in Nat
        BY TidFacts DEF Procs
      <4>2. u # Leader(try + 1) /\ thr[u].st = "none"
        BY <3>1, <3>2, <4>1 DEF KnownInv
      <4> QED
        BY <1>7, <4>2, KeepsMain DEF Keeps
    <3> QED
      BY <1>1, <2>1, <3>3, <3>4, <3>5 DEF KnownInv, sleeperVars, ChildPID
  <2>4. CASE RunSucceeds
    BY <1>1, <1>2, <2>1, <2>2, <2>4 DEF RunSucceeds, Launch, KnownInv, ChildPID
  <2>5. ASSUME NEW t \in Tids, SkipClone(t) PROVE KnownInv'
    <3>1. /\ thr[t].new \in Tids /\ thr[t].new[2] # 0
          /\ thr[thr[t].new].st \in {"born", "stop"}
      BY <2>5 DEF SkipClone, IsCloneEvent, CloneInv, Announcing
    <3>2. ~Launch
      BY <2>5 DEF SkipClone, Launch
    <3>3. /\ childThreads' = childThreads \cup {thr[t].new}
          /\ pc' \in {"wait", "abort"} /\ pc = "wait"
          /\ UNCHANGED <<ret, try, sleeperVars>>
      BY <2>5 DEF SkipClone, Abort
    <3> QED
      BY <1>1, <1>2, <2>1, <2>2, <3>1, <3>2, <3>3
         DEF KnownInv, sleeperVars, ChildPID
  <2>6. CASE ~Launch /\ ~RunSucceeds /\ ~(\E t \in Tids : SkipClone(t))
    <3>1. /\ UNCHANGED <<try, sleeperVars>> /\ childThreads' \subseteq childThreads
          /\ pc' \in {"flip", "stepwait"} => killOK
          /\ sl # "idle" => pc' \in {"wait", "join", "abort"}
          /\ sl # "idle" /\ pc' = "wait" => ret' = "join"
      BY <1>7, <2>6 DEF Main, GiveUp, RunWaits, SkipThreadStop, SkipThreadEnd,
         SkipReturns, WaitNoChild, StopFails, StopSucceeds, RunTraces,
         RunFails, RunDies, FlipNoRegs, FlipRefused, FlipRead, FlipWritten,
         StepRefused, StepFlip,
         StepAsserts, CleanupPoll, CleanupBlock, VerdictAsserts,
         VerdictNoOrig, FlipUnknown, VerdictReached, Finish, InjectionFails,
         InjectionSucceeds, Abort, mainVars, KnownInv, AttemptsInv
    <3> QED
      BY <1>1, <1>2, <2>1, <2>2, <2>6, <3>1 DEF KnownInv, sleeperVars, ChildPID
  <2> QED
    BY <2>3, <2>4, <2>5, <2>6
<1> QED
  BY <1>4, <1>5, <1>6, <1>7 DEF Next

(* No step makes the job know a reaped thread. *)
LEMMA ReapedNext ==
  TypeOK /\ AttemptsInv /\ ThreadInv /\ [Next]_vars => NoReapedThreadKnown'
<1> SUFFICES ASSUME TypeOK, AttemptsInv, ThreadInv, [Next]_vars,
                    pc' \notin Terminal, NEW u \in childThreads'
             PROVE  thr'[u].st # "gone"
  BY DEF NoReapedThreadKnown
<1> USE DEF ThreadInv
<1>1. thr \in [Tids -> Thread] /\ childThreads \subseteq Tids
  BY DEF TypeOK
<1>2. pc \notin Terminal
  <2>1. pc \in Terminal => pc' = pc
    BY DEF Next, Main, Sleeper, Kernel, Workload, Over, vars, mainVars,
       Terminal, GiveUp, Launch, RunSucceeds, RunWaits, SkipClone,
       SkipThreadStop, SkipThreadEnd, SkipReturns, WaitNoChild, StopFails,
       StopSucceeds, RunTraces, RunFails, RunDies,
     FlipNoRegs, FlipRefused, FlipRead, FlipWritten,
       StepRefused, StepFlip, StepAsserts, CleanupPoll, CleanupBlock,
       VerdictAsserts, VerdictNoOrig, FlipUnknown, VerdictReached, Finish,
       SleeperWakes,
       SleeperPicks, SleeperFindsNone, SleeperKills
  <2> QED
    BY <2>1
<1>3. \A t \in childThreads : thr[t].st # "gone" /\ t[2] # 0
  BY <1>2 DEF NoReapedThreadKnown, KnownInv
<1>4. ASSUME u \in childThreads, Keeps(u) PROVE thr'[u].st # "gone"
  BY <1>3, <1>4 DEF Keeps
<1>5. CASE UNCHANGED vars \/ Over
  BY <1>3, <1>5 DEF Over, vars, kernelVars, mainVars
<1>6. CASE Kernel \/ Workload
  <2>1. u \in childThreads
    BY <1>6 DEF Kernel, Workload, mainVars
  <2> QED
    BY <1>1, <1>4, <1>6, <2>1, KeepsKernel
<1>7. CASE Sleeper
  BY <1>3, <1>7 DEF Sleeper, SleeperWakes, SleeperPicks, SleeperFindsNone,
     SleeperKills, kernelVars, mainVars
<1>8. CASE Main
  <2>1. CASE Launch
    BY <2>1 DEF Launch
  <2>2. CASE RunWaits \/ CleanupPoll \/ CleanupBlock
    <3>1. ChildPID \in Tids /\ ChildPID[2] = 0
      BY <2>2, RunExists, TidFacts
         DEF RunWaits, CleanupPoll, CleanupBlock, ChildPID
    <3>2. u \in childThreads /\ u # ChildPID
      BY <1>3, <2>2, <3>1 DEF RunWaits, CleanupPoll, CleanupBlock
    <3>3. thr'[u] = thr[u]
      BY <1>1, <2>2, <3>1, <3>2, SetThreadFacts
         DEF RunWaits, CleanupPoll, CleanupBlock, Reported
    <3> QED
      BY <1>3, <3>2, <3>3
  <2>3. ASSUME NEW t \in Tids, SkipClone(t) PROVE thr'[u].st # "gone"
    <3>1. \/ u \in Tids /\ thr[u].st \notin {"dead", "gone"}
          \/ u \in childThreads
      BY <2>3 DEF SkipClone, IsCloneEvent, CloneInv, Announcing
    <3>2. u \in Tids /\ thr[u].st # "gone"
      BY <1>1, <1>3, <3>1
    <3>3. ChildPID \in Tids
      BY <2>3, RunExists DEF SkipClone
    <3>4. Reported(t) \in [Tids -> Thread]
      BY <1>1, ThreadTableTypes
    <3>5. thr[t].st = "stop"
      BY <2>3 DEF SkipClone, IsCloneEvent, CloneInv, Announcing
    <3>6. Reported(t)[u].st = thr[u].st
      BY <1>1, <3>2, <3>5, SetThreadFacts DEF Reported
    <3>7. thr'[u] = Reported(t)[u] \/ thr'[u].st = "run"
      BY <2>3, <3>2, <3>3, <3>4 DEF SkipClone, Thread
    <3> QED
      BY <3>2, <3>6, <3>7
  <2>4. ASSUME NEW t \in Tids, SkipThreadEnd(t) PROVE thr'[u].st # "gone"
    <3>1. u \in childThreads /\ u # t /\ thr' = Reported(t)
      BY <2>4 DEF SkipThreadEnd
    <3> QED
      BY <1>1, <1>3, <3>1, SetThreadFacts DEF Reported
  <2>5. ASSUME NEW t \in Tids, SkipReturns(t) PROVE thr'[u].st # "gone"
    <3>1. u \in childThreads /\ thr' = Reported(t)
      BY <2>5 DEF SkipReturns
    <3>2. u = t => thr[t].st # "dead"
      BY <2>5, <3>1 DEF SkipReturns, DeathInv
    <3> QED
      BY <1>1, <1>3, <3>1, <3>2, SetThreadFacts DEF Reported
  <2>6. CASE StepAsserts
    BY <2>6 DEF StepAsserts, Abort, Terminal
  <2>7. CASE GiveUp \/ WaitNoChild \/ StopSucceeds \/ RunTraces \/ RunFails \/ RunDies
           \/ FlipNoRegs
             \/ VerdictAsserts \/ VerdictNoOrig \/ FlipUnknown
    BY <1>3, <2>7 DEF GiveUp, WaitNoChild, StopSucceeds, RunTraces, RunFails,
       RunDies,
     FlipNoRegs,
       VerdictAsserts, VerdictNoOrig, FlipUnknown, kernelVars
  <2>8. CASE StopFails \/ FlipRefused \/ StepRefused \/ VerdictReached \/ Finish
    <3>1. u \in childThreads /\ (thr' = thr \/ thr' = GroupDying(try))
      BY <2>8 DEF StopFails, FlipRefused, StepRefused, VerdictReached, Finish,
         InjectionFails, PtraceKill, EndProcess
    <3> QED
      BY <1>1, <1>3, <1>4, <3>1, KeepsGroup
  <2>9. CASE RunSucceeds
    <3>1. ChildPID \in Tids /\ thr[ChildPID].st = "stop" /\ u \in childThreads
      BY <2>9, RunExists DEF RunSucceeds
    <3> QED
      BY <1>1, <1>4, <2>9, <3>1, KeepsSet DEF RunSucceeds, Resumed
  <2>10. ASSUME NEW t \in Tids, SkipThreadStop(t) PROVE thr'[u].st # "gone"
    <3>1. u \in childThreads
      BY <2>10 DEF SkipThreadStop, mainVars
    <3> QED
      BY <1>1, <1>4, <2>10, <3>1, KeepsSet DEF SkipThreadStop, Resumed, KnownInv
  <2>11. CASE FlipRead \/ StepFlip \/ FlipWritten
    <3>1. target \in Tids /\ thr[target].st # "none"
      BY <2>11 DEF FlipRead, StepFlip, FlipWritten, KnownInv, TypeOK
    <3>2. /\ \E m \in {"run", "step"} : thr' = SetThread(target, m, NoStatus)
          /\ u \in childThreads
      BY <2>11 DEF FlipRead, StepFlip, FlipWritten, InjectionSucceeds, Resumed
    <3> QED
      BY <1>1, <1>4, <3>1, <3>2, KeepsSet
  <2> QED
    BY <1>8, <2>1, <2>2, <2>3, <2>4, <2>5, <2>6, <2>7, <2>8, <2>9, <2>10,
       <2>11 DEF Main
<1> QED
  BY <1>5, <1>6, <1>7, <1>8 DEF Next

-----------------------------------------------------------------------------
(* The theorems.                                                           *)

(* The inductive invariant: the types, the count of the attempts and what  *)
(* the job knows of the workload's threads need one another.               *)
Inv == TypeOK /\ AttemptsInv /\ ThreadInv

(* Inv holds in the initial state. *)
LEMMA InvInit == Init => Inv
<1> SUFFICES ASSUME Init PROVE Inv
  OBVIOUS
<1>1. TypeOK
  BY TypeInit
<1>2. AttemptsInv
  BY DEF Init, AttemptsInv
<1>3. \A t \in Tids : thr[t].st = "none" /\ thr[t].ws = NoStatus
  BY DEF Init
<1>4. CloneInv /\ DeathInv
  BY <1>3, StatusNames DEF CloneInv, DeathInv, Announcing
<1>5. KnownInv /\ NoReapedThreadKnown
  BY <1>3 DEF Init, KnownInv, NoReapedThreadKnown
<1> QED
  BY <1>1, <1>2, <1>4, <1>5 DEF Inv, ThreadInv

(* Inv is inductive. *)
LEMMA InvNext == Inv /\ [Next]_vars => Inv'
<1> SUFFICES ASSUME TypeOK, AttemptsInv, CloneInv, DeathInv, KnownInv,
                    ThreadInv, [Next]_vars
             PROVE  Inv'
  BY DEF Inv, ThreadInv
<1>1. CloneInv'
  <2>1. CASE UNCHANGED vars \/ Over
    BY <2>1 DEF Over, vars, kernelVars, mainVars, sleeperVars, CloneInv,
       Announcing
  <2> QED
    BY <2>1, CloneKernel, CloneJob DEF Next
<1> QED
  BY <1>1, TypeNext, AttemptsNext, DeathNext, KnownNext, ReapedNext
     DEF Inv, ThreadInv

(* Every state of a job satisfies Inv. *)
THEOREM Invariance == Spec => []Inv
BY InvInit, InvNext, PTL DEF Spec

(* Type correctness: among other things the counter of runs and the        *)
(* unsigned counter of attempts stay in their ranges, and the injector     *)
(* never signals, nor remembers, anything that is no thread of a workload. *)
THEOREM TypeCorrect == Spec => []TypeOK
<1>1. Inv => TypeOK
  BY DEF Inv
<1> QED
  BY <1>1, Invariance, PTL

(* Every run, whatever becomes of it, uses up one of the runs allowed, and *)
(* a job that gives up for want of attempts has made them all: for every   *)
(* limit, zero included, and every workload.                               *)
THEOREM AttemptsBounded == Spec => []AttemptsRespected
<1>1. Inv => AttemptsRespected
  <2> SUFFICES ASSUME Inv PROVE AttemptsRespected
    OBVIOUS
  <2>1. TypeOK /\ AttemptsInv
    BY DEF Inv
  <2>2. /\ RunsAllowed \in Nat /\ UIntMax \in Nat
        /\ try \in 0..UIntMax /\ attempts \in 0..UIntMax
    BY <2>1, AllowedFacts
  <2> QED
    BY <2>1, <2>2 DEF AttemptsInv, AttemptsRespected
<1> QED
  BY <1>1, Invariance, PTL

(* ChildThreads never keeps a reaped thread, for any number of threads and *)
(* any interleaving of their creations, their ends and the injector.       *)
THEOREM NoReapedThread == Spec => []NoReapedThreadKnown
<1>1. Inv => NoReapedThreadKnown
  BY DEF Inv, ThreadInv
<1> QED
  BY <1>1, Invariance, PTL
=============================================================================
