------------------------------- MODULE Runner -------------------------------
(***************************************************************************)
(* One test job: Runner::runAndWait() of src/runner.cpp in the process     *)
(* that JobSchedulerBase::run() forks, from the first attempt to the       *)
(* moment its verdict is ready for the pipe.  Two threads of that process  *)
(* take steps: the main thread (pc) and the thread of stopChildAfter()     *)
(* that sleeps and then signals the workload (sl).  The workload and the   *)
(* kernel are the actions of Ptrace.                                       *)
(***************************************************************************)
EXTENDS Ptrace

VARIABLES
  pc,            \* where the main thread is
  ret,           \* where waitpidSkipThreadState / cleanupWaitpidState return
  attempts,      \* Attempts of runAndWait(), an unsigned
  try,           \* calls of run() so far; ChildPID is Leader(try)
  childThreads,  \* ChildThreads
  status,        \* what waitpidSkipThreadState() returned
  ftStatus,      \* FaultInjectionStatus
  injFailed,     \* Type::InjFailed in the job's own copy of Stats
  sl,            \* where the sleeping thread is
  rnd,           \* RandomCnt of getRandomChildThreadPID()
  target,        \* ChildPIDToInject
  killOK         \* KillSuccess of stopChildAfter()

mainVars == <<pc, ret, attempts, try, childThreads, status, ftStatus,
              injFailed>>
sleeperVars == <<sl, rnd, target, killOK>>
vars == <<opt, kernelVars, mainVars, sleeperVars>>

Terminal == {"done", "exit1", "abort"}
Labels == Terminal \cup {"attempt", "runwait", "setopts", "cont", "wait", "join",
            "flip", "stepwait", "cleanup", "block", "verdict", "final"}

ChildPID == Leader(try)

TypeOK ==
  /\ opt \in Configs
  /\ thr \in [Tids -> Thread]
  /\ proc \in [Procs -> Process]
  /\ file \in [hole : BOOLEAN, data : Chunk]
  /\ pc \in Labels /\ ret \in Labels
  /\ attempts \in 0..UIntMax
  /\ try \in 0..UIntMax
  /\ childThreads \subseteq Tids
  /\ status \in [Pid : Tids \cup {NoTid}, Status : WaitStatus]
  /\ ftStatus \in FtStatus
  /\ injFailed \in Nat
  /\ sl \in {"idle", "sleep", "iter", "kill"}
  /\ rnd \in Nat
  /\ target \in Tids \cup {NoTid}
  /\ killOK \in BOOLEAN

Init ==
  /\ opt \in Configs
  /\ thr = [t \in Tids |-> [st |-> "none", ws |-> NoStatus, new |-> NoTid]]
  /\ proc = [k \in Procs |-> [pend |-> {}, armed |-> FALSE, hit |-> FALSE,
                              wrote |-> "none", ends |-> NoStatus]]
  /\ file = [hole |-> FALSE, data |-> "none"]
  /\ pc = "attempt" /\ ret = "attempt"
  /\ attempts = opt.MaxInjectionAttempts
  /\ try = 0
  /\ childThreads = {}
  /\ status = [Pid |-> NoTid, Status |-> NoStatus]
  /\ ftStatus = "None"
  /\ injFailed = 0
  /\ sl = "idle" /\ rnd = 0 /\ target = NoTid /\ killOK = FALSE

(* die() and a failed assert() end the job with abort(). *)
Abort == pc' = "abort"

-----------------------------------------------------------------------------
(* Runner::runAndWait(), head of the loop, and RunnerBase::run().          *)

(* A mutant of Decremented: attempts are signed. *)
DecrementedSigned == attempts - 1

(* --Attempts on an unsigned: zero wraps to the largest value. *)
Decremented == IF attempts = 0 THEN UIntMax ELSE attempts - 1

(* A mutant of GiveUp: die() in the place of userDie(). *)
GiveUpDies ==
  /\ pc = "attempt"
  /\ attempts' = Decremented
  /\ attempts' = 0
  /\ pc' = "abort"
  /\ UNCHANGED <<opt, kernelVars, ret, try, childThreads, status, ftStatus,
                 injFailed, sleeperVars>>

(* userDie(): the job exits with code 1 and writes nothing to its pipe. *)
GiveUp ==
  /\ pc = "attempt"
  /\ attempts' = Decremented
  /\ attempts' = 0
  /\ pc' = "exit1"
  /\ UNCHANGED <<opt, kernelVars, ret, try, childThreads, status, ftStatus,
                 injFailed, sleeperVars>>

(* A mutant of Launch: the limit is not looked at. *)
LaunchUnlimited ==
  /\ pc = "attempt"
  /\ attempts' = Decremented
  /\ try' = try + 1
  /\ childThreads' = {}
  /\ thr' = [thr EXCEPT ![Leader(try + 1)].st = "forked"]
  /\ proc' = [proc EXCEPT ![try + 1].armed = TRUE]
  /\ pc' = "runwait"
  /\ UNCHANGED <<opt, file, ret, status, ftStatus, injFailed, sleeperVars>>

(* run() up to waitpidSafe(): the thread set is emptied and a child forked *)
(* whose first act is to set its timeout.                                  *)
Launch ==
  /\ pc = "attempt"
  /\ attempts' = Decremented
  /\ attempts' # 0
  /\ try' = try + 1
  /\ childThreads' = {}
  /\ thr' = [thr EXCEPT ![Leader(try + 1)].st = "forked"]
  /\ proc' = [proc EXCEPT ![try + 1].armed = TRUE]
  /\ pc' = "runwait"
  /\ UNCHANGED <<opt, file, ret, status, ftStatus, injFailed, sleeperVars>>

(* waitpidSafe(): the child stopped at execve(), or it is dead.            *)
RunWaits ==
  /\ pc = "runwait"
  /\ Waitable(ChildPID)
  /\ thr' = Reported(ChildPID)
  /\ pc' = "setopts"
  /\ UNCHANGED <<opt, proc, file, ret, attempts, try, childThreads, status,
                 ftStatus, injFailed, sleeperVars>>

(* PTRACE_SETOPTIONS of a stopped child works. *)
RunTraces ==
  /\ pc = "setopts" /\ thr[ChildPID].st = "stop"
  /\ pc' = "cont"
  /\ UNCHANGED <<opt, kernelVars, ret, attempts, try, childThreads, status,
                 ftStatus, injFailed, sleeperVars>>

(* run() returns false: PTRACE_SETOPTIONS fails for a child that was dead  *)
(* already or that was killed after its stop had been reported, which      *)
(* nobody reaps then.  `continue` evaluates the loop condition.            *)
RunFails ==
  /\ pc = "setopts" /\ thr[ChildPID].st # "stop"
  /\ IF opt.InjectionsPerRun > 0
     THEN pc' = "attempt" /\ UNCHANGED ret
     ELSE pc' = "wait" /\ ret' = "verdict"
  /\ UNCHANGED <<opt, kernelVars, attempts, try, childThreads, status,
                 ftStatus, injFailed, sleeperVars>>

(* ptraceSafe(PTRACE_CONT) dies when the child is not stopped any more. *)
RunDies ==
  /\ pc = "cont" /\ thr[ChildPID].st # "stop"
  /\ Abort
  /\ UNCHANGED <<opt, kernelVars, ret, attempts, try, childThreads, status,
                 ftStatus, injFailed, sleeperVars>>

(* run() continues the child and returns true.  tryInjectFaultAt() then    *)
(* starts the sleeping thread and waits; without injections the verdict is *)
(* awaited.                                                                *)
RunSucceeds ==
  /\ pc = "cont" /\ thr[ChildPID].st = "stop"
  /\ thr' = Resumed(ChildPID, "run")
  /\ pc' = "wait"
  /\ IF opt.InjectionsPerRun > 0
     THEN ret' = "join" /\ sl' = "sleep" /\ killOK' = FALSE
     ELSE ret' = "verdict" /\ UNCHANGED <<sl, killOK>>
  /\ UNCHANGED <<opt, proc, file, attempts, try, childThreads, status,
                 ftStatus, injFailed, rnd, target>>

-----------------------------------------------------------------------------
(* RunnerBase::waitpidSkipThreadState(): waitpid(-1) returned t.           *)

IsCloneEvent(t) == thr[t].ws = Stopped("CLONE")

(* A clone event: remember the new thread and continue ChildPID, whichever *)
(* thread reported the event.                                              *)
SkipClone(t) ==
  /\ pc = "wait"
  /\ Waitable(t) /\ IsCloneEvent(t)
  /\ childThreads' = childThreads \cup {thr[t].new}
  /\ IF thr[ChildPID].st = "stop"
     THEN /\ thr' = [Reported(t) EXCEPT ![ChildPID].st = "run",
                                       ![ChildPID].ws = NoStatus]
          /\ UNCHANGED pc
     ELSE thr' = Reported(t) /\ Abort
  /\ UNCHANGED <<opt, proc, file, ret, attempts, try, status, ftStatus,
                 injFailed, sleeperVars>>

(* A known thread reports its initial SIGSTOP: continue it. *)
SkipThreadStop(t) ==
  /\ pc = "wait"
  /\ Waitable(t) /\ t \in childThreads /\ thr[t].ws = Stopped("SIGSTOP")
  /\ thr' = Resumed(t, "run")
  /\ UNCHANGED <<opt, proc, file, mainVars, sleeperVars>>

(* A mutant of SkipThreadEnd: the thread is not erased from the set. *)
SkipThreadEndUnerased(t) ==
  /\ pc = "wait"
  /\ Waitable(t) /\ t \in childThreads
  /\ thr[t].ws.Type \in {"Exited", "Signaled"}
  /\ thr' = Reported(t)
  /\ UNCHANGED <<opt, proc, file, mainVars, sleeperVars>>

(* A known thread ended: forget it. *)
SkipThreadEnd(t) ==
  /\ pc = "wait"
  /\ Waitable(t) /\ t \in childThreads
  /\ thr[t].ws.Type \in {"Exited", "Signaled"}
  /\ thr' = Reported(t)
  /\ childThreads' = childThreads \ {t}
  /\ UNCHANGED <<opt, proc, file, pc, ret, attempts, try, status, ftStatus,
                 injFailed, sleeperVars>>

(* Anything else is handed to the caller. *)
SkipReturns(t) ==
  /\ pc = "wait"
  /\ Waitable(t) /\ ~IsCloneEvent(t)
  /\ t \in childThreads =>
       /\ thr[t].ws # Stopped("SIGSTOP")
       /\ thr[t].ws.Type = "Stopped"
  /\ status' = [Pid |-> t, Status |-> thr[t].ws]
  /\ thr' = Reported(t)
  /\ pc' = ret
  /\ UNCHANGED <<opt, proc, file, ret, attempts, try, childThreads, ftStatus,
                 injFailed, sleeperVars>>

(* waitpidSafe() with no child left fails with ECHILD. *)
WaitNoChild ==
  /\ pc = "wait"
  /\ \A t \in Tids : Absent(t)
  /\ Abort
  /\ UNCHANGED <<opt, kernelVars, ret, attempts, try, childThreads, status,
                 ftStatus, injFailed, sleeperVars>>

-----------------------------------------------------------------------------
(* Runner::sleepAndStopRandomChildThread(), the sleeping thread.           *)

(* It wakes and draws RandomCnt below the size the thread set has now. *)
SleeperWakes(r) ==
  /\ sl = "sleep" /\ pc \notin Terminal
  /\ r \in 0..Cardinality(childThreads)
  /\ rnd' = r
  /\ sl' = "iter"
  /\ UNCHANGED <<opt, kernelVars, mainVars, target, killOK>>

(* It walks to the RandomCnt-th element of the set, which the main thread  *)
(* may have changed meanwhile: no lock protects ChildThreads.              *)
SleeperPicks(t) ==
  /\ sl = "iter" /\ pc \notin Terminal
  /\ IF rnd = 0 THEN t = ChildPID
     ELSE rnd <= Cardinality(childThreads) /\ t \in childThreads
  /\ target' = t
  /\ sl' = "kill"
  /\ UNCHANGED <<opt, kernelVars, mainVars, rnd, killOK>>

SleeperFindsNone ==
  /\ sl = "iter" /\ pc \notin Terminal
  /\ rnd > Cardinality(childThreads)
  /\ Abort
  /\ UNCHANGED <<opt, kernelVars, ret, attempts, try, childThreads, status,
                 ftStatus, injFailed, sleeperVars>>

(* kill(ChildPIDToInject, SIGTRAP) signals the whole process; it fails     *)
(* only when the thread has been reaped.                                   *)
SleeperKills ==
  /\ sl = "kill" /\ pc \notin Terminal
  /\ sl' = "idle"
  /\ killOK' = (thr[target].st # "gone")
  /\ proc' = IF killOK'
             THEN [proc EXCEPT ![target[1]].pend = @ \cup {"SIGTRAP"}]
             ELSE proc
  /\ UNCHANGED <<opt, thr, file, mainVars, rnd, target>>

-----------------------------------------------------------------------------
(* Runner::stopChildAfter() after join(), doBitFlip(), tryInjectFaultAt(). *)

WaitedState == getWaitPidExitState(status.Status)

(* stopChildAfter() fails: no kill, or the child exited or was terminated. *)
(* Only in the last case is the child killed and cleaned up.               *)
StopFails ==
  /\ pc = "join" /\ sl = "idle"
  /\ ~killOK \/ WaitedState.Type \in {"Exited", "Signaled"}
  /\ injFailed' = injFailed + 1
  /\ IF killOK /\ WaitedState.Type = "Signaled"
     THEN PtraceKill(try) /\ pc' = "cleanup" /\ ret' = "attempt"
     ELSE pc' = "attempt" /\ UNCHANGED <<thr, proc, ret>>
  /\ UNCHANGED <<opt, file, attempts, try, childThreads, status, ftStatus,
                 sleeperVars>>

StopSucceeds ==
  /\ pc = "join" /\ sl = "idle"
  /\ killOK /\ WaitedState.Type = "Stopped"
  /\ pc' = "flip"
  /\ UNCHANGED <<opt, kernelVars, ret, attempts, try, childThreads, status,
                 ftStatus, injFailed, sleeperVars>>

(* A mutant of InjectionFails: the child is neither killed nor reaped. *)
InjectionFailsUnkilled ==
  /\ injFailed' = injFailed + 1
  /\ pc' = "attempt"
  /\ UNCHANGED <<opt, kernelVars, ret, attempts, try, childThreads, status,
                 ftStatus, sleeperVars>>

(* doBitFlip() failed: count it, SIGKILL the child (die if it is gone) and *)
(* clean up before the next attempt.                                       *)
InjectionFails ==
  /\ injFailed' = injFailed + 1
  /\ IF thr[ChildPID].st = "gone"
     THEN Abort /\ UNCHANGED <<thr, proc, ret>>
     ELSE /\ EndProcess(try, Signaled("SIGKILL"))
          /\ pc' = "cleanup" /\ ret' = "attempt"
  /\ UNCHANGED <<opt, file, attempts, try, childThreads, status, ftStatus,
                 sleeperVars>>

(* tryBitFlip() worked: the registers are written back and the target      *)
(* continues.                                                              *)
InjectionSucceeds ==
  /\ thr' = Resumed(target, "run")
  /\ proc' = [proc EXCEPT ![target[1]].hit = TRUE]
  /\ pc' = "wait" /\ ret' = "verdict"
  /\ UNCHANGED <<opt, file, attempts, try, childThreads, status, ftStatus,
                 injFailed, sleeperVars>>

(* The registers can only be read from a stopped target, and an assertion  *)
(* fails for a register that has no storage.                               *)
FlipNoRegs ==
  /\ pc = "flip"
  /\ thr[target].st # "stop" \/ opt.regs = "unsupported"
  /\ Abort
  /\ UNCHANGED <<opt, kernelVars, ret, attempts, try, childThreads, status,
                 ftStatus, injFailed, sleeperVars>>

(* userDie() when the forced register is not known. *)
FlipUnknown ==
  /\ pc = "flip" /\ thr[target].st = "stop"
  /\ opt.regs = "unknown"
  /\ pc' = "exit1"
  /\ UNCHANGED <<opt, kernelVars, ret, attempts, try, childThreads, status,
                 ftStatus, injFailed, sleeperVars>>

(* In a library, no register to pick, bit out of range... *)
FlipRefused == pc = "flip" /\ thr[target].st = "stop" /\ InjectionFails

(* The register picked is read only: flip it at once. *)
FlipRead ==
  /\ pc = "flip" /\ thr[target].st = "stop" /\ opt.regs # "unknown"
  /\ InjectionSucceeds

(* The register picked is written: step over the instruction first. *)
FlipWritten ==
  /\ pc = "flip" /\ thr[target].st = "stop" /\ opt.regs # "unknown"
  /\ thr' = Resumed(target, "step")
  /\ pc' = "stepwait"
  /\ UNCHANGED <<opt, proc, file, ret, attempts, try, childThreads, status,
                 ftStatus, injFailed, sleeperVars>>

StepState == getWaitPidExitState(thr[target].ws)

(* A mutant of StepRefused: it reports success. *)
StepRefusedContinues ==
  /\ pc = "stepwait"
  /\ Waitable(target) /\ StepState \in {Stopped("SIGALRM"), Stopped("SIGTRAP")}
  /\ thr' = Resumed(target, "run")
  /\ pc' = "wait" /\ ret' = "verdict"
  /\ UNCHANGED <<opt, proc, file, attempts, try, childThreads, status, ftStatus,
                 injFailed, sleeperVars>>

(* The alarm went off during the step, or the flip failed after it. *)
StepRefused ==
  /\ pc = "stepwait"
  /\ Waitable(target) /\ StepState \in {Stopped("SIGALRM"), Stopped("SIGTRAP")}
  /\ InjectionFails

StepFlip ==
  /\ pc = "stepwait"
  /\ Waitable(target) /\ StepState = Stopped("SIGTRAP")
  /\ InjectionSucceeds

(* "SingleStep should stop the program with a SIGTRAP", and the register   *)
(* must have storage.                                                      *)
StepAsserts ==
  /\ pc = "stepwait"
  /\ Waitable(target)
  /\ \/ StepState \notin {Stopped("SIGALRM"), Stopped("SIGTRAP")}
     \/ StepState = Stopped("SIGTRAP") /\ opt.regs = "unsupported"
  /\ thr' = Reported(target)
  /\ Abort
  /\ UNCHANGED <<opt, proc, file, ret, attempts, try, childThreads, status,
                 ftStatus, injFailed, sleeperVars>>

-----------------------------------------------------------------------------
(* cleanupWaitpidState(ChildPID): poll; if nothing is ready, block and     *)
(* poll again.                                                             *)

(* A mutant of CleanupPoll: it polls until it sees the child change state. *)
CleanupSpins ==
  /\ pc = "cleanup"
  /\ IF Waitable(ChildPID) THEN thr' = Reported(ChildPID) /\ pc' = ret
     ELSE UNCHANGED <<thr, pc>>
  /\ UNCHANGED <<opt, proc, file, ret, attempts, try, childThreads, status,
                 ftStatus, injFailed, sleeperVars>>

CleanupPoll ==
  /\ pc = "cleanup"
  /\ IF Waitable(ChildPID) THEN thr' = Reported(ChildPID) /\ pc' = ret
     ELSE /\ pc' = IF thr[ChildPID].st = "gone" THEN ret ELSE "block"
          /\ UNCHANGED thr
  /\ UNCHANGED <<opt, proc, file, ret, attempts, try, childThreads, status,
                 ftStatus, injFailed, sleeperVars>>

CleanupBlock ==
  /\ pc = "block"
  /\ Waitable(ChildPID)
  /\ thr' = Reported(ChildPID)
  /\ pc' = "cleanup"
  /\ UNCHANGED <<opt, proc, file, ret, attempts, try, childThreads, status,
                 ftStatus, injFailed, sleeperVars>>

-----------------------------------------------------------------------------
(* Runner::waitChildAndGetStatus() and the end of runAndWait().            *)

(* defaultDiff() of the output, or the user's -diff-cmd, which is given    *)
(* the output files only and not the exit states.                          *)
SameOutput == ~file.hole /\ file.data = "good"

(* A mutant of checkOutput: the diff command's exit code is misread. *)
checkOutputInverted ==
  IF opt.DiffCmd THEN ~SameOutput ELSE WaitedState = opt.orig /\ SameOutput

checkOutput ==
  IF opt.DiffCmd THEN SameOutput ELSE WaitedState = opt.orig /\ SameOutput

(* A mutant of Verdict: a timeout is no case of its own. *)
VerdictNoTimeout ==
  CASE opt.NoRedirect -> "Skipped"
    [] ~opt.NoRedirect /\ WaitedState.Type = "Exited" ->
         IF /\ opt.DetectionExitCode # "666"
            /\ WaitedState.Val = opt.DetectionExitCode THEN "Detected"
         ELSE IF checkOutput THEN "Masked" ELSE "Corrupted"
    [] ~opt.NoRedirect /\ WaitedState.Type # "Exited" ->
         IF checkOutput THEN "Masked" ELSE "Exception"

(* The verdict, once the checks that end the job have passed. *)
Verdict ==
  CASE opt.NoRedirect -> "Skipped"
    [] ~opt.NoRedirect /\ WaitedState.Type = "Exited" ->
         IF /\ opt.DetectionExitCode # "666"
            /\ WaitedState.Val = opt.DetectionExitCode THEN "Detected"
         ELSE IF checkOutput THEN "Masked" ELSE "Corrupted"
    [] ~opt.NoRedirect /\ WaitedState.Type # "Exited" ->
         IF WaitedState.Val = "SIGALRM" THEN "InfExec"
         ELSE IF checkOutput THEN "Masked" ELSE "Exception"

(* The child is killed here when checking is skipped and it has not        *)
(* exited, and when it ran into its timeout; ptraceSafe() dies if it is    *)
(* gone.                                                                   *)
KillsChild ==
  \/ opt.NoRedirect /\ WaitedState.Type # "Exited"
  \/ ~opt.NoRedirect /\ WaitedState = Stopped("SIGALRM")

(* checkOutput() is reached, and the original exit state is not set. *)
NeedsOrig ==
  /\ ~opt.OrigSet
  /\ ~opt.NoRedirect
  /\ WaitedState # Stopped("SIGALRM")
  /\ ~(opt.DetectionExitCode # "666" /\ WaitedState = Exited("codeDetected"))

(* "Why terminated? Haven't we attached to it?" *)
VerdictAsserts ==
  /\ pc = "verdict"
  /\ \/ ~opt.NoRedirect /\ WaitedState.Type = "Signaled"
     \/ KillsChild /\ thr[ChildPID].st = "gone"
  /\ Abort
  /\ UNCHANGED <<opt, kernelVars, ret, attempts, try, childThreads, status,
                 ftStatus, injFailed, sleeperVars>>

VerdictNoOrig ==
  /\ pc = "verdict"
  /\ opt.NoRedirect \/ WaitedState.Type # "Signaled"
  /\ NeedsOrig
  /\ pc' = "exit1"
  /\ UNCHANGED <<opt, kernelVars, ret, attempts, try, childThreads, status,
                 ftStatus, injFailed, sleeperVars>>

VerdictReached ==
  /\ pc = "verdict"
  /\ opt.NoRedirect \/ WaitedState.Type # "Signaled"
  /\ ~NeedsOrig
  /\ ftStatus' = Verdict
  /\ IF KillsChild
     THEN /\ thr[ChildPID].st # "gone"
          /\ PtraceKill(try)
          /\ pc' = "cleanup" /\ ret' = "final"
     ELSE pc' = "final" /\ UNCHANGED <<thr, proc, ret>>
  /\ UNCHANGED <<opt, file, attempts, try, childThreads, status, injFailed,
                 sleeperVars>>

(* A last PTRACE_KILL, whose result is ignored, and a last cleanup. *)
Finish ==
  /\ pc = "final"
  /\ PtraceKill(try)
  /\ pc' = "cleanup" /\ ret' = "done"
  /\ UNCHANGED <<opt, file, attempts, try, childThreads, status, ftStatus,
                 injFailed, sleeperVars>>

-----------------------------------------------------------------------------
Main ==
  \/ GiveUp \/ Launch
  \/ RunWaits \/ RunTraces \/ RunFails \/ RunDies \/ RunSucceeds
  \/ \E t \in Tids : \/ SkipClone(t) \/ SkipThreadStop(t)
                     \/ SkipThreadEnd(t) \/ SkipReturns(t)
  \/ WaitNoChild
  \/ StopFails \/ StopSucceeds
  \/ FlipNoRegs \/ FlipUnknown \/ FlipRefused \/ FlipRead \/ FlipWritten
  \/ StepRefused \/ StepFlip \/ StepAsserts
  \/ CleanupPoll \/ CleanupBlock
  \/ VerdictAsserts \/ VerdictNoOrig \/ VerdictReached \/ Finish

Sleeper ==
  \/ \E r \in 0..NThreads : SleeperWakes(r)
  \/ \E t \in Tids : SleeperPicks(t)
  \/ SleeperFindsNone
  \/ SleeperKills

(* A timeout that comes after the injection time unless opt.late. *)
InTime ==
  opt.late \/ (sl = "idle" /\ pc \notin {"runwait", "setopts", "cont"})

Kernel ==
  /\ pc \notin Terminal
  /\ \/ \E k \in Procs : ChildExec(k) \/ ChildDiesEarly(k)
     \/ \E t \in Tids, s \in {"SIGTRAP", "SIGALRM"} : StopOnSignal(t, s)
     \/ InTime /\ \E k \in Procs : AlarmFires(k)
     \/ \E t \in Tids : StepDone(t) \/ Die(t) \/ CloneStop(t) \/ ThreadStop(t)
  /\ UNCHANGED <<opt, mainVars, sleeperVars>>

Workload ==
  /\ pc \notin Terminal
  /\ \/ \E t \in Tids, c \in Chunk : WriteOutput(t, c)
     \/ \E t \in Tids, c \in ExitCodes : ExitGroup(t, c)
     \/ \E t \in Tids : Fault(t) \/ ThreadExit(t)
     \/ \E t, u \in Tids : Clone(t, u)
     \/ \E k \in Procs : OomKill(k)
  /\ UNCHANGED <<opt, mainVars, sleeperVars>>

(* The job is over.  It stays so: a state without successor is a job that  *)
(* waits for ever.                                                         *)
Over == pc \in Terminal /\ UNCHANGED vars

Next == Main \/ Sleeper \/ Kernel \/ Workload \/ Over

Spec == Init /\ [][Next]_vars

(* The operating system schedules both threads of the job and lets time    *)
(* and signals make progress.  Nothing is assumed of the workload: a fault *)
(* may make it loop.                                                       *)
FairSpec == Spec /\ WF_vars(Main) /\ WF_vars(Sleeper) /\ WF_vars(Kernel)

-----------------------------------------------------------------------------
(* Properties. *)

(* Between two attempts, and when the job reports, no process or zombie of *)
(* any run is left: each failure path of tryInjectFaultAt() and the end of *)
(* runAndWait() kill and reap the child ("Upon failure make sure that the  *)
(* child is killed").  The other two ways to the next attempt make no such *)
(* effort and leave something behind, so they are excluded: a child killed *)
(* from outside before PTRACE_SETOPTIONS stays a zombie, and a run whose   *)
(* selected thread has been reaped is abandoned with the others alive.     *)
NoWorkloadLeft ==
  opt.Threads = 0 /\ ~opt.oom =>
    (pc \in {"attempt", "done"} => \A t \in Tids : Absent(t))

(* When injections are asked for, a verdict is only ever given by a job    *)
(* that flipped registers, however many runs were abandoned before, and if *)
(* the workload has one thread, in the very run the verdict is about.      *)
(* With more threads a run that was left behind alive may report to the    *)
(* next one and take the fault meant for it.                               *)
FaultBeforeVerdict ==
  pc = "done" /\ opt.InjectionsPerRun > 0 =>
    /\ \E k \in 1..try : proc[k].hit
    /\ opt.Threads = 0 => proc[try].hit

(* For a workload of one thread, Masked, Exception, InfExec and Detected   *)
(* describe what the last run itself did: Masked means it wrote the        *)
(* original output and ended like the original; Exception that a signal of *)
(* its own stopped it, not the injector's SIGTRAP, unless an early alarm   *)
(* or a faulty original run stopped it before the injector did; InfExec    *)
(* that its timer expired; Detected that it exited with the detection code.*)
MaskedMeans ==
  ftStatus = "Masked" /\ ~opt.DiffCmd =>
    /\ status.Pid = ChildPID /\ status.Status = opt.orig
    /\ proc[try].wrote = "good"
ExceptionMeans == ftStatus = "Exception" => status.Status = Stopped("SIGSEGV")
InfExecMeans == ftStatus = "InfExec" => ~proc[try].armed
DetectedMeans == ftStatus = "Detected" => proc[try].ends = Exited("codeDetected")

(* The only signals that stop the child before the fault are the           *)
(* injector's own: its timeout comes later, and the original run did not   *)
(* stop on a signal.                                                       *)
OwnStops == ~opt.late /\ opt.orig.Type # "Stopped"

VerdictSound ==
  pc = "done" /\ opt.Threads = 0 =>
    /\ MaskedMeans /\ InfExecMeans /\ DetectedMeans
    /\ OwnStops => ExceptionMeans

(* Corrupted means that the last run's own output or exit state differs    *)
(* from the original run's.                                                *)
CorruptedSound ==
  pc = "done" /\ ftStatus = "Corrupted" =>
    proc[try].wrote # "good" \/ proc[try].ends # opt.orig

(* The same, for workloads of one thread and jobs no abandoned run of      *)
(* which produced output.                                                  *)
CorruptedMeans ==
  ftStatus = "Corrupted" =>
    \/ proc[try].wrote # "good" \/ proc[try].ends # opt.orig
    \/ \E k \in 1..(try - 1) : proc[k].wrote # "none"

CorruptedSoundOnCleanFile == pc = "done" /\ opt.Threads = 0 => CorruptedMeans

(* As long as the job runs, ChildThreads never keeps the id of a thread    *)
(* that has been reaped: the kernel may have given that id to a process    *)
(* that is not the workload, and the injector signals ids of this set.     *)
NoReapedThreadKnown ==
  pc \notin Terminal => \A t \in childThreads : thr[t].st # "gone"

(* The runs the loop of runAndWait() allows: the counter is decremented    *)
(* before it is looked at, and zero wraps.                                 *)
RunsAllowed == IF opt.MaxInjectionAttempts = 0 THEN UIntMax
               ELSE opt.MaxInjectionAttempts - 1

(* Whichever way a run fails it uses up one of the runs allowed and is     *)
(* counted as InjFailed at most once, and no job gives up for want of      *)
(* attempts before it has made every run it is allowed: one less than      *)
(* MaxInjectionAttempts, and as many as an unsigned counts for a limit of  *)
(* zero.  That this is not the documented meaning of the option is what    *)
(* StopsAfterLimit says.                                                   *)
AttemptsRespected ==
  /\ try <= RunsAllowed
  /\ injFailed <= try
  /\ pc = "exit1" /\ opt.OrigSet /\ opt.regs # "unknown" => try = RunsAllowed

(* Every job ends, whatever the flipped bit makes the workload do. *)
Terminates == <>(pc \in Terminal)

(* It does, if the workload has one thread, is signalled before its timer  *)
(* expires and is killed by nobody else.                                   *)
TerminatesInTime ==
  opt.Threads = 0 /\ ~opt.late /\ ~opt.oom => Terminates

(* The job implements its contract with the scheduler: one verdict allowed *)
(* by the options, or none and exit code 1, or an abort that only the      *)
(* workloads and settings TestJob names can cause.                         *)
Contract == INSTANCE TestJob WITH
  phase <- IF pc \in Terminal THEN pc ELSE "running",
  report <- IF pc = "done" THEN ftStatus ELSE "None"

KeepsContract == Contract!Spec

-----------------------------------------------------------------------------
(* The inductive invariants behind AttemptsRespected and                   *)
(* NoReapedThreadKnown.                                                    *)

AttemptsInv ==
  /\ \/ try = 0 /\ attempts = opt.MaxInjectionAttempts /\ pc = "attempt"
     \/ try + attempts = RunsAllowed + 1 /\ attempts > 0 /\ try > 0
     \/ try = RunsAllowed /\ attempts = 0 /\ pc = "exit1"
  /\ injFailed <= try
  /\ pc \notin {"attempt", "cleanup", "block", "done", "exit1", "abort"}
       => injFailed < try
  /\ pc \in {"cleanup", "block"} /\ ret # "attempt" => injFailed < try
  /\ ret \in {"attempt", "join", "verdict", "final", "done"}
  /\ pc = "wait" => ret \in {"join", "verdict"}
  /\ pc \in {"cleanup", "block"} => ret \in {"attempt", "final", "done"}
  /\ pc = "exit1" /\ opt.OrigSet /\ opt.regs # "unknown" => attempts = 0

(* A thread is about to report, or has yet to report, the event that       *)
(* announces thr[t].new.                                                   *)
Announcing(t) == thr[t].st = "cloning" \/ thr[t].ws = Stopped("CLONE")

(* A thread not yet announced is new, stopped or about to stop, and        *)
(* nothing else refers to it.                                              *)
CloneInv ==
  \A t \in Tids : Announcing(t) =>
    /\ thr[t].new \in Tids /\ thr[t].new[2] # 0
    /\ thr[t].new[1] = t[1]
    /\ thr[t].st \in {"cloning", "stop"}
    /\ thr[t].ws = Stopped("CLONE") => thr[t].st = "stop"
    /\ thr[thr[t].new].st \in {"born", "stop"}
    /\ thr[t].new \notin childThreads
    /\ thr[t].new # target
    /\ \A u \in Tids : Announcing(u) /\ thr[u].new = thr[t].new => u = t

(* Zombies carry the status of an end, and the dying will. *)
DeathInv ==
  \A t \in Tids :
    /\ thr[t].st = "dead" => thr[t].ws.Type \in {"Exited", "Signaled"}
    /\ thr[t].st = "dying" => proc[t[1]].ends.Type \in {"Exited", "Signaled"}

(* Known threads are threads of the workload that exist, and runs to come  *)
(* have none yet.                                                          *)
KnownInv ==
  /\ \A t \in childThreads : t[2] # 0 /\ thr[t].st # "none"
  /\ \A t \in Tids : t[1] > try => thr[t].st = "none"
  /\ try > 0 => thr[ChildPID].st # "none"
  /\ target # NoTid => thr[target].st # "none"
  /\ sl = "kill" \/ killOK => target # NoTid
  /\ sl # "idle" => pc \in {"wait", "join", "abort"}
  /\ sl # "idle" /\ pc = "wait" => ret = "join"
  /\ pc \in {"flip", "stepwait"} => killOK

ThreadInv == CloneInv /\ DeathInv /\ KnownInv /\ NoReapedThreadKnown

-----------------------------------------------------------------------------
(* What comments, assertions and the documentation say and the code does   *)
(* not always do.                                                          *)

(* "fault injection happens only to the selected thread, the rest of them  *)
(* are not even stopped": the thread the injector stopped is its target.   *)
StopsSelectedThread == pc = "flip" => status.Pid = target

(* "Stop trying to inject after this many attempts": a job makes no more   *)
(* runs than MaxInjectionAttempts, and gives up only after so many.        *)
StopsAfterLimit ==
  /\ try <= opt.MaxInjectionAttempts
  /\ pc = "exit1" /\ opt.OrigSet /\ opt.regs # "unknown" =>
       try = opt.MaxInjectionAttempts
=============================================================================
