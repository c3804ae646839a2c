------------------------ MODULE RunnerVerdictProofs ------------------------
(***************************************************************************)
(* Proofs about Runner that concern its verdicts: for any workload the     *)
(* contract with the scheduler and that a verdict needs a fault, for       *)
(* workloads of one thread that the fault is in the run judged, and if     *)
(* nobody else kills them, what a verdict means and that no run is left    *)
(* behind.                                                                 *)
(***************************************************************************)
EXTENDS RunnerProofs, RunnerInvariants, FiniteSetTheorems

(* What a step does to the child's thread, and to the run's process. *)
ChildGoes(s, w) ==
  /\ \A u \in Tids : u # ChildPID => thr'[u] = thr[u]
  /\ thr'[ChildPID].st = s /\ thr'[ChildPID].ws = w

RunGoes(p, a, h, w, e) ==
  /\ \A k \in Procs : k # try => proc'[k] = proc[k]
  /\ proc'[try] = [pend |-> p, armed |-> a, hit |-> h, wrote |-> w, ends |-> e]

(* The effects of the kernel and of the workload on a single thread.       *)
ExecEffect ==
  /\ Child.st = "forked" /\ pc = "runwait"
  /\ ChildGoes("stop", Stopped("SIGTRAP"))
  /\ file' = IF opt.NoRedirect THEN file
             ELSE [hole |-> file.hole \/ file.data # "none", data |-> "none"]
  /\ UNCHANGED proc

EarlyEffect ==
  /\ Child.st = "forked" /\ pc = "runwait" /\ opt.tooEarly
  /\ ChildGoes("dead", Signaled("SIGALRM"))
  /\ UNCHANGED <<proc, file>>

SignalEffect(s) ==
  /\ Child.st \in {"run", "step"}
  /\ s \in Run.pend
  /\ s = "SIGALRM" => "SIGTRAP" \notin Run.pend
  /\ ChildGoes("stop", Stopped(s))
  /\ RunGoes(Run.pend \ {s}, Run.armed, Run.hit, Run.wrote, Run.ends)
  /\ UNCHANGED file

AlarmEffect ==
  /\ InTime
  /\ RunGoes(Run.pend \cup {"SIGALRM"}, FALSE, Run.hit, Run.wrote, Run.ends)
  /\ UNCHANGED <<thr, file>>

StepEffect ==
  /\ Child.st = "step"
  /\ ChildGoes("stop", Stopped("SIGTRAP"))
  /\ UNCHANGED <<proc, file>>

DieEffect ==
  /\ Child.st = "dying"
  /\ ChildGoes("dead", Run.ends)
  /\ UNCHANGED <<proc, file>>

WriteEffect(c) ==
  /\ Child.st \in {"run", "step"}
  /\ Run.wrote = "none" /\ c \in {"good", "bad"}
  /\ RunGoes(Run.pend, Run.armed, Run.hit, c, Run.ends)
  /\ file' = [file EXCEPT !.data = IF @ = "none" THEN c ELSE "bad"]
  /\ UNCHANGED thr

FaultEffect ==
  /\ Child.st \in {"run", "step"}
  /\ Run.hit \/ opt.orig.Type = "Stopped"
  /\ ChildGoes("stop", Stopped("SIGSEGV"))
  /\ UNCHANGED <<proc, file>>

EndEffect(w) ==
  /\ \E c \in ExitCodes : w = Exited(c)
  /\ Child.st = "run" \/ (Child.st = "step" /\ opt.syscallStep)
  /\ ChildGoes("dying", NoStatus)
  /\ RunGoes(Run.pend, Run.armed, Run.hit, Run.wrote, w)
  /\ UNCHANGED file

KernelEffect ==
  /\ UNCHANGED <<opt, mainVars, sleeperVars>>
  /\ try \in Procs /\ pc \notin Terminal
  /\ \/ ExecEffect \/ EarlyEffect \/ AlarmEffect \/ StepEffect \/ DieEffect
     \/ FaultEffect
     \/ \E s \in {"SIGTRAP", "SIGALRM"} : SignalEffect(s)
     \/ \E c \in {"good", "bad"} : WriteEffect(c)
     \/ \E w \in WaitStatus : EndEffect(w)

(* The effects of the job's two threads on it.  "Stays" leaves the         *)
(* workload alone; "Reaps" is waitpid() returning its status.              *)
Stays == UNCHANGED <<thr, proc>>

Reaps ==
  /\ Child.ws # NoStatus
  /\ ChildGoes(IF Child.st = "dead" THEN "gone" ELSE Child.st, NoStatus)
  /\ UNCHANGED proc

Killed ==
  /\ ChildGoes("dying", NoStatus)
  /\ RunGoes(Run.pend, Run.armed, Run.hit, Run.wrote, Signaled("SIGKILL"))

LaunchEffect ==
  /\ pc = "attempt" /\ pc' = "runwait"
  /\ try' = try + 1 /\ try' \in Procs
  /\ \A u \in Tids : u # ChildPID' => thr'[u] = thr[u]
  /\ thr'[ChildPID'].st = "forked" /\ thr'[ChildPID'].ws = NoStatus
  /\ \A k \in Procs : k # try' => proc'[k] = proc[k]
  /\ proc'[try'] = [pend |-> {}, armed |-> TRUE, hit |-> FALSE,
                    wrote |-> "none", ends |-> NoStatus]
  /\ UNCHANGED <<ret, status, ftStatus, sleeperVars>>

ReportedEffect ==
  /\ pc = "runwait" /\ pc' = "setopts"
  /\ Reaps
  /\ UNCHANGED <<try, ret, status, ftStatus, sleeperVars>>

OptionsEffect ==
  /\ pc = "setopts" /\ pc' = "cont"
  /\ Child.st = "stop" /\ Stays
  /\ UNCHANGED <<try, ret, status, ftStatus, sleeperVars>>

TracedEffect ==
  /\ pc = "cont" /\ pc' = "wait"
  /\ Child.st = "stop" /\ ChildGoes("run", NoStatus)
  /\ IF opt.InjectionsPerRun > 0
     THEN ret' = "join" /\ sl' = "sleep" /\ killOK' = FALSE
     ELSE ret' = "verdict" /\ UNCHANGED <<sl, killOK>>
  /\ UNCHANGED <<try, proc, status, ftStatus, rnd, target>>

LostEffect ==
  /\ pc = "setopts" /\ Child.st = "gone"
  /\ IF opt.InjectionsPerRun > 0 THEN pc' = "attempt" /\ ret' = ret
     ELSE pc' = "wait" /\ ret' = "verdict"
  /\ Stays /\ UNCHANGED <<try, status, ftStatus, sleeperVars>>

ReturnEffect ==
  /\ pc = "wait" /\ pc' = ret
  /\ Reaps
  /\ status' = [Pid |-> ChildPID, Status |-> Child.ws]
  /\ UNCHANGED <<try, ret, ftStatus, sleeperVars>>

StopEffect ==
  /\ pc = "join" /\ sl = "idle"
  /\ \/ pc' = "attempt" /\ ret' = ret /\ Child.st = "gone"
     \/ pc' = "cleanup" /\ ret' = "attempt" /\ Child.st = "gone"
     \/ pc' = "flip" /\ ret' = ret
        /\ killOK /\ status.Status.Type = "Stopped"
  /\ Stays /\ UNCHANGED <<try, status, ftStatus, sleeperVars>>

RefusedEffect ==
  /\ pc \in {"flip", "stepwait"} /\ pc' = "cleanup" /\ ret' = "attempt"
  /\ Child.st = "stop" /\ Killed
  /\ UNCHANGED <<try, status, ftStatus, sleeperVars>>

InjectedEffect ==
  /\ pc \in {"flip", "stepwait"} /\ pc' = "wait" /\ ret' = "verdict"
  /\ Child.st = "stop" /\ ChildGoes("run", NoStatus)
  /\ RunGoes(Run.pend, Run.armed, TRUE, Run.wrote, Run.ends)
  /\ UNCHANGED <<try, status, ftStatus, sleeperVars>>

SteppedEffect ==
  /\ pc = "flip" /\ pc' = "stepwait"
  /\ Child.st = "stop" /\ ChildGoes("step", NoStatus)
  /\ UNCHANGED <<try, proc, ret, status, ftStatus, sleeperVars>>

CleanupEffect ==
  /\ \/ pc = "cleanup" /\ pc' = ret /\ Reaps /\ Child.st = "dead"
     \/ pc = "cleanup" /\ pc' = ret /\ Stays /\ Child.st = "gone"
     \/ pc = "cleanup" /\ pc' = "block" /\ Stays
     \/ pc = "block" /\ pc' = "cleanup" /\ Reaps /\ Child.st = "dead"
  /\ UNCHANGED <<try, ret, status, ftStatus, sleeperVars>>

JudgedEffect ==
  /\ pc = "verdict"
  /\ opt.NoRedirect \/ WaitedState.Type # "Signaled"
  /\ ~NeedsOrig
  /\ ftStatus' = Verdict
  /\ \/ pc' = "final" /\ ret' = ret /\ Stays
     \/ pc' = "cleanup" /\ ret' = "final"
        /\ Child.st # "gone" /\ (Killed \/ (Stays /\ Child.st # "stop"))
        /\ (~opt.NoRedirect => Verdict = "InfExec")
  /\ UNCHANGED <<try, status, sleeperVars>>

FinishEffect ==
  /\ pc = "final" /\ pc' = "cleanup" /\ ret' = "done"
  /\ (Child.st = "stop" /\ Killed) \/ (Stays /\ Child.st # "stop")
  /\ UNCHANGED <<try, status, ftStatus, sleeperVars>>

(* The job ends without a verdict. *)
FailedEffect ==
  /\ \/ pc' = "exit1"
     \/ pc' = "abort" /\ Contract!MayAbort(opt)
  /\ (try > 0 /\ Reaps) \/ Stays
  /\ UNCHANGED <<try, status, ftStatus, sleeperVars>>

MainEffect ==
  /\ UNCHANGED <<opt, file>>
  /\ \/ LaunchEffect
     \/ try \in Procs /\ (\/ ReportedEffect \/ OptionsEffect \/ TracedEffect
                           \/ LostEffect \/ ReturnEffect
                           \/ StopEffect \/ RefusedEffect \/ InjectedEffect
                           \/ SteppedEffect \/ CleanupEffect
                           \/ JudgedEffect \/ FinishEffect)
     \/ FailedEffect

SleeperEffect ==
  /\ UNCHANGED <<opt, thr, file, mainVars>> /\ pc \notin Terminal
  /\ \/ /\ sl = "sleep" /\ sl' = "iter" /\ rnd' = 0
        /\ UNCHANGED <<proc, target, killOK>>
     \/ /\ sl = "iter" /\ sl' = "kill" /\ target' = ChildPID
        /\ UNCHANGED <<proc, rnd, killOK>>
     \/ /\ sl = "kill" /\ sl' = "idle" /\ target = ChildPID
        /\ killOK' = (Child.st # "gone")
        /\ IF killOK'
           THEN RunGoes(Run.pend \cup {"SIGTRAP"}, Run.armed, Run.hit,
                        Run.wrote, Run.ends)
           ELSE UNCHANGED proc
        /\ UNCHANGED <<rnd, target>>

-----------------------------------------------------------------------------
(* A workload of one thread.                                               *)

(* What the threads and the processes of the tables look like. *)
LEMMA SingleFacts ==
  ASSUME Inv, AloneInv, ChildInv
  PROVE  /\ thr \in [Tids -> Thread] /\ proc \in [Procs -> Process]
         /\ try \in Nat /\ (try > 0 => try \in Procs)
         /\ try \in Procs => /\ ChildPID \in Tids /\ ChildPID[1] = try
                             /\ ChildPID \in ThreadsOf(try)
         /\ \A t \in Tids : ~Absent(t) => t = ChildPID /\ t[1] = try
         /\ \A t \in Tids : thr[t].ws # NoStatus => t = ChildPID /\ t[1] = try
         /\ try = 0 => \A t \in Tids : Absent(t)
         /\ try > 0 /\ pc \notin Terminal =>
              Child.st \notin {"none", "born", "cloning"}
<1>1. thr \in [Tids -> Thread] /\ proc \in [Procs -> Process]
      /\ try \in 0..UIntMax /\ UIntMax \in Nat
  BY UIntMaxAssumption DEF Inv, TypeOK
<1>2. try \in Nat /\ (try > 0 => try \in Procs)
  BY <1>1 DEF Procs
<1>3. try \in Procs => /\ ChildPID \in Tids /\ ChildPID[1] = try
                       /\ ChildPID \in ThreadsOf(try)
  BY TidFacts DEF ChildPID, ThreadsOf
<1>4. \A t \in Tids : t = ChildPID => t[1] = try
  BY DEF ChildPID, Leader
<1>5. \A t \in Tids : ~Absent(t) => t = ChildPID /\ t[1] = try
  BY <1>4 DEF AloneInv
<1>6. \A t \in Tids : thr[t].ws # NoStatus => t = ChildPID /\ t[1] = try
  BY <1>5 DEF AloneInv, Absent
<1>7. try = 0 => \A t \in Tids : Absent(t)
  <2> SUFFICES ASSUME try = 0, NEW t \in Tids PROVE t # ChildPID
    BY DEF AloneInv
  <2> QED
    BY <1>1, TidFacts DEF ChildPID, Procs, Leader
<1>8. try > 0 /\ pc \notin Terminal => Child.st \notin {"none", "born", "cloning"}
  <2>1. pc \in Labels
    BY DEF Inv, TypeOK
  <2> QED
    BY <2>1 DEF ChildInv, Labels, Terminal, Leaving, Doomed
<1> QED
  BY <1>1, <1>2, <1>3, <1>5, <1>6, <1>7, <1>8

(* No other thread is known or announced. *)
LEMMA SoloFacts ==
  ASSUME Inv, OneThreadInv
  PROVE  childThreads = {} /\ \A t \in Tids : ~Announcing(t)
BY DEF Inv, TypeOK, ThreadInv, KnownInv, CloneInv, OneThreadInv, SoloInv

(* One field of a process changes. *)
LEMMA RunFields ==
  ASSUME proc \in [Procs -> Process], try \in Procs
  PROVE  /\ \A p : proc' = [proc EXCEPT ![try].pend = p] =>
              RunGoes(p, Run.armed, Run.hit, Run.wrote, Run.ends)
         /\ \A p : proc' = [proc EXCEPT ![try].armed = FALSE, ![try].pend = p] =>
              RunGoes(p, FALSE, Run.hit, Run.wrote, Run.ends)
         /\ \A h : proc' = [proc EXCEPT ![try].hit = h] =>
              RunGoes(Run.pend, Run.armed, h, Run.wrote, Run.ends)
         /\ \A w : proc' = [proc EXCEPT ![try].wrote = w] =>
              RunGoes(Run.pend, Run.armed, Run.hit, w, Run.ends)
         /\ \A e : proc' = [proc EXCEPT ![try].ends = e] =>
              RunGoes(Run.pend, Run.armed, Run.hit, Run.wrote, e)
         /\ UNCHANGED proc =>
              RunGoes(Run.pend, Run.armed, Run.hit, Run.wrote, Run.ends)
<1> DEFINE Same == [pend |-> Run.pend, armed |-> Run.armed, hit |-> Run.hit,
                    wrote |-> Run.wrote, ends |-> Run.ends]
<1>1. Run = Same
  BY DEF Run, Process
<1>2. \A p : proc' = [proc EXCEPT ![try].pend = p] =>
              RunGoes(p, Run.armed, Run.hit, Run.wrote, Run.ends)
  BY DEF RunGoes, Run, Process
<1>3. \A p : proc' = [proc EXCEPT ![try].armed = FALSE, ![try].pend = p] =>
              RunGoes(p, FALSE, Run.hit, Run.wrote, Run.ends)
  BY DEF RunGoes, Run, Process
<1>4. \A h : proc' = [proc EXCEPT ![try].hit = h] =>
              RunGoes(Run.pend, Run.armed, h, Run.wrote, Run.ends)
  BY DEF RunGoes, Run, Process
<1>5. \A w : proc' = [proc EXCEPT ![try].wrote = w] =>
              RunGoes(Run.pend, Run.armed, Run.hit, w, Run.ends)
  BY DEF RunGoes, Run, Process
<1>6. \A e : proc' = [proc EXCEPT ![try].ends = e] =>
              RunGoes(Run.pend, Run.armed, Run.hit, Run.wrote, e)
  BY DEF RunGoes, Run, Process
<1>7. UNCHANGED proc =>
              RunGoes(Run.pend, Run.armed, Run.hit, Run.wrote, Run.ends)
  BY <1>1 DEF RunGoes, Run
<1> QED
  BY <1>2, <1>3, <1>4, <1>5, <1>6, <1>7

(* The end of the only process ends the child. *)
LEMMA ChildDies ==
  ASSUME Single, Inv, OneThreadInv, AloneInv, ChildInv, try \in Procs, NEW w,
         EndProcess(try, w), Alive(ChildPID)
  PROVE  /\ ChildGoes("dying", NoStatus)
         /\ RunGoes(Run.pend, Run.armed, Run.hit, Run.wrote, w)
<1>1. /\ thr \in [Tids -> Thread] /\ proc \in [Procs -> Process]
      /\ ChildPID \in Tids /\ ChildPID[1] = try
      /\ ChildPID \in ThreadsOf(try)
      /\ \A t \in Tids : ~Absent(t) => t = ChildPID
  BY SingleFacts
<1>2. proc' = [proc EXCEPT ![try].ends = w]
  BY <1>1 DEF EndProcess
<1>3. thr' = GroupDying(try)
  BY DEF EndProcess
<1>4. \A u \in Tids : u # ChildPID => ~Alive(u)
  BY <1>1 DEF Absent, Alive
<1> QED
  BY <1>1, <1>2, <1>3, <1>4, RunFields, GroupDyingFacts DEF ChildGoes

(* A child that has not been traced yet is waited for. *)
LEMMA ForkedStarts ==
  ASSUME Inv, ChildInv, try > 0, pc \notin Terminal, Child.st = "forked"
  PROVE  pc = "runwait"
<1>1. pc \in Labels
  BY DEF Inv, TypeOK
<1> QED
  BY <1>1 DEF ChildInv, Labels, Terminal, Leaving, Doomed

(* So these effects are all that the kernel and the workload do. *)
LEMMA KernelEffects ==
  ASSUME Single, Inv, OneThreadInv, AloneInv, ChildInv, FreshInv, Kernel \/ Workload
  PROVE  KernelEffect
<1> USE DEF Inv, ThreadInv
<1>1. /\ thr \in [Tids -> Thread] /\ proc \in [Procs -> Process]
      /\ try \in Nat /\ (try > 0 => try \in Procs)
      /\ try \in Procs => /\ ChildPID \in Tids /\ ChildPID[1] = try
                          /\ ChildPID \in ThreadsOf(try)
      /\ \A t \in Tids : ~Absent(t) => t = ChildPID /\ t[1] = try
      /\ try = 0 => \A t \in Tids : Absent(t)
  BY SingleFacts
<1>2. UNCHANGED <<opt, mainVars, sleeperVars>> /\ pc \notin Terminal
  BY DEF Kernel, Workload
<1>3. \A t \in Tids : ~Absent(t) =>
        t = ChildPID /\ t[1] = try /\ try \in Procs
  BY <1>1
<1>4. \A k \in Procs : ~Absent(Leader(k)) => k = try
  BY <1>3, TidFacts
<1>5. \A k \in Procs : (\E t \in ThreadsOf(k) : Alive(t)) =>
        k = try /\ Alive(ChildPID)
  BY <1>3 DEF Alive, Absent, ThreadsOf
<1>6. try \in Procs => Child.st \notin {"none", "born", "cloning"}
  BY <1>2, SingleFacts DEF Procs
<1>7. ASSUME NEW k \in Procs, ChildExec(k) PROVE KernelEffect
  <2>1. k = try /\ Leader(k) = ChildPID /\ Child.st = "forked"
    BY <1>4, <1>7 DEF ChildExec, Absent, ChildPID, Child
  <2>2. pc = "runwait"
    BY <1>1, <1>2, <2>1, ForkedStarts DEF Procs
  <2>3. ChildGoes("stop", Stopped("SIGTRAP"))
    BY <1>1, <1>7, <2>1, SetThreadFacts DEF ChildExec, ChildGoes
  <2>4. ExecEffect
    BY <1>7, <2>1, <2>2, <2>3 DEF ChildExec, ExecEffect
  <2> QED
    BY <1>2, <2>1, <2>4 DEF KernelEffect
<1>8. ASSUME NEW k \in Procs, ChildDiesEarly(k) PROVE KernelEffect
  <2>1. k = try /\ Leader(k) = ChildPID /\ Child.st = "forked"
    BY <1>4, <1>8 DEF ChildDiesEarly, Absent, ChildPID, Child
  <2>2. pc = "runwait"
    BY <1>1, <1>2, <2>1, ForkedStarts DEF Procs
  <2>3. ChildGoes("dead", Signaled("SIGALRM"))
    BY <1>1, <1>8, <2>1, SetThreadFacts DEF ChildDiesEarly, ChildGoes
  <2>4. EarlyEffect
    BY <1>8, <2>1, <2>2, <2>3 DEF ChildDiesEarly, EarlyEffect
  <2> QED
    BY <1>2, <2>1, <2>4 DEF KernelEffect
<1>9. ASSUME NEW t \in Tids, NEW s \in {"SIGTRAP", "SIGALRM"}, StopOnSignal(t, s)
      PROVE  KernelEffect
  <2>1. t = ChildPID /\ t[1] = try /\ try \in Procs
    BY <1>3, <1>9 DEF StopOnSignal, Running, Absent
  <2>2. ChildGoes("stop", Stopped(s))
    BY <1>1, <1>9, <2>1, SetThreadFacts DEF StopOnSignal, ChildGoes
  <2>3. proc' = [proc EXCEPT ![try].pend = proc[try].pend \ {s}]
    BY <1>9, <2>1 DEF StopOnSignal
  <2>4. RunGoes(Run.pend \ {s}, Run.armed, Run.hit, Run.wrote, Run.ends)
    BY <1>1, <2>1, <2>3, RunFields DEF Run
  <2>5. SignalEffect(s)
    BY <1>9, <2>1, <2>2, <2>4 DEF StopOnSignal, Running, SignalEffect, Child,
       Run
  <2> QED
    BY <1>2, <2>1, <2>5 DEF KernelEffect
<1>10. ASSUME InTime, NEW k \in Procs, AlarmFires(k) PROVE KernelEffect
  <2>1. k = try /\ try \in Procs
    BY <1>5, <1>10 DEF AlarmFires
  <2>2. proc' = [proc EXCEPT ![try].armed = FALSE,
                             ![try].pend = proc[try].pend \cup {"SIGALRM"}]
    BY <1>10, <2>1 DEF AlarmFires
  <2>3. AlarmEffect
    BY <1>1, <1>10, <2>1, <2>2, RunFields DEF AlarmFires, AlarmEffect, Run
  <2> QED
    BY <1>2, <2>1, <2>3 DEF KernelEffect
<1>11. ASSUME NEW t \in Tids, StepDone(t) \/ Die(t) PROVE KernelEffect
  <2>1. t = ChildPID /\ t[1] = try /\ try \in Procs
    BY <1>3, <1>11 DEF StepDone, Die, Absent
  <2>2. StepEffect \/ DieEffect
    BY <1>1, <1>11, <2>1, SetThreadFacts
       DEF StepDone, Die, StepEffect, DieEffect, ChildGoes, Child, Run
  <2> QED
    BY <1>2, <2>1, <2>2 DEF KernelEffect
<1>12. ASSUME NEW t \in Tids, CloneStop(t) \/ ThreadStop(t) PROVE FALSE
  <2>1. t = ChildPID /\ try \in Procs
    BY <1>3, <1>12 DEF CloneStop, ThreadStop, Absent
  <2> QED
    BY <1>6, <1>12, <2>1 DEF CloneStop, ThreadStop, Child
<1>13. ASSUME NEW t \in Tids, NEW c \in Chunk, WriteOutput(t, c)
       PROVE  KernelEffect
  <2>1. t = ChildPID /\ t[1] = try /\ try \in Procs
    BY <1>3, <1>13 DEF WriteOutput, MayCall, Absent
  <2>2. RunGoes(Run.pend, Run.armed, Run.hit, c, Run.ends)
    BY <1>1, <1>13, <2>1, RunFields DEF WriteOutput
  <2>3. c \in {"good", "bad"} /\ WriteEffect(c)
    BY <1>13, <2>1, <2>2 DEF WriteOutput, MayCall, WriteEffect, Child, Run
  <2> QED
    BY <1>2, <2>1, <2>3 DEF KernelEffect
<1>14. ASSUME NEW t \in Tids, NEW c \in ExitCodes, ExitGroup(t, c)
       PROVE  KernelEffect
  <2>1. t = ChildPID /\ t[1] = try /\ try \in Procs
    BY <1>3, <1>14 DEF ExitGroup, MayCall, Absent
  <2>2. /\ ChildGoes("dying", NoStatus)
        /\ RunGoes(Run.pend, Run.armed, Run.hit, Run.wrote, Exited(c))
    BY <1>14, <2>1, ChildDies DEF ExitGroup, MayCall, Alive
  <2>3. Exited(c) \in WaitStatus /\ EndEffect(Exited(c))
    BY <1>14, <2>1, <2>2, StatusTypes DEF ExitGroup, MayCall, EndEffect, Child
  <2> QED
    BY <1>2, <2>1, <2>3 DEF KernelEffect
<1>15. ASSUME NEW t \in Tids, Fault(t) PROVE KernelEffect
  <2>1. t = ChildPID /\ t[1] = try /\ try \in Procs
    BY <1>3, <1>15 DEF Fault, Running, Absent
  <2>2. FaultEffect
    BY <1>1, <1>15, <2>1, SetThreadFacts
       DEF Fault, Running, AtOrigEnd, FaultEffect, ChildGoes, Child, Run
  <2> QED
    BY <1>2, <2>1, <2>2 DEF KernelEffect
<1>16. ASSUME NEW t \in Tids, ThreadExit(t) PROVE FALSE
  <2>1. t = ChildPID
    BY <1>3, <1>16 DEF ThreadExit, MayCall, Absent
  <2> QED
    BY <1>16, <2>1 DEF ThreadExit, ChildPID, Leader
<1>17. ASSUME NEW t \in Tids, NEW u \in Tids, Clone(t, u) PROVE FALSE
  BY <1>17 DEF Clone, Single
<1>18. ASSUME NEW k \in Procs, OomKill(k) PROVE FALSE
  BY <1>18 DEF OomKill, Single
<1> QED
  BY <1>7, <1>8, <1>9, <1>10, <1>11, <1>12, <1>13, <1>14, <1>15, <1>16, <1>17,
     <1>18 DEF Kernel, Workload

(* What the sleeping thread does: it can only choose the child. *)
LEMMA SleeperEffects ==
  ASSUME Single, Inv, OneThreadInv, AloneInv, ChildInv, Sleeper
  PROVE  SleeperEffect
<1> USE DEF Inv, ThreadInv
<1>1. /\ thr \in [Tids -> Thread] /\ proc \in [Procs -> Process]
      /\ try > 0 => try \in Procs
      /\ try \in Procs => ChildPID \in Tids /\ ChildPID[1] = try
      /\ childThreads = {}
  BY SingleFacts, SoloFacts
<1>2. Cardinality(childThreads) = 0
  BY <1>1, FS_EmptySet
<1>3. ASSUME NEW r \in 0..NThreads, SleeperWakes(r) PROVE SleeperEffect
  BY <1>2, <1>3 DEF SleeperWakes, SleeperEffect, kernelVars
<1>4. ASSUME NEW t \in Tids, SleeperPicks(t) PROVE SleeperEffect
  BY <1>1, <1>4 DEF SleeperPicks, SleeperEffect, kernelVars
<1>5. CASE SleeperFindsNone
  <2>1. rnd = 0
    BY <1>5 DEF SleeperFindsNone, OneThreadInv, TargetInv
  <2> QED
    BY <1>2, <1>5, <2>1 DEF SleeperFindsNone
<1>6. CASE SleeperKills
  <2>1. Injecting /\ sl = "kill" /\ pc \notin Terminal
    BY <1>6 DEF SleeperKills, KnownInv, Injecting, Terminal
  <2>2. target = ChildPID
    BY <2>1 DEF OneThreadInv, TargetInv
  <2>3. try \in Procs
    BY <2>1, RunExists DEF Injecting
  <2>4. /\ sl' = "idle" /\ killOK' = (Child.st # "gone")
        /\ proc' = IF killOK'
                   THEN [proc EXCEPT ![try].pend =
                                         proc[try].pend \cup {"SIGTRAP"}]
                   ELSE proc
        /\ UNCHANGED <<opt, thr, file, mainVars, rnd, target>>
    BY <1>1, <1>6, <2>2, <2>3 DEF SleeperKills, Child
  <2> QED
    BY <1>1, <2>1, <2>2, <2>3, <2>4, RunFields DEF SleeperEffect, Run
<1> QED
  BY <1>3, <1>4, <1>5, <1>6 DEF Sleeper

(* The tracer's calls, made on the child. *)
LEMMA ChildCalls ==
  ASSUME Single, Inv, OneThreadInv, AloneInv, ChildInv, try \in Procs
  PROVE  /\ \A m : thr' = Resumed(ChildPID, m) => ChildGoes(m, NoStatus)
         /\ thr' = Reported(ChildPID) =>
              ChildGoes(IF Child.st = "dead" THEN "gone" ELSE Child.st, NoStatus)
         /\ EndProcess(try, Signaled("SIGKILL")) /\ Child.st = "stop" => Killed
         /\ PtraceKill(try) =>
              \/ Killed /\ Alive(ChildPID)
              \/ Stays /\ Child.st # "stop"
         /\ Waitable(ChildPID) =>
              Child.ws # NoStatus /\ Child.st \in {"stop", "dead"}
<1>1. /\ thr \in [Tids -> Thread] /\ ChildPID \in Tids
  BY SingleFacts
<1>2. \A m : thr' = Resumed(ChildPID, m) => ChildGoes(m, NoStatus)
  BY <1>1, SetThreadFacts DEF Resumed, ChildGoes
<1>3. thr' = Reported(ChildPID) =>
        ChildGoes(IF Child.st = "dead" THEN "gone" ELSE Child.st, NoStatus)
  BY <1>1, SetThreadFacts DEF Reported, ChildGoes, Child
<1>4. EndProcess(try, Signaled("SIGKILL")) /\ Alive(ChildPID) => Killed
  BY ChildDies DEF Killed
<1>5. Child.st = "stop" => Alive(ChildPID)
  BY DEF Alive, Child
<1>6. PtraceKill(try) => \/ Killed /\ Alive(ChildPID)
                         \/ Stays /\ Child.st # "stop"
  BY <1>4 DEF PtraceKill, ChildPID, Child, Stays
<1>7. Waitable(ChildPID) =>
        Child.ws # NoStatus /\ Child.st \in {"stop", "dead"}
  BY <1>1 DEF Waitable, AloneInv, Child
<1> QED
  BY <1>2, <1>3, <1>4, <1>5, <1>6, <1>7

(* The status waited for, when it is looked at, is what it reads as. *)
LEMMA WaitedFacts ==
  ASSUME Inv, ChildInv, pc \in {"join", "verdict"}
  PROVE  /\ WaitedState = status.Status
         /\ WaitedState.Type \in {"Exited", "Signaled", "Stopped"}
         /\ WaitedState.Type # "Stopped" => Child.st = "gone"
         /\ WaitedState.Type = "Stopped" =>
              /\ WaitedState \in {Stopped("SIGTRAP"), Stopped("SIGALRM"),
                                  Stopped("SIGSEGV")}
              /\ Child.st = "stop"
<1>1. try > 0
  BY RunExists DEF Inv, Procs
<1>2. \/ /\ status.Status.Type \in {"Exited", "Signaled"}
         /\ Child.st = "gone"
      \/ /\ status.Status \in {Stopped("SIGTRAP"), Stopped("SIGALRM"),
                               Stopped("SIGSEGV")}
         /\ Child.st = "stop"
  BY <1>1 DEF ChildInv
<1>3. status.Status # Stopped("CLONE")
  BY <1>2, StatusNames DEF Signals
<1>4. WaitedState = status.Status
  BY <1>3 DEF WaitedState, getWaitPidExitState
<1> QED
  BY <1>2, <1>4, StatusNames

(* All that the main thread does to the child, and why it fails. *)
LEMMA MainEffects ==
  ASSUME Single, Inv, OneThreadInv, AloneInv, ChildInv, ChosenInv, EndInv, FreshInv, Main
  PROVE  MainEffect
<1> USE DEF Inv, ThreadInv
<1>1. /\ thr \in [Tids -> Thread] /\ proc \in [Procs -> Process]
      /\ try \in Nat /\ (try > 0 => try \in Procs)
      /\ try \in Procs => /\ ChildPID \in Tids /\ ChildPID[1] = try
      /\ \A t \in Tids : ~Absent(t) => t = ChildPID
      /\ \A t \in Tids : thr[t].ws # NoStatus => t = ChildPID
      /\ childThreads = {} /\ \A t \in Tids : ~Announcing(t)
  BY SingleFacts, SoloFacts
<1>2. pc \notin {"attempt", "exit1"} => try \in Procs /\ try > 0
  BY RunExists DEF Procs
<1>3. \A t \in Tids : Waitable(t) => t = ChildPID
  BY <1>1 DEF Waitable
<1>4. pc \in {"flip", "stepwait"} => target = ChildPID /\ killOK
  BY DEF OneThreadInv, TargetInv, KnownInv, Injecting
<1>5. CASE GiveUp
  BY <1>5 DEF GiveUp, MainEffect, FailedEffect, Stays, kernelVars
<1>6. CASE Launch
  <2>1. try' = try + 1 /\ try + 1 \in Procs
    BY <1>6, AllowedFacts DEF Launch, Decremented, AttemptsInv, Procs
  <2>2. Leader(try + 1) \in Tids /\ ChildPID' = Leader(try + 1)
    BY <2>1, TidFacts DEF ChildPID
  <2>3. thr[Leader(try + 1)].st = "none" /\ thr[Leader(try + 1)].ws = NoStatus
    BY <1>1, <2>1, <2>2, TidFacts DEF KnownInv, AloneInv
  <2>4. /\ \A u \in Tids : u # Leader(try + 1) => thr'[u] = thr[u]
        /\ thr'[Leader(try + 1)].st = "forked"
        /\ thr'[Leader(try + 1)].ws = NoStatus
    BY <1>1, <1>6, <2>2, <2>3 DEF Launch, Thread
  <2>5. /\ \A k \in Procs : k # try + 1 => proc'[k] = proc[k]
        /\ proc'[try + 1] = [pend |-> {}, armed |-> TRUE, hit |-> FALSE,
                             wrote |-> "none", ends |-> NoStatus]
    <3>1. try + 1 > try
      BY <1>1
    <3>2. proc[try + 1] = [pend |-> {}, armed |-> FALSE, hit |-> FALSE,
                           wrote |-> "none", ends |-> NoStatus]
      BY <2>1, <3>1 DEF FreshInv
    <3>3. proc' = [proc EXCEPT ![try + 1].armed = TRUE]
      BY <1>6 DEF Launch
    <3>4. proc'[try + 1] =
            [pend |-> proc[try + 1].pend, armed |-> TRUE,
             hit |-> proc[try + 1].hit, wrote |-> proc[try + 1].wrote,
             ends |-> proc[try + 1].ends]
      BY <1>1, <2>1, <3>3 DEF Process
    <3>5. proc'[try + 1] = [pend |-> {}, armed |-> TRUE, hit |-> FALSE,
                            wrote |-> "none", ends |-> NoStatus]
      BY <3>2, <3>4
    <3>6. \A k \in Procs : k # try + 1 => proc'[k] = proc[k]
      BY <1>1, <3>3
    <3> QED
      BY <3>5, <3>6
  <2> QED
    BY <1>6, <2>1, <2>2, <2>4, <2>5
       DEF Launch, MainEffect, LaunchEffect, sleeperVars
<1>7. CASE RunWaits \/ RunTraces
  <2>1. RunWaits => Reaps
    BY <1>2, ChildCalls DEF RunWaits, Reaps
  <2> QED
    BY <1>2, <1>7, <2>1 DEF RunWaits, RunTraces, MainEffect, ReportedEffect,
       OptionsEffect, Child, Stays, kernelVars
<1>8. CASE RunFails
  <2>1. Child.st = "gone"
    BY <1>2, <1>8 DEF RunFails, ChildInv, Child
  <2> QED
    BY <1>2, <1>8, <2>1
       DEF RunFails, MainEffect, LostEffect, Stays, kernelVars
<1>9. CASE RunSucceeds
  BY <1>2, <1>9, ChildCalls
     DEF RunSucceeds, MainEffect, TracedEffect, Child
<1>10. ASSUME RunDies PROVE FALSE
  BY <1>2, <1>10 DEF RunDies, ChildInv, Child
<1>11. ASSUME NEW t \in Tids, SkipClone(t) PROVE FALSE
  BY <1>1, <1>11 DEF SkipClone, IsCloneEvent, Announcing
<1>12. ASSUME NEW t \in Tids, SkipThreadStop(t) \/ SkipThreadEnd(t) PROVE FALSE
  BY <1>1, <1>12 DEF SkipThreadStop, SkipThreadEnd
<1>13. ASSUME NEW t \in Tids, SkipReturns(t) PROVE MainEffect
  <2>1. t = ChildPID /\ try \in Procs
    BY <1>2, <1>3, <1>13 DEF SkipReturns
  <2>2. Reaps
    BY <1>13, <2>1, ChildCalls DEF SkipReturns, Reaps
  <2> QED
    BY <1>13, <2>1, <2>2 DEF SkipReturns, MainEffect, ReturnEffect, Child
<1>14. CASE WaitNoChild
  <2>1. Child.st = "gone"
    <3>1. Absent(ChildPID) /\ thr[ChildPID].st # "none"
      BY <1>1, <1>2, <1>14 DEF WaitNoChild, KnownInv
    <3> QED
      BY <3>1 DEF Absent, Child
  <2>2. Contract!MayAbort(opt)
    BY <1>2, <1>14, <2>1 DEF WaitNoChild, ChildInv, Contract!MayAbort, Doomed
  <2> QED
    BY <1>14, <2>2
       DEF WaitNoChild, Abort, MainEffect, FailedEffect, Stays, kernelVars
<1>15. CASE StopFails
  <2>1. try \in Procs /\ Child.st = "gone"
    BY <1>2, <1>15, WaitedFacts DEF StopFails, ChosenInv, Injecting
  <2>2. PtraceKill(try) => Stays
    BY <2>1, ChildCalls DEF Alive, Child
  <2> QED
    BY <1>15, <2>1, <2>2 DEF StopFails, MainEffect, StopEffect, Stays
<1>16. CASE StopSucceeds
  BY <1>2, <1>16, WaitedFacts
     DEF StopSucceeds, MainEffect, StopEffect, Stays, kernelVars
<1>17. CASE FlipNoRegs
  <2>1. Contract!MayAbort(opt)
    BY <1>2, <1>4, <1>17 DEF FlipNoRegs, ChildInv, Child, Contract!MayAbort
  <2> QED
    BY <1>17, <2>1
       DEF FlipNoRegs, Abort, MainEffect, FailedEffect, Stays, kernelVars
<1>18. CASE FlipUnknown \/ VerdictNoOrig
  BY <1>18
     DEF FlipUnknown, VerdictNoOrig, MainEffect, FailedEffect, Stays, kernelVars
<1>19. CASE FlipRefused \/ StepRefused
  <2>1. pc \in {"flip", "stepwait"} /\ try \in Procs /\ InjectionFails
    BY <1>2, <1>19 DEF FlipRefused, StepRefused
  <2>2. Child.st = "stop"
    <3>1. CASE FlipRefused
      BY <1>4, <3>1 DEF FlipRefused, Child
    <3>2. CASE StepRefused
      <4>1. Child.ws.Type = "Stopped"
        BY <1>4, <3>2, StatusNames
           DEF StepRefused, StepState, getWaitPidExitState, Child
      <4>2. Child.st \in {"stop", "dead"}
        BY <1>4, <2>1, <3>2, ChildCalls DEF StepRefused
      <4> QED
        BY <1>1, <2>1, <4>1, <4>2 DEF DeathInv, Child
    <3> QED
      BY <1>19, <3>1, <3>2
  <2>3. EndProcess(try, Signaled("SIGKILL")) /\ pc' = "cleanup" /\ ret' = "attempt"
    BY <2>1, <2>2 DEF InjectionFails, Child
  <2>4. Killed
    BY <2>1, <2>2, <2>3, ChildCalls
  <2> QED
    BY <2>1, <2>2, <2>3, <2>4 DEF InjectionFails, MainEffect, RefusedEffect
<1>20. CASE FlipRead \/ StepFlip
  <2>1. pc \in {"flip", "stepwait"} /\ try \in Procs /\ InjectionSucceeds
    BY <1>2, <1>20 DEF FlipRead, StepFlip
  <2>2. Child.st = "stop"
    <3>1. CASE FlipRead
      BY <1>4, <3>1 DEF FlipRead, Child
    <3>2. CASE StepFlip
      <4>1. Child.ws.Type = "Stopped"
        BY <1>4, <3>2, StatusNames
           DEF StepFlip, StepState, getWaitPidExitState, Child
      <4>2. Child.st \in {"stop", "dead"}
        BY <1>4, <2>1, <3>2, ChildCalls DEF StepFlip
      <4> QED
        BY <1>1, <2>1, <4>1, <4>2 DEF DeathInv, Child
    <3> QED
      BY <1>20, <3>1, <3>2
  <2>3. ChildGoes("run", NoStatus)
    BY <1>4, <2>1, ChildCalls DEF InjectionSucceeds
  <2>4. proc' = [proc EXCEPT ![try].hit = TRUE]
    BY <1>1, <1>4, <2>1 DEF InjectionSucceeds
  <2>5. RunGoes(Run.pend, Run.armed, TRUE, Run.wrote, Run.ends)
    BY <1>1, <2>1, <2>4, RunFields
  <2> QED
    BY <2>1, <2>2, <2>3, <2>5 DEF InjectionSucceeds, MainEffect, InjectedEffect
<1>21. CASE FlipWritten
  BY <1>2, <1>4, <1>21, ChildCalls
     DEF FlipWritten, MainEffect, SteppedEffect, Child
<1>22. CASE StepAsserts
  <2>1. try \in Procs /\ target = ChildPID /\ Waitable(ChildPID)
        /\ Child.ws # NoStatus /\ Child.st \in {"stop", "dead"}
    BY <1>2, <1>4, <1>22, ChildCalls DEF StepAsserts
  <2>2. Contract!MayAbort(opt)
    <3>1. CASE Child.st = "dead"
      BY <1>22, <3>1 DEF StepAsserts, EndInv, Injecting, Doomed,
         Contract!MayAbort
    <3>2. CASE Child.st = "stop"
      <4>1. Child.ws \in {Stopped("SIGTRAP"), Stopped("SIGALRM"),
                          Stopped("SIGSEGV")}
        BY <1>2, <1>22, <3>2 DEF StepAsserts, ChildInv
      <4>2. StepState = Child.ws
        BY <2>1, <4>1, StatusNames
           DEF StepState, getWaitPidExitState, Child, Signals
      <4> QED
        BY <1>22, <4>1, <4>2 DEF StepAsserts, EndInv, Injecting,
           Contract!MayAbort
    <3> QED
      BY <2>1, <3>1, <3>2
  <2>3. Reaps
    BY <1>22, <2>1, ChildCalls DEF StepAsserts, Reaps
  <2> QED
    BY <1>2, <1>22, <2>2, <2>3 DEF StepAsserts, Abort, MainEffect, FailedEffect
<1>23. CASE CleanupPoll \/ CleanupBlock
  <2>1. try \in Procs /\ Leaving /\ try > 0
    BY <1>2, <1>23 DEF CleanupPoll, CleanupBlock, Leaving
  <2>2. Waitable(ChildPID) => Child.st = "dead" /\ Child.ws # NoStatus
    BY <2>1, ChildCalls DEF ChildInv, Doomed
  <2>3. Waitable(ChildPID) /\ thr' = Reported(ChildPID) /\ UNCHANGED proc => Reaps
    BY <2>1, ChildCalls DEF Reaps
  <2> QED
    BY <1>23, <2>1, <2>2, <2>3
       DEF CleanupPoll, CleanupBlock, MainEffect, CleanupEffect, Stays, Child
<1>24. CASE VerdictAsserts
  <2>1. WaitedState.Type # "Signaled"
    BY <1>24, WaitedFacts DEF VerdictAsserts, EndInv, Judging
  <2>2. KillsChild /\ Child.st = "gone" => WaitedState.Type = "Signaled"
    BY <1>24, WaitedFacts, StatusNames DEF VerdictAsserts, KillsChild, ChildInv
  <2> QED
    BY <1>24, <2>1, <2>2 DEF VerdictAsserts, Child
<1>25. CASE VerdictReached
  <2>1. try \in Procs /\ pc = "verdict"
    BY <1>2, <1>25 DEF VerdictReached
  <2>2. KillsChild /\ ~opt.NoRedirect => Verdict = "InfExec"
    BY StatusNames DEF KillsChild, Verdict, Stopped
  <2>3. PtraceKill(try) => Killed \/ (Stays /\ Child.st # "stop")
    BY <2>1, ChildCalls
  <2> QED
    BY <1>25, <2>1, <2>2, <2>3
       DEF VerdictReached, MainEffect, JudgedEffect, Child, Stays
<1>26. CASE Finish
  <2>1. try \in Procs /\ try > 0 /\ pc = "final"
    BY <1>2, <1>26 DEF Finish
  <2>2. Alive(ChildPID) => Child.st = "stop"
    BY <2>1 DEF ChildInv, Doomed, Alive, Child
  <2> QED
    BY <1>26, <2>1, <2>2, ChildCalls DEF Finish, MainEffect, FinishEffect
<1> QED
  BY <1>5, <1>6, <1>7, <1>8, <1>9, <1>10, <1>11, <1>12, <1>13, <1>14,
     <1>15, <1>16, <1>17, <1>18, <1>19, <1>20, <1>21, <1>22, <1>23, <1>24, <1>25,
     <1>26 DEF Main

-----------------------------------------------------------------------------
(* The steps of a job, as effects, and what they make of the child.        *)

(* Every step of a job is one of the effects above.                        *)
LEMMA StepEffects ==
  ASSUME Single, Inv, OneThreadInv, FreshInv, SingleInv, [Next]_vars
  PROVE  KernelEffect \/ SleeperEffect \/ MainEffect \/ UNCHANGED vars
BY KernelEffects, SleeperEffects, MainEffects DEF Next, Over, SingleInv

(* The child and the run after a step, in terms of the two before it.      *)
LEMMA ChildAfter ==
  /\ try' = try =>
       /\ \A s, w : ChildGoes(s, w) => Child'.st = s /\ Child'.ws = w
       /\ UNCHANGED thr => Child' = Child
       /\ UNCHANGED proc => Run' = Run
       /\ ChildPID' = ChildPID
  /\ LaunchEffect =>
       /\ Child'.st = "forked" /\ Child'.ws = NoStatus
       /\ Run' = [pend |-> {}, armed |-> TRUE, hit |-> FALSE,
                  wrote |-> "none", ends |-> NoStatus]
BY DEF ChildGoes, Child, Run, ChildPID, LaunchEffect

(* The same for a run that a step changes.                                 *)
LEMMA RunAfter ==
  try' = try =>
    \A p, a, h, w, e : RunGoes(p, a, h, w, e) =>
      /\ Run'.pend = p /\ Run'.armed = a /\ Run'.hit = h
      /\ Run'.wrote = w /\ Run'.ends = e
      /\ \A k \in Procs : k # try => proc'[k] = proc[k]
BY DEF RunGoes, Run

(* The settings of a job, and where it can be.                             *)
LEMMA JobFacts ==
  ASSUME Inv
  PROVE  /\ opt.InjectionsPerRun \in {0, 1}
         /\ pc \in Labels /\ try \in Nat
         /\ pc = "wait" => ret \in {"join", "verdict"}
         /\ Leaving => ret \in {"attempt", "final", "done"}
         /\ ret \in {"attempt", "join", "verdict", "final", "done"}
         /\ pc \notin {"attempt", "exit1"} => try > 0
         /\ try = 0 => pc \in {"attempt", "exit1"}
<1>1. TypeOK /\ AttemptsInv
  BY DEF Inv
<1>2. opt.InjectionsPerRun \in {0, 1}
  BY <1>1, ConfigsAssumption DEF TypeOK, Config
<1> QED
  BY <1>1, <1>2, AllowedFacts, RunExists
     DEF TypeOK, AttemptsInv, Procs, Leaving

(* What the main thread can do once a run exists.                          *)
LEMMA MainStays ==
  ASSUME Inv, MainEffect
  PROVE  /\ UNCHANGED <<opt, file>>
         /\ ~LaunchEffect => try' = try
         /\ ~LaunchEffect /\ ~FailedEffect => try \in Procs /\ try > 0
<1>1. UNCHANGED <<opt, file>>
  BY DEF MainEffect
<1>2. ~LaunchEffect => try' = try
  BY DEF MainEffect, ReportedEffect, OptionsEffect, TracedEffect, LostEffect,
     ReturnEffect,
         StopEffect, RefusedEffect, InjectedEffect, SteppedEffect,
         CleanupEffect, JudgedEffect, FinishEffect, FailedEffect
<1>3. ~LaunchEffect /\ ~FailedEffect => try \in Procs /\ try > 0
  BY UIntMaxAssumption DEF MainEffect, Procs
<1> QED
  BY <1>1, <1>2, <1>3

(* What the child has to report when it is stopped or dead.                *)
LEMMA ReportFacts ==
  ASSUME Inv, AloneInv, try \in Procs
  PROVE  /\ Child.ws # NoStatus => Child.st \in {"stop", "dead"}
         /\ Child.st = "dead" => Child.ws.Type \in {"Exited", "Signaled"}
         /\ Child.st = "dying" => Run.ends.Type \in {"Exited", "Signaled"}
BY TidFacts DEF AloneInv, Inv, ThreadInv, DeathInv, Child, Run, ChildPID

(* At most one child exists: a run is only launched once the one before it *)
(* is gone, and only who stops or dies has something to report.            *)
LEMMA AloneNext ==
  ASSUME Single, Inv, OneThreadInv, FreshInv, SingleInv, [Next]_vars
  PROVE  AloneInv'
<1> USE DEF SingleInv
<1>1. /\ thr \in [Tids -> Thread] /\ proc \in [Procs -> Process]
      /\ try \in Nat /\ (try > 0 => try \in Procs)
      /\ \A t \in Tids : ~Absent(t) => t = ChildPID
      /\ \A t \in Tids : thr[t].ws # NoStatus => t = ChildPID
      /\ try = 0 => \A t \in Tids : Absent(t)
  BY SingleFacts
<1>2. \A t \in Tids : t # ChildPID => Absent(t)
  BY DEF AloneInv
<1>3. ASSUME UNCHANGED <<thr, try>> PROVE AloneInv'
  BY <1>3 DEF AloneInv, Absent, ChildPID
<1>4. ASSUME try' = try, try \in Procs, NEW s, NEW w, ChildGoes(s, w),
             w # NoStatus => s \in {"stop", "dead"}
      PROVE  AloneInv'
  BY <1>2, <1>4, SingleFacts DEF AloneInv, ChildGoes, Absent, ChildPID
<1>5. CASE KernelEffect
  <2>1. Run.ends \in WaitStatus /\ try' = try
    <3>1. try \in Procs /\ try' = try
      BY <1>5 DEF KernelEffect, mainVars
    <3> QED
      BY <1>1, <3>1, ProcessTypes DEF Run
  <2> QED
    BY <1>3, <1>4, <1>5, <2>1 DEF KernelEffect, mainVars, ExecEffect,
       EarlyEffect, AlarmEffect, StepEffect, DieEffect, FaultEffect,
       SignalEffect, WriteEffect, EndEffect
<1>6. CASE SleeperEffect \/ UNCHANGED vars
  BY <1>3, <1>6 DEF SleeperEffect, mainVars, vars, kernelVars
<1>7. CASE MainEffect
  <2>1. CASE LaunchEffect
    <3>1. \A t \in Tids : Absent(t)
      BY <1>1, <1>2, <2>1 DEF LaunchEffect, ChildInv, Absent, Child
    <3>2. \A t \in Tids : t # ChildPID' => thr'[t] = thr[t]
      BY <2>1 DEF LaunchEffect
    <3>3. \A t \in Tids : Absent(t) => thr[t].ws = NoStatus
      BY DEF Absent, AloneInv
    <3>4. thr'[ChildPID'].ws = NoStatus
      BY <2>1 DEF LaunchEffect
    <3>5. \A t \in Tids : t # ChildPID' => Absent(t)' /\ thr'[t].ws = NoStatus
      BY <3>1, <3>2, <3>3 DEF Absent
    <3>6. \A t \in Tids : thr'[t].ws = NoStatus
      BY <3>4, <3>5
    <3> QED
      BY <3>5, <3>6 DEF AloneInv
  <2>2. CASE FailedEffect
    BY <1>1, <1>3, <1>4, <2>2 DEF FailedEffect, Stays, Reaps
  <2>3. CASE ~LaunchEffect /\ ~FailedEffect
    <3>1. try' = try /\ try \in Procs
      BY <1>7, <2>3 DEF MainEffect, ReportedEffect, OptionsEffect,
         TracedEffect, LostEffect, ReturnEffect,
         StopEffect, RefusedEffect, InjectedEffect, SteppedEffect,
         CleanupEffect, JudgedEffect, FinishEffect
    <3>2. Reaps => \E s : ChildGoes(s, NoStatus)
      BY DEF Reaps
    <3>3. CASE Reaps \/ Stays \/ Killed \/ \E s : ChildGoes(s, NoStatus)
      BY <1>3, <1>4, <3>1, <3>2, <3>3 DEF Stays, Killed
    <3>4. \/ Reaps \/ Stays \/ Killed \/ ChildGoes("run", NoStatus)
          \/ ChildGoes("step", NoStatus) \/ ChildGoes("gone", NoStatus)
      BY <1>7, <2>3 DEF MainEffect, ReportedEffect, OptionsEffect,
         TracedEffect, LostEffect, ReturnEffect,
         StopEffect, RefusedEffect, InjectedEffect, SteppedEffect,
         CleanupEffect, JudgedEffect, FinishEffect
    <3> QED
      BY <3>3, <3>4
  <2> QED
    BY <2>1, <2>2, <2>3
<1> QED
  BY <1>5, <1>6, <1>7, StepEffects

(* Every step leaves the child where the next stage of the job expects it. *)
LEMMA ChildNext ==
  ASSUME Single, Inv, OneThreadInv, FreshInv, SingleInv, [Next]_vars
  PROVE  ChildInv'
<1> USE DEF SingleInv
<1>1. /\ try \in Nat /\ (try > 0 => try \in Procs)
      /\ pc \in Labels /\ opt.InjectionsPerRun \in {0, 1}
      /\ pc = "wait" => ret \in {"join", "verdict"}
      /\ Leaving => ret \in {"attempt", "final", "done"}
      /\ try' = try /\ UNCHANGED thr => Child' = Child
  BY SingleFacts, JobFacts, ChildAfter
<1>2. try > 0 =>
        /\ Child.ws # NoStatus => Child.st \in {"stop", "dead"}
        /\ Child.st = "dead" => Child.ws.Type \in {"Exited", "Signaled"}
  BY <1>1, ReportFacts
<1>3. CASE KernelEffect
  <2> USE DEF ChildInv, Doomed, Leaving, Starting
  <2>1. UNCHANGED <<opt, pc, ret, try, status>> /\ try > 0
    BY <1>1, <1>3 DEF KernelEffect, mainVars, Procs
  <2>2. CASE ExecEffect \/ EarlyEffect
    BY <1>1, <2>1, <2>2, ChildAfter DEF ExecEffect, EarlyEffect
  <2>3. CASE AlarmEffect \/ \E c \in {"good", "bad"} : WriteEffect(c)
    BY <1>1, <2>1, <2>3 DEF AlarmEffect, WriteEffect
  <2>4. CASE StepEffect \/ FaultEffect
    BY <1>1, <2>1, <2>4, ChildAfter DEF StepEffect, FaultEffect
  <2>5. CASE DieEffect
    BY <1>1, <2>1, <2>5, ChildAfter DEF DieEffect
  <2>6. CASE \E s \in {"SIGTRAP", "SIGALRM"} : SignalEffect(s)
    BY <1>1, <2>1, <2>6, ChildAfter DEF SignalEffect
  <2>7. CASE \E w \in WaitStatus : EndEffect(w)
    BY <1>1, <2>1, <2>7, ChildAfter DEF EndEffect
  <2> QED
    BY <1>3, <2>2, <2>3, <2>4, <2>5, <2>6, <2>7 DEF KernelEffect
<1>4. CASE SleeperEffect \/ UNCHANGED vars
  BY <1>1, <1>4 DEF SleeperEffect, mainVars, vars, kernelVars, ChildInv,
     Doomed, Leaving, Starting
<1>5. CASE LaunchEffect
  BY <1>5, ChildAfter DEF LaunchEffect, ChildInv, Doomed, Leaving, Starting
<1>6. CASE FailedEffect
  BY <1>1, <1>2, <1>6, ChildAfter DEF FailedEffect, Stays, Reaps, ChildInv,
     Doomed, Leaving, Starting
<1>7. CASE MainEffect
  <2> USE DEF ChildInv, Doomed, Leaving, Starting
  <2>1. CASE ReportedEffect
    <3>1. try' = try /\ Child'.ws = NoStatus
          /\ Child'.st = IF Child.st = "dead" THEN "gone" ELSE Child.st
      BY <2>1, ChildAfter DEF ReportedEffect, Reaps
    <3>2. Child.st \in {"stop", "dead"} /\ pc = "runwait" /\ try > 0
      BY <1>1, <1>2, <2>1, JobFacts DEF ReportedEffect, Reaps
    <3>3. Child.st = "dead" => opt.tooEarly
      BY <3>2 DEF EndInv
    <3> QED
      BY <1>1, <1>7, <2>1, <3>1, <3>2, <3>3, MainStays DEF ReportedEffect
  <2>2. CASE OptionsEffect \/ TracedEffect \/ LostEffect
    <3>1. try' = try /\ UNCHANGED opt
          /\ \/ OptionsEffect /\ Child' = Child
             \/ TracedEffect /\ Child'.st = "run"
             \/ LostEffect /\ Child' = Child
      BY <1>1, <1>7, <2>2, ChildAfter, MainStays
         DEF OptionsEffect, TracedEffect, LostEffect, Stays
    <3> QED
      BY <1>1, <3>1, JobFacts DEF OptionsEffect, TracedEffect, LostEffect
  <2>3. CASE ReturnEffect
    BY <1>1, <1>2, <1>7, <2>3, ChildAfter DEF ReturnEffect, Reaps
  <2>4. CASE StopEffect
    BY <1>1, <2>4, StatusNames DEF StopEffect, Stays
  <2>5. CASE RefusedEffect \/ InjectedEffect \/ SteppedEffect
    <3>1. /\ Child.st = "stop" /\ try' = try
          /\ \/ RefusedEffect /\ Child'.st = "dying"
             \/ InjectedEffect /\ Child'.st = "run"
             \/ SteppedEffect /\ Child'.st = "step"
      BY <2>5, ChildAfter
         DEF RefusedEffect, InjectedEffect, SteppedEffect, Killed
    <3> QED
      BY <1>1, <3>1 DEF RefusedEffect, InjectedEffect, SteppedEffect
  <2>6. CASE CleanupEffect
    BY <1>1, <1>2, <2>6, ChildAfter DEF CleanupEffect, Stays, Reaps
  <2>7. CASE JudgedEffect \/ FinishEffect
    <3>1. try' = try /\ (Killed => Child'.st = "dying")
      BY <2>7, ChildAfter DEF JudgedEffect, FinishEffect, Killed
    <3>2. UNCHANGED thr => Child' = Child
      BY <1>1, <3>1
    <3>3. CASE JudgedEffect
      <4>1. \/ pc' = "final" /\ Child' = Child
            \/ pc' = "cleanup" /\ Child' = Child
               /\ Child.st \notin {"gone", "stop"}
            \/ pc' = "cleanup" /\ Child'.st = "dying"
        BY <3>1, <3>2, <3>3 DEF JudgedEffect, Stays
      <4>2. pc = "verdict" /\ UNCHANGED <<opt, try, status>>
        BY <1>7, <3>3 DEF JudgedEffect, MainEffect
      <4> QED
        BY <4>1, <4>2, StatusNames
    <3>4. CASE FinishEffect
      <4>1. \/ Child'.st = "dying"
            \/ Child' = Child /\ Child.st # "stop"
        BY <3>1, <3>2, <3>4 DEF FinishEffect, Stays
      <4>2. pc = "final" /\ pc' = "cleanup" /\ UNCHANGED <<opt, try, status>>
        BY <1>7, <3>4 DEF FinishEffect, MainEffect
      <4> QED
        BY <4>1, <4>2
    <3> QED
      BY <2>7, <3>3, <3>4
  <2> QED
    BY <1>5, <1>6, <1>7, <2>1, <2>2, <2>3, <2>4, <2>5, <2>6,
       <2>7 DEF MainEffect
<1> QED
  BY <1>3, <1>4, <1>7, StepEffects

-----------------------------------------------------------------------------
(* What holds for workloads of any number of threads.                      *)

(* A step changes at most one process, which exists, and no step takes a   *)
(* fault back.                                                             *)
Touches(j) ==
  /\ \A k \in Procs : k # j => proc'[k] = proc[k]
  /\ proc[j].hit => proc'[j].hit

(* Every change of one process is of this kind.                            *)
LEMMA TouchFacts ==
  ASSUME proc \in [Procs -> Process], NEW j \in Procs
  PROVE  /\ \A p : proc' = [proc EXCEPT ![j].pend = p] => Touches(j)
         /\ \A p : proc' = [proc EXCEPT ![j].armed = FALSE, ![j].pend = p] =>
              Touches(j)
         /\ proc' = [proc EXCEPT ![j].armed = TRUE] => Touches(j)
         /\ proc' = [proc EXCEPT ![j].hit = TRUE] =>
              Touches(j) /\ proc'[j].hit
         /\ \A w : proc' = [proc EXCEPT ![j].wrote = w] => Touches(j)
         /\ \A e : EndProcess(j, e) => Touches(j)
         /\ UNCHANGED proc => Touches(j)
<1>1. \A p : proc' = [proc EXCEPT ![j].pend = p] => Touches(j)
  BY DEF Touches, Process
<1>2. \A p : proc' = [proc EXCEPT ![j].armed = FALSE, ![j].pend = p] => Touches(j)
  BY DEF Touches, Process
<1>3. proc' = [proc EXCEPT ![j].armed = TRUE] => Touches(j)
  BY DEF Touches, Process
<1>4. proc' = [proc EXCEPT ![j].hit = TRUE] => Touches(j) /\ proc'[j].hit
  BY DEF Touches, Process
<1>5. \A w : proc' = [proc EXCEPT ![j].wrote = w] => Touches(j)
  BY DEF Touches, Process
<1>6. \A e : proc' = [proc EXCEPT ![j].ends = e] => Touches(j)
  BY DEF Touches, Process
<1>7. UNCHANGED proc => Touches(j)
  BY DEF Touches
<1>8. \A e : EndProcess(j, e) => Touches(j)
  BY <1>6, <1>7 DEF EndProcess
<1> QED
  BY <1>1, <1>2, <1>3, <1>4, <1>5, <1>7, <1>8

(* So a step touches no process of a run to come.                          *)
LEMMA RunsAfter ==
  ASSUME Inv, [Next]_vars
  PROVE  /\ try' = try \/ (Launch /\ try' = try + 1)
         /\ UNCHANGED proc \/ \E j \in Procs : j <= try' /\ Touches(j)
<1> USE DEF Inv, ThreadInv
<1>1. /\ thr \in [Tids -> Thread] /\ proc \in [Procs -> Process]
      /\ try \in Nat /\ \A t \in Tids : t[1] \in Procs /\ t[1] \in Nat
      /\ \A k \in Procs : Leader(k) \in Tids /\ Leader(k)[1] = k /\ k \in Nat
  BY UIntMaxAssumption, TidFacts DEF TypeOK, Procs
<1>2. \A t \in Tids : thr[t].st # "none" => t[1] <= try
  BY <1>1 DEF KnownInv
<1>3. pc \notin {"attempt", "exit1"} => try \in Procs
  BY RunExists
<1>4. \A k \in Procs : (\E t \in ThreadsOf(k) : Alive(t)) => k <= try
  BY <1>2 DEF ThreadsOf, Alive
<1>5. CASE UNCHANGED vars \/ Over
  BY <1>5 DEF Over, vars, kernelVars, mainVars
<1>6. CASE Kernel \/ Workload
  <2>1. try' = try
    BY <1>6 DEF Kernel, Workload, mainVars
  <2>2. ASSUME NEW k \in Procs, AlarmFires(k) PROVE k <= try /\ Touches(k)
    BY <1>1, <1>4, <2>2, TouchFacts DEF AlarmFires
  <2>3. ASSUME NEW t \in Tids, NEW s \in {"SIGTRAP", "SIGALRM"},
               StopOnSignal(t, s)
        PROVE  t[1] <= try /\ Touches(t[1])
    BY <1>1, <1>2, <2>3, TouchFacts DEF StopOnSignal, Running
  <2>4. ASSUME NEW t \in Tids, NEW c \in Chunk, WriteOutput(t, c)
        PROVE  t[1] <= try /\ Touches(t[1])
    BY <1>1, <1>2, <2>4, TouchFacts DEF WriteOutput, MayCall
  <2>5. ASSUME NEW t \in Tids, NEW c \in ExitCodes, ExitGroup(t, c)
        PROVE  t[1] <= try /\ Touches(t[1])
    BY <1>1, <1>2, <2>5, TouchFacts DEF ExitGroup, MayCall
  <2>6. ASSUME NEW k \in Procs, OomKill(k) PROVE k <= try /\ Touches(k)
    BY <1>1, <1>4, <2>6, TouchFacts DEF OomKill
  <2>7. \/ UNCHANGED proc
        \/ \E k \in Procs : AlarmFires(k) \/ OomKill(k)
        \/ \E t \in Tids, s \in {"SIGTRAP", "SIGALRM"} : StopOnSignal(t, s)
        \/ \E t \in Tids, c \in Chunk : WriteOutput(t, c)
        \/ \E t \in Tids, c \in ExitCodes : ExitGroup(t, c)
    BY <1>6 DEF Kernel, Workload, ChildExec, ChildDiesEarly, StepDone, Die,
       CloneStop, ThreadStop, Fault, ThreadExit, Clone
  <2> QED
    BY <1>1, <2>1, <2>2, <2>3, <2>4, <2>5, <2>6, <2>7
<1>7. CASE Sleeper
  <2>1. try' = try /\ (UNCHANGED proc \/ SleeperKills)
    BY <1>7 DEF Sleeper, SleeperWakes, SleeperPicks, SleeperFindsNone,
       SleeperKills, kernelVars, mainVars
  <2>2. CASE SleeperKills
    <3>1. target \in Tids /\ thr[target].st # "none"
      BY <2>2 DEF SleeperKills, KnownInv, TypeOK
    <3>2. \/ UNCHANGED proc
          \/ \E p : proc' = [proc EXCEPT ![target[1]].pend = p]
      BY <2>2 DEF SleeperKills
    <3>3. UNCHANGED proc \/ Touches(target[1])
      BY <1>1, <3>1, <3>2, TouchFacts
    <3> QED
      BY <1>1, <1>2, <2>1, <3>1, <3>3
  <2> QED
    BY <2>1, <2>2
<1>8. CASE Main
  <2>1. CASE Launch
    <3>1. try' = try + 1 /\ try + 1 \in Procs
      BY <2>1, AllowedFacts DEF Launch, Decremented, AttemptsInv, Procs
    <3>2. Touches(try + 1)
      BY <1>1, <2>1, <3>1, TouchFacts DEF Launch
    <3> QED
      BY <1>1, <2>1, <3>1, <3>2
  <2>2. CASE StopFails \/ FlipRefused \/ StepRefused \/ VerdictReached \/ Finish
    <3>1. try' = try /\ try \in Procs
      BY <1>3, <2>2 DEF StopFails, FlipRefused, StepRefused, VerdictReached,
         Finish, InjectionFails
    <3>2. PtraceKill(try) =>
            UNCHANGED proc \/ EndProcess(try, Signaled("SIGKILL"))
      BY DEF PtraceKill
    <3>3. InjectionFails =>
            UNCHANGED proc \/ EndProcess(try, Signaled("SIGKILL"))
      BY DEF InjectionFails
    <3>4. UNCHANGED proc \/ PtraceKill(try) \/ InjectionFails
      BY <2>2 DEF StopFails, FlipRefused, StepRefused, VerdictReached, Finish
    <3>5. UNCHANGED proc \/ Touches(try)
      BY <1>1, <3>1, <3>2, <3>3, <3>4, TouchFacts
    <3> QED
      BY <1>1, <3>1, <3>5
  <2>3. CASE FlipRead \/ StepFlip
    <3>1. target \in Tids /\ thr[target].st # "none" /\ try' = try
          /\ proc' = [proc EXCEPT ![target[1]].hit = TRUE]
      BY <2>3 DEF FlipRead, StepFlip, InjectionSucceeds, KnownInv, TypeOK
    <3> QED
      BY <1>1, <1>2, <3>1, TouchFacts
  <2> QED
    BY <1>8, <2>1, <2>2, <2>3 DEF Main, GiveUp, RunWaits, RunTraces, RunFails,
       RunDies, RunSucceeds, SkipClone, SkipThreadStop, SkipThreadEnd,
       SkipReturns, WaitNoChild,
       StopSucceeds, FlipNoRegs, FlipUnknown, FlipWritten, StepAsserts,
       CleanupPoll, CleanupBlock, VerdictAsserts, VerdictNoOrig, kernelVars,
       mainVars
<1> QED
  BY <1>5, <1>6, <1>7, <1>8 DEF Next

(* Runs to come stay untouched.                                            *)
LEMMA FreshNext ==
  ASSUME Inv, FreshInv, [Next]_vars
  PROVE  FreshInv'
<1>1. try \in Nat /\ \A k \in Procs : k \in Nat
  BY JobFacts DEF Procs
<1>2. \A k \in Procs : k > try' => k > try /\ proc'[k] = proc[k]
  BY <1>1, RunsAfter DEF Touches
<1> QED
  BY <1>2 DEF FreshInv

(* A fault stays in the run it was injected into.                          *)
LEMMA HitsStay ==
  ASSUME Inv, [Next]_vars
  PROVE  (\E k \in 1..try : proc[k].hit) => \E k \in 1..try' : proc'[k].hit
<1>1. try \in Nat /\ (try' = try \/ try' = try + 1) /\ try \in 0..UIntMax
  BY JobFacts, RunsAfter DEF Inv, TypeOK
<1>2. 1..try \subseteq Procs /\ 1..try \subseteq 1..try'
  BY <1>1, UIntMaxAssumption DEF Procs
<1>3. \A k \in Procs : proc[k].hit => proc'[k].hit
  BY RunsAfter DEF Touches
<1> QED
  BY <1>2, <1>3

(* A verdict is one the options allow.                                     *)
LEMMA VerdictAllowed ==
  ASSUME Inv, ~NeedsOrig, opt.NoRedirect \/ WaitedState.Type # "Signaled"
  PROVE  Verdict \in Contract!Reports(opt)
<1>1. opt.NoRedirect \in BOOLEAN /\ opt.OrigSet \in BOOLEAN
      /\ opt.DetectionExitCode \in {"666", "codeDetected"}
  BY ConfigsAssumption DEF Inv, TypeOK, Config
<1>2. CASE opt.NoRedirect
  BY <1>2 DEF Verdict, Contract!Reports
<1>3. CASE ~opt.NoRedirect /\ WaitedState.Type = "Exited"
  <2>1. WaitedState # Stopped("SIGALRM")
    BY <1>3, StatusNames
  <2>2. WaitedState = Exited("codeDetected") => WaitedState.Val = "codeDetected"
    BY DEF Exited
  <2>3. CASE /\ opt.DetectionExitCode # "666"
             /\ WaitedState.Val = opt.DetectionExitCode
    BY <1>3, <2>3 DEF Verdict, Contract!Reports
  <2>4. CASE ~(/\ opt.DetectionExitCode # "666"
               /\ WaitedState.Val = opt.DetectionExitCode)
    <3>1. opt.OrigSet
      BY <1>1, <1>3, <2>1, <2>2, <2>4 DEF NeedsOrig
    <3>2. Verdict \in {"Masked", "Corrupted"}
      BY <1>3, <2>4 DEF Verdict
    <3> QED
      BY <1>3, <3>1, <3>2 DEF Contract!Reports, Contract!Compared
  <2> QED
    BY <2>3, <2>4
<1>4. CASE ~opt.NoRedirect /\ WaitedState.Type # "Exited"
  <2>1. CASE WaitedState.Val = "SIGALRM"
    BY <1>4, <2>1 DEF Verdict, Contract!Reports
  <2>2. CASE WaitedState.Val # "SIGALRM"
    <3>1. WaitedState # Stopped("SIGALRM") /\ WaitedState # Exited("codeDetected")
      BY <1>4, <2>2, StatusNames DEF Stopped
    <3>2. opt.OrigSet
      BY <1>1, <1>4, <3>1 DEF NeedsOrig
    <3>3. Verdict \in {"Masked", "Exception"}
      BY <1>4, <2>2 DEF Verdict
    <3> QED
      BY <1>4, <3>2, <3>3 DEF Contract!Reports, Contract!Compared
  <2> QED
    BY <2>1, <2>2
<1> QED
  BY <1>1, <1>2, <1>3, <1>4

(* The flow of a job through its stages, for any number of threads.        *)
LEMMA FlowNext ==
  ASSUME Inv, FlowInv, [Next]_vars
  PROVE  FlowInv'
<1> USE DEF Inv, FlowInv
<1> DEFINE Hit == \E k \in 1..try : proc[k].hit
<1>1. Hit => Hit'
  BY HitsStay
<1>2. /\ pc \in Labels /\ opt.InjectionsPerRun \in {0, 1} /\ try \in Nat
      /\ pc = "wait" => ret \in {"join", "verdict"}
      /\ ret \in {"attempt", "join", "verdict", "final", "done"}
      /\ pc \notin {"attempt", "exit1"} => try > 0
      /\ pc \in {"cleanup", "block"} => ret \in {"attempt", "final", "done"}
  BY JobFacts DEF Leaving
<1> HIDE DEF Hit
<1>3. /\ Injecting \/ Abandoned => opt.InjectionsPerRun > 0
      /\ (Judging \/ Judged) /\ opt.InjectionsPerRun > 0 => Hit
      /\ Judged => ftStatus \in Contract!Reports(opt)
      /\ pc = "exit1" => Contract!MayGiveUp(opt)
  BY DEF Hit
<1> DEFINE Goal == /\ Injecting \/ Abandoned => opt.InjectionsPerRun > 0
                   /\ (Judging \/ Judged) /\ opt.InjectionsPerRun > 0 => Hit
                   /\ Judged => ftStatus \in Contract!Reports(opt)
                   /\ pc = "exit1" => Contract!MayGiveUp(opt)
<1>4. SUFFICES Goal'
  BY DEF Hit
<1> HIDE DEF Inv, FlowInv
<1> USE DEF Injecting, Abandoned, Judging, Judged, Leaving
<1>5. CASE UNCHANGED vars \/ Over \/ Kernel \/ Workload
  <2>1. UNCHANGED <<opt, mainVars>>
    BY <1>5 DEF Over, Kernel, Workload, vars
  <2> QED
    BY <1>1, <1>3, <2>1 DEF mainVars, Contract!Reports, Contract!MayGiveUp
<1>6. CASE Sleeper
  <2>1. UNCHANGED <<opt, ret, try, ftStatus>> /\ (pc' = pc \/ pc' = "abort")
    BY <1>6 DEF Sleeper, SleeperWakes, SleeperPicks, SleeperFindsNone,
       SleeperKills, Abort, mainVars
  <2> QED
    BY <1>1, <1>3, <2>1 DEF Contract!Reports, Contract!MayGiveUp
<1>7. CASE GiveUp
  <2>1. opt.InjectionsPerRun > 0 \/ opt.MaxInjectionAttempts = 1
    BY <1>2, <1>3, <1>7, UIntMaxAssumption, AllowedFacts
       DEF GiveUp, Decremented, Inv, AttemptsInv
  <2> QED
    BY <1>7, <2>1 DEF GiveUp, Contract!MayGiveUp
<1>8. CASE Launch \/ RunWaits \/ RunTraces \/ RunFails \/ RunSucceeds
  BY <1>2, <1>3, <1>8, RunsAfter
     DEF Launch, RunWaits, RunTraces, RunFails, RunSucceeds
<1>9. CASE \E t \in Tids : \/ SkipClone(t) \/ SkipThreadStop(t)
                           \/ SkipThreadEnd(t) \/ SkipReturns(t)
  BY <1>1, <1>2, <1>3, <1>9 DEF SkipClone, SkipThreadStop, SkipThreadEnd,
     SkipReturns, Abort, mainVars, Contract!Reports
<1>10. CASE RunDies \/ WaitNoChild \/ FlipNoRegs \/ StepAsserts \/ VerdictAsserts
  BY <1>10 DEF RunDies, WaitNoChild, FlipNoRegs, StepAsserts, VerdictAsserts,
     Abort
<1>11. CASE StopFails \/ StopSucceeds \/ FlipRefused \/ StepRefused \/ FlipWritten
  BY <1>2, <1>3, <1>11 DEF StopFails, StopSucceeds, FlipRefused, StepRefused,
     FlipWritten, InjectionFails, Abort
<1>12. CASE FlipUnknown \/ VerdictNoOrig
  BY <1>3, <1>12 DEF FlipUnknown, VerdictNoOrig, NeedsOrig, Contract!MayGiveUp
<1>13. CASE FlipRead \/ StepFlip
  <2>1. InjectionSucceeds /\ pc \in {"flip", "stepwait"} /\ killOK
    BY <1>13 DEF FlipRead, StepFlip, Inv, ThreadInv, KnownInv
  <2>2. target \in Tids /\ thr[target].st # "none"
    BY <2>1 DEF Inv, ThreadInv, KnownInv, TypeOK
  <2>3. target[1] \in 1..try /\ target[1] \in Procs
    BY <1>2, <2>2, TidFacts DEF Inv, ThreadInv, KnownInv, Procs
  <2>4. try' = try /\ proc' = [proc EXCEPT ![target[1]].hit = TRUE]
    BY <2>1 DEF InjectionSucceeds
  <2>5. proc'[target[1]].hit
    BY <2>3, <2>4, TouchFacts DEF Inv, TypeOK
  <2>6. Hit'
    BY <2>3, <2>4, <2>5 DEF Hit
  <2> QED
    BY <2>1, <2>6 DEF InjectionSucceeds
<1>14. CASE CleanupPoll \/ CleanupBlock
  BY <1>1, <1>2, <1>3, <1>14 DEF CleanupPoll, CleanupBlock, Contract!Reports
<1>15. CASE VerdictReached
  BY <1>1, <1>2, <1>3, <1>15, VerdictAllowed DEF VerdictReached,
     Contract!Reports
<1>16. CASE Finish
  BY <1>1, <1>3, <1>16 DEF Finish, Contract!Reports
<1> QED
  BY <1>5, <1>6, <1>7, <1>8, <1>9, <1>10, <1>11, <1>12, <1>13, <1>14, <1>15,
     <1>16 DEF Next, Main

(* The only thread of a workload creates none, and is the only one the     *)
(* sleeping thread can choose and the injector can flip.                   *)
LEMMA OneThreadNext ==
  ASSUME opt.Threads = 0, Inv, OneThreadInv, [Next]_vars
  PROVE  OneThreadInv'
<1>1. /\ pc = "wait" => ret \in {"join", "verdict"}
      /\ pc \in {"cleanup", "block"} => ret \in {"attempt", "final", "done"}
      /\ pc \notin {"attempt", "exit1"} => try > 0
      /\ try > 0 => try \in Procs
      /\ sl # "idle" => pc \in {"wait", "join", "abort"}
      /\ sl # "idle" /\ pc = "wait" => ret = "join"
      /\ pc \in {"flip", "stepwait"} => killOK
      /\ childThreads = {} /\ \A t \in Tids : ~Announcing(t)
  BY JobFacts, SoloFacts, UIntMaxAssumption
     DEF Inv, TypeOK, ThreadInv, KnownInv, Procs, Leaving
<1>2. /\ sl = "iter" => rnd = 0
      /\ Injecting /\ (sl = "kill" \/ killOK) => target = ChildPID
      /\ (Judging \/ Judged) /\ opt.InjectionsPerRun > 0 => Run.hit
  BY DEF OneThreadInv, TargetInv, HitInv
<1>3. try' = try /\ try > 0 /\ Run.hit => Run'.hit
  BY <1>1, RunsAfter DEF Touches, Run
<1>4. \A t \in Tids : t[2] # 0 => thr[t].st = "none"
  BY DEF OneThreadInv, SoloInv
<1>5. SoloInv'
  <2>1. CASE Kernel \/ Workload
    BY <1>4, <2>1, KeepsKernel DEF Inv, ThreadInv, Keeps, SoloInv
  <2>2. CASE Main
    <3>1. \A t \in Tids : t[2] # 0 => t # Leader(try + 1)
      BY DEF Leader
    <3> QED
      BY <1>4, <2>2, <3>1, KeepsMain DEF Inv, ThreadInv, Keeps, SoloInv
  <2>3. CASE Sleeper \/ Over \/ UNCHANGED vars
    <3>1. UNCHANGED thr
      BY <2>3 DEF Sleeper, SleeperWakes, SleeperPicks, SleeperFindsNone,
         SleeperKills, Over, vars, kernelVars
    <3> QED
      BY <1>4, <3>1 DEF SoloInv
  <2> QED
    BY <2>1, <2>2, <2>3 DEF Next
<1> USE DEF Injecting, Judging, Judged, Leaving
<1>6. TargetInv' /\ HitInv'
  <2>1. ASSUME UNCHANGED <<opt, pc, ret, try, sleeperVars>>
        PROVE  TargetInv' /\ HitInv'
    BY <1>1, <1>2, <1>3, <2>1 DEF TargetInv, HitInv, sleeperVars, ChildPID
  <2>2. CASE UNCHANGED vars \/ Over \/ Kernel \/ Workload
    BY <2>1, <2>2 DEF Over, Kernel, Workload, vars, mainVars
  <2>3. CASE Sleeper
    <3>1. UNCHANGED <<opt, ret, try>> /\ (pc' = pc \/ pc' = "abort")
      BY <2>3 DEF Sleeper, SleeperWakes, SleeperPicks, SleeperFindsNone,
         SleeperKills, Abort, mainVars
    <3>2. HitInv'
      BY <1>1, <1>2, <1>3, <3>1 DEF HitInv
    <3>3. Cardinality(childThreads) = 0
      BY <1>1, FS_EmptySet
    <3>4. TargetInv'
      BY <1>1, <1>2, <2>3, <3>1, <3>3
         DEF Sleeper, SleeperWakes, SleeperPicks, SleeperFindsNone,
             SleeperKills, TargetInv, sleeperVars, ChildPID
    <3> QED
      BY <3>2, <3>4
  <2>4. CASE Launch
    BY <1>1, <2>4 DEF Launch, TargetInv, HitInv, sleeperVars
  <2>5. CASE RunSucceeds
    BY <1>1, <1>2, <2>5 DEF RunSucceeds, TargetInv, HitInv
  <2>6. CASE FlipRead \/ StepFlip
    <3>1. InjectionSucceeds /\ target = ChildPID /\ try \in Procs
      BY <1>1, <1>2, <2>6 DEF FlipRead, StepFlip
    <3>2. proc' = [proc EXCEPT ![try].hit = TRUE] /\ try' = try
      BY <3>1 DEF InjectionSucceeds, ChildPID, Leader
    <3>3. Run'.hit
      BY <3>1, <3>2, TouchFacts DEF Inv, TypeOK, Run
    <3> QED
      BY <1>1, <2>6, <3>1, <3>3
         DEF InjectionSucceeds, FlipRead, StepFlip, TargetInv, HitInv,
             sleeperVars
  <2>7. CASE Main /\ ~Launch /\ ~RunSucceeds /\ ~FlipRead /\ ~StepFlip
    <3>1. UNCHANGED <<opt, try, sleeperVars>>
      BY <2>7 DEF Main, GiveUp, RunWaits, RunTraces, RunFails, RunDies,
         SkipClone, SkipThreadStop, SkipThreadEnd, SkipReturns, WaitNoChild,
         StopFails, StopSucceeds, FlipNoRegs, FlipUnknown, FlipRefused,
         FlipWritten, StepRefused, StepAsserts, InjectionFails, CleanupPoll,
         CleanupBlock, VerdictAsserts, VerdictNoOrig, VerdictReached, Finish,
         mainVars
    <3>2. Injecting' => Injecting
      BY <1>1, <2>7 DEF Main, GiveUp, RunWaits, RunTraces, RunFails, RunDies,
         SkipClone, SkipThreadStop, SkipThreadEnd, SkipReturns, WaitNoChild,
         StopFails, StopSucceeds, FlipNoRegs, FlipUnknown, FlipRefused,
         FlipWritten, StepRefused, StepAsserts, InjectionFails, CleanupPoll,
         CleanupBlock, VerdictAsserts, VerdictNoOrig, VerdictReached, Finish,
         mainVars, Abort
    <3>3. (Judging \/ Judged)' /\ opt.InjectionsPerRun > 0 => Judging \/ Judged
      BY <1>1, <2>7 DEF Main, GiveUp, RunWaits, RunTraces, RunFails, RunDies,
         SkipClone, SkipThreadStop, SkipThreadEnd, SkipReturns, WaitNoChild,
         StopFails, StopSucceeds, FlipNoRegs, FlipUnknown, FlipRefused,
         FlipWritten, StepRefused, StepAsserts, InjectionFails, CleanupPoll,
         CleanupBlock, VerdictAsserts, VerdictNoOrig, VerdictReached, Finish,
         mainVars, Abort
    <3> QED
      BY <1>1, <1>2, <1>3, <3>1, <3>2, <3>3
         DEF TargetInv, HitInv, sleeperVars, ChildPID
  <2> QED
    BY <2>2, <2>3, <2>4, <2>5, <2>6, <2>7 DEF Next, Main
<1> QED
  BY <1>5, <1>6 DEF OneThreadInv

-----------------------------------------------------------------------------
(* Workloads of one thread that nobody else kills: what each step keeps.   *)

(* The two effects that set a flag of the run.                             *)
LEMMA FlagsAfter ==
  /\ InjectedEffect =>
       /\ Run'.pend = Run.pend /\ Run'.armed = Run.armed /\ Run'.hit
       /\ Run'.wrote = Run.wrote /\ Run'.ends = Run.ends
       /\ \A k \in Procs : k # try => proc'[k] = proc[k]
  /\ AlarmEffect /\ try' = try =>
       /\ Run'.pend = Run.pend \cup {"SIGALRM"} /\ ~Run'.armed
       /\ Run'.hit = Run.hit
       /\ Run'.wrote = Run.wrote /\ Run'.ends = Run.ends
       /\ \A k \in Procs : k # try => proc'[k] = proc[k]
BY DEF InjectedEffect, AlarmEffect, RunGoes, Run

(* Between two launches the main thread changes no signal, timer or output *)
(* of a run.                                                               *)
LEMMA MainKeeps ==
  ASSUME Inv, MainEffect, ~LaunchEffect
  PROVE  /\ try' = try
         /\ Run'.pend = Run.pend /\ Run'.armed = Run.armed
         /\ Run'.wrote = Run.wrote
         /\ Child' = Child \/ Child'.ws = NoStatus
         /\ \A k \in Procs : k # try => proc'[k] = proc[k]
<1>1. try' = try
  BY MainStays
<1> DEFINE Kept == /\ Run'.pend = Run.pend /\ Run'.armed = Run.armed
                   /\ Run'.wrote = Run.wrote
                   /\ \A k \in Procs : k # try => proc'[k] = proc[k]
           Told == Child' = Child \/ Child'.ws = NoStatus
<1>2. UNCHANGED proc => Kept
  BY <1>1, ChildAfter
<1>3. \A a, e : RunGoes(Run.pend, Run.armed, a, Run.wrote, e) => Kept
  BY <1>1, RunAfter
<1>4. \A s : ChildGoes(s, NoStatus) => Told
  BY <1>1, ChildAfter
<1> HIDE DEF Kept, Told
<1>5. Stays => Kept /\ Told
  BY <1>1, <1>2, ChildAfter DEF Stays, Told
<1>6. Reaps => Kept /\ Told
  BY <1>2, <1>4 DEF Reaps
<1>7. Killed => Kept /\ Told
  BY <1>3, <1>4 DEF Killed
<1>8. TracedEffect \/ SteppedEffect => Kept /\ Told
  BY <1>2, <1>4 DEF TracedEffect, SteppedEffect
<1>9. InjectedEffect => Kept /\ Told
  BY <1>1, <1>4, FlagsAfter DEF InjectedEffect, Kept
<1>10. Kept /\ Told
  BY <1>5, <1>6, <1>7, <1>8, <1>9
     DEF MainEffect, ReportedEffect, OptionsEffect, LostEffect, ReturnEffect,
         StopEffect, RefusedEffect, CleanupEffect, JudgedEffect, FinishEffect,
         FailedEffect
<1> QED
  BY <1>1, <1>10 DEF Kept, Told

(* The sleeping thread only finds the child gone when it is. *)
LEMMA ChosenNext ==
  ASSUME Single, Inv, OneThreadInv, FreshInv, SingleInv, [Next]_vars
  PROVE  ChosenInv'
<1>0. AloneInv /\ ChildInv /\ ChosenInv
  BY DEF SingleInv
<1>1. /\ pc = "wait" => ret \in {"join", "verdict"}
      /\ pc \in {"flip", "stepwait"} => killOK
  BY JobFacts DEF Inv, ThreadInv, KnownInv
<1>2. CASE KernelEffect
  <2>1. try' = try /\ UNCHANGED <<pc, ret, sleeperVars>>
    BY <1>2 DEF KernelEffect, mainVars
  <2>2. Child.st = "gone" => Child'.st = "gone"
    BY <1>2, <2>1, ChildAfter DEF KernelEffect, ExecEffect, EarlyEffect,
       AlarmEffect, StepEffect, DieEffect, FaultEffect, SignalEffect,
       WriteEffect, EndEffect
  <2> QED
    BY <1>0, <2>1, <2>2 DEF ChosenInv, Injecting, sleeperVars
<1>3. CASE SleeperEffect \/ UNCHANGED vars
  <2>1. Child' = Child /\ UNCHANGED <<pc, ret>>
    BY <1>3, ChildAfter DEF SleeperEffect, mainVars, vars, kernelVars
  <2>2. CASE UNCHANGED <<sl, killOK>>
    BY <1>0, <2>1, <2>2 DEF ChosenInv, Injecting
  <2>3. CASE sl' # "idle" \/ killOK' = (Child.st # "gone")
    BY <2>1, <2>3 DEF ChosenInv
  <2> QED
    BY <1>3, <2>2, <2>3 DEF SleeperEffect, vars, sleeperVars
<1>4. CASE MainEffect
  <2>1. ~LaunchEffect => try' = try
    BY <1>4, MainStays
  <2>2. CASE ReturnEffect
    <3>1. Child.st # "gone"
      BY <1>0, <1>4, <2>2, ReportFacts, JobFacts, SingleFacts
         DEF ReturnEffect, Reaps
    <3> QED
      BY <1>0, <1>1, <2>2, <3>1
         DEF ReturnEffect, ChosenInv, Injecting, sleeperVars
  <2>3. CASE StopEffect \/ SteppedEffect
    BY <1>0, <1>1, <2>3
       DEF StopEffect, SteppedEffect, ChosenInv, Injecting, sleeperVars
  <2>4. CASE CleanupEffect
    <3>1. ret \in {"attempt", "final", "done"}
      BY <2>4, JobFacts DEF CleanupEffect, Leaving
    <3> QED
      BY <1>0, <2>4, <3>1 DEF CleanupEffect, ChosenInv, Injecting
  <2>5. CASE ~ReturnEffect /\ ~StopEffect /\ ~SteppedEffect /\ ~CleanupEffect
    BY <1>4, <2>5 DEF MainEffect, LaunchEffect, ReportedEffect, OptionsEffect,
       TracedEffect, LostEffect, RefusedEffect, InjectedEffect, JudgedEffect,
       FinishEffect, FailedEffect, ChosenInv, Injecting
  <2> QED
    BY <2>2, <2>3, <2>4, <2>5
<1> QED
  BY <1>2, <1>3, <1>4, StepEffects

(* Every end of the child has its reason.                                  *)
LEMMA EndNext ==
  ASSUME Single, Inv, OneThreadInv, FreshInv, SingleInv, [Next]_vars
  PROVE  EndInv'
<1>0. AloneInv /\ ChildInv /\ ChosenInv /\ EndInv
  BY DEF SingleInv
<1>1. /\ pc = "wait" => ret \in {"join", "verdict"}
      /\ pc \notin {"attempt", "exit1"} => try > 0
  BY JobFacts
<1>2. /\ \A s, s2 : Stopped(s) = Stopped(s2) => s = s2
      /\ \A s : Stopped(s) # NoStatus /\ Stopped(s).Type = "Stopped"
      /\ \A c : Exited(c).Type = "Exited"
      /\ NoStatus.Type = "Invalid"
  BY DEF Stopped, Exited, NoStatus
<1> USE DEF Starting, Injecting, Judging, Doomed
<1>3. CASE KernelEffect
  <2>1. UNCHANGED <<opt, pc, ret, status, try>> /\ pc \notin Terminal
    BY <1>3 DEF KernelEffect, mainVars
  <2>2. ChildPID' = ChildPID
    BY <2>1, ChildAfter
  <2>3. CASE ExecEffect
    BY <1>0, <1>1, <1>2, <2>1, <2>2, <2>3, ChildAfter DEF ExecEffect, EndInv
  <2>4. CASE EarlyEffect
    BY <1>0, <1>1, <1>2, <2>1, <2>2, <2>4, ChildAfter
       DEF EarlyEffect, EndInv, ChildInv
  <2>5. CASE AlarmEffect \/ \E c \in {"good", "bad"} : WriteEffect(c)
    <3>1. Child' = Child
      BY <2>1, <2>5, ChildAfter DEF AlarmEffect, WriteEffect
    <3>2. \A c \in {"good", "bad"} : WriteEffect(c) =>
            Run'.ends = Run.ends /\ Run'.hit = Run.hit
      BY <2>1, RunAfter DEF WriteEffect
    <3>3. Run'.ends = Run.ends /\ Run'.hit = Run.hit
      BY <2>1, <2>5, <3>2, FlagsAfter
    <3> QED
      BY <1>0, <2>1, <2>2, <3>1, <3>3 DEF EndInv
  <2>6. CASE StepEffect
    BY <1>0, <1>2, <2>1, <2>2, <2>6, ChildAfter DEF StepEffect, EndInv
  <2>7. CASE DieEffect
    BY <1>0, <1>1, <1>2, <2>1, <2>2, <2>7, ChildAfter, SingleFacts, ReportFacts
       DEF DieEffect, EndInv
  <2>8. CASE FaultEffect
    BY <1>0, <1>2, <2>1, <2>2, <2>8, ChildAfter DEF FaultEffect, EndInv
  <2>9. CASE \E s \in {"SIGTRAP", "SIGALRM"} : SignalEffect(s)
    <3>1. /\ Child'.st = "stop" /\ Run'.ends = Run.ends /\ Run'.hit = Run.hit
          /\ Child'.ws # Stopped("SIGSEGV")
      BY <1>2, <2>1, <2>9, ChildAfter, RunAfter DEF SignalEffect
    <3> QED
      BY <1>0, <2>1, <2>2, <3>1 DEF EndInv
  <2>10. ASSUME NEW w \in WaitStatus, EndEffect(w) PROVE EndInv'
    <3>1. /\ Child'.st = "dying" /\ Child'.ws = NoStatus
          /\ Run'.ends = w /\ Run'.hit = Run.hit
          /\ w.Type = "Exited"
          /\ Child.st = "run" \/ (Child.st = "step" /\ opt.syscallStep)
      BY <1>2, <2>1, <2>10, ChildAfter, RunAfter DEF EndEffect
    <3> QED
      BY <1>0, <1>1, <1>2, <2>1, <2>2, <3>1 DEF EndInv, ChildInv
  <2> QED
    BY <1>3, <2>3, <2>4, <2>5, <2>6, <2>7, <2>8, <2>9, <2>10 DEF KernelEffect
<1>4. CASE SleeperEffect \/ UNCHANGED vars
  <2>1. UNCHANGED <<opt, thr, try, pc, ret, status>>
    BY <1>4 DEF SleeperEffect, mainVars, vars, kernelVars
  <2>2. Child' = Child /\ ChildPID' = ChildPID
    BY <2>1, ChildAfter
  <2>3. Run'.ends = Run.ends /\ Run'.hit = Run.hit
    BY <1>4, <2>1, ChildAfter, RunAfter DEF SleeperEffect, vars, kernelVars
  <2> QED
    BY <1>0, <2>1, <2>2, <2>3 DEF EndInv
<1>5. CASE MainEffect
  <2>1. UNCHANGED opt /\ (~LaunchEffect => try' = try /\ ChildPID' = ChildPID)
    BY <1>5, ChildAfter, MainStays
  <2>2. CASE LaunchEffect
    BY <1>2, <2>2, ChildAfter DEF LaunchEffect, EndInv
  <2>3. CASE \/ ReportedEffect \/ OptionsEffect \/ TracedEffect \/ LostEffect
    <3>1. /\ try' = try /\ Run' = Run /\ Starting
          /\ Child'.st \in {"run", "gone", "stop", "forked", "dying"}
          /\ pc' \notin {"join", "verdict", "stepwait"}
          /\ Child'.st = "dying" => Child.st = "dying"
      BY <1>0, <1>1, <2>3, ChildAfter DEF ReportedEffect, OptionsEffect,
         TracedEffect, LostEffect, Reaps, Stays, ChildInv
    <3>2. Starting' => UNCHANGED opt /\ pc' \in {"setopts", "cont"}
      BY <2>1, <2>3 DEF ReportedEffect, OptionsEffect, TracedEffect, LostEffect
    <3> QED
      BY <1>0, <2>1, <3>1, <3>2 DEF EndInv
  <2>4. CASE ReturnEffect
    <3>1. /\ Child.st \in {"stop", "dead"} /\ Run' = Run /\ pc = "wait"
          /\ pc' \in {"join", "verdict"}
          /\ Child'.st \in {"stop", "gone"} /\ Child'.ws = NoStatus
          /\ status'.Pid = ChildPID' /\ status'.Status = Child.ws
          /\ pc' = ret
      <4>1. Child.st \in {"stop", "dead"} /\ pc = "wait"
            /\ pc' \in {"join", "verdict"}
        BY <1>0, <1>1, <1>5, <2>4, ReportFacts, SingleFacts, JobFacts
           DEF ReturnEffect, Reaps
      <4>2. try' = try /\ Reaps /\ UNCHANGED proc
        BY <2>4 DEF ReturnEffect, Reaps
      <4>3. Child'.st \in {"stop", "gone"} /\ Child'.ws = NoStatus
            /\ Run' = Run
        BY <4>1, <4>2, ChildAfter DEF Reaps
      <4> QED
        BY <2>4, <4>1, <4>2, <4>3, ChildAfter DEF ReturnEffect
    <3>2. Child.st = "stop" => Child.ws.Type = "Stopped"
      BY <1>0, <1>1, <1>2, <3>1 DEF ChildInv
    <3> QED
      BY <1>0, <1>1, <2>1, <3>1, <3>2 DEF EndInv
  <2>5. CASE StopEffect
    <3>1. /\ Run' = Run /\ Child' = Child /\ ChildPID' = ChildPID
          /\ UNCHANGED status
          /\ pc = "join" /\ pc' \in {"attempt", "cleanup", "flip"}
      BY <2>1, <2>5, ChildAfter DEF StopEffect, Stays
    <3> QED
      BY <1>0, <2>1, <3>1 DEF EndInv
  <2>6. CASE InjectedEffect
    <3>1. /\ Child'.st = "run" /\ Run'.ends = Run.ends
          /\ pc \in {"flip", "stepwait"} /\ pc' = "wait" /\ ret' = "verdict"
      BY <2>6, ChildAfter, FlagsAfter DEF InjectedEffect
    <3> QED
      BY <1>0, <2>1, <3>1 DEF EndInv
  <2>7. CASE SteppedEffect
    <3>1. /\ Child'.st = "step" /\ Child'.ws = NoStatus /\ Run' = Run
          /\ pc = "flip" /\ pc' = "stepwait"
      BY <2>7, ChildAfter DEF SteppedEffect
    <3> QED
      BY <1>0, <1>2, <2>1, <3>1 DEF EndInv
  <2>8. CASE RefusedEffect \/ JudgedEffect \/ FinishEffect \/ FailedEffect
    BY <2>8 DEF RefusedEffect, JudgedEffect, FinishEffect, FailedEffect, EndInv
  <2>9. CASE CleanupEffect
    <3>1. ret \in {"attempt", "final", "done"}
      BY <2>9, JobFacts DEF CleanupEffect, Leaving
    <3> QED
      BY <2>9, <3>1 DEF CleanupEffect, EndInv
  <2> QED
    BY <1>5, <2>2, <2>3, <2>4, <2>5, <2>6, <2>7, <2>8, <2>9 DEF MainEffect
<1> QED
  BY <1>3, <1>4, <1>5, StepEffects

(* A job aborts only for the reasons TestJob lists.                        *)
LEMMA AbortNext ==
  ASSUME Single, Inv, OneThreadInv, FreshInv, SingleInv, [Next]_vars
  PROVE  AbortInv'
<1>1. AbortInv /\ ret \in {"attempt", "join", "verdict", "final", "done"}
  BY JobFacts DEF SingleInv
<1>2. CASE KernelEffect \/ SleeperEffect \/ UNCHANGED vars
  BY <1>1, <1>2 DEF KernelEffect, SleeperEffect, vars, mainVars, AbortInv,
     Contract!MayAbort
<1>3. CASE MainEffect
  BY <1>1, <1>3 DEF MainEffect, LaunchEffect, ReportedEffect, OptionsEffect,
     TracedEffect, LostEffect,
     ReturnEffect, StopEffect, RefusedEffect, InjectedEffect, SteppedEffect,
     CleanupEffect, JudgedEffect, FinishEffect, FailedEffect, AbortInv,
     Contract!MayAbort
<1> QED
  BY <1>2, <1>3, StepEffects

(* Whoever reports an alarm has used up its timer.                         *)
LEMMA AlarmNext ==
  ASSUME Single, Inv, OneThreadInv, FreshInv, SingleInv, [Next]_vars
  PROVE  AlarmInv'
<1>0. AloneInv /\ ChildInv /\ ChosenInv /\ EndInv /\ AlarmInv
  BY DEF SingleInv
<1>1. /\ pc \notin {"attempt", "exit1"} => try > 0
      /\ pc = "wait" => ret \in {"join", "verdict"}
      /\ ret \in {"attempt", "join", "verdict", "final", "done"}
  BY JobFacts
<1>2. /\ \A s, s2 : Stopped(s) = Stopped(s2) => s = s2
      /\ \A s : Stopped(s) # NoStatus
      /\ \A s, e : Exited(e) # Stopped(s) /\ Signaled(e) # Stopped(s)
  BY DEF Stopped, Exited, Signaled, NoStatus
<1>3. CASE KernelEffect
  <2>1. UNCHANGED <<opt, pc, ret, status, try>> /\ try > 0
    BY <1>3, UIntMaxAssumption DEF KernelEffect, mainVars, Procs
  <2>2. CASE ExecEffect \/ StepEffect \/ FaultEffect
    BY <1>0, <1>2, <2>1, <2>2, ChildAfter
       DEF ExecEffect, StepEffect, FaultEffect, AlarmInv
  <2>3. CASE EarlyEffect
    BY <1>0, <1>2, <2>1, <2>3, ChildAfter DEF EarlyEffect, AlarmInv
  <2>4. CASE AlarmEffect
    <3>1. ~Run'.armed
      BY <2>1, <2>4, FlagsAfter
    <3> QED
      BY <3>1 DEF AlarmInv
  <2>5. CASE DieEffect
    <3>1. Run.ends.Type \in {"Exited", "Signaled"}
      BY <1>0, <2>1, <2>5, SingleFacts, ReportFacts DEF DieEffect
    <3>2. Run.ends # Stopped("SIGALRM")
      BY <3>1 DEF Stopped
    <3> QED
      BY <1>0, <2>1, <2>5, <3>2, ChildAfter DEF DieEffect, AlarmInv
  <2>6. ASSUME NEW s \in {"SIGTRAP", "SIGALRM"}, SignalEffect(s)
        PROVE  AlarmInv'
    <3>1. /\ Child'.ws = Stopped(s) /\ s \in Run.pend
          /\ Run'.pend = Run.pend \ {s} /\ Run'.armed = Run.armed
      BY <2>1, <2>6, ChildAfter, RunAfter DEF SignalEffect
    <3> QED
      BY <1>0, <1>2, <2>1, <3>1 DEF AlarmInv
  <2>7. ASSUME NEW c \in {"good", "bad"}, WriteEffect(c) PROVE AlarmInv'
    <3>1. /\ Child' = Child
          /\ Run'.pend = Run.pend /\ Run'.armed = Run.armed
      BY <2>1, <2>7, ChildAfter, RunAfter DEF WriteEffect
    <3> QED
      BY <1>0, <2>1, <3>1 DEF AlarmInv
  <2>8. ASSUME NEW w \in WaitStatus, EndEffect(w) PROVE AlarmInv'
    <3>1. /\ Child'.ws = NoStatus
          /\ Run'.pend = Run.pend /\ Run'.armed = Run.armed
      BY <2>1, <2>8, ChildAfter, RunAfter DEF EndEffect
    <3> QED
      BY <1>0, <1>2, <2>1, <3>1 DEF AlarmInv
  <2> QED
    BY <1>3, <2>2, <2>3, <2>4, <2>5, <2>6, <2>7, <2>8 DEF KernelEffect
<1>4. CASE SleeperEffect \/ UNCHANGED vars
  <2>1. UNCHANGED <<thr, try, pc, ret, status>>
    BY <1>4 DEF SleeperEffect, mainVars, vars, kernelVars
  <2>2. Child' = Child
    BY <2>1, ChildAfter
  <2>3. /\ Run'.armed = Run.armed
        /\ Run'.pend = Run.pend \/ Run'.pend = Run.pend \cup {"SIGTRAP"}
    BY <1>4, <2>1, ChildAfter, RunAfter DEF SleeperEffect, vars, kernelVars
  <2> QED
    BY <1>0, <2>1, <2>2, <2>3 DEF AlarmInv
<1>5. CASE MainEffect
  <2>1. CASE LaunchEffect
    BY <1>2, <2>1, ChildAfter DEF LaunchEffect, AlarmInv
  <2>2. CASE ~LaunchEffect
    <3>1. try' = try
      BY <1>5, <2>2, MainStays
    <3>2. /\ Run'.pend = Run.pend /\ Run'.armed = Run.armed
          /\ Child' = Child \/ Child'.ws = NoStatus
      BY <1>5, <2>2, MainKeeps
    <3>3. CASE ReturnEffect
      <4>1. status'.Status = Child.ws /\ try > 0
        BY <1>1, <3>3 DEF ReturnEffect
      <4>2. ~Run.armed => ~Run'.armed
        BY <3>2
      <4>3. Child'.ws = Stopped("SIGALRM") => Child.ws = Stopped("SIGALRM")
        BY <1>2, <3>2
      <4> QED
        BY <1>0, <3>1, <3>2, <4>1, <4>2, <4>3 DEF AlarmInv
    <3>4. CASE ~ReturnEffect
      <4>1. pc' \in {"join", "verdict"} => FALSE
        BY <1>1, <1>5, <2>2, <3>4, JobFacts
           DEF MainEffect, ReportedEffect, OptionsEffect, TracedEffect,
               LostEffect, StopEffect,
               RefusedEffect, InjectedEffect, SteppedEffect, CleanupEffect,
               JudgedEffect, FinishEffect, FailedEffect, Leaving
      <4> QED
        BY <1>0, <1>2, <3>1, <3>2, <4>1 DEF AlarmInv
    <3> QED
      BY <3>3, <3>4
  <2> QED
    BY <2>1, <2>2
<1> QED
  BY <1>3, <1>4, <1>5, StepEffects

(* Output of the workload is only written by it, and only once a run.      *)
LEMMA FileNext ==
  ASSUME Single, Inv, OneThreadInv, FreshInv, SingleInv, [Next]_vars
  PROVE  FileInv'
<1>0. AloneInv /\ ChildInv /\ FileInv
  BY DEF SingleInv
<1>1. /\ pc \notin {"attempt", "exit1"} => try > 0
      /\ pc \in Labels /\ try \in Nat /\ try \in 0..UIntMax /\ UIntMax \in Nat
      /\ pc = "wait" => ret \in {"join", "verdict"}
      /\ Leaving => ret \in {"attempt", "final", "done"}
  BY JobFacts, UIntMaxAssumption DEF Inv, TypeOK
<1>2. proc \in [Procs -> Process] /\ 1..try \subseteq Procs
  BY <1>1 DEF Inv, TypeOK, Procs
<1> DEFINE Wrote == \E k \in 1..try : proc[k].wrote # "none"
           Before == \E k \in 1..(try - 1) : proc[k].wrote # "none"
           Kept == /\ try' = try /\ UNCHANGED <<opt, file>>
                   /\ Run'.wrote = Run.wrote
                   /\ \A k \in Procs : k # try => proc'[k] = proc[k]
<1>3. try' = try /\ (\A k \in Procs : k # try => proc'[k] = proc[k])
        => (Before <=> Before')
  BY <1>1, <1>2
<1>4. try > 0 => (Wrote <=> Before \/ Run.wrote # "none")
  BY <1>1 DEF Run
<1>5. try' = try /\ try > 0 => (Wrote' <=> Before' \/ Run'.wrote # "none")
  BY <1>1 DEF Run
<1>6. ASSUME Kept, Executed' => Executed, Starting' => Starting
      PROVE  FileInv'
  <2>1. Before' <=> Before
    BY <1>3, <1>6
  <2>2. Wrote' <=> Wrote
    BY <1>1, <1>4, <1>5, <1>6, <2>1
  <2> HIDE DEF Wrote, Before
  <2>3. ~opt.NoRedirect =>
          /\ file.data # "none" => Wrote'
          /\ file.hole => Before'
          /\ Starting => Run.wrote = "none"
          /\ try > 0 /\ Executed => file.data = Run.wrote
    BY <1>0, <2>1, <2>2 DEF FileInv, Wrote, Before
  <2>4. ~opt'.NoRedirect =>
          /\ file'.data # "none" => Wrote'
          /\ file'.hole => Before'
          /\ Starting' => Run'.wrote = "none"
          /\ try' > 0 /\ Executed' => file'.data = Run'.wrote
    BY <1>6, <2>3
  <2> QED
    BY <2>4 DEF FileInv, Wrote, Before
<1> HIDE DEF Wrote, Before
<1>7. CASE KernelEffect
  <2>1. /\ UNCHANGED <<opt, pc, ret, try>> /\ pc \notin Terminal /\ try > 0
    BY <1>7, UIntMaxAssumption DEF KernelEffect, mainVars, Procs
  <2>2. CASE ExecEffect
    <3>1. /\ Starting /\ Child.st = "forked" /\ Run' = Run
          /\ UNCHANGED proc
      BY <2>1, <2>2, ChildAfter DEF ExecEffect, Starting
    <3>2. Before' <=> Before
      BY <1>3, <2>1, <3>1
    <3>3. ~opt.NoRedirect =>
            /\ Run'.wrote = "none"
            /\ file'.data = "none"
            /\ file'.hole => Before'
      BY <1>0, <1>4, <2>1, <2>2, <3>1, <3>2 DEF ExecEffect, FileInv, Wrote,
         Before
    <3> QED
      BY <2>1, <3>3 DEF FileInv, Before
  <2>3. ASSUME NEW c \in {"good", "bad"}, WriteEffect(c) PROVE FileInv'
    <3>1. /\ Run'.wrote = c /\ Run.wrote = "none" /\ Child.st \in {"run", "step"}
          /\ \A k \in Procs : k # try => proc'[k] = proc[k]
          /\ file' = [file EXCEPT !.data = IF @ = "none" THEN c ELSE "bad"]
      BY <2>1, <2>3, RunAfter DEF WriteEffect
    <3>2. Executed /\ ~Starting
      BY <1>0, <2>1, <3>1 DEF Executed, ChildInv, Doomed, Starting
    <3>3. Before' <=> Before
      BY <1>3, <2>1, <3>1
    <3>4. Wrote'
      BY <1>5, <2>1, <3>1
    <3>5. file \in [hole : BOOLEAN, data : Chunk]
      BY DEF Inv, TypeOK
    <3>6. ~opt.NoRedirect =>
            /\ file.data = "none" /\ file'.data = Run'.wrote
            /\ file'.hole => Before'
      BY <1>0, <2>1, <3>1, <3>2, <3>3, <3>5 DEF FileInv, Before
    <3> QED
      BY <2>1, <3>2, <3>4, <3>6 DEF FileInv, Wrote, Before, Starting
  <2>4. CASE EarlyEffect
    <3>1. Kept /\ Child'.st = "dead"
      BY <2>1, <2>4, ChildAfter DEF EarlyEffect
    <3>2. pc = "runwait"
      BY <2>4 DEF EarlyEffect
    <3> QED
      BY <1>6, <2>1, <3>1, <3>2 DEF Executed, Starting
  <2>5. CASE StepEffect \/ FaultEffect
    <3>1. Kept /\ Child'.st = "stop" /\ Child.st \in {"run", "step"}
      BY <2>1, <2>5, ChildAfter DEF StepEffect, FaultEffect
    <3> QED
      BY <1>6, <2>1, <3>1 DEF Executed, Starting
  <2>6. CASE AlarmEffect
    <3>1. Kept /\ Child' = Child
      BY <2>1, <2>6, ChildAfter, FlagsAfter DEF AlarmEffect
    <3> QED
      BY <1>6, <2>1, <3>1 DEF Executed, Starting
  <2>7. CASE DieEffect
    <3>1. Kept /\ Child.st = "dying" /\ Child'.st = "dead"
      BY <2>1, <2>7, ChildAfter DEF DieEffect
    <3> QED
      BY <1>6, <2>1, <3>1 DEF Executed, Starting
  <2>8. ASSUME NEW s \in {"SIGTRAP", "SIGALRM"}, SignalEffect(s)
        PROVE  FileInv'
    <3>1. Kept /\ Child.st \in {"run", "step"}
      BY <2>1, <2>8, RunAfter DEF SignalEffect
    <3> QED
      BY <1>6, <2>1, <3>1 DEF Executed, Starting
  <2>9. ASSUME NEW w \in WaitStatus, EndEffect(w) PROVE FileInv'
    <3>1. Kept /\ Child.st \in {"run", "step"}
      BY <2>1, <2>9, RunAfter DEF EndEffect
    <3> QED
      BY <1>6, <2>1, <3>1 DEF Executed, Starting
  <2> QED
    BY <1>7, <2>2, <2>3, <2>4, <2>5, <2>6, <2>7, <2>8, <2>9 DEF KernelEffect
<1>8. CASE SleeperEffect \/ UNCHANGED vars
  <2>1. UNCHANGED <<opt, thr, file, try, pc, ret>>
    BY <1>8 DEF SleeperEffect, mainVars, vars, kernelVars
  <2>2. Child' = Child
    BY <2>1, ChildAfter
  <2>3. UNCHANGED proc \/ \E p : RunGoes(p, Run.armed, Run.hit, Run.wrote, Run.ends)
    BY <1>8 DEF SleeperEffect, vars, kernelVars
  <2>4. Run'.wrote = Run.wrote /\ \A k \in Procs : k # try => proc'[k] = proc[k]
    BY <2>1, <2>3, ChildAfter, RunAfter
  <2> QED
    BY <1>6, <2>1, <2>2, <2>4 DEF Executed, Starting
<1>9. CASE MainEffect
  <2>1. UNCHANGED <<opt, file>>
    BY <1>9, MainStays
  <2>2. CASE LaunchEffect
    <3>1. /\ Starting' /\ ~Executed' /\ try' = try + 1
          /\ Run'.wrote = "none"
      BY <2>2, ChildAfter DEF LaunchEffect, Starting, Executed
    <3>2. \A k \in 1..try : k \in Procs /\ k # try' /\ proc'[k] = proc[k]
      BY <1>1, <1>2, <2>2 DEF LaunchEffect
    <3>3. Wrote => Before' /\ Wrote'
      BY <1>1, <3>1, <3>2 DEF Wrote, Before
    <3>4. Before => Wrote
      BY <1>1 DEF Wrote, Before
    <3>5. ~opt.NoRedirect => /\ file.data # "none" => Wrote'
                             /\ file.hole => Before'
      BY <1>0, <3>3, <3>4 DEF FileInv, Wrote, Before
    <3> QED
      BY <2>1, <3>1, <3>5 DEF FileInv, Wrote, Before
  <2>3. CASE ~LaunchEffect
    <3>1. Kept
      BY <1>9, <2>1, <2>3, MainKeeps
    <3>2. Starting' => Starting
      BY <1>1, <1>9, <2>3
         DEF Starting, MainEffect, ReportedEffect, OptionsEffect,
             TracedEffect, LostEffect, ReturnEffect,
             StopEffect, RefusedEffect, InjectedEffect, SteppedEffect,
             CleanupEffect, JudgedEffect, FinishEffect, FailedEffect, Leaving
    <3>3. Executed' => Executed
      <4>1. UNCHANGED thr => Child' = Child
        BY <3>1, ChildAfter
      <4>2. \A s, w : ChildGoes(s, w) => Child'.st = s
        BY <3>1, ChildAfter
      <4>3. CASE TracedEffect
        BY <4>3 DEF TracedEffect, Executed
      <4>4. CASE ReportedEffect \/ OptionsEffect \/ LostEffect
        BY <4>1, <4>2, <4>4
           DEF ReportedEffect, OptionsEffect, LostEffect, Reaps, Stays, Executed
      <4>5. CASE ReturnEffect
        <5>1. Child.st # "gone"
          BY <1>0, <1>1, <1>9, <4>5, SingleFacts, ReportFacts
             DEF ReturnEffect, Reaps
        <5> QED
          BY <4>5, <5>1 DEF ReturnEffect, Executed
      <4>6. CASE StopEffect \/ InjectedEffect \/ SteppedEffect \/ RefusedEffect
        BY <4>6 DEF StopEffect, InjectedEffect, SteppedEffect, RefusedEffect,
           Executed
      <4>7. CASE CleanupEffect
        <5>1. Child.st = "gone" \/ Doomed
          BY <1>0, <1>1, <4>7 DEF CleanupEffect, ChildInv, Leaving
        <5>2. Child'.st = "gone" \/ Child' = Child
          BY <4>1, <4>2, <4>7 DEF CleanupEffect, Reaps, Stays
        <5>3. pc' \in {"attempt", "final", "done", "block", "cleanup"}
          BY <1>1, <4>7 DEF CleanupEffect, Leaving
        <5> QED
          BY <5>1, <5>2, <5>3 DEF Executed, Doomed
      <4>8. CASE JudgedEffect
        BY <4>8 DEF JudgedEffect, Executed
      <4>9. CASE FinishEffect
        <5>1. Child.st = "stop" \/ Child' = Child
          BY <4>1, <4>9 DEF FinishEffect, Stays
        <5> QED
          BY <4>9, <5>1 DEF FinishEffect, Executed
      <4>10. CASE FailedEffect
        <5>1. Child'.st \in {"gone", Child.st} /\ pc' \in {"exit1", "abort"}
          BY <4>1, <4>2, <4>10 DEF FailedEffect, Reaps, Stays
        <5> QED
          BY <5>1 DEF Executed
      <4> QED
        BY <1>9, <2>3, <4>3, <4>4, <4>5, <4>6, <4>7, <4>8, <4>9, <4>10
           DEF MainEffect
    <3> QED
      BY <1>6, <3>1, <3>2, <3>3
  <2> QED
    BY <2>2, <2>3
<1> QED
  BY <1>7, <1>8, <1>9, StepEffects

(* The SIGTRAP of the injector is consumed before the fault is injected.   *)
LEMMA TrapNext ==
  ASSUME Single, Inv, OneThreadInv, FreshInv, SingleInv, [Next]_vars
  PROVE  TrapInv'
<1>0. AloneInv /\ ChildInv /\ EndInv /\ TrapInv
  BY DEF SingleInv
<1>1. /\ pc = "wait" => ret \in {"join", "verdict"}
      /\ Leaving => ret \in {"attempt", "final", "done"}
      /\ pc \notin {"attempt", "exit1"} => try > 0
      /\ sl # "idle" => pc \in {"wait", "join", "abort"}
      /\ sl # "idle" /\ pc = "wait" => ret = "join"
  BY JobFacts DEF Inv, ThreadInv, KnownInv
<1>2. /\ \A s, s2 : Stopped(s) = Stopped(s2) => s = s2
      /\ \A s : Stopped(s) # NoStatus /\ Stopped(s).Type = "Stopped"
      /\ \A c, s : Exited(c) # Stopped(s) /\ Signaled(c) # Stopped(s)
  BY DEF Stopped, Exited, Signaled, NoStatus
<1>3. SUFFICES ASSUME OwnStops' PROVE TrapInv'
  BY DEF TrapInv
<1>4. UNCHANGED opt
  <2>1. KernelEffect \/ SleeperEffect \/ UNCHANGED vars => UNCHANGED opt
    BY DEF KernelEffect, SleeperEffect, vars
  <2> QED
    BY <2>1, StepEffects, MainStays
<1>5. OwnStops
  BY <1>3, <1>4 DEF OwnStops
<1>6. /\ Starting \/ (Injecting /\ sl # "idle") => Run.pend = {}
      /\ Injecting /\ sl # "idle" => Child.st \in {"run", "gone"} \/ Doomed
      /\ Injecting /\ pc = "wait" /\ sl = "idle" =>
           /\ Child.st = "run" => "SIGTRAP" \in Run.pend
           /\ Child.st = "stop" => "SIGTRAP" \notin Run.pend
      /\ pc = "join" /\ status.Status.Type = "Stopped" =>
           sl = "idle" /\ "SIGTRAP" \notin Run.pend
      /\ pc \in {"flip", "stepwait"} \/ Judging => "SIGTRAP" \notin Run.pend
      /\ Judging /\ pc = "wait" => Child.ws # Stopped("SIGTRAP")
      /\ pc = "verdict" => status.Status # Stopped("SIGTRAP")
  BY <1>0, <1>5 DEF TrapInv
<1> USE DEF Starting, Injecting, Judging, Doomed
<1>7. CASE KernelEffect
  <2>1. UNCHANGED <<pc, ret, status, try, sl>> /\ pc \notin Terminal
    BY <1>7 DEF KernelEffect, mainVars, sleeperVars
  <2>2. CASE ExecEffect
    BY <1>6, <2>1, <2>2, ChildAfter DEF ExecEffect, TrapInv
  <2>3. CASE EarlyEffect
    BY <1>2, <1>6, <2>1, <2>3, ChildAfter DEF EarlyEffect, TrapInv
  <2>4. CASE AlarmEffect
    <3>1. sl = "idle" /\ ~Starting
      BY <1>5, <2>4 DEF AlarmEffect, InTime, OwnStops
    <3>2. Child' = Child /\ Run'.pend = Run.pend \cup {"SIGALRM"}
      BY <2>1, <2>4, ChildAfter, FlagsAfter DEF AlarmEffect
    <3> QED
      BY <1>6, <2>1, <3>1, <3>2 DEF TrapInv
  <2>5. CASE StepEffect
    <3>1. Child.st = "step" /\ Child'.st = "stop" /\ Run' = Run
      BY <2>1, <2>5, ChildAfter DEF StepEffect
    <3>2. ~(pc = "wait")
      BY <1>0, <1>1, <3>1 DEF ChildInv
    <3> QED
      BY <1>6, <2>1, <3>1, <3>2 DEF TrapInv
  <2>6. CASE DieEffect
    <3>1. Run.ends.Type \in {"Exited", "Signaled"}
      BY <1>0, <2>1, <2>6, <1>7, ReportFacts DEF DieEffect, KernelEffect
    <3>2. Run.ends # Stopped("SIGTRAP")
      BY <1>2, <3>1
    <3>3. Child.st = "dying" /\ Child'.st = "dead" /\ Child'.ws = Run.ends
          /\ Run' = Run
      BY <2>1, <2>6, ChildAfter DEF DieEffect
    <3> QED
      BY <1>6, <2>1, <3>2, <3>3 DEF TrapInv
  <2>7. CASE FaultEffect
    <3>1. Child.st \in {"run", "step"} /\ Child'.st = "stop" /\ Run' = Run
          /\ Child'.ws = Stopped("SIGSEGV") /\ Run.hit
      BY <1>5, <2>1, <2>7, ChildAfter DEF FaultEffect, OwnStops
    <3>2. ~Starting /\ ~Injecting
      BY <1>0, <3>1 DEF EndInv
    <3> QED
      BY <1>2, <1>6, <2>1, <3>1, <3>2 DEF TrapInv
  <2>8. ASSUME NEW s \in {"SIGTRAP", "SIGALRM"}, SignalEffect(s)
        PROVE  TrapInv'
    <3>1. /\ Child.st \in {"run", "step"} /\ s \in Run.pend
          /\ s = "SIGALRM" => "SIGTRAP" \notin Run.pend
          /\ Child'.st = "stop" /\ Child'.ws = Stopped(s)
          /\ Run'.pend = Run.pend \ {s}
      BY <2>1, <2>8, ChildAfter, RunAfter DEF SignalEffect
    <3>2. "SIGTRAP" \notin Run'.pend
      BY <3>1
    <3>3. ~Starting /\ (Injecting => sl = "idle")
      BY <1>6, <3>1
    <3>4. Judging => s = "SIGALRM"
      BY <1>6, <3>1
    <3> QED
      BY <1>2, <1>6, <2>1, <3>1, <3>2, <3>3, <3>4 DEF TrapInv
  <2>9. ASSUME NEW c \in {"good", "bad"}, WriteEffect(c) PROVE TrapInv'
    <3>1. Child' = Child /\ Run'.pend = Run.pend
      BY <2>1, <2>9, ChildAfter, RunAfter DEF WriteEffect
    <3> QED
      BY <1>6, <2>1, <3>1 DEF TrapInv
  <2>10. ASSUME NEW w \in WaitStatus, EndEffect(w) PROVE TrapInv'
    <3>1. Child'.st = "dying" /\ Child'.ws = NoStatus /\ Run'.pend = Run.pend
      BY <2>1, <2>10, ChildAfter, RunAfter DEF EndEffect
    <3> QED
      BY <1>2, <1>6, <2>1, <3>1 DEF TrapInv
  <2> QED
    BY <1>7, <2>2, <2>3, <2>4, <2>5, <2>6, <2>7, <2>8, <2>9, <2>10
       DEF KernelEffect
<1>8. CASE UNCHANGED vars
  <2>1. Child' = Child /\ Run' = Run
    BY <1>8, ChildAfter DEF vars, kernelVars, mainVars
  <2> QED
    BY <1>6, <1>8, <2>1 DEF TrapInv, vars, mainVars, sleeperVars
<1>9. CASE SleeperEffect
  <2>1. UNCHANGED <<pc, ret, status, try, thr>> /\ Child' = Child /\ sl # "idle"
    BY <1>9, ChildAfter DEF SleeperEffect, mainVars
  <2>2. pc \in {"wait", "join"} /\ (pc = "wait" => ret = "join")
    BY <1>1, <1>9, <2>1 DEF SleeperEffect, Terminal
  <2>3. /\ Run.pend = {}
        /\ Child.st \in {"run", "gone"} \/ Doomed
        /\ pc = "join" => status.Status.Type # "Stopped"
    BY <1>6, <2>1, <2>2
  <2>4. CASE UNCHANGED proc /\ sl' # "idle"
    <3>1. Run' = Run
      BY <2>1, <2>4, ChildAfter
    <3> QED
      BY <2>1, <2>2, <2>3, <2>4, <3>1 DEF TrapInv
  <2>5. CASE sl' = "idle" /\ Child.st = "gone"
    BY <2>1, <2>2, <2>3, <2>5 DEF TrapInv
  <2>6. CASE sl' = "idle"
             /\ RunGoes(Run.pend \cup {"SIGTRAP"}, Run.armed, Run.hit,
                        Run.wrote, Run.ends)
    <3>1. "SIGTRAP" \in Run'.pend
      BY <2>1, <2>6, RunAfter
    <3>2. Child'.st # "stop"
      BY <2>1, <2>3
    <3> QED
      BY <2>1, <2>2, <2>3, <2>6, <3>1, <3>2 DEF TrapInv
  <2>7. killOK' = (Child.st # "gone") => (killOK' \/ Child.st = "gone")
    OBVIOUS
  <2> QED
    BY <1>9, <2>4, <2>5, <2>6, <2>7 DEF SleeperEffect
<1>10. CASE MainEffect
  <2>1. CASE LaunchEffect
    BY <2>1, ChildAfter DEF LaunchEffect, TrapInv
  <2>2. ~LaunchEffect =>
          try' = try /\ Run'.pend = Run.pend
          /\ (Child' = Child \/ Child'.ws = NoStatus)
    BY <1>10, MainKeeps
  <2>3. CASE TracedEffect
    <3>1. Child'.st = "run" /\ Child'.ws = NoStatus /\ Run'.pend = {}
      BY <1>6, <2>3, ChildAfter DEF TracedEffect
    <3> QED
      BY <1>2, <2>3, <3>1 DEF TracedEffect, TrapInv
  <2>4. CASE ReportedEffect \/ OptionsEffect \/ LostEffect
    <3>1. Starting /\ Run'.pend = {} /\ sl' = sl
          /\ pc' \in {"setopts", "cont", "attempt", "wait"}
      BY <1>6, <2>2, <2>4
         DEF ReportedEffect, OptionsEffect, LostEffect, LaunchEffect,
             sleeperVars
    <3>2. pc' = "wait" => ret' = "verdict" /\ Child'.ws = NoStatus
      BY <1>0, <1>1, <2>4, ChildAfter, <1>10, ReportFacts, SingleFacts
         DEF ReportedEffect, OptionsEffect, LostEffect, Stays
    <3> QED
      BY <1>2, <3>1, <3>2 DEF TrapInv
  <2>5. CASE ReturnEffect
    <3>1. /\ pc = "wait" /\ pc' = ret /\ ret \in {"join", "verdict"} /\ try' = try
          /\ Run'.pend = Run.pend /\ UNCHANGED <<ret, sl>>
          /\ status'.Status = Child.ws
      BY <1>1, <2>2, <2>5 DEF ReturnEffect, LaunchEffect, sleeperVars
    <3>2. /\ Child.st \in {"stop", "dead"}
          /\ Child.st = "dead" => Child'.st = "gone"
                                  /\ Child.ws.Type \in {"Exited", "Signaled"}
      BY <1>0, <1>1, <1>10, <2>5, <3>1, ChildAfter, SingleFacts, ReportFacts
         DEF ReturnEffect, Reaps
    <3>3. Child.st = "stop" => sl = "idle" \/ ret = "verdict"
      BY <1>6, <3>1
    <3>4. CASE ret = "join"
      BY <1>6, <3>1, <3>2, <3>3, <3>4 DEF TrapInv
    <3>5. CASE ret = "verdict"
      BY <1>6, <3>1, <3>5 DEF TrapInv
    <3> QED
      BY <3>1, <3>4, <3>5
  <2>6. CASE StopEffect
    <3>1. Run'.pend = Run.pend /\ UNCHANGED sl
      BY <2>2, <2>6 DEF StopEffect, LaunchEffect, sleeperVars
    <3> QED
      BY <1>6, <2>6, <3>1 DEF StopEffect, TrapInv
  <2>7. CASE SteppedEffect
    <3>1. Run'.pend = Run.pend /\ UNCHANGED sl
      BY <2>2, <2>7 DEF SteppedEffect, LaunchEffect, sleeperVars
    <3>2. sl = "idle"
      BY <1>1, <2>7 DEF SteppedEffect
    <3> QED
      BY <1>6, <2>7, <3>1, <3>2 DEF SteppedEffect, TrapInv
  <2>8. CASE InjectedEffect
    <3>1. Run'.pend = Run.pend /\ Child'.ws = NoStatus
      BY <2>8, ChildAfter, FlagsAfter DEF InjectedEffect
    <3> QED
      BY <1>2, <1>6, <2>8, <3>1 DEF InjectedEffect, TrapInv
  <2>9. CASE RefusedEffect \/ JudgedEffect \/ FinishEffect \/ FailedEffect
    BY <2>9 DEF RefusedEffect, JudgedEffect, FinishEffect, FailedEffect, TrapInv
  <2>10. CASE CleanupEffect
    BY <1>1, <2>10 DEF CleanupEffect, Leaving, TrapInv
  <2> QED
    BY <1>10, <2>1, <2>3, <2>4, <2>5, <2>6, <2>7, <2>8, <2>9, <2>10
       DEF MainEffect
<1> QED
  BY <1>7, <1>8, <1>9, <1>10, StepEffects

(* What the verdict that is about to be given says of the run.             *)
LEMMA VerdictMeans ==
  ASSUME Single, Inv, OneThreadInv, SingleInv, pc = "verdict",
         opt.NoRedirect \/ WaitedState.Type # "Signaled"
  PROVE  /\ Verdict = "Masked" /\ ~opt.DiffCmd =>
              /\ status.Pid = ChildPID /\ status.Status = opt.orig
              /\ Run.wrote = "good"
         /\ Verdict = "Exception" /\ OwnStops =>
              status.Status = Stopped("SIGSEGV")
         /\ Verdict = "InfExec" => ~Run.armed
         /\ Verdict = "Detected" => Run.ends = Exited("codeDetected")
         /\ Verdict = "Corrupted" =>
              \/ Run.wrote # "good" \/ Run.ends # opt.orig
              \/ \E k \in 1..(try - 1) : proc[k].wrote # "none"
         /\ Verdict \in {"Detected", "Corrupted"} =>
              Child.st = "gone" /\ ~opt.NoRedirect
<1>1. ChildInv /\ EndInv /\ TrapInv /\ AlarmInv /\ FileInv
  BY DEF SingleInv
<1>2. /\ try > 0 /\ opt.NoRedirect \in BOOLEAN
      /\ opt.DetectionExitCode \in {"666", "codeDetected"}
      /\ status.Status \in WaitStatus
  BY JobFacts, ConfigsAssumption DEF Inv, TypeOK, Config
<1>3. WaitedState = status.Status
  BY <1>1, WaitedFacts
<1>4. CASE opt.NoRedirect
  BY <1>4 DEF Verdict
<1>5. ASSUME ~opt.NoRedirect
      PROVE  /\ file.data = Run.wrote
             /\ file.hole => \E k \in 1..(try - 1) : proc[k].wrote # "none"
  BY <1>1, <1>2, <1>5 DEF FileInv, Executed
<1>6. ASSUME ~opt.NoRedirect, checkOutput, ~opt.DiffCmd
      PROVE  status.Pid = ChildPID /\ status.Status = opt.orig
             /\ Run.wrote = "good"
  BY <1>1, <1>3, <1>5, <1>6 DEF checkOutput, SameOutput, EndInv, Judging
<1>7. CASE ~opt.NoRedirect /\ WaitedState.Type = "Exited"
  <2>1. Child.st = "gone" /\ status.Status = Run.ends
    BY <1>1, <1>3, <1>7, WaitedFacts DEF EndInv, Judging
  <2>2. WaitedState.Val = "codeDetected" => Run.ends = Exited("codeDetected")
    BY <1>2, <1>3, <1>7, <2>1 DEF Exited, WaitStatus
  <2>3. ~checkOutput => \/ Run.wrote # "good" \/ Run.ends # opt.orig
                        \/ \E k \in 1..(try - 1) : proc[k].wrote # "none"
    BY <1>3, <1>5, <1>7, <2>1 DEF checkOutput, SameOutput
  <2>4. Verdict \in {"Detected", "Masked", "Corrupted"}
        /\ (Verdict = "Masked" => checkOutput)
        /\ (Verdict = "Corrupted" => ~checkOutput)
        /\ (Verdict = "Detected" => WaitedState.Val = "codeDetected")
    BY <1>2, <1>7 DEF Verdict
  <2> QED
    BY <1>6, <1>7, <2>1, <2>2, <2>3, <2>4
<1>8. CASE ~opt.NoRedirect /\ WaitedState.Type # "Exited"
  <2>1. status.Status \in {Stopped("SIGTRAP"), Stopped("SIGALRM"),
                           Stopped("SIGSEGV")}
    BY <1>1, <1>3, <1>8, WaitedFacts
  <2>2. Verdict \in {"InfExec", "Masked", "Exception"}
        /\ (Verdict = "Masked" => checkOutput)
        /\ (Verdict = "InfExec" => WaitedState.Val = "SIGALRM")
        /\ (Verdict = "Exception" => WaitedState.Val # "SIGALRM")
    BY <1>8 DEF Verdict
  <2>3. Verdict = "InfExec" => ~Run.armed
    BY <1>1, <1>2, <1>3, <2>1, <2>2 DEF AlarmInv, Stopped
  <2>4. Verdict = "Exception" /\ OwnStops => status.Status = Stopped("SIGSEGV")
    BY <1>1, <1>3, <2>1, <2>2 DEF TrapInv, Stopped
  <2> QED
    BY <1>6, <1>8, <2>2, <2>3, <2>4
<1> QED
  BY <1>2, <1>4, <1>7, <1>8

(* A verdict keeps its meaning while the last run is cleaned up.           *)
LEMMA VerdictStays ==
  ASSUME VerdictInv, Judged, try \in Nat, UNCHANGED <<opt, try, status, ftStatus>>,
         Run.wrote # "none" => Run'.wrote = Run.wrote,
         Run'.armed => Run.armed,
         \A k \in 1..(try - 1) : proc[k].wrote # "none" => proc'[k].wrote # "none",
         Child.st = "gone" =>
           Child'.st = "gone" /\ Run'.wrote = Run.wrote /\ Run'.ends = Run.ends
  PROVE  VerdictInv'
<1>1. ChildPID' = ChildPID
  BY DEF ChildPID
<1>2. Run = proc[try] /\ Run' = proc'[try]
  BY DEF Run
<1>3. /\ MaskedMeans /\ InfExecMeans /\ DetectedMeans /\ CorruptedMeans
      /\ OwnStops => ExceptionMeans
      /\ ftStatus \in {"Detected", "Corrupted"} => Child.st = "gone"
  BY DEF VerdictInv
<1>4. MaskedMeans' /\ InfExecMeans' /\ (OwnStops => ExceptionMeans)'
  BY <1>1, <1>2, <1>3 DEF MaskedMeans, InfExecMeans, ExceptionMeans, OwnStops
<1>5. DetectedMeans'
  BY <1>2, <1>3 DEF DetectedMeans
<1>6. CorruptedMeans'
  BY <1>2, <1>3 DEF CorruptedMeans
<1> QED
  BY <1>3, <1>4, <1>5, <1>6 DEF VerdictInv

(* What a verdict means is true when it is given, and stays true.          *)
LEMMA VerdictNext ==
  ASSUME Single, Inv, OneThreadInv, FreshInv, SingleInv, [Next]_vars
  PROVE  VerdictInv'
<1>0. AloneInv /\ ChildInv /\ VerdictInv
  BY DEF SingleInv
<1>1. /\ pc = "wait" => ret \in {"join", "verdict"}
      /\ Leaving => ret \in {"attempt", "final", "done"}
      /\ pc \notin {"attempt", "exit1"} => try > 0
      /\ sl # "idle" => pc \in {"wait", "join", "abort"}
      /\ try \in Nat /\ try \in 0..UIntMax /\ UIntMax \in Nat
  BY JobFacts, UIntMaxAssumption DEF Inv, TypeOK, ThreadInv, KnownInv
<1>2. 1..(try - 1) \subseteq Procs /\ \A k \in 1..(try - 1) : k # try
  BY <1>1 DEF Procs
<1>3. CASE KernelEffect
  <2>1. UNCHANGED <<opt, try, status, ftStatus, pc, ret>> /\ try \in Procs
    BY <1>3 DEF KernelEffect, mainVars
  <2>2. Judged' => Judged
    BY <2>1 DEF Judged, Leaving
  <2> DEFINE Kept == /\ Run.wrote # "none" => Run'.wrote = Run.wrote
                     /\ Run'.armed => Run.armed
                     /\ \A k \in Procs : k # try => proc'[k] = proc[k]
             Gone == Child.st = "gone" =>
                       /\ Child'.st = "gone" /\ Run'.wrote = Run.wrote
                       /\ Run'.ends = Run.ends
  <2>3. UNCHANGED proc => Kept /\ Run' = Run
    BY <2>1, ChildAfter
  <2>4. ASSUME ExecEffect \/ EarlyEffect \/ StepEffect \/ DieEffect \/ FaultEffect
        PROVE  Kept /\ Gone
    BY <2>3, <2>4 DEF ExecEffect, EarlyEffect, StepEffect, DieEffect,
       FaultEffect
  <2>5. ASSUME AlarmEffect PROVE Kept /\ Gone
    <3>1. Child' = Child
      BY <2>1, <2>5, ChildAfter DEF AlarmEffect
    <3> QED
      BY <2>1, <2>5, <3>1, FlagsAfter
  <2>6. ASSUME NEW s \in {"SIGTRAP", "SIGALRM"}, SignalEffect(s)
        PROVE  Kept /\ Gone
    BY <2>1, <2>6, RunAfter DEF SignalEffect
  <2>7. ASSUME NEW c \in {"good", "bad"}, WriteEffect(c) PROVE Kept /\ Gone
    BY <2>1, <2>7, RunAfter DEF WriteEffect
  <2>8. ASSUME NEW w \in WaitStatus, EndEffect(w) PROVE Kept /\ Gone
    BY <2>1, <2>8, RunAfter DEF EndEffect
  <2>9. Kept /\ Gone
    BY <1>3, <2>4, <2>5, <2>6, <2>7, <2>8 DEF KernelEffect
  <2> QED
    BY <1>0, <1>1, <1>2, <2>1, <2>2, <2>9, VerdictStays DEF VerdictInv
<1>4. CASE SleeperEffect
  BY <1>1, <1>4 DEF SleeperEffect, mainVars, VerdictInv, Judged, Leaving,
     Terminal
<1>5. CASE UNCHANGED vars
  <2>1. UNCHANGED <<opt, try, status, ftStatus, pc, ret, thr, proc>>
    BY <1>5 DEF vars, mainVars, kernelVars
  <2>2. Child' = Child /\ Run' = Run /\ (Judged' => Judged)
    BY <2>1, ChildAfter DEF Judged, Leaving
  <2> QED
    BY <1>0, <1>1, <2>1, <2>2, VerdictStays DEF VerdictInv
<1>6. CASE MainEffect /\ JudgedEffect
  <2>1. /\ pc = "verdict" /\ ftStatus' = Verdict
        /\ opt.NoRedirect \/ WaitedState.Type # "Signaled"
        /\ UNCHANGED <<opt, try, status>>
    BY <1>6, MainStays DEF JudgedEffect
  <2>2. ChildPID' = ChildPID /\ Run = proc[try] /\ Run' = proc'[try]
    BY <2>1 DEF ChildPID, Run
  <2>3. /\ Run'.armed = Run.armed /\ Run'.wrote = Run.wrote
        /\ \A k \in Procs : k # try => proc'[k] = proc[k]
    BY <1>6, MainKeeps DEF JudgedEffect, LaunchEffect
  <2>4. Verdict \in {"Detected", "Corrupted"} => Child' = Child /\ Run' = Run
    <3>1. Verdict \in {"Detected", "Corrupted"} => Stays
      BY <1>0, <2>1, VerdictMeans, <1>6 DEF JudgedEffect
    <3> QED
      BY <2>1, <3>1, ChildAfter DEF Stays
  <2>5. MaskedMeans' /\ InfExecMeans' /\ (OwnStops => ExceptionMeans)'
    BY <2>1, <2>2, <2>3, VerdictMeans
       DEF MaskedMeans, InfExecMeans, ExceptionMeans, OwnStops
  <2>6. DetectedMeans'
    BY <2>1, <2>2, <2>4, VerdictMeans DEF DetectedMeans
  <2>7. CorruptedMeans'
    BY <1>2, <2>1, <2>2, <2>3, <2>4, VerdictMeans DEF CorruptedMeans
  <2>8. ftStatus' \in {"Detected", "Corrupted"} => Child'.st = "gone"
    BY <2>1, <2>4, VerdictMeans
  <2> QED
    BY <2>5, <2>6, <2>7, <2>8 DEF VerdictInv
<1>7. CASE MainEffect /\ ~JudgedEffect
  <2>1. LaunchEffect \/ FailedEffect => VerdictInv'
    BY DEF LaunchEffect, FailedEffect, VerdictInv, Judged, Leaving
  <2>2. Judged' /\ ~LaunchEffect /\ ~FailedEffect =>
          Judged /\ (CleanupEffect \/ FinishEffect)
    BY <1>1, <1>7
       DEF MainEffect, ReportedEffect, OptionsEffect, TracedEffect,
           LostEffect, ReturnEffect, StopEffect,
           RefusedEffect, InjectedEffect, SteppedEffect, CleanupEffect,
           FinishEffect, Judged, Leaving
  <2>3. CASE CleanupEffect \/ FinishEffect
    <3>1. UNCHANGED <<opt, try, status, ftStatus>>
      BY <1>7, <2>3, MainStays DEF CleanupEffect, FinishEffect
    <3>2. /\ Run'.armed = Run.armed /\ Run'.wrote = Run.wrote
          /\ \A k \in Procs : k # try => proc'[k] = proc[k]
      BY <1>7, <2>3, MainKeeps DEF CleanupEffect, FinishEffect, LaunchEffect,
         Leaving
    <3>3. Child.st = "gone" => Child'.st = "gone" /\ Run'.ends = Run.ends
      <4>1. CASE Stays
        BY <3>1, <4>1, ChildAfter DEF Stays
      <4>2. CASE ~Stays
        BY <2>3, <4>2 DEF CleanupEffect, FinishEffect
      <4> QED
        BY <4>1, <4>2
    <3> QED
      BY <1>0, <1>1, <1>2, <2>2, <3>1, <3>2, <3>3, VerdictStays, <2>1
         DEF VerdictInv
  <2> QED
    BY <2>1, <2>2, <2>3 DEF VerdictInv
<1> QED
  BY <1>3, <1>4, <1>5, <1>6, <1>7, StepEffects

-----------------------------------------------------------------------------
(* The theorems.                                                           *)

(* When a job starts there is no run yet. *)
LEMMA JobInvInit == Init => JobInv
<1> SUFFICES ASSUME Init PROVE JobInv
  OBVIOUS
<1> USE DEF Init
<1>1. FlowInv
  BY DEF FlowInv, Injecting, Abandoned, Judging, Judged, Leaving
<1>2. FreshInv
  BY DEF FreshInv
<1>3. AloneInv
  BY DEF AloneInv, Absent
<1>4. ChildInv /\ AlarmInv
  BY DEF ChildInv, AlarmInv
<1>5. ChosenInv /\ EndInv /\ AbortInv /\ VerdictInv
  BY DEF ChosenInv, EndInv, AbortInv, VerdictInv, Starting, Injecting,
     Judging, Judged, Leaving
<1>6. TrapInv /\ FileInv
  BY DEF TrapInv, FileInv, Starting, Injecting, Judging
<1>7. OneThreadInv
  BY DEF OneThreadInv, SoloInv, TargetInv, HitInv, Injecting, Judging, Judged,
     Leaving
<1> QED
  BY <1>1, <1>2, <1>3, <1>4, <1>5, <1>6, <1>7 DEF JobInv, SingleInv

(* The settings of a job never change.                                     *)
LEMMA SettingsStay == [Next]_vars => UNCHANGED opt
<1>1. Sleeper \/ Kernel \/ Workload \/ Over \/ UNCHANGED vars => UNCHANGED opt
  BY DEF Over, Sleeper, Kernel, Workload, SleeperWakes, SleeperPicks,
     SleeperFindsNone, SleeperKills, vars
<1>2. Main => UNCHANGED opt
  BY DEF Main, GiveUp, Launch, RunWaits, RunTraces, RunFails, RunDies,
     RunSucceeds, SkipClone, SkipThreadStop, SkipThreadEnd, SkipReturns,
     WaitNoChild, StopFails, StopSucceeds, FlipNoRegs, FlipUnknown,
     FlipRefused, FlipRead, FlipWritten, StepRefused, StepFlip, StepAsserts,
     InjectionFails, InjectionSucceeds, CleanupPoll, CleanupBlock,
     VerdictAsserts, VerdictNoOrig, VerdictReached, Finish
<1> QED
  BY <1>1, <1>2 DEF Next

(* The invariant is inductive.                                             *)
LEMMA JobInvNext == Inv /\ JobInv /\ [Next]_vars => JobInv'
<1> SUFFICES ASSUME Inv, JobInv, [Next]_vars PROVE JobInv'
  OBVIOUS
<1>1. FlowInv /\ FreshInv
  BY DEF JobInv
<1>2. FlowInv' /\ FreshInv'
  BY <1>1, FlowNext, FreshNext
<1>3. UNCHANGED opt
  BY SettingsStay
<1>4. ASSUME opt.Threads = 0 PROVE OneThreadInv'
  BY <1>4, OneThreadNext DEF JobInv
<1>5. ASSUME Single PROVE SingleInv'
  <2>1. OneThreadInv /\ SingleInv
    BY <1>5 DEF JobInv, Single
  <2> QED
    BY <1>1, <1>5, <2>1, AloneNext, ChildNext, ChosenNext, EndNext, AbortNext,
       TrapNext, AlarmNext, FileNext, VerdictNext DEF SingleInv
<1> QED
  BY <1>2, <1>3, <1>4, <1>5 DEF JobInv, Single

(* Every state of a job satisfies JobInv. *)
THEOREM JobInvariance == Spec => [](Inv /\ JobInv)
<1>1. Inv /\ JobInv /\ [Next]_vars => (Inv /\ JobInv)'
  BY InvNext, JobInvNext
<1> QED
  BY <1>1, InvInit, JobInvInit, PTL DEF Spec

(* tryInjectFaultAt() returns true only after it has flipped a bit, and in *)
(* a workload of one thread the bit is one of the run that is judged,      *)
(* however many runs were abandoned before it, and whoever else kills them.*)
THEOREM FaultInjected == Spec => []FaultBeforeVerdict
<1>1. ASSUME JobInv PROVE FaultBeforeVerdict
  <2>1. pc = "done" /\ opt.InjectionsPerRun > 0 => \E k \in 1..try : proc[k].hit
    BY <1>1 DEF JobInv, FlowInv, Judged
  <2>2. /\ pc = "done" /\ opt.InjectionsPerRun > 0 /\ opt.Threads = 0
        => proc[try].hit
    BY <1>1 DEF JobInv, OneThreadInv, HitInv, Judged, Run
  <2> QED
    BY <2>1, <2>2 DEF FaultBeforeVerdict
<1> QED
  BY <1>1, JobInvariance, PTL

(* A workload of one thread that nobody else kills is gone when the next   *)
(* attempt starts and when the job reports, on every path of runAndWait()  *)
(* that leads there.                                                       *)
THEOREM NoneLeftBehind == Spec => []NoWorkloadLeft
<1>1. ASSUME Inv, JobInv PROVE NoWorkloadLeft
  <2> SUFFICES ASSUME Single, pc \in {"attempt", "done"}, NEW t \in Tids
               PROVE  Absent(t)
    BY DEF NoWorkloadLeft, Single
  <2>1. AloneInv /\ ChildInv
    BY <1>1 DEF JobInv, SingleInv
  <2>2. CASE t # ChildPID
    BY <2>1, <2>2 DEF AloneInv
  <2>3. CASE t = ChildPID
    <3>1. try \in Nat /\ (try = 0 => Absent(t))
      BY <1>1, <2>1, SingleFacts
    <3> QED
      BY <2>1, <2>3, <3>1 DEF ChildInv, Child, Absent
  <2> QED
    BY <2>2, <2>3
<1> QED
  BY <1>1, JobInvariance, PTL

(* Masked, InfExec, Detected and, when only the injector stops the child,  *)
(* Exception mean what they say of the last run of a workload of one       *)
(* thread that nobody else kills.                                          *)
THEOREM VerdictsSound == Spec => [](~opt.oom => VerdictSound)
<1>1. JobInv => (~opt.oom => VerdictSound)
  BY DEF JobInv, Single, SingleInv, VerdictInv, Judged, VerdictSound
<1> QED
  BY <1>1, JobInvariance, PTL

(* For such a workload Corrupted means that the last run differs from the  *)
(* original one, unless an earlier run has written to the output file.     *)
THEOREM CorruptedVerdictSound == Spec => [](~opt.oom => CorruptedSoundOnCleanFile)
<1>1. JobInv => (~opt.oom => CorruptedSoundOnCleanFile)
  BY DEF JobInv, Single, SingleInv, VerdictInv, Judged,
     CorruptedSoundOnCleanFile
<1> QED
  BY <1>1, JobInvariance, PTL

(* A job that has ended stays as it is.                                    *)
LEMMA EndedStays ==
  ASSUME pc \in Terminal, [Next]_vars
  PROVE  UNCHANGED vars
BY DEF Terminal, Next, Main, Over, Sleeper, Kernel, Workload, SleeperWakes,
   SleeperPicks, SleeperFindsNone, SleeperKills, GiveUp, Launch, RunWaits,
   RunTraces, RunFails, RunDies, RunSucceeds, SkipClone, SkipThreadStop,
   SkipThreadEnd, SkipReturns,
   WaitNoChild, StopFails, StopSucceeds, FlipNoRegs, FlipUnknown, FlipRefused,
   FlipRead, FlipWritten, StepRefused, StepFlip, StepAsserts, CleanupPoll,
   CleanupBlock, VerdictAsserts, VerdictNoOrig, VerdictReached, Finish

(* Every step of a job is one its contract allows, or none.                *)
LEMMA ContractStep ==
  ASSUME Inv, JobInv, Inv', JobInv', [Next]_vars
  PROVE  [Contract!Next]_(Contract!vars)
<1> DEFINE Phase == IF pc \in Terminal THEN pc ELSE "running"
           Told == IF pc = "done" THEN ftStatus ELSE "None"
<1>1. UNCHANGED opt
  BY SettingsStay
<1>2. CASE pc \in Terminal
  <2>1. UNCHANGED <<opt, pc, ftStatus>>
    BY <1>2, EndedStays DEF vars, mainVars
  <2> QED
    BY <2>1 DEF Contract!vars
<1>3. CASE pc \notin Terminal
  <2>1. Phase = "running" /\ Told = "None"
    BY <1>3 DEF Terminal
  <2>2. CASE pc' \notin Terminal
    <3>1. Phase' = "running" /\ Told' = "None"
      BY <2>2 DEF Terminal
    <3> QED
      BY <1>1, <2>1, <3>1 DEF Contract!vars
  <2>3. CASE pc' = "done"
    <3>1. ftStatus' \in FtStatus /\ ftStatus' \in Contract!Reports(opt')
      BY <2>3 DEF Inv, TypeOK, JobInv, FlowInv, Judged, Contract!Reports
    <3>2. Contract!Report(ftStatus')
      BY <1>1, <2>1, <2>3, <3>1 DEF Contract!Report, Terminal
    <3> QED
      BY <3>1, <3>2 DEF Contract!Next, FtStatus, Contract!FtStatus
  <2>4. CASE pc' = "exit1"
    <3>1. Contract!MayGiveUp(opt)
      BY <1>1, <2>4 DEF JobInv, FlowInv, Contract!MayGiveUp
    <3> QED
      BY <1>1, <2>1, <2>4, <3>1 DEF Contract!GiveUp, Contract!Next, Terminal
  <2>5. CASE pc' = "abort"
    <3>1. Contract!MayAbort(opt)
      <4>1. CASE Single
        <5>1. AbortInv'
          BY <1>1, <4>1 DEF JobInv, SingleInv, Single
        <5> QED
          BY <1>1, <2>5, <5>1 DEF AbortInv, Contract!MayAbort
      <4>2. CASE opt.Threads # 0
        <5>1. opt.Threads > 0
          BY <4>2, ConfigsAssumption, NThreadsAssumption
             DEF Inv, TypeOK, Config
        <5> QED
          BY <5>1 DEF Contract!MayAbort
      <4>3. CASE opt.oom
        BY <4>3 DEF Contract!MayAbort
      <4> QED
        BY <4>1, <4>2, <4>3 DEF Single
    <3> QED
      BY <1>1, <2>1, <2>5, <3>1 DEF Contract!Abort, Contract!Next, Terminal
  <2> QED
    BY <2>2, <2>3, <2>4, <2>5 DEF Terminal
<1> QED
  BY <1>2, <1>3

(* The job implements its contract with the scheduler, for any workload    *)
(* and any settings: one verdict its options allow, or none and a reason   *)
(* to give up or to abort that TestJob names.                              *)
THEOREM ContractKept == Spec => KeepsContract
<1>1. Init => Contract!Init
  BY DEF Init, Contract!Init, Terminal
<1>2. /\ Inv /\ JobInv /\ (Inv /\ JobInv)' /\ [Next]_vars
      => [Contract!Next]_(Contract!vars)
  BY ContractStep
<1> QED
  BY <1>1, <1>2, JobInvariance, PTL DEF Spec, KeepsContract, Contract!Spec
=============================================================================
