-------------------------- MODULE RunnerInvariants --------------------------
(***************************************************************************)
(* The inductive invariants behind KeepsContract, NoWorkloadLeft,          *)
(* FaultBeforeVerdict, VerdictSound and CorruptedSoundOnCleanFile of       *)
(* Runner, for RunnerVerdictProofs.  FlowInv and FreshInv hold for any     *)
(* workload, OneThreadInv for workloads of one thread, and the others for  *)
(* workloads of one thread that nobody else kills, of which at most one    *)
(* exists at a time.                                                       *)
(***************************************************************************)
EXTENDS Runner

(* The stages of a job: a run is being started, injected into, or judged,  *)
(* or it is left behind, with or without a verdict.                        *)
Starting == pc \in {"runwait", "setopts", "cont"}
Injecting == pc \in {"join", "flip", "stepwait"} \/ (pc = "wait" /\ ret = "join")
Judging == pc = "verdict" \/ (pc = "wait" /\ ret = "verdict")
Leaving == pc \in {"cleanup", "block"}
Judged == pc \in {"final", "done"} \/ (Leaving /\ ret \in {"final", "done"})
Abandoned == (pc = "attempt" /\ try > 0) \/ (Leaving /\ ret = "attempt")

(* Injections are only made, and runs only abandoned, when they are asked  *)
(* for; what a job reports and how it gives up its options allow.          *)
FlowInv ==
  /\ Injecting \/ Abandoned => opt.InjectionsPerRun > 0
  /\ (Judging \/ Judged) /\ opt.InjectionsPerRun > 0 =>
       \E k \in 1..try : proc[k].hit
  /\ Judged => ftStatus \in Contract!Reports(opt)
  /\ pc = "exit1" => Contract!MayGiveUp(opt)

(* Nothing has happened yet to the runs to come. *)
FreshInv ==
  \A k \in Procs : k > try =>
    proc[k] = [pend |-> {}, armed |-> FALSE, hit |-> FALSE,
               wrote |-> "none", ends |-> NoStatus]

-----------------------------------------------------------------------------
(* Workloads of one thread.                                                *)

Child == thr[ChildPID]
Run == proc[try]
Doomed == Child.st \in {"dying", "dead"}

(* Only main threads have ever existed. *)
SoloInv == \A t \in Tids : t[2] # 0 => thr[t].st = "none"

(* The sleeping thread has only the child to choose. *)
TargetInv ==
  /\ sl = "iter" => rnd = 0
  /\ Injecting /\ (sl = "kill" \/ killOK) => target = ChildPID

(* The run that is judged is the one that was injected into. *)
HitInv == (Judging \/ Judged) /\ opt.InjectionsPerRun > 0 => Run.hit

OneThreadInv == SoloInv /\ TargetInv /\ HitInv

-----------------------------------------------------------------------------
(* Workloads of one thread that nobody else kills.                         *)

Single == opt.Threads = 0 /\ ~opt.oom

(* All earlier runs are gone, and only who has stopped or is dead has      *)
(* anything to report.                                                     *)
AloneInv ==
  \A t \in Tids : /\ t # ChildPID => Absent(t)
                  /\ thr[t].ws # NoStatus => thr[t].st \in {"stop", "dead"}

(* Where the child is, seen from the stages of the job. *)
ChildInv ==
  try > 0 =>
    /\ pc \in {"attempt", "done"} => Child.st = "gone"
    /\ pc = "runwait" => Child.st \in {"forked", "stop"} \/ Doomed
    /\ pc = "setopts" => \/ Child.st = "stop"
                         \/ Child.st = "gone" /\ opt.tooEarly
    /\ pc = "cont" => Child.st = "stop"
    /\ pc = "wait" =>
         \/ Child.st \in {"run", "stop"} \/ Doomed
         \/ /\ Child.st = "gone"
            /\ opt.InjectionsPerRun = 0 /\ opt.tooEarly
    /\ pc \in {"join", "verdict"} =>
         \/ /\ status.Status.Type \in {"Exited", "Signaled"}
            /\ Child.st = "gone"
         \/ /\ status.Status \in {Stopped("SIGTRAP"), Stopped("SIGALRM"),
                                  Stopped("SIGSEGV")}
            /\ Child.st = "stop"
    /\ pc = "flip" => Child.st = "stop"
    /\ pc = "stepwait" => Child.st \in {"step", "stop"} \/ Doomed
    /\ pc = "final" => Child.st \in {"stop", "gone"} \/ Doomed
    /\ Leaving => Child.st = "gone" \/ Doomed
    /\ Child.st = "stop" =>
         /\ pc \in {"runwait", "wait", "stepwait"} =>
              Child.ws \in {Stopped("SIGTRAP"), Stopped("SIGALRM"),
                            Stopped("SIGSEGV")}
         /\ pc \in {"setopts", "cont", "join", "flip", "verdict", "final"} =>
              Child.ws = NoStatus

(* The sleeping thread fails to signal the child only when it is gone. *)
ChosenInv == Injecting /\ sl = "idle" /\ ~killOK => Child.st = "gone"

(* What may have ended the child while the job still works with it. *)
EndInv ==
  Starting \/ Injecting \/ Judging =>
    /\ Run.ends.Type # "Signaled"
    /\ Child.st = "dead" => Child.ws = Run.ends \/ (Starting /\ opt.tooEarly)
    /\ pc \in {"join", "verdict"} =>
         /\ status.Pid = ChildPID
         /\ status.Status.Type # "Stopped" => status.Status = Run.ends
    /\ Doomed => /\ Starting => opt.tooEarly
                 /\ pc = "stepwait" => opt.syscallStep
    /\ Starting \/ Injecting => ~Run.hit
    /\ pc = "stepwait" /\ Child.ws = Stopped("SIGSEGV") =>
         opt.orig.Type = "Stopped"

(* Only what TestJob names makes a job abort. *)
AbortInv == pc = "abort" => Contract!MayAbort(opt)

(* The injector's SIGTRAP has been consumed when the fault is injected, if *)
(* nothing else can have stopped the child before.                         *)
TrapInv ==
  OwnStops =>
    /\ Starting \/ (Injecting /\ sl # "idle") => Run.pend = {}
    /\ Injecting /\ sl # "idle" => Child.st \in {"run", "gone"} \/ Doomed
    /\ Injecting /\ pc = "wait" /\ sl = "idle" =>
         /\ Child.st = "run" => "SIGTRAP" \in Run.pend
         /\ Child.st = "stop" => "SIGTRAP" \notin Run.pend
    /\ pc = "join" /\ status.Status.Type = "Stopped" =>
         sl = "idle" /\ "SIGTRAP" \notin Run.pend
    /\ pc \in {"flip", "stepwait"} \/ Judging => "SIGTRAP" \notin Run.pend
    /\ Judging /\ pc = "wait" => Child.ws # Stopped("SIGTRAP")
    /\ pc = "verdict" => status.Status # Stopped("SIGTRAP")

(* Who reports an alarm has used up its timer. *)
AlarmInv ==
  try > 0 =>
    /\ "SIGALRM" \in Run.pend => ~Run.armed
    /\ Child.ws = Stopped("SIGALRM") => ~Run.armed
    /\ pc \in {"join", "verdict"} /\ status.Status = Stopped("SIGALRM") =>
         ~Run.armed

(* The file holds what the child wrote, after a hole if an earlier run     *)
(* wrote too.                                                              *)
Executed ==
  \/ Child.st \in {"run", "step", "stop"}
  \/ pc \in {"join", "flip", "stepwait", "verdict"}
  \/ pc = "wait" /\ Child.st # "gone"

FileInv ==
  ~opt.NoRedirect =>
    /\ file.data # "none" => \E k \in 1..try : proc[k].wrote # "none"
    /\ file.hole => \E k \in 1..(try - 1) : proc[k].wrote # "none"
    /\ Starting => Run.wrote = "none"
    /\ try > 0 /\ Executed => file.data = Run.wrote

(* What a verdict means, from the moment it is given. *)
VerdictInv ==
  Judged =>
    /\ MaskedMeans /\ InfExecMeans /\ DetectedMeans /\ CorruptedMeans
    /\ OwnStops => ExceptionMeans
    /\ ftStatus \in {"Detected", "Corrupted"} => Child.st = "gone"

SingleInv ==
  /\ AloneInv /\ ChildInv /\ ChosenInv /\ EndInv /\ AbortInv
  /\ TrapInv /\ AlarmInv /\ FileInv /\ VerdictInv

(* Inductive together with the Inv of RunnerProofs. *)
JobInv ==
  /\ FlowInv /\ FreshInv
  /\ opt.Threads = 0 => OneThreadInv
  /\ Single => SingleInv
=============================================================================
