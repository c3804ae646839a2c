------------------------------ MODULE TestJob -------------------------------
(***************************************************************************)
(* What one test job promises the scheduler that forked it (the contract   *)
(* of Runner::runAndWait() and TestJobScheduler::childJobCode()): the job  *)
(* runs, and then ends in exactly one of three ways.                       *)
(*   done   it has one verdict, which its options allow, for the pipe      *)
(*   exit1  it gave up (userDie); nothing is ever written to the pipe      *)
(*   abort  it met a bug (die, assert)                                     *)
(***************************************************************************)
EXTENDS Integers, ExitStates

CONSTANT Configs

VARIABLES opt, phase, report

vars == <<opt, phase, report>>

(* The verdicts that compare the run with the original one. *)
Compared == {"Masked", "Exception", "Corrupted"}

(* The verdicts the options allow.  InjFailed and None are never sent. *)
Reports(o) ==
  IF o.NoRedirect THEN {"Skipped"}
  ELSE {"InfExec"} \cup (IF o.OrigSet THEN Compared ELSE {})
       \cup (IF o.DetectionExitCode # "666" THEN {"Detected"} ELSE {})

(* Giving up needs failed injections, a forced register that is not known  *)
(* or a missing original exit state to compare with; a limit of one        *)
(* attempt is used up before the first.                                    *)
MayGiveUp(o) ==
  \/ o.InjectionsPerRun > 0
  \/ o.MaxInjectionAttempts = 1
  \/ ~o.OrigSet /\ ~o.NoRedirect

(* Only these workloads and settings can make a job abort. *)
MayAbort(o) ==
  \/ o.Threads > 0
  \/ o.oom
  \/ o.syscallStep
  \/ o.regs = "unsupported"
  \/ o.orig.Type = "Stopped"
  \/ o.tooEarly /\ o.InjectionsPerRun = 0

Init ==
  /\ opt \in Configs
  /\ phase = "running"
  /\ report = "None"

Report(s) ==
  /\ phase = "running"
  /\ s \in Reports(opt)
  /\ phase' = "done" /\ report' = s
  /\ UNCHANGED opt

GiveUp ==
  /\ phase = "running"
  /\ MayGiveUp(opt)
  /\ phase' = "exit1"
  /\ UNCHANGED <<opt, report>>

Abort ==
  /\ phase = "running"
  /\ MayAbort(opt)
  /\ phase' = "abort"
  /\ UNCHANGED <<opt, report>>

Next == (\E s \in FtStatus : Report(s)) \/ GiveUp \/ Abort

Spec == Init /\ [][Next]_vars
=============================================================================
