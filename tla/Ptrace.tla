------------------------------- MODULE Ptrace -------------------------------
(***************************************************************************)
(* The workload processes one job of ZOFI traces, and the part of the      *)
(* kernel (ptrace, waitpid, signals, the alarm timer, the shared output    *)
(* file) that src/runner.cpp relies on.  The k-th call of                  *)
(* RunnerBase::run() creates process k; its threads are the pairs          *)
(* <<k, i>>, and <<k, 0>> is the main thread, the one whose id is          *)
(* ChildPID.  The tracer's calls are operators over the thread table; the  *)
(* kernel's and the workload's own steps are actions.                      *)
(***************************************************************************)
EXTENDS Integers, FiniteSets, ExitStates

CONSTANTS
  UIntMax,    \* largest `unsigned`: bounds the runs one job can start
  NThreads,   \* threads a workload may create beside its main thread
  Configs     \* the option settings and workload kinds to consider

ASSUME UIntMaxAssumption == UIntMax \in Nat \ {0}
ASSUME NThreadsAssumption == NThreads \in Nat

VARIABLES
  opt,     \* the options and the kind of workload; never changes
  thr,     \* thread table: state, unreported wait status, event message
  proc,    \* process table: pending signals, alarm, fault, output, end
  file     \* the redirected output: `hole` before it, `data` after it

kernelVars == <<thr, proc, file>>

(* One setting of the options that steer a test job, with the behaviour of *)
(* the workload without faults:                                            *)
(*   orig           the exit state of the original run                     *)
(*   OrigSet        OrigExState->isSet()                                   *)
(*   late           injection time may exceed the infinite-run timeout     *)
(*   tooEarly       the timeout may expire before the child is traced      *)
(*   oom            something outside ZOFI may SIGKILL the workload        *)
(*   syscallStep    -inject-to lets a system call be single-stepped ("wi"  *)
(*                  picks the registers a syscall writes implicitly)       *)
(*   Threads        threads the workload may create beside its main one    *)
(*   regs           the registers an injection may pick are "known"; some   *)
(*                  are "unsupported" (reading them dies: regs.def gives   *)
(*                  them no storage, or the bytes of the instruction       *)
(*                  cannot be peeked at); or -force-inject-to-reg names    *)
(*                  an "unknown" one                                       *)
Config == [MaxInjectionAttempts : 0..UIntMax,
           InjectionsPerRun     : {0, 1},
           NoRedirect           : BOOLEAN,
           DetectionExitCode    : {"666", "codeDetected"},
           DiffCmd              : BOOLEAN,
           orig                 : WaitStatus,
           OrigSet              : BOOLEAN,
           late                 : BOOLEAN,
           tooEarly             : BOOLEAN,
           oom                  : BOOLEAN,
           syscallStep          : BOOLEAN,
           Threads              : 0..NThreads,
           regs                 : {"known", "unsupported", "unknown"}]

ASSUME ConfigsAssumption == Configs \subseteq Config

Procs == 1..UIntMax
Tids == Procs \X (0..NThreads)
NoTid == <<0, 0>>
Leader(k) == <<k, 0>>
ThreadsOf(k) == {t \in Tids : t[1] = k}

ThreadState == {"none", "forked", "run", "step", "cloning", "born", "stop",
                "dying", "dead", "gone"}
Thread == [st : ThreadState, ws : WaitStatus, new : Tids \cup {NoTid}]
Chunk == {"none", "good", "bad"}
Process == [pend : SUBSET {"SIGTRAP", "SIGALRM"}, armed : BOOLEAN,
            hit : BOOLEAN, wrote : Chunk, ends : WaitStatus]

Alive(t) == thr[t].st \in {"forked", "run", "step", "cloning", "born", "stop"}
Absent(t) == thr[t].st \in {"none", "gone"}
Running(t) == thr[t].st \in {"run", "step"}
MayCall(t) == thr[t].st = "run" \/ (thr[t].st = "step" /\ opt.syscallStep)

-----------------------------------------------------------------------------
(* What the tracer's system calls do to the tables.                        *)

(* waitpid() can return t.  The main thread's exit is reported only when    *)
(* every other thread of its process has been reaped.                      *)
Waitable(t) ==
  /\ thr[t].ws # NoStatus
  /\ thr[t].st = "dead" /\ t[2] = 0 =>
       \A u \in ThreadsOf(t[1]) \ {t} : Absent(u)

SetThread(t, state, wait) == [thr EXCEPT ![t].st = state, ![t].ws = wait]

(* The thread table once waitpid() has returned t's status. *)
Reported(t) ==
  SetThread(t, IF thr[t].st = "dead" THEN "gone" ELSE thr[t].st, NoStatus)

(* PTRACE_CONT, PTRACE_SINGLESTEP with no signal: the stop and the signal  *)
(* that caused it are discarded.                                           *)
Resumed(t, mode) == SetThread(t, mode, NoStatus)

(* The end of the whole process: every live thread starts to die. *)
GroupDying(k) ==
  [t \in Tids |-> IF t[1] = k /\ Alive(t)
                  THEN [thr[t] EXCEPT !.st = "dying", !.ws = NoStatus]
                  ELSE thr[t]]

EndProcess(k, status) ==
  /\ thr' = GroupDying(k)
  /\ proc' = IF \E t \in ThreadsOf(k) : Alive(t)
             THEN [proc EXCEPT ![k].ends = status]
             ELSE proc

(* PTRACE_KILL of a main thread.  It kills a stopped tracee; whether it    *)
(* kills a running one depends on the kernel, and a dead one is unaffected.*)
PtraceKill(k) ==
  \/ /\ Alive(Leader(k))
     /\ EndProcess(k, Signaled("SIGKILL"))
  \/ /\ thr[Leader(k)].st # "stop"
     /\ UNCHANGED <<thr, proc>>

-----------------------------------------------------------------------------
(* Steps of the kernel.                                                    *)

(* The forked child truncates the output file (runner.cpp, run()), becomes *)
(* a tracee and stops with a SIGTRAP when execve() succeeds.  ftruncate()  *)
(* leaves the file offset it shares with earlier runs where it was, so     *)
(* output of an earlier run turns into a hole before this run's output.    *)
(* PTRACE_TRACEME and execve() are one step, and execve() succeeds: that   *)
(* the alarm or a kill comes between the two, and the child that dies      *)
(* because execve() failed, are left out.                                  *)
ChildExec(k) ==
  /\ thr[Leader(k)].st = "forked"
  /\ thr' = SetThread(Leader(k), "stop", Stopped("SIGTRAP"))
  /\ file' = IF opt.NoRedirect THEN file
             ELSE [hole |-> file.hole \/ file.data # "none", data |-> "none"]
  /\ UNCHANGED proc

(* The alarm goes off, or the child is killed, before PTRACE_TRACEME. *)
ChildDiesEarly(k) ==
  /\ opt.tooEarly
  /\ thr[Leader(k)].st = "forked"
  /\ thr' = SetThread(Leader(k), "dead", Signaled("SIGALRM"))
  /\ UNCHANGED <<proc, file>>

(* A signal pending for the process stops one of its running threads.      *)
(* SIGTRAP is dequeued before SIGALRM.                                     *)
StopOnSignal(t, s) ==
  /\ Running(t)
  /\ s \in proc[t[1]].pend
  /\ s = "SIGALRM" => "SIGTRAP" \notin proc[t[1]].pend
  /\ thr' = SetThread(t, "stop", Stopped(s))
  /\ proc' = [proc EXCEPT ![t[1]].pend = @ \ {s}]
  /\ UNCHANGED file

(* The timer set by alarmSafe() expires once. *)
AlarmFires(k) ==
  /\ proc[k].armed
  /\ \E t \in ThreadsOf(k) : Alive(t) /\ thr[t].st # "forked"
  /\ proc' = [proc EXCEPT ![k].armed = FALSE,
                          ![k].pend = @ \cup {"SIGALRM"}]
  /\ UNCHANGED <<thr, file>>

(* The single step of a thread is over. *)
StepDone(t) ==
  /\ thr[t].st = "step"
  /\ thr' = SetThread(t, "stop", Stopped("SIGTRAP"))
  /\ UNCHANGED <<proc, file>>

(* A dying thread becomes a zombie with the status of its process. *)
Die(t) ==
  /\ thr[t].st = "dying"
  /\ thr' = SetThread(t, "dead", proc[t[1]].ends)
  /\ UNCHANGED <<proc, file>>

(* clone() with PTRACE_O_TRACECLONE: the new thread exists, traced and     *)
(* with a SIGSTOP to report, before its creator reports the event.         *)
Clone(t, u) ==
  /\ MayCall(t)
  /\ u[1] = t[1] /\ u[2] \in 1..opt.Threads /\ thr[u].st = "none"
  /\ thr' = [thr EXCEPT ![t].st = "cloning", ![t].new = u, ![u].st = "born"]
  /\ UNCHANGED <<proc, file>>

CloneStop(t) ==
  /\ thr[t].st = "cloning"
  /\ thr' = SetThread(t, "stop", Stopped("CLONE"))
  /\ UNCHANGED <<proc, file>>

ThreadStop(t) ==
  /\ thr[t].st = "born"
  /\ thr' = SetThread(t, "stop", Stopped("SIGSTOP"))
  /\ UNCHANGED <<proc, file>>

-----------------------------------------------------------------------------
(* Steps of the workload.  Until a bit is flipped it does what it did in   *)
(* the original run: it writes its output, then ends the way `orig` says.  *)
(* After a flip it may do anything, or loop for ever.                      *)

WriteOutput(t, c) ==
  /\ MayCall(t)
  /\ proc[t[1]].wrote = "none"
  /\ c = "good" \/ (proc[t[1]].hit /\ c = "bad")
  /\ proc' = [proc EXCEPT ![t[1]].wrote = c]
  /\ file' = [file EXCEPT !.data = IF @ = "none" THEN c ELSE "bad"]
  /\ UNCHANGED thr

(* The end of the original run is near: its output has been written. *)
AtOrigEnd(k, type) == proc[k].wrote = "good" /\ opt.orig.Type = type

ExitGroup(t, c) ==
  /\ MayCall(t)
  /\ proc[t[1]].hit \/ (AtOrigEnd(t[1], "Exited") /\ c = opt.orig.Val)
  /\ EndProcess(t[1], Exited(c))
  /\ UNCHANGED file

Fault(t) ==
  /\ Running(t)
  /\ proc[t[1]].hit \/ AtOrigEnd(t[1], "Stopped")
  /\ thr' = SetThread(t, "stop", Stopped("SIGSEGV"))
  /\ UNCHANGED <<proc, file>>

ThreadExit(t) ==
  /\ MayCall(t) /\ t[2] # 0
  /\ thr' = SetThread(t, "dead", Exited("code0"))
  /\ UNCHANGED <<proc, file>>

(* Something outside ZOFI kills the workload. *)
OomKill(k) ==
  /\ opt.oom
  /\ \E t \in ThreadsOf(k) : Alive(t)
  /\ EndProcess(k, Signaled("SIGKILL"))
  /\ UNCHANGED file
=============================================================================
