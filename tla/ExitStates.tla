----------------------------- MODULE ExitStates -----------------------------
(***************************************************************************)
(* How a process ends or stops, as waitpid() reports it and as ZOFI        *)
(* classifies it (exitState.h, runner.h, RunnerBase::getWaitPidExitState). *)
(* Exit codes and signal numbers are named, not numbered: the code only    *)
(* ever compares them for equality.                                        *)
(***************************************************************************)

(* enum class FtStatus of runner.h. *)
FtStatus == {"None", "Masked", "Exception", "InfExec", "Corrupted",
             "Detected", "InjFailed", "Skipped"}

(* The exit codes the properties tell apart: the original one, another one *)
(* and the one passed with -detection-exit-code.                           *)
ExitCodes == {"code0", "code1", "codeDetected"}

Signals == {"SIGTRAP", "SIGALRM", "SIGSTOP", "SIGSEGV", "SIGKILL"}

(* Raw waitpid() statuses.  The extra stop value "CLONE" is the status      *)
(* whose high bits carry SIGTRAP | (PTRACE_EVENT_CLONE << 8).               *)
Exited(c)   == [Type |-> "Exited",   Val |-> c]
Signaled(s) == [Type |-> "Signaled", Val |-> s]
Stopped(s)  == [Type |-> "Stopped",  Val |-> s]

NoStatus == [Type |-> "Invalid", Val |-> "666"]

WaitStatus == [Type : {"Exited", "Signaled", "Stopped", "Invalid"},
               Val  : ExitCodes \cup Signals \cup {"CLONE", "666"}]

(* WSTOPSIG() looks at eight bits only, so a clone event reads as a SIGTRAP *)
(* stop.                                                                    *)
getWaitPidExitState(status) ==
  IF status = Stopped("CLONE") THEN Stopped("SIGTRAP") ELSE status

(* ExitState::isSet(). *)
isSet(state) == state.Type # "Invalid"
=============================================================================
