------------------------------ MODULE MCRunner ------------------------------
(* Instances of Runner for TLC: the sets of settings each run considers.   *)
EXTENDS Runner

Plain == [MaxInjectionAttempts |-> 3, InjectionsPerRun |-> 1,
          NoRedirect |-> FALSE, DetectionExitCode |-> "codeDetected",
          DiffCmd |-> FALSE, orig |-> Exited("code0"), OrigSet |-> TRUE,
          late |-> FALSE, tooEarly |-> FALSE, oom |-> FALSE,
          syscallStep |-> FALSE, Threads |-> 0, regs |-> "known"]

(* Settings for a single-threaded workload that exits by itself, is not    *)
(* killed from outside and is signalled before its timeout: every limit on *)
(* the attempts, with and without a child that dies before it is traced,   *)
(* and every combination of the options that steer the verdict.            *)
SingleConfigs ==
  {[Plain EXCEPT !.MaxInjectionAttempts = n, !.tooEarly = e] :
     n \in 0..3, e \in BOOLEAN}
  \cup
  {[Plain EXCEPT !.MaxInjectionAttempts = 2, !.InjectionsPerRun = i,
                 !.NoRedirect = r, !.DetectionExitCode = d, !.DiffCmd = c,
                 !.OrigSet = o] :
     i \in {0, 1}, r \in BOOLEAN, d \in {"666", "codeDetected"},
     c \in BOOLEAN, o \in BOOLEAN}

(* A workload that may be signalled after its timeout, die before it is    *)
(* traced, be killed from outside, or whose exit may be single-stepped:    *)
(* every combination in one run and in two; in one run, also those of the  *)
(* first three when checking is skipped and those without an outside kill  *)
(* when the original run was stopped by a signal; and registers that       *)
(* cannot be flipped.                                                      *)
HarshConfigs ==
  {[Plain EXCEPT !.MaxInjectionAttempts = 2, !.InjectionsPerRun = i,
                 !.NoRedirect = TRUE, !.late = l, !.tooEarly = e, !.oom = m] :
     i \in {0, 1}, l \in BOOLEAN, e \in BOOLEAN, m \in BOOLEAN}
  \cup
  {[Plain EXCEPT !.MaxInjectionAttempts = 2, !.InjectionsPerRun = i,
                 !.orig = Stopped("SIGSEGV"), !.late = l, !.tooEarly = e,
                 !.syscallStep = s] :
     i \in {0, 1}, l \in BOOLEAN, e \in BOOLEAN, s \in BOOLEAN}
  \cup
  {[Plain EXCEPT !.MaxInjectionAttempts = 2, !.InjectionsPerRun = i,
                 !.late = l, !.tooEarly = e, !.oom = m, !.syscallStep = s] :
     i \in {0, 1}, l \in BOOLEAN, e \in BOOLEAN, m \in BOOLEAN,
     s \in BOOLEAN}
  \cup
  {[Plain EXCEPT !.late = l, !.tooEarly = e, !.oom = m, !.syscallStep = s] :
     l \in BOOLEAN, e \in BOOLEAN, m \in BOOLEAN, s \in BOOLEAN}
  \cup
  {[Plain EXCEPT !.regs = r, !.syscallStep = s] :
     r \in {"unsupported", "unknown"}, s \in BOOLEAN}

(* A workload with one more thread, in one run or two. *)
ThreadConfigs ==
  {[Plain EXCEPT !.MaxInjectionAttempts = 2, !.late = l, !.oom = m,
                 !.syscallStep = s, !.Threads = 1] :
     l \in BOOLEAN, m \in BOOLEAN, s \in BOOLEAN}
  \cup {[Plain EXCEPT !.Threads = 1]}

JobConfigs == SingleConfigs \cup HarshConfigs \cup ThreadConfigs

(* One run. *)
OneRunConfigs == {[Plain EXCEPT !.MaxInjectionAttempts = 2, !.Threads = 1]}

(* Settings for one question each. *)
PlainConfigs == {Plain}
RetryConfigs == {[Plain EXCEPT !.MaxInjectionAttempts = 2]}
LateConfigs == {[Plain EXCEPT !.MaxInjectionAttempts = 2, !.late = TRUE]}
=============================================================================
