----------------------------- MODULE Injection ------------------------------
(***************************************************************************)
(* What Runner::doBitFlip() may do to a test job, as the actions FlipNoRegs *)
(* to StepAsserts of Runner see it: the phases of one injection into a     *)
(* stopped thread.                                                         *)
(*   flip, stepwait  the pc of the job's main thread                       *)
(*   failed          doBitFlip() returned false: the attempt is given up   *)
(*   done            it returned true: the target runs on with the fault   *)
(*   exit1, abort    userDie(), die() or a failed assertion end the job    *)
(***************************************************************************)
VARIABLES
  phase,
  regs,         \* "known", "unsupported" or "unknown", as in Ptrace!Config
  syscallStep   \* the instruction that is stepped over may end the process

vars == <<phase, regs, syscallStep>>

Init ==
  /\ phase = "flip"
  /\ regs \in {"known", "unsupported", "unknown"}
  /\ syscallStep \in BOOLEAN

Goes(from, to) ==
  /\ phase = from
  /\ phase' = to
  /\ UNCHANGED <<regs, syscallStep>>

FlipUnsupported == regs = "unsupported" /\ Goes("flip", "abort")
FlipUnknown == regs = "unknown" /\ Goes("flip", "exit1")
FlipRefused == Goes("flip", "failed")
FlipRead == regs # "unknown" /\ Goes("flip", "done")
FlipWritten == regs # "unknown" /\ Goes("flip", "stepwait")
StepRefused == Goes("stepwait", "failed")
StepFlip == Goes("stepwait", "done")
StepAsserts ==
  /\ syscallStep \/ regs = "unsupported"
  /\ Goes("stepwait", "abort")

Next ==
  \/ FlipUnsupported \/ FlipUnknown \/ FlipRefused \/ FlipRead \/ FlipWritten
  \/ StepRefused \/ StepFlip \/ StepAsserts

Spec == Init /\ [][Next]_vars
=============================================================================
