# Verification of ZOFI in TLA+

ZOFI measures how a program behaves when a transient hardware fault hits it.
It runs the program (the *workload*) many times; in each run it stops the
workload at a random moment, flips one bit of one register of the instruction
it was stopped at, and classifies how the run ends: Masked, Exception, InfExec,
Corrupted, Detected, or Skipped.

This directory holds TLA+ models of that program, TLC configurations that check
them on small instances, and TLAPS proofs of their safety properties for every
instance. Everything is translated from the code under `src/src/`; paths in
this text are relative to that directory unless they start with `README`, which
is the repository's own.

## 1. The system

### Components

| Component | Code | State | Operations | Hard because |
|---|---|---|---|---|
| Main program | `zofi.cpp` | execution time, original exit state, statistics | timing run, test runs, clean-up, dump | order of phases, files shared by processes |
| Job scheduler | `threads.cpp/.h` | `ActiveJobs`, loop counter, one pipe per job, progress bar | fork a job, `waitpid(-1)`, read its pipe, count | jobs end in any order; a job may end without writing |
| Test job | `runner.cpp/.h` | `Attempts`, `ChildPID`, `ChildThreads`, `FaultInjectionStatus` | fork and trace a workload, stop, inject, retry, judge, clean up | two threads, ptrace events, timeouts, retries |
| Register manipulator | `regManip.cpp/.h`, `regs.def` | copies of the thread's registers | collect registers, pick one and a bit, read, flip, write back | aliased registers, stale copies, order of step and flip |
| Exit states | `exitState.cpp/.h` | how a run ended, output files and descriptors | decode, compare, import | half of a state can be imported over another |
| Statistics | `statistics.cpp/.h` | outcome counters, totals | `incr`, output | one report must move several counters together |
| Options | `options*.cpp/.h` | option values | parse, `sanityChecks`, `init` | order and repetition of options, conversions that wrap or overflow |
| Address space | `addrSpace.cpp/.h` | mappings of a process | parse `/proc/PID/maps`, `isInLibrary` | boundaries, anonymous mappings |
| Utilities | `utils.cpp/.h` | -- | system calls that `die()` on failure, `cleanupWaitpidState` | blocking waits |
| Progress bar, debug stream | `progressbar.*`, `debugstream.*` | a counter | drawing | -- |

### How they interact

`main()` runs an `OrigJobScheduler` (the timing run: min(`-j`, `-test-runs`)
jobs of which job 0 supplies the original exit state) and then a
`TestJobScheduler` (`-test-runs` jobs). The scheduler forks a process per job,
at most `-j` at a time, and gives it a pipe. Each job process forks and traces
its workload; its second thread sleeps until the injection time and signals the
workload, while its main thread sits in `waitpid(-1)`. The job writes its
verdict to the pipe and exits; the scheduler reaps it, reads the pipe, and
counts the verdict. Jobs share nothing with each other. The runs of one job
share their output files and the file offset; a job and its workload share, by
inheritance, the write end of the pipe.

A failure ends a process in one of two ways, kept apart in the models:
`userDie()` is `exit(1)`, `die()` and a failed `assert()` are `abort()`.

### What makes each component correct

* Scheduler: never more than `-j` jobs; each reaped pid is a known job; each
  job that reported is counted once under what it reported and nothing else is
  counted; the original state is job 0's; the scheduler ends.
* Test job: the verdict describes the run into which the fault was injected; a
  run without a fault is never judged; attempts are bounded; no process, zombie
  or stopped thread outlives an attempt; signals only go to the job's own
  workload; the job ends, whatever a fault makes the workload do. (Of a workload
  with several threads not all of this is true, see section 3.)
* Main program: the options that were accepted are ones the other parts can
  work with; the original output exists as long as a job may compare with it,
  and stems from a run; what is printed adds up; what is left on disk and why
  zofi ended are known; zofi ends if its jobs do.
* Address space: an address in a library is recognised as such.
* Register manipulator: the register and the bit are ones the options ask for;
  one bit changes and no other; the fault is not overwritten before the
  program can read it; every register the options promise can be picked.

The list `hazards` of `PROJECT.json` names, line by line, what can go wrong in
this code that a test would hardly reach, and the properties that would see it.

## 2. Modules and the code they model

`map` in `PROJECT.json` gives the source lines of every definition.

| Module | Models | EXTENDS / INSTANCE |
|---|---|---|
| `OptionsParser` | the command line, its checks, the defaults | |
| `Campaign` | `main()` | `OptionsParser`, `ExitStates`; `JobBatch` for both batches, `TestJob` for what a test job may answer |
| `JobBatch` | what the scheduler promises `main()` (abstract) | `ExitStates` |
| `JobScheduler` | scheduler, jobs seen from outside, statistics | `ExitStates`; `JobBatch` as its contract |
| `TestJob` | what a job promises the scheduler (abstract) | `ExitStates` |
| `Runner` | one test job | `Ptrace`; `TestJob` as its contract |
| `Ptrace` | kernel and workload: threads, signals, alarm, output file | `ExitStates` |
| `Injection` | what `doBitFlip()` may do to a job (abstract) | |
| `BitFlip` | `doBitFlip()` and the register manipulator | `AddressSpace`; `Injection` as its contract |
| `AddressSpace` | `/proc/PID/maps`, the set of mappings, `isInLibrary()` | |
| `ExitStates` | `FtStatus`, wait statuses, their decoding | |
| `MCCampaign`, `MCRunner`, `MCBitFlip` | instances for TLC | the module they are named after |
| `RunnerInvariants` | the stages of a job and the inductive invariants of its threads and verdicts | `Runner` |
| `CampaignProofs`, `JobSchedulerProofs`, `RunnerProofs`, `BitFlipProofs`, `AddressSpaceProofs` | theorems | the same, and `TLAPS` |
| `RunnerVerdictProofs` | the theorems on what a verdict means and the contract of a job | `RunnerInvariants`, `RunnerProofs` |

The composition is by contracts, from the command line down to the flip of a
bit; each one is an abstract specification that the module above uses and the
module below is shown to implement:

    Campaign   --two batches of jobs-->                      JobBatch
    JobBatch   <--implemented by-- JobScheduler              (KeepsBatch)
    Campaign   --a job sends a verdict, exits 1 or aborts--> TestJob
    TestJob    <--implemented by-- Runner                    (KeepsContract)
    Runner     --doBitFlip() ends in one of a few ways-->    Injection
    Injection  <--implemented by-- BitFlip                   (KeepsRunnersView)

### OptionsParser

One action per word, or per option and its value, of the loop in `parse()`,
then `SanityChecks`, `HelpMessages`, and the rest of `init()`. `val` holds for
each option the word it was given and `IsSet` whether it was given, as in class
`Option`; an option that is repeated keeps the last value, and the word after
an option that needs one is its value whatever it looks like. Words are
uninterpreted. The constants `Numeral` (what is left in an `int` of a number),
`OutOfRange` (`strtol()` overflows and sets `errno`), `Letters` and `LastBit`
(`regs.def`, the last bit of a register) say what the conversions make of them;
`Unsigned` wraps a negative number as `strtoul()` does. A forced bit is only
compared with the last bit, as in `sanityChecks()`: that the help text gives a
first one too is left to the flip (section 5). Options that only steer a job or
a flip, such as `-inf-exec-timeout-mul` and `-inf-exec-timeout-base`, from which
the timeout is computed, are in the settings of `Runner` and `BitFlip` instead.

### Campaign

`pc` follows `main()`:

| `pc` | Lines of `zofi.cpp` | Actions |
|---|---|---|
| `parse`, `sanity`, `help`, `init` | 33 | those of `OptionsParser` |
| `timing`, `orig` | 53-76 | `TimingRun`, `SkipTimingRun`; the batch; `TimingRunEnds` |
| `check` | 79-81 | `CheckExecTime` |
| `import` | 91-92 | `NoImport`, `ImportRefused`, `ImportDies`, `ImportState` |
| `assert` | 95-103 | `AssertFails`, `TestRunsBegin` |
| `tests` | 103 | the batch; `TestRunsEnd` |
| `cleanup` | 107-111 | `RemoveOrigFiles` |
| `dump`, `csv`, `moufoplot` | 117-124 | `Dump`, `DumpToCSV`, `DumpToMoufoplot` |
| `exit0`, `exit1`, `abort` | | the ways zofi ends |

During a batch, `JobStarts`, `JobEnds`, `JobCollected` and `BatchAborts` are the
steps of `JobBatch` with what they do to the temporary files (the constructor
and the destructor of `RunnerBase`, which `exit()` and `abort()` do not run).
What a test job may send is what its contract `TestJob` allows for the options
given (`JobOpt`), and a verdict that compares output needs the original files.
`OrigState` has the three parts `import()` treats differently: the descriptors
(`fds`, which only a run sets), the names of the files, and the exit state.
`harsh` is chosen at the start: if true, jobs may fail for reasons that are not
zofi's and output files may not open.

With `-j 0` on a machine whose number of cores is not known, `run()` waits for a
job before it has started one; `NoJobAllowed` is the assertion that ends it.
`JobScheduler` is about positive `-j`.

### AddressSpace

Operators only. A stop has an address, the lines of the maps file, and `path0`,
the garbage `parse()`'s buffer holds before the first path. `MappingsSet`,
`Before` and `Find` are the set, its comparison and `std::set::find()` as the
code gets them; a line without a path gets the one read last. The reference is
independent of all three: `Home` is the line whose range has the address, and
the address is `InLibrary` if the path of that very line is that of a library
(`LibPaths`); an anonymous line is of none. `SoPaths` are the paths the code's own
test of the last three characters accepts.

### Ptrace

`thr` is the thread table: where a thread is (`run`, `step`, `stop`, `dying`,
`dead`, `gone`...), the wait status it has not reported yet, and for a clone
event the thread it announces. `proc` holds, for the workload of each attempt,
pending signals, the alarm, whether a bit has been flipped in it, what it
wrote and how it ends. `file` is the redirected output, shared by all attempts
of a job. Workload `k` is the one the `k`-th call of `run()` creates; `<<k, 0>>`
is its main thread, whose id the code calls `ChildPID`.

The kernel does what `runner.cpp` relies on, and no more orderly than Linux: a
signal sent to a process may stop any of its threads; a new thread's `SIGSTOP`
may be reported before the clone event that announces it; the end of a main
thread is not reported while another thread of it is unreaped; `PTRACE_KILL`
need not kill a thread that is not stopped. Before a flip the workload behaves
as in the original run; after it, it may write bad output, crash, exit with any
code, or loop for ever. With `oom`, something outside may kill it at any moment.

What the child does between `fork()` and its first instruction is one step,
`ChildExec`: it truncates its output, asks to be traced and executes the binary.
It may die before that step (`tooEarly`). That the alarm or a kill comes between
`PTRACE_TRACEME` and `execve()`, and that `execve()` fails, is not modelled.

### Runner

One action per step of the job between two points where something else may
happen. `pc` is the position of the main thread:

| `pc` | In the code | Actions |
|---|---|---|
| `attempt` | head of the loop of `runAndWait()` | `GiveUp`, `Launch` |
| `runwait` | `waitpid` in `run()` | `RunWaits` |
| `setopts` | `PTRACE_SETOPTIONS` in `run()` | `RunTraces`, `RunFails` |
| `cont` | `PTRACE_CONT` in `run()` | `RunSucceeds`, `RunDies` |
| `wait` | `waitpidSkipThreadState()` | `SkipClone`, `SkipThreadStop`, `SkipThreadEnd`, `SkipReturns`, `WaitNoChild` |
| `join` | `stopChildAfter()` joins the sleeping thread | `StopFails`, `StopSucceeds` |
| `flip`, `stepwait` | `doBitFlip()` | `Flip...`, `Step...` |
| `cleanup`, `block` | `cleanupWaitpidState()` | `CleanupPoll`, `CleanupBlock` |
| `verdict` | `waitChildAndGetStatus()` | `VerdictReached`, `VerdictAsserts`, `VerdictNoOrig` |
| `final` | end of `runAndWait()` | `Finish` |

`sl` is the position of the sleeping thread, which draws a number
(`SleeperWakes`), walks `ChildThreads` to that element (`SleeperPicks`,
`SleeperFindsNone`) and signals it (`SleeperKills`); the main thread may change
the set between these steps, as no lock protects it. Random choices are
nondeterministic. Time is the order of events: unless `late` is set, the alarm
comes after the injection, since it is set to a multiple of the execution time
and the injection time is drawn below the execution time and its overshoot.
`-injections-per-run` is 0 or 1, as the code treats any positive value as 1. How
many threads the workload may create (`opt.Threads`, up to the constant
`NThreads`) is a setting like any other, so that one run has workloads of both
kinds.

The three system calls of `run()` are three steps because the child may be
killed from outside between them: before `PTRACE_SETOPTIONS` the run counts as
failed and leaves a zombie, before `PTRACE_CONT` the job aborts.

### JobScheduler

The parent is the loop of `JobSchedulerBase::run()`: `Spawn`, `WaitForJob`
(which ends between `waitpid` and the read), `Collect` or `CollectNothing`,
`Return`. A job either reports a message and exits, or fails and exits 1 or
aborts; a workload that outlives a failed job keeps the pipe open (`held`), and
the parent's read then blocks. Counting is `Statistics::incr`. The variable
`kind`, chosen in the initial state, is the subclass; the timing run has as many
jobs as may run at a time, but no more than test runs (`TotalNumJobs`). When
nothing was read, `FaultStatus` is
uninitialised: `CollectNothing(s)` counts any `s`. Only a failed `assert` on
`None` tells such a value apart.

`JobBatch` is the same batch without processes, pids and pipes. A job is
`todo`, `active`, `ended`, `collected`; `BatchStatus` reads that off `job`,
`activeJobs` and what the parent is doing.

### BitFlip

A register set is represented by its age (how many instructions have run
since the thread was stopped when it was current) and by the bits in which it
differs from a run without fault. There is one in the machine and one in each
buffer of the manipulator (`gpregs`, `xsave`, `zmm`). An instruction is what
capstone says of it: operands with their access, implicit registers, whether it
is a control instruction. An operand may have no access at all: such operands
are in `AllRegs` as if they were not written (`Unaccounted`). Vectors of registers
are sets: an entry that occurs twice is more likely, not different. Of the
sixteen bytes that are peeked at (which dies at the end of a mapping, unless
`readable`) eight are disassembled, so that a longer instruction is never
`Decoded`. An instruction also has the place (`at`) the thread was stopped at, for
`isInLibrary()`.

What the flip of a buffer means for the thread (`Exported`) is not the identity:

* `gpregs` is written back with `PTRACE_SETREGS`, and the kernel takes over only
  the flags of its `FLAG_MASK` and reports success: the constant `Masked`;
* the legacy area of the `xsave` buffer (x87 and mmx registers) is written back
  with an `XSTATE_BV` that nobody changes, so a component that was not in use
  when it was read (`inuse`) is not taken over;
* `zmm` is a copy that is flipped and never written back. The layout of the
  xsave area and the byte arithmetic of `VecRegsState::getZMMInternal` are
  abstracted to that.

`Reaches` names the flips that do reach the thread, and the properties are about
these; that `tryBitFlip()` returns true for the others too is the finding of
`DocVectorFlip`.

## 3. What TLC checks

| Run | Instance | Shows |
|---|---|---|
| `Campaign` | 66 command lines; 2 cores or an unknown number; up to 3 jobs; `unsigned` ends at 3 | types, `OptionsEstablished`, `OrigFilesKept`, `LeftoversKnown`, `ReportComplete`, `EndExplained`; zofi ends (`Ends`) |
| `Sched` | 3 test jobs, or the 2 jobs of their timing run, 2 at a time, all outcomes and failures | types, `JobsBound`, `EveryPidKnown`, `CountsMatchReports`, `TotalsAgree`, `BarCountsCollected`, `OrigFromFirstJob`, `CountsOncePerJob`, `Terminates`; `JobBatch` is implemented (`KeepsBatch`) |
| `Runner` | up to 3 runs of a workload of 1 thread, with limits 0 to 3, every combination of the options that steer the verdict, and harsh surroundings (late signals, early deaths, kills from outside, stepping over an exit, crashing originals, registers that cannot be flipped); up to 2 runs of a workload of 2 threads | types, `NoWorkloadLeft`, `FaultBeforeVerdict`, `VerdictSound`, `CorruptedSoundOnCleanFile`, `NoReapedThreadKnown`, `AttemptsRespected`; the job ends (`TerminatesInTime`); `TestJob` is implemented (`KeepsContract`) |
| `Flip` | 14 registers of each kind and width, 16 instructions of each kind, every `-inject-to`, forced registers and bits; a nop at 20 places of an address space | types, `AsRequested`, `DiffersInOneBit`, `FaultReachesProgram`, `NothingLeftOut`, `OwnPathDecides`; `Injection` is implemented (`KeepsRunnersView`) |

`Runner` has 501,449 distinct states, `Flip` 430,973, `Campaign` 130,995 and
`Sched` 25,801. Eight more runs (section 5) end in a counterexample.

### Why these bounds are enough

* `UIntMax` stands for the largest `unsigned`, and so for the number of runs a
  limit of 0 allows after `--Attempts` has wrapped. With 3 a job of one thread can
  abandon one run and then another, so that the third starts with what two left
  behind; nothing in the code relates more than two consecutive runs. The
  theorems on jobs of one thread hold for any number.
* One more thread beside the main one is enough for a clone event that races
  the new thread's stop, for a signal that the wrong thread takes and for a
  set that shrinks while it is walked. The properties of the run say nothing of
  such workloads that only one more thread made true: `NoReapedThreadKnown`,
  `AttemptsRespected`, `KeepsContract` and the first half of `FaultBeforeVerdict`
  are proved for any number, and the other properties are about workloads of one
  thread (next section).
* The command lines of `Campaign` combine every way to get the execution time
  and the exit state (10) with none and two test runs, then vary one or two of
  the other options at a time, and end with lines that are refused or whose
  order, repetition or overflow matters. With `unsigned` ending at 3, `-1` and
  numbers that are too large wrap to numbers of jobs and runs that the model can
  execute; three runs over two jobs are the longest batch.
* Three jobs, two at a time: a slot is reused while another job runs, and both
  may be zombies at once. The theorems cover any number.
* `Flip` has the real widths and offsets of registers that alias each other;
  the forced bits are in range of some and out of range of others, and of
  `rflags` most bits are masked. Its places are in and between seven mappings:
  the program, anonymous memory after it and after a library, three libraries of
  which one is not recognised, and more code of the program, adjacent and apart;
  a second map begins with anonymous memory.

### Workloads of several threads

Some properties are restricted to workloads of one thread (`opt.Threads = 0`),
because the code does not have them otherwise. With a second thread TLC refutes
`NoWorkloadLeft` and `VerdictSound` within seconds when the restriction is taken
away: a clone event, or the `SIGSTOP` of a new
thread, may be the event the verdict waits for. The job then judges a run that
has not ended, and `cleanupWaitpidState()` is content with that event of the main
thread: the job reports with threads of the workload left, and an Exception that
is none. (It does not refute `CorruptedSoundOnCleanFile`, but after a premature
verdict that says little, and nothing is claimed of it.)

With two more threads and three attempts a verdict may even be about a run
without a fault, by a path of 43 steps. In the first run the selected thread ends
and is reaped while the main thread clones another, whose `SIGSTOP` is returned
before the clone event; `kill()` fails, and the run is abandoned with its process
alive. In the second run that process's clone event is skipped, so its new thread
enters `ChildThreads` of the second run, is selected, stopped and flipped, and the
second process, which nobody touched, is judged. This is why `FaultBeforeVerdict`
promises a fault in the judged run for one thread only, and in some run of the
job for any number.

A kill from outside is also more than `NoWorkloadLeft` bears, even with one
thread: a child that is killed after its first stop was reported and before
`PTRACE_SETOPTIONS` is a zombie at the next attempt. There it may be reaped as if
it were the end of the next run, which is then abandoned, and the clean-up may
wait for ever for a process that is left stopped: `TerminatesInTime` excludes
such kills too.

### Deadlock

`Runner` does not check for deadlock because the code can really stop: with a
second thread, `cleanupWaitpidState()` waits for the main thread alone, whose end
the kernel does not report before the other threads are reaped; and in `late`
settings an endless workload is waited for without a timeout (section 5). That
a job of one thread does not stop otherwise is `TerminatesInTime`. Of the runs
that end in a counterexample, three of `MCRunner` do not check it either, as the
counterexample is what they are for.

### Fairness

`Runner!FairSpec` has weak fairness for the main thread, the sleeping thread
and the kernel: the operating system schedules both threads of the process,
delivers signals, lets steps and deaths finish, and lets time pass until the
alarm. There is none for the workload: after a fault it may loop for ever, and
that a job ends nevertheless is the point of the timeout. `TerminatesInTime` is
about workloads of one thread that are signalled before their timeout
(`~opt.late`) and not killed from outside (`~opt.oom`); without these hypotheses a
job may not end.

`JobScheduler!FairSpec` has weak fairness for the parent and for the steps of
each job (one condition for each of the `TestRuns` possible jobs): that a job ends
is `Runner!TerminatesInTime`, and that a workload without tracer ends is assumed
(it is ended by its own alarm).

`Campaign!FairSpec` has weak fairness for `main()` and for each job. A test job
ends by `Runner!TerminatesInTime`; the timing run sets no timeout, so that the
original program ends by itself is an assumption zofi makes too.

## 4. What is proved

TLAPS proves, for every value of the constants:

| Theorem | States |
|---|---|
| `CampaignProofs!TypeCorrect` | `main()` keeps its types |
| `CampaignProofs!OptionsLegal` | `OptionsEstablished` |
| `CampaignProofs!OriginalOutlivesTests` | `OrigFilesKept` |
| `CampaignProofs!Leftovers` | `LeftoversKnown`: which files are left after exit code 0, as an equality |
| `CampaignProofs!Endings` | `EndExplained` |
| `CampaignProofs!ReportsAddUp` | `ReportComplete`, for any number of test jobs |
| `JobSchedulerProofs!TypeCorrect` | the scheduler keeps its types |
| `JobSchedulerProofs!PidsKnown` | `waitpid(-1)` returns known jobs only |
| `JobSchedulerProofs!BoundRespected` | at most `Jobs` job processes |
| `JobSchedulerProofs!CountsCorrect` | counters equal reports if all jobs report |
| `JobSchedulerProofs!TotalsCorrect`, `CountedOnce`, `BarCorrect`, `OrigCorrect` | totals, one count per job, bar, job 0's exit state |
| `JobSchedulerProofs!BatchImplemented` | the scheduler implements `JobBatch` |
| `RunnerProofs!TypeCorrect` | a job keeps its types |
| `RunnerProofs!AttemptsBounded` | a limit of N > 0 starts at most N - 1 runs, and a job that gives up for lack of attempts has started exactly those |
| `RunnerProofs!NoReapedThread` | while a job runs, `ChildThreads` never holds the id of a reaped thread |
| `RunnerVerdictProofs!ContractKept` | a job implements `TestJob` (`KeepsContract`), with any number of threads and in any surroundings |
| `RunnerVerdictProofs!FaultInjected` | `FaultBeforeVerdict`: a verdict means that some run of the job was injected into, and with one thread that the last one was |
| `RunnerVerdictProofs!NoneLeftBehind` | `NoWorkloadLeft`: one thread, not killed from outside |
| `RunnerVerdictProofs!VerdictsSound` | `VerdictSound`: one thread, if it is not killed from outside |
| `RunnerVerdictProofs!CorruptedVerdictSound` | `CorruptedSoundOnCleanFile`: the same |
| `AddressSpaceProofs!LibrarySearch` | the search in the set finds a mapping for every address a thread can stop at; away from seams it is the one that has the address, and if that has a path it is judged by its own |
| `BitFlipProofs!TypeCorrect` | an injection keeps its types |
| `BitFlipProofs!FlipsAsRequested` | `AsRequested`: the register and bit are those asked for |
| `BitFlipProofs!FlipsOneBit` | `DiffersInOneBit`: a flip that reaches the thread changes the chosen bit, and none changes anything else |
| `BitFlipProofs!OwnPathJudged` | `OwnPathDecides`: with `-no-inject-to-libs` a stop is refused exactly if the path of its own mapping ends in `.so`, seams and anonymous mappings excepted |
| `BitFlipProofs!FaultReaches` | `FaultReachesProgram`: a fault that reaches the thread is read by the instruction or survives it |
| `BitFlipProofs!NoRegisterLeftOut` | `NothingLeftOut`: every register promised can be drawn, but those `LeftOut` names |
| `BitFlipProofs!RunnersViewKept` | `BitFlip` implements `Injection` |

### Assumptions

`UIntMax` is positive and `NThreads` a natural number; `Configs`, `Settings`,
`Instrs`, `RegTable` and `Masked` are well-formed (each has a named `ASSUME` in the
module that declares it); `TestRuns` is a natural number and `Jobs` a positive
one. Of the command lines it is assumed that they are sequences of words, of
the words that "0" and "1" are the numbers 0 and 1, that "rwe" is made of these
letters and that the empty word, "help" and the mark of a measured execution time
are neither numbers nor registers, and of the number of cores that it fits an
`unsigned`. Nothing else is assumed of all theorems together; what some of them
need beside it is stated in the property or in the theorem:

* *One thread* (`opt.Threads = 0`), for the reasons given in section 3.
* *Not killed from outside* (`~opt.oom`). `NoWorkloadLeft` is false otherwise. That
  `VerdictSound` and `CorruptedSoundOnCleanFile` hold with such kills too is
  checked by `Runner` but not proved: the zombie that may then be left
  invalidates `AloneInv`, on which the proof rests.
* *The injector's stops only* (`OwnStops`: the alarm comes after the injection, and
  the original program was not stopped by a signal). Without it a SIGTRAP that is
  still pending when an earlier stop is taken for the injector's (section 5,
  `DocTimeout`) ends the run as an Exception. Only the meaning of Exception
  needs it.

### The arguments

*Campaign.* `Inv` is the types and five more parts. `OptionsInv`: an option that
was not given has its default (so that a forced bit that is a number was given),
and from `SanityChecks` on the options are legal. They stay so because `main()`
sets one option only, the execution time, which no check reads (`SameMeaning`).
`FlowInv` says which batch a stage is about and how the stage was reached.
`OrigFilesInv` follows the files of job 0 from the fork through the timing run,
the import and the test runs to their removal: they exist as soon as job 0 has
started, no step but `RemoveOrigFiles` takes them away, and it comes after the
last test job. `TimingFilesInv` says which files of the timing run there are at
each stage: those of the jobs that were started, then of all of them, or of none
if it was skipped, and in the end without those of job 0 if they were removed.
It needs that nothing changes in between whether a timing run is made
(`SameTiming`) and that no option is given the mark of a measured time
(`TimeParsed`). `TestFilesInv` ties the files of each test job to its status and
to what it sent; it holds as long as zofi has not aborted. Each part is
preserved by each action of `Next` with the help of the others.

`ReportComplete` relates what is printed to the number of test runs and needs two
more parts. `CountInv`: as long as each collected test job had sent a verdict,
the injections that succeeded and the skipped runs add up to the collected
jobs, and a run is only Detected when there is an exit code to detect. A batch
begins with neither, `VerdictCounted` says that `Statistics::incr()` adds one to
the sum, and `FiniteJobs` that collecting adds one to the cardinality. `ReportInv`:
what has been printed is what the final counters were.

*AddressSpace.* Lines ascend (`LinesOrdered`), so an address off the seams is
equivalent to the mapping that has it and to no other (`FoundIsHome`), and at a
seam the mapping below is found (`SeamIsFound`). The path in `parse()`'s buffer is
that of the greatest named line up to a given one, which for a line that has a
path is that line (`OwnPath`).

*Runner.* `NoReapedThreadKnown` is not inductive: a thread that is inserted on
a clone event must be shown to exist still. `ThreadInv` strengthens it.
`CloneInv` says that a thread not yet announced is new, is about to stop or
stopped, and is unknown to `ChildThreads` and to the injector, so nobody can
have resumed or reaped it, and that no two events announce the same thread.
When the whole process ends, creator and new thread start to die in one step and
the event is lost with them (`GroupDying`). `DeathInv` says that
zombies carry the status of an end, so that a known thread is erased when it is
reaped (`SkipThreadEnd`) rather than returned. `KnownInv` says that known
threads belong to runs that were started. The attempt bound needs
`AttemptsInv`: attempts used and left add up to the limit, and failures lag
behind runs while one is in progress. The proofs treat each action once per
table it changes; lemmas on `SetThread` and `GroupDying` stand for the actions
that only use those.

*Runner, verdicts.* What a verdict means is decided long before it is given, by
both threads of the job and by the kernel, so none of these properties is
inductive. `JobInv` (module `RunnerInvariants`) describes the stages a run goes
through: it is started, injected into, judged, and left, with a verdict or
without. `FlowInv` and `FreshInv` hold for any workload: what is asked for is
what is done, a run is judged only after some run was injected into, and nothing
has happened to the runs to come. `OneThreadInv` holds for workloads of one
thread, whatever kills them: no other thread ever exists, so the sleeping thread
can only select the child, and the run that is judged is the one that was
injected into (`HitInv`). `SingleInv`, the rest, is about workloads of one thread
that nobody else kills. `AloneInv` and `ChildInv` say at which stage the child may
be in which state; `AloneInv` is what makes `waitpid(-1)` a wait for the child.
`ChosenInv` says that the sleeping thread only fails to signal a child that is
gone. `EndInv` traces an end of the child to the workload or to an early death.
`AbortInv`: only what `TestJob` names makes such a job abort; with several threads
or outside kills `TestJob` lets any job abort, so `ContractKept` needs no
hypothesis. `TrapInv` follows the injector's SIGTRAP: it is pending, reported or
consumed, and consumed before the flip, so that no verdict can see it. `AlarmInv`
says that who reports an alarm has used up the timer, and `FileInv` that the file
holds what this run wrote, after a hole if an earlier run wrote too. `VerdictInv`
carries the result from the moment of the verdict through the clean-up to the
report. Each part has a lemma with a case per action; what an action does to the
child and to its process is stated once, by `MainEffects`, `SleeperEffects` and
`KernelEffects`. TLC checked `JobInv` on the instance of `Runner` before it was
proved.

*JobScheduler.* `ProcessInv` is the strengthening: jobs are spawned in order,
`ActiveJobs` is exactly the processes not yet reaped together with the one
whose pipe is being read, and nothing is in the pipe of a job that has not
exited normally. `BoundRespected` needs in addition that the active set is
finite, and `CountsCorrect` that the cardinality of the set of collected jobs
with an outcome grows by one exactly when the parent forgets one.
`BatchImplemented` maps each step of the scheduler, under these invariants, to a
step of `JobBatch` or to a stutter: `Spawn` starts the first job that is to do,
`WaitForJob` is a stutter or an abort, and the two ways to collect are `Collect`.

*BitFlip.* `Inv` adds to `AsRequested` and `DiffersInOneBit` that the machine is as
old as the instructions executed, that no instruction has been executed before
the step and that nothing differs before the flip; the only step that makes a
difference is the writing back, of one bit in one buffer, which arrives if
`Reaches` says so. `DrawnAsRequested` is the lemma on the choice: what is in
`RegsVec` is promised by the options, or is an operand without a known access. It
needs that the options passed `sanityChecks`, as without `r` and `w` the code falls
back to written registers. Its converse is `PromisedListed`: for an instruction
that is decoded, what is promised is in `RegsVec`, but for what `LeftOut` names.
`FaultReaches` needs `FaultInv` (what is flipped before the instruction was drawn
among the registers it reads, or has no known access), and `OwnPathJudged` the
theorem on `AddressSpace`. `RunnersViewKept` maps each action to one of
`Injection` or to a stutter.

### What is only model-checked

* Liveness (`Runner!TerminatesInTime`, `JobScheduler!Terminates`, `Campaign!Ends`),
  since the prover does not reach fairness.
* `VerdictSound` and `CorruptedSoundOnCleanFile` of workloads of one thread that
  are killed from outside.

Every other property a passing run checks is stated by a theorem.

## 5. Where the code and its documentation disagree

Each of these has a run in which TLC finds a counterexample, and is listed
under `findings`.

* `DocRetryOutput` (`runner.cpp:158`). A retry truncates the output files but
  not the file offset the processes share, so a correct run that follows an
  abandoned one that wrote output writes after a hole and is reported Corrupted.
* `DocSelectedThread` (`runner.cpp:425`). `kill()` signals a process: the thread
  that stops need not be the one that was selected.
* `DocTimeout` (`runner.cpp:465`). A stop by the alarm is taken for the
  injector's. The run continues without a timeout, and may never end.
* `DocAttempts` (`runner.cpp:380`). The counter is decremented before it is looked
  at: a limit of N allows N - 1 runs, and a limit of 0 as many as an `unsigned`
  counts. `AttemptsRespected` says what the code does, this run that it is not
  what `optionsList.cpp:42`, `README.md:263` and the error message say.
* `DocUninitialized` (`threads.cpp:64`). A job that wrote nothing is counted
  under whatever `FaultStatus` happens to hold.
* `DocVectorFlip` (`regManip.cpp:402`). A flip in xmm, ymm or zmm is reported as
  a success but never reaches the thread.
* `DocLibraries` (`addrSpace.cpp:59`). Only a path that ends in `.so` is a library's,
  so with `-no-inject-to-libs` code of `libc.so.6` is injected (`README.md:203`).
* `DocSuccess` (`zofi.cpp:103`). A job that gives up ends its own process only: zofi
  prints statistics and returns 0, even if every job gave up (`README.md:263`).

Met while modelling, described by the models, and without a run of their own.

Of the test job: the comment that `join()` returns at once (`runner.cpp:443`) does
not hold when the workload ends first; not every failure of an injection kills
the child (`runner.cpp:529`), nor does every failure to start one reap it
(`runner.cpp:185`); the stop of a new thread that is reported while a job waits
for the end of a faulted run is judged as an Exception (`runner.cpp:222`); the
assertions that a step ends in a SIGTRAP and that a child cannot be terminated by
a signal can fail (`runner.cpp:514`, `351`); `-diff-cmd` ignores the exit state
(`runner.h:187`).

Of the register manipulator: a drawn flag bit the kernel masks, or a bit of an x87
or mmx register whose state is not in use, is reported as flipped like a vector
register's; only instructions of up to 8 bytes are disassembled, although 16 words
are read and `MAX_INSTR_BYTES` is 16 (`regManip.cpp:213`); `-inject-to rwi` finds no
implicit register, against the table at `README.md:117`; registers without
storage are not skipped (`regs.def`); a forced bit below the first bit of a
register passes the check whose message names that bit as the lower bound
(`options.cpp:164`), and is then always refused.

Of the main program: with `-set-orig-exit-state` and no timing run, which is what
`optionsList.cpp:107` ("without running the workload") and `zofi.cpp:51` are for,
each test job gives up, as the imported state has no descriptors; of the files of
the timing run only job 0's are removed, and not even those if the exit state was
set (`zofi.cpp:106`); `-bin-exec-time` is documented in microseconds and used as
seconds; `-detection-exit-code -1` prints a row Detected although no run can be
detected; the CSV line lacks the detected and the skipped runs; under
`-no-redirect` all runs are skipped and "No Results." is printed in the place of
the row Skipped; `-test-runs 0` with `-disable-timing-run` fails the assertion in
`main()`; a number that overflowed leaves `errno` set and makes a well-formed
`-set-orig-exit-state` be refused; the text of `-no-inject-to-libs` says the
opposite of what the option does.

Of the address space: any path of two characters is a library's (`rfind()` and the
wrapped length are both `npos`); an anonymous mapping is judged by the path read
last before it; the first address after a library's mapping may count as inside
it.

## 6. Not modelled

* Of the main program: `-diff-cmd` (its effect on a verdict is in `Runner`), the
  warnings, the execution time as a number, `randInit()`, and two zofis that use
  the same files.
* Of the child before its first instruction: that `execve()` fails (it dies), and
  that it is killed or its alarm goes off between `PTRACE_TRACEME` and `execve()`.
* Of the address space: a maps file that cannot be opened (`die()`), and a change
  of the mappings while it is read, which other threads could make.
* The wrappers in `utils.h` that call the system and `die()` on failure, where no
  behaviour of the kernel model makes them fail.
* The byte layout of the xsave area, dumps, the layout of the reports, drawing of
  the progress bar, the debug stream: formatting or input/output only.
* Probabilities: that a draw is uniform is no property of a single behaviour.
* The driver `test/zit` and its programs, which were read for what they expect.
* Several processes created by the workload itself: `PTRACE_O_TRACEFORK` is not
  set, so the job does not see them.

## 7. Plan

1. *Core (done).* `Ptrace`, `Runner` with `TestJob`; `JobScheduler`; `BitFlip` with
   `Injection`; their runs; inductive invariants and proofs.
2. *Campaign (done).* `main()` and its options over `JobBatch`, which
   `JobScheduler` implements; the reports as far as their numbers go.
3. *AddressSpace (done).* The search in the ordered set against the definition
   "the mapping that has the address", inside `BitFlip`.
4. *More proofs (done).* The refinements of `JobBatch`, `TestJob` and `Injection`;
   the properties of `BitFlip`; the meaning of verdicts, from an invariant that
   ties `pc` and `sl` of `Runner` to the thread table; the sums of the reports.
5. *Left open.* Several threads in the run that checks liveness, for which the
   wait in `cleanupWaitpidState()` would have to change; and what a job of
   several threads promises beyond `NoReapedThread`, `AttemptsBounded`,
   `ContractKept` and the first half of `FaultInjected`; and a proof of
   `VerdictSound` for workloads of one thread that are killed from outside.
