------------------------------ MODULE Campaign ------------------------------
(***************************************************************************)
(* main() of src/zofi.cpp, from the command line to the exit code: the     *)
(* options (module OptionsParser), the timing run and the test runs (two   *)
(* batches of jobs, module JobBatch), what one test job may answer (module *)
(* TestJob), the original exit state that is measured by job 0 or imported *)
(* (src/exitState.cpp), the temporary output files, and the reports of     *)
(* src/statistics.cpp.                                                     *)
(***************************************************************************)
EXTENDS OptionsParser, FiniteSets, ExitStates

CONSTANTS
  Imports   \* -set-orig-exit-state: a word of the right form |-> what it says

ASSUME ImportsAssumption ==
  \A w \in DOMAIN Imports :
    Imports[w] \in [filesExist : BOOLEAN,
                    Type : {"Exited", "Signaled", "bad"}]

VARIABLES
  task, phase, status, result, counts, kept,   \* the batch: see JobBatch
  OrigState,  \* the original exit state, as main() holds it
  temp,       \* the Ids of the jobs of each kind whose two output files exist
  harsh,      \* jobs and files may fail for reasons that are not zofi's
  table,      \* Statistics::dump(): the rows it printed
  csv         \* Statistics::dumpToCSV(): the counters of the line it wrote

batchVars == <<task, phase, status, result, counts, kept>>
mainVars == <<OrigState, temp, harsh, table, csv>>
vars == <<parserVars, pc, batchVars, mainVars>>

Batch == INSTANCE JobBatch

TestRuns == Unsigned("-test-runs")
Min2(a, b) == IF a < b THEN a ELSE b

(* ExecutionExitState: fds is true if both descriptors are not -1; files   *)
(* says whose the two names are; "none" is the empty name.                 *)
ExecState == [fds : BOOLEAN, files : {"none", "job0", "user"},
              Type : {"Invalid", "Exited", "Signaled", "Stopped"}]
OrigIsSet == OrigState.fds /\ OrigState.Type # "Invalid"
NoRows == [s \in {} |-> 0]
NoFiles == [k \in {"orig", "test"} |-> {}]

CampaignInit ==
  /\ Init
  /\ task = [kind |-> "orig", total |-> 0, limit |-> 0]
  /\ phase = "returned"
  /\ status = Batch!InitialStatus(task) /\ result = Batch!InitialResult(task)
  /\ counts = Batch!Zero /\ kept = Batch!NoId
  /\ OrigState = [fds |-> FALSE, files |-> "none", Type |-> "Invalid"]
  /\ temp = NoFiles
  /\ harsh \in BOOLEAN
  /\ table = NoRows /\ csv = NoRows

Parses == ParserNext /\ UNCHANGED <<batchVars, mainVars>>

-----------------------------------------------------------------------------
(* The batches.                                                            *)

InBatch == pc \in {"orig", "tests"}
SetOrig == "-set-orig-exit-state" \in IsSet
NoCleanup == val["-no-cleanup"] = "1"
NoRedirect == val["-no-redirect"] = "1"

(* The job is forked and its constructor makes its two files. *)
JobStarts(j) ==
  /\ InBatch
  /\ Batch!Start(j)
  /\ temp' = [temp EXCEPT ![task.kind] = @ \cup {j}]
  /\ UNCHANGED <<parserVars, pc, OrigState, harsh, table, csv>>

(* The options and the workload as a test job sees them.  That it can also *)
(* fail for its threads, as for a signal from outside, comes under harsh.  *)
JobOpt ==
  [NoRedirect |-> NoRedirect,
   DetectionExitCode |-> IF Int32("-detection-exit-code") > 0
                         THEN "codeDetected" ELSE "666",
   InjectionsPerRun |-> Unsigned("-injections-per-run"),
   MaxInjectionAttempts |-> 100,
   OrigSet |-> OrigIsSet,
   orig |-> [Type |-> OrigState.Type],
   oom |-> harsh, tooEarly |-> harsh, syscallStep |-> FALSE,
   Threads |-> 0, regs |-> "known"]

Job == INSTANCE TestJob WITH Configs <- {}, opt <- JobOpt,
                             phase <- phase, report <- "None"

OrigFilesExist == OrigState.files = "job0" => 0 \in temp["orig"]

(* What a job may send before it ends; a job that compares its output must *)
(* find the original files (openSafe()).                                   *)
MaySend(m) ==
  IF task.kind = "orig" THEN m = "state" \/ harsh
  ELSE IF m = "empty"
  THEN Job!MayGiveUp(JobOpt) \/ Job!MayAbort(JobOpt) \/ ~OrigFilesExist
  ELSE m \in Job!Reports(JobOpt) /\ (m \in Job!Compared => OrigFilesExist)

(* Mutants of CleansUp: the original jobs take -no-cleanup for its         *)
(* opposite; test jobs ignore it.                                          *)
CleansUpOrig(m) == m # "empty" /\ ~NoCleanup
CleansUpAlways(m) == m # "empty" /\ task.kind = "test"

(* ~RunnerBase() removes the files, if it is run at all.  OrigRunner is    *)
(* given NoCleanup for DoCleanup, so it never removes any.                 *)
CleansUp(m) == m # "empty" /\ task.kind = "test" /\ ~NoCleanup

(* After zofi has aborted, a job may be killed when it writes to its pipe. *)
JobEnds(j, m) ==
  /\ Batch!End(j, m)
  /\ MaySend(m)
  /\ temp' \in {IF CleansUp(m) THEN [temp EXCEPT ![task.kind] = @ \ {j}]
                ELSE temp}
               \cup (IF pc = "abort" THEN {temp} ELSE {})
  /\ UNCHANGED <<parserVars, pc, OrigState, harsh, table, csv>>

JobCollected(j) ==
  /\ InBatch
  /\ Batch!Collect(j)
  /\ UNCHANGED <<parserVars, pc, mainVars>>

(* waitForJob() fails an assert. *)
BatchAborts ==
  /\ InBatch
  /\ Batch!Abort
  /\ pc' = "abort"
  /\ UNCHANGED <<parserVars, mainVars>>

(* A mutant of NoJobAllowed: without the assert it waits for ever. *)
NoJobAllowedWaits ==
  /\ InBatch /\ phase = "running"
  /\ task.limit = 0 /\ task.total > 0
  /\ UNCHANGED vars

(* With -j 0, and that is when the number of cores is not known, run()     *)
(* waits for a job before it has started one, and fails the assert too.    *)
NoJobAllowed ==
  /\ InBatch /\ phase = "running"
  /\ task.limit = 0 /\ task.total > 0
  /\ pc' = "abort"
  /\ UNCHANGED <<parserVars, batchVars, mainVars>>

-----------------------------------------------------------------------------
(* The timing run.                                                         *)

NeedsTimingRun ==
  /\ "-disable-timing-run" \notin IsSet
  /\ ~({"-bin-exec-time", "-set-orig-exit-state"} \subseteq IsSet)

TimingRun ==
  /\ pc = "timing" /\ NeedsTimingRun
  /\ Batch!Begin([kind |-> "orig", total |-> Min2(Jobs, TestRuns),
                  limit |-> Jobs])
  /\ pc' = "orig"
  /\ UNCHANGED <<parserVars, mainVars>>

SkipTimingRun ==
  /\ pc = "timing" /\ ~NeedsTimingRun
  /\ pc' = "check"
  /\ UNCHANGED <<parserVars, batchVars, mainVars>>

(* The time is measured unless it was given; the state is job 0's, if job  *)
(* 0 sent one.                                                             *)
TimingRunEnds ==
  /\ pc = "orig"
  /\ Batch!Return
  /\ IF "-bin-exec-time" \in IsSet THEN UNCHANGED <<IsSet, val>>
     ELSE /\ IsSet' = IsSet \cup {"-bin-exec-time"}
          /\ val' = [val EXCEPT !["-bin-exec-time"] = "measured"]
  /\ IF kept = Batch!NoId THEN UNCHANGED OrigState
     ELSE \E t \in {"Exited", "Stopped"} \cup (IF harsh THEN {"Signaled"}
                                                ELSE {}) :
            OrigState' = [fds |-> TRUE, files |-> "job0", Type |-> t]
  /\ pc' = "check"
  /\ UNCHANGED <<argv, argi, errno, HWThreads, Jobs, temp, harsh, table, csv>>

-----------------------------------------------------------------------------
(* The checks and the import of an exit state.                             *)

MainGoes(to) ==
  /\ pc' = to
  /\ UNCHANGED <<parserVars, batchVars, mainVars>>

CheckExecTime ==
  /\ pc = "check"
  /\ MainGoes(IF "-bin-exec-time" \notin IsSet /\ TestRuns # 0 THEN "exit1"
              ELSE "import")

NoImport == pc = "import" /\ ~SetOrig /\ MainGoes("assert")

WellFormed == val["-set-orig-exit-state"] \in DOMAIN Imports
Import == Imports[val["-set-orig-exit-state"]]

(* userDie(): not of the form, an old errno, or no such files. *)
ImportRefused ==
  /\ pc = "import" /\ SetOrig
  /\ WellFormed => errno \/ ~Import.filesExist
  /\ MainGoes("exit1")

(* die() in ExitState::import(). *)
ImportDies ==
  /\ pc = "import" /\ SetOrig
  /\ WellFormed /\ ~errno /\ Import.filesExist
  /\ Import.Type = "bad"
  /\ MainGoes("abort")

(* A mutant of ImportState: any type is taken. *)
ImportStateAnyType ==
  /\ pc = "import" /\ SetOrig
  /\ WellFormed /\ ~errno /\ Import.filesExist
  /\ OrigState' = [OrigState EXCEPT !.files = "user", !.Type = Import.Type]
  /\ pc' = "assert"
  /\ UNCHANGED <<parserVars, batchVars, temp, harsh, table, csv>>

(* The names and the state are replaced; the descriptors stay as they are. *)
ImportState ==
  /\ pc = "import" /\ SetOrig
  /\ WellFormed /\ ~errno /\ Import.filesExist
  /\ Import.Type # "bad"
  /\ OrigState' = [OrigState EXCEPT !.files = "user", !.Type = Import.Type]
  /\ pc' = "assert"
  /\ UNCHANGED <<parserVars, batchVars, temp, harsh, table, csv>>

AssertFails ==
  /\ pc = "assert" /\ "-bin-exec-time" \notin IsSet
  /\ MainGoes("abort")

-----------------------------------------------------------------------------
(* The test runs, what they leave, and the reports.                        *)

(* A mutant of TestRunsBegin: as many test runs as original ones. *)
TestRunsBeginFew ==
  /\ pc = "assert" /\ "-bin-exec-time" \in IsSet
  /\ Batch!Begin([kind |-> "test", total |-> Min2(Jobs, TestRuns),
                  limit |-> Jobs])
  /\ pc' = "tests"
  /\ UNCHANGED <<parserVars, mainVars>>

TestRunsBegin ==
  /\ pc = "assert" /\ "-bin-exec-time" \in IsSet
  /\ Batch!Begin([kind |-> "test", total |-> TestRuns, limit |-> Jobs])
  /\ pc' = "tests"
  /\ UNCHANGED <<parserVars, mainVars>>

TestRunsEnd ==
  /\ pc = "tests"
  /\ Batch!Return
  /\ pc' = "cleanup"
  /\ UNCHANGED <<parserVars, mainVars>>

Removes == ~NoCleanup /\ ~SetOrig /\ OrigState.files # "none"

RemoveOrigFiles ==
  /\ pc = "cleanup"
  /\ temp' = IF Removes THEN [temp EXCEPT !["orig"] = @ \ {0}] ELSE temp
  /\ pc' = IF Removes /\ ~OrigFilesExist THEN "abort" ELSE "dump"
  /\ UNCHANGED <<parserVars, batchVars, OrigState, harsh, table, csv>>

Columns == {"Masked", "Exception", "InfExec", "Corrupted"}
TotalInjOK == counts["Masked"] + counts["Exception"] + counts["InfExec"]
              + counts["Corrupted"] + counts["Detected"]

(* A mutant of Printed: detected and skipped runs are left out. *)
PrintedAlways == Columns

Printed ==
  Columns \cup (IF Int32("-detection-exit-code") # 0 THEN {"Detected"} ELSE {})
          \cup (IF counts["Skipped"] # 0 THEN {"Skipped"} ELSE {})

(* "No Results." if nothing was injected and judged. *)
Dump ==
  /\ pc = "dump"
  /\ table' = IF Int32("-v") >= 1 /\ TotalInjOK # 0
              THEN [s \in Printed |-> counts[s]] ELSE table
  /\ pc' = "csv"
  /\ UNCHANGED <<parserVars, batchVars, OrigState, temp, harsh, csv>>

(* userDie() if the file, or one in the directory, cannot be opened. *)
DumpToCSV ==
  /\ pc = "csv"
  /\ \/ /\ "-out-csv" \in IsSet /\ harsh
        /\ pc' = "exit1" /\ UNCHANGED csv
     \/ /\ csv' = IF "-out-csv" \in IsSet
                  THEN [s \in Columns |-> counts[s]] ELSE csv
        /\ pc' = "moufoplot"
  /\ UNCHANGED <<parserVars, batchVars, OrigState, temp, harsh, table>>

DumpToMoufoplot ==
  /\ pc = "moufoplot"
  /\ \/ "-out-moufoplot" \in IsSet /\ harsh /\ MainGoes("exit1")
     \/ MainGoes("exit0")

-----------------------------------------------------------------------------
Main ==
  \/ Parses
  \/ TimingRun \/ SkipTimingRun \/ TimingRunEnds
  \/ CheckExecTime \/ NoImport \/ ImportRefused \/ ImportDies \/ ImportState
  \/ AssertFails
  \/ TestRunsBegin \/ TestRunsEnd
  \/ RemoveOrigFiles \/ Dump \/ DumpToCSV \/ DumpToMoufoplot
  \/ \E j \in Batch!Ids : JobStarts(j) \/ JobCollected(j)
  \/ BatchAborts \/ NoJobAllowed

JobStep(j) == \E m \in Batch!Messages \cup {"empty"} : JobEnds(j, m)

Ended == pc \in {"exit0", "exit1", "abort"}

Over == Ended /\ UNCHANGED vars

Next == Main \/ (\E j \in Batch!Ids : JobStep(j)) \/ Over

Spec == CampaignInit /\ [][Next]_vars

(* A job ends: Runner!TerminatesInTime for a test run; the original program is   *)
(* taken to end by itself, as the timing run has no timeout.               *)
FairSpec ==
  Spec /\ WF_vars(Main) /\ \A j \in 0..(UIntMax - 1) : WF_vars(JobStep(j))

-----------------------------------------------------------------------------
(* Properties. *)

TypeOK ==
  /\ ParserTypeOK
  /\ pc \in {"parse", "sanity", "help", "init", "timing", "orig", "check",
             "import", "assert", "tests", "cleanup", "dump", "csv",
             "moufoplot", "exit0", "exit1", "abort"}
  /\ task \in Batch!Task
  /\ phase \in {"running", "returned", "aborted"}
  /\ status \in [Batch!Ids -> {"todo", "active", "ended", "collected"}]
  /\ result \in [Batch!Ids -> Batch!Messages \cup {"empty"}]
  /\ counts \in [Batch!Counted -> Nat]
  /\ kept \in Batch!Ids \cup {Batch!NoId}
  /\ OrigState \in ExecState
  /\ temp \in [{"orig", "test"} -> SUBSET Nat]
  /\ harsh \in BOOLEAN

Running == pc \notin {"parse", "sanity", "help", "init"} /\ ~Ended

(* Whatever the order, the repetition and the values of the options, main  *)
(* runs with options the other parts can rely on: a number of jobs that    *)
(* the machine can run, one injection at most, classes of registers to     *)
(* choose from, either classes or a forced register, and a forced bit that *)
(* is not above its last one.  That the bit may be below the first one (ah *)
(* and 3), against the range that options.cpp:171-174 and -help print, is  *)
(* what the code allows, and no part of this.                              *)
OptionsEstablished ==
  Running =>
    /\ Jobs <= HWThreads /\ (HWThreads > 0 => Jobs > 0)
    /\ Unsigned("-injections-per-run") \in {0, 1}
    /\ "-inject-to" \notin IsSet \/ "-force-inject-to-reg" \notin IsSet
    /\ Chars \cap {"r", "w"} # {} /\ Chars \cap {"e", "i", "c", "o"} # {}
    /\ Bit \in DOMAIN Numeral /\ Reg \in DOMAIN LastBit =>
         Numeral[Bit] \in 0..LastBit[Reg]

(* "This holds the exit state of the original runs. So its lifetime should *)
(* reach the execution of the test runs": as long as a test job may still  *)
(* compare its output, the files the original state names exist.           *)
OrigFilesKept ==
  pc = "tests" /\ OrigState.files = "job0" => 0 \in temp["orig"]

TimingRunMade ==
  /\ "-disable-timing-run" \notin IsSet
  /\ ~SetOrig \/ val["-bin-exec-time"] = "measured"

TimingIds == IF TimingRunMade THEN 0..(Min2(Jobs, TestRuns) - 1) ELSE {}
RemovedIds == IF Removes THEN {0} ELSE {}

(* Exactly what zofi leaves in the directory of its temporary files when   *)
(* it ends with exit code 0: all files of the timing run but those job 0's *)
(* state names, and the files of the test jobs that failed; with           *)
(* -no-cleanup, everything.  ("Remove temporary files of original run",    *)
(* zofi.cpp:106, promises more than it does: the files of its other jobs   *)
(* stay, with or without -no-cleanup.)                                     *)
LeftoversKnown ==
  pc = "exit0" /\ ~Prints =>
    /\ temp["orig"] = TimingIds \ RemovedIds
    /\ temp["test"] = {j \in Batch!Ids : NoCleanup \/ result[j] = "empty"}

(* The sum of all rows of a report but Skipped. *)
Row(report, s) == IF s \in DOMAIN report THEN report[s] ELSE 0
RowSum(report) ==
  Row(report, "Masked") + Row(report, "Exception") + Row(report, "InfExec")
  + Row(report, "Corrupted") + Row(report, "Detected")
  + Row(report, "InjFailed")

(* If no test job failed, the rows that are printed (but for Skipped, of   *)
(* which they are no part) add up to the number their percentages are of,  *)
(* and with the skipped runs to the number of test runs; the line of the   *)
(* CSV file lacks the detected and the skipped runs only.                  *)
ReportComplete ==
  pc = "exit0" /\ ~Prints /\ (\A j \in Batch!Ids : result[j] # "empty") =>
    /\ table # NoRows =>
         /\ RowSum(table) = TotalInjOK
         /\ RowSum(table) + Row(table, "Skipped") = TestRuns
    /\ csv # NoRows =>
         RowSum(csv) + Row(csv, "Skipped")
         + counts["Detected"] + counts["Skipped"] = TestRuns

(* How zofi ends.  After exit code 0 either the version or the options     *)
(* were printed, or all test jobs were started and collected; whether they *)
(* had results is SuccessMeansResults.  It aborts only over a job that     *)
(* failed, an unknown number of cores, an exit type that is not known, or  *)
(* when no execution time is known and no test run asked for.              *)
EndExplained ==
  /\ pc = "exit0" /\ ~Prints =>
       /\ task.kind = "test" /\ task.total = TestRuns
       /\ \A j \in Batch!Ids : status[j] = "collected"
  /\ pc = "abort" =>
       \/ \E j \in Batch!Ids : status[j] = "ended" /\ result[j] = "empty"
       \/ HWThreads = 0
       \/ SetOrig /\ WellFormed /\ Import.Type = "bad"
       \/ TestRuns = 0 /\ "-bin-exec-time" \notin IsSet

(* "If the failures build up to a large number, greater than               *)
(* -max-injection-attempts, then it will exit with an error": nothing from *)
(* outside fails and there is an original state to compare with, so a test *)
(* job only ends without a result after its attempts; exit code 0 then     *)
(* means that none did.                                                    *)
SuccessMeansResults ==
  pc = "exit0" /\ ~Prints /\ ~harsh /\ OrigIsSet =>
    \A j \in Batch!Ids : result[j] # "empty"

(* zofi ends, if its jobs do. *)
Ends == <>Ended

-----------------------------------------------------------------------------
(* The inductive invariant behind the properties.                          *)

Reporting == pc \in {"dump", "csv", "moufoplot"} \/ (pc = "exit0" /\ ~Prints)
Tested == pc = "cleanup" \/ Reporting

(* What sanityChecks() and init() have established stays so. *)
OptionsInv ==
  /\ ParserInv
  /\ pc \in {"help", "init"} \/ Running => LegalInjection
  /\ Running => /\ Jobs <= HWThreads /\ (HWThreads > 0 => Jobs > 0)
                /\ Unsigned("-injections-per-run") <= 1

(* Which batch a stage of main() is about, and how the stage was reached. *)
FlowInv ==
  /\ pc = "orig" => task.kind = "orig" /\ NeedsTimingRun
  /\ InBatch => task.limit = Jobs
  /\ ~(pc = "tests" \/ Tested \/ Ended) => task.kind = "orig"
  /\ pc = "tests" \/ Tested => task.kind = "test" /\ task.total = TestRuns
  /\ Tested => \A j \in Batch!Ids : status[j] = "collected"
  /\ pc \in {"import", "assert"} =>
       "-bin-exec-time" \in IsSet \/ TestRuns = 0
  /\ EndExplained

(* The files a test job needs exist until the clean-up. *)
OrigFilesInv ==
  /\ task.kind = "orig" => temp["test"] = {}
  /\ pc = "orig" =>
       /\ OrigState.files = "none"
       /\ 0 \in Batch!Ids /\ status[0] # "todo" => 0 \in temp["orig"]
       /\ kept # Batch!NoId => 0 \in Batch!Ids /\ status[0] = "collected"
  /\ pc \in {"parse", "sanity", "help", "init", "timing"} =>
       OrigState.files = "none"
  /\ pc \in {"check", "import", "assert", "tests", "cleanup"} => OrigFilesExist

(* The files of the timing run are those of the jobs it started. *)
TimingFilesInv ==
  /\ pc \in {"parse", "sanity", "help", "init", "timing"} =>
       temp = NoFiles /\ IsNum(val["-bin-exec-time"])
  /\ pc = "orig" =>
       /\ task.total = Min2(Jobs, TestRuns)
       /\ temp["orig"] = {j \in Batch!Ids : status[j] # "todo"}
  /\ pc \in {"check", "import", "assert", "tests", "cleanup"} =>
       temp["orig"] = TimingIds
  /\ Reporting => temp["orig"] = TimingIds \ RemovedIds

(* The files of each test job follow its status. *)
TestFilesInv ==
  task.kind = "test" /\ pc # "abort" =>
    temp["test"] = {j \in Batch!Ids :
                      \/ status[j] = "active"
                      \/ /\ status[j] # "todo"
                         /\ NoCleanup \/ result[j] = "empty"}

(* As long as each collected test job had sent a verdict, the verdicts     *)
(* counted are those of the collected jobs; one of them is Detected only   *)
(* with an exit code to detect.                                            *)
Gathered == {j \in Batch!Ids : status[j] = "collected"}

CountInv ==
  task.kind = "test" =>
    /\ \A j \in Batch!Ids :
         result[j] = "Detected" => Int32("-detection-exit-code") > 0
    /\ (\A j \in Gathered : result[j] # "empty") =>
         /\ TotalInjOK + counts["Skipped"] = Cardinality(Gathered)
         /\ counts["Detected"] # 0 => Int32("-detection-exit-code") > 0

(* Reports are made of the final counters. *)
ReportInv ==
  /\ pc \notin {"csv", "moufoplot"} /\ ~Ended => table = NoRows /\ csv = NoRows
  /\ table # NoRows => table = [s \in Printed |-> counts[s]]
  /\ csv # NoRows => csv = [s \in Columns |-> counts[s]]

Inv ==
  /\ TypeOK /\ OptionsInv /\ FlowInv
  /\ OrigFilesInv /\ TimingFilesInv /\ TestFilesInv
=============================================================================
