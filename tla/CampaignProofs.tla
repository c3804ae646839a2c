--------------------------- MODULE CampaignProofs ---------------------------
(***************************************************************************)
(* Proofs about Campaign for every set of command lines, whatever their    *)
(* words stand for, every width of `unsigned` and every number of cores.   *)
(***************************************************************************)
EXTENDS Campaign, FiniteSetTheorems, TLAPS

(* What the proofs use of the assumption on the words. *)
LEMMA Words ==
  /\ UIntMax \in Nat /\ UIntMax > 0
  /\ Cores \subseteq 0..UIntMax
  /\ \A w \in DOMAIN Numeral : Numeral[w] \in Int
  /\ \A r \in DOMAIN LastBit : LastBit[r] \in Nat
  /\ "0" \in DOMAIN Numeral /\ "1" \in DOMAIN Numeral
  /\ \A a \in Argvs : a \in Seq(Word)
<1>1. UIntMax \in Nat \ {0} /\ Cores \subseteq 0..UIntMax
  BY ParserAssumption, Zenon
<1>2. UIntMax \in Nat /\ UIntMax > 0
  BY <1>1
<1> QED
  BY <1>1, <1>2, ParserAssumption

(* What the conversion of a number that was accepted is. *)
LEMMA UnsignedType ==
  ASSUME ParserTypeOK, NEW f \in NumFlags \ {"-bin-exec-time"}
  PROVE  Int32(f) \in Int /\ Unsigned(f) \in 0..UIntMax
<1>1. val[f] \in DOMAIN Numeral
  BY DEF ParserTypeOK, IsNum
<1>2. Int32(f) \in Int
  BY <1>1, Words DEF Int32
<1> UIntMax \in Nat
  BY Words
<1>3. \A a \in Int : a % (UIntMax + 1) \in 0..UIntMax
  OBVIOUS
<1> QED
  BY <1>2, <1>3 DEF Unsigned

LEMMA SizesTyped ==
  ASSUME ParserTypeOK
  PROVE  /\ TestRuns \in Nat /\ Jobs \in Nat /\ HWThreads \in Nat
         /\ Min2(Jobs, TestRuns) \in Nat
<1>1. TestRuns \in 0..UIntMax
  BY UnsignedType DEF TestRuns, NumFlags
<1>2. Jobs \in 0..UIntMax /\ HWThreads \in 0..UIntMax
  BY Words DEF ParserTypeOK
<1>3. UIntMax \in Nat
  BY Words
<1> QED
  BY <1>1, <1>2, <1>3 DEF Min2

-----------------------------------------------------------------------------
(* The parser.                                                             *)

LEMMA ParserInit == Init => ParserInv
<1> SUFFICES ASSUME Init PROVE ParserInv
  OBVIOUS
<1>1. Defaults \in [Flags -> Word]
  <2>1. \A f \in Flags : Defaults[f] \in {"0", "1", "rwe", ""}
    BY DEF Defaults
  <2>2. Defaults = [f \in Flags |-> Defaults[f]]
    BY DEF Defaults
  <2>3. {"0", "1", "rwe", ""} \subseteq Word
    BY DEF Word
  <2> QED
    BY <2>1, <2>2, <2>3
<1>2. \A f \in NumFlags : IsNum(Defaults[f])
  BY ParserAssumption DEF Defaults, IsNum, Flags, NumFlags, WordFlags
<1>3. argi \in 1..(Len(argv) + 1)
  <2>1. argv \in Seq(Word) /\ argi = 1
    BY Words DEF Init
  <2>2. Len(argv) \in Nat
    BY <2>1
  <2> QED
    BY <2>1, <2>2
<1> QED
  <2>1. Jobs \in 0..UIntMax
    <3>1. Jobs = 1 /\ UIntMax \in Nat /\ UIntMax > 0
      BY Words DEF Init
    <3> QED
      BY <3>1
  <2> QED
    BY <1>1, <1>2, <1>3, <2>1, Zenon DEF Init, ParserInv, ParserTypeOK

(* The options are set by the words of the command line only. *)
LEMMA ParserStep ==
  ASSUME ParserInv, ParserNext PROVE ParserInv'
<1> USE DEF ParserInv
<1>1. argv \in Seq(Word)
  BY Words DEF ParserTypeOK
<1>2. ASSUME NEW f \in Flags, NEW w \in Word, SetFromStr(f, w),
             argi' \in 1..(Len(argv) + 1),
             f \in NumFlags => IsNum(w)
      PROVE  ParserInv'
  <2>1. val' \in [Flags -> Word] /\ IsSet' \subseteq Flags
        /\ errno' \in BOOLEAN
    BY <1>2 DEF ParserTypeOK, SetFromStr
  <2>2. \A g \in Flags : val'[g] = IF g = f THEN w ELSE val[g]
    BY <1>2 DEF ParserTypeOK, SetFromStr
  <2>3. \A g \in NumFlags \ {"-bin-exec-time"} : IsNum(val[g])'
    BY <1>2, <2>2 DEF ParserTypeOK, IsNum, Flags
  <2>4. \A g \in Flags \ IsSet' : val'[g] = Defaults[g]
    BY <1>2, <2>2 DEF SetFromStr
  <2> QED
    BY <1>2, <2>1, <2>3, <2>4 DEF ParserTypeOK, SetFromStr
<1>3. CASE ParseFlag
  <2>1. argv[argi] \in Flags /\ argv[argi] \notin NumFlags
    BY <1>3 DEF ParseFlag, Flags, BoolFlags, NumFlags
  <2>2. argi' \in 1..(Len(argv) + 1)
    BY <1>1, <1>3 DEF ParseFlag, AtWord, ParserTypeOK
  <2>3. "1" \in Word
    BY DEF Word
  <2> QED
    BY <1>2, <1>3, <2>1, <2>2, <2>3 DEF ParseFlag
<1>4. CASE ParseValue
  <2>1. argi' \in 1..(Len(argv) + 1) /\ argi + 1 \in 1..Len(argv)
    BY <1>1, <1>4 DEF ParseValue, ParserTypeOK
  <2>2. argv[argi] \in Flags /\ argv[argi + 1] \in Word
    BY <1>1, <1>4, <2>1 DEF ParseValue, NeedsValue, Flags
  <2> QED
    BY <1>2, <1>4, <2>1, <2>2 DEF ParseValue
<1>5. CASE ParseArgs
  BY <1>5 DEF ParseArgs, ParserTypeOK, Flags, WordFlags, IsNum
<1>6. CASE SanityChecks
  BY <1>6 DEF SanityChecks, ParserTypeOK, IsNum
<1>7. CASE InitReturns
  <2>1. Jobs' \in 0..UIntMax
    BY <1>7, UnsignedType, ParserAssumption
       DEF InitReturns, LimitedJobs, ParserTypeOK, NumFlags
  <2> QED
    BY <1>7, <2>1 DEF InitReturns, ParserTypeOK, IsNum
<1>8. CASE ParseFails \/ ParseEnds \/ HelpMessages \/ PrintsAndExits \/ InitDies
  <2>1. UNCHANGED parserVars
    BY <1>8 DEF ParseFails, ParseEnds, HelpMessages, PrintsAndExits, InitDies,
                Goes
  <2> QED
    BY <2>1 DEF parserVars, ParserTypeOK, IsNum
<1> QED
  BY <1>3, <1>4, <1>5, <1>6, <1>7, <1>8 DEF ParserNext

-----------------------------------------------------------------------------
(* The options in main().                                                  *)

ParserStage == pc \in {"parse", "sanity", "help", "init"}

(* The parser leaves for the timing run with legal options, or ends. *)
LEMMA ParserLeaves ==
  ASSUME ParserInv, ParserNext,
         pc \in {"help", "init"} => LegalInjection
  PROVE  /\ ParserStage
         /\ \/ ParserStage' /\ (pc' \in {"help", "init"} => LegalInjection')
            \/ pc' = "exit1"
            \/ pc' = "exit0" /\ Prints'
            \/ /\ pc' = "timing"
               /\ LegalInjection'
               /\ Unsigned("-injections-per-run")' <= 1
               /\ Jobs' <= HWThreads' /\ (HWThreads' > 0 => Jobs' > 0)
<1>1. CASE ParseFlag \/ ParseValue \/ ParseArgs \/ ParseFails \/ ParseEnds
  BY <1>1 DEF ParseFlag, ParseValue, ParseArgs, ParseFails, ParseEnds, AtWord,
              Goes, ParserStage
<1>2. CASE SanityChecks
  BY <1>2 DEF SanityChecks, ParserStage, LegalInjection, Chars, LegalBit,
              ForcesBit, KnownReg, Bit, Reg
<1>3. CASE HelpMessages
  BY <1>3 DEF HelpMessages, Goes, parserVars, ParserStage, LegalInjection,
              Chars, LegalBit, ForcesBit, KnownReg, Bit, Reg
<1>4. CASE PrintsAndExits \/ InitDies
  BY <1>4 DEF PrintsAndExits, InitDies, Goes, parserVars, ParserStage, Prints
<1>5. CASE InitReturns
  <2>1. ParserStage /\ pc' = "timing" /\ LegalInjection'
    BY <1>5 DEF InitReturns, ParserStage, LegalInjection, Chars, LegalBit,
                ForcesBit, KnownReg, Bit, Reg
  <2>2. Unsigned("-injections-per-run")' <= 1
    BY <1>5 DEF InitReturns, Acceptable, Unsigned, Int32
  <2>3. Unsigned("-j") \in Nat /\ HWThreads \in Nat
    BY UnsignedType, SizesTyped, Words DEF NumFlags, ParserInv
  <2>4. Jobs' <= HWThreads' /\ (HWThreads' > 0 => Jobs' > 0)
    BY <1>5, <2>3 DEF InitReturns, LimitedJobs
  <2> QED
    BY <2>1, <2>2, <2>4
<1> QED
  BY <1>1, <1>2, <1>3, <1>4, <1>5 DEF ParserNext

(* main() sets one option itself; no other step but the parser's changes   *)
(* any.                                                                    *)
SameOptions ==
  /\ \A f \in Flags \ {"-bin-exec-time"} :
       val'[f] = val[f] /\ (f \in IsSet' <=> f \in IsSet)
  /\ UNCHANGED <<argv, argi, errno, HWThreads, Jobs>>

LEMMA SameMeaning ==
  ASSUME SameOptions
  PROVE  /\ LegalInjection' = LegalInjection /\ Prints' = Prints
         /\ TestRuns' = TestRuns /\ SetOrig' = SetOrig
         /\ NoCleanup' = NoCleanup /\ WellFormed' = WellFormed
         /\ Import' = Import
         /\ \A f \in {"-injections-per-run", "-test-runs"} :
              Unsigned(f)' = Unsigned(f)
<1>1. \A f \in {"-inject-to", "-force-inject-to-reg", "-force-inject-to-bit",
                "-version", "-help", "-test-runs", "-set-orig-exit-state",
                "-no-cleanup", "-injections-per-run"} :
        val'[f] = val[f] /\ (f \in IsSet' <=> f \in IsSet)
  BY DEF SameOptions, Flags, BoolFlags, NumFlags, WordFlags
<1>2. LegalInjection' = LegalInjection
  BY <1>1 DEF LegalInjection, Chars, LegalBit, ForcesBit, KnownReg, Bit, Reg
<1>3. Prints' = Prints /\ SetOrig' = SetOrig /\ NoCleanup' = NoCleanup
      /\ WellFormed' = WellFormed /\ Import' = Import
  BY <1>1 DEF Prints, SetOrig, NoCleanup, WellFormed, Import
<1>4. \A f \in {"-injections-per-run", "-test-runs"} : Unsigned(f)' = Unsigned(f)
  BY <1>1 DEF Unsigned, Int32
<1> QED
  BY <1>2, <1>3, <1>4 DEF TestRuns

LEMMA OptionsFixed ==
  ASSUME TypeOK, [Next]_vars, ~Parses
  PROVE  /\ SameOptions /\ IsSet \subseteq IsSet' /\ IsSet' \subseteq Flags
         /\ val' \in [Flags -> Word]
         /\ \A f \in Flags \ IsSet' : val'[f] = val[f]
         /\ pc' = pc \/ (Running /\ ~ParserStage')
<1> USE DEF SameOptions
<1>1. CASE TimingRunEnds
  <2>1. Running /\ ~ParserStage'
    BY <1>1 DEF TimingRunEnds, Running, ParserStage, Ended
  <2>2. "measured" \in Word /\ "-bin-exec-time" \in Flags
    BY DEF Word, Flags, NumFlags
  <2>3. val \in [Flags -> Word] /\ IsSet \subseteq Flags
    BY DEF TypeOK, ParserTypeOK
  <2>4. UNCHANGED <<argv, argi, errno, HWThreads, Jobs>>
    BY <1>1 DEF TimingRunEnds
  <2>5. \/ UNCHANGED <<IsSet, val>>
        \/ /\ IsSet' = IsSet \cup {"-bin-exec-time"}
           /\ val' = [val EXCEPT !["-bin-exec-time"] = "measured"]
    BY <1>1 DEF TimingRunEnds
  <2> QED
    BY <2>1, <2>2, <2>3, <2>4, <2>5
<1>2. ASSUME ~TimingRunEnds
      PROVE  UNCHANGED parserVars /\ (pc' = pc \/ (Running /\ ~ParserStage'))
  <2>1. CASE TimingRun \/ SkipTimingRun \/ CheckExecTime \/ NoImport
    BY <2>1 DEF TimingRun, SkipTimingRun, CheckExecTime, NoImport, MainGoes,
                Running, ParserStage, Ended
  <2>2. CASE ImportRefused \/ ImportDies \/ ImportState \/ AssertFails
    BY <2>2 DEF ImportRefused, ImportDies, ImportState, AssertFails, MainGoes,
                Running, ParserStage, Ended
  <2>3. CASE TestRunsBegin \/ TestRunsEnd \/ RemoveOrigFiles \/ Dump
    BY <2>3 DEF TestRunsBegin, TestRunsEnd, RemoveOrigFiles, Dump,
                Running, ParserStage, Ended
  <2>4. CASE DumpToCSV \/ DumpToMoufoplot
    BY <2>4 DEF DumpToCSV, DumpToMoufoplot, MainGoes,
                Running, ParserStage, Ended
  <2>5. CASE BatchAborts \/ NoJobAllowed
    BY <2>5 DEF BatchAborts, NoJobAllowed, InBatch, Running, ParserStage, Ended
  <2>6. ASSUME NEW j, JobStarts(j) \/ JobCollected(j) \/ JobStep(j)
        PROVE  UNCHANGED <<parserVars, pc>>
    BY <2>6 DEF JobStarts, JobCollected, JobStep, JobEnds
  <2>7. CASE Over \/ UNCHANGED vars
    BY <2>7 DEF Over, vars
  <2> QED
    BY <1>2, <2>1, <2>2, <2>3, <2>4, <2>5, <2>6, <2>7 DEF Next, Main
<1>3. ASSUME UNCHANGED parserVars
      PROVE  /\ SameOptions /\ IsSet \subseteq IsSet' /\ IsSet' \subseteq Flags
             /\ val' \in [Flags -> Word]
             /\ \A f \in Flags \ IsSet' : val'[f] = val[f]
  BY <1>3 DEF parserVars, TypeOK, ParserTypeOK
<1> QED
  BY <1>1, <1>2, <1>3

LEMMA OptionsStep ==
  ASSUME TypeOK, OptionsInv, [Next]_vars PROVE OptionsInv'
<1>1. CASE Parses
  <2>1. ParserInv'
    BY <1>1, ParserStep DEF Parses, OptionsInv
  <2> QED
    BY <1>1, <2>1, ParserLeaves
       DEF Parses, OptionsInv, Running, ParserStage, Ended
<1>2. CASE ~Parses
  <2>1. ParserInv'
    <3>1. \A f \in NumFlags \ {"-bin-exec-time"} : val'[f] = val[f]
      BY <1>2, OptionsFixed DEF SameOptions, Flags
    <3>2. \A f \in Flags \ IsSet' : val'[f] = Defaults[f]
      BY <1>2, OptionsFixed DEF OptionsInv, ParserInv
    <3> QED
      BY <1>2, <3>1, <3>2, OptionsFixed
         DEF SameOptions, OptionsInv, ParserInv, ParserTypeOK, IsNum
  <2>2. /\ pc' \in {"help", "init"} => pc \in {"help", "init"}
        /\ Running' => Running
    BY <1>2, OptionsFixed DEF ParserStage, Running, Ended
  <2> QED
    BY <1>2, <2>1, <2>2, OptionsFixed, SameMeaning
       DEF SameOptions, OptionsInv
<1> QED
  BY <1>1, <1>2

-----------------------------------------------------------------------------
(* Types.                                                                  *)

(* The part of TypeOK about a batch and what main() holds. *)
BatchTypeOK ==
  /\ task \in Batch!Task
  /\ phase \in {"running", "returned", "aborted"}
  /\ status \in [Batch!Ids -> {"todo", "active", "ended", "collected"}]
  /\ result \in [Batch!Ids -> Batch!Messages \cup {"empty"}]
  /\ counts \in [Batch!Counted -> Nat]
  /\ kept \in Batch!Ids \cup {Batch!NoId}

LEMMA BatchBegins ==
  ASSUME NEW t \in Batch!Task, Batch!Begin(t) PROVE BatchTypeOK'
<1>1. Batch!Ids' = 0..(t.total - 1)
  BY DEF Batch!Begin, Batch!Ids
<1>2. counts' \in [Batch!Counted -> Nat]
  BY DEF Batch!Begin, Batch!Zero
<1>3. kept' \in Batch!Ids' \cup {Batch!NoId}
  BY DEF Batch!Begin
<1> QED
  BY <1>1, <1>2, <1>3
     DEF Batch!Begin, Batch!InitialStatus, Batch!InitialResult, BatchTypeOK

LEMMA BatchTypes ==
  ASSUME BatchTypeOK,
         \/ UNCHANGED batchVars
         \/ \E j \in Batch!Ids :
              \/ Batch!Start(j) \/ Batch!Collect(j)
              \/ \E m \in Batch!Messages \cup {"empty"} : Batch!End(j, m)
         \/ Batch!Return \/ Batch!Abort
  PROVE  BatchTypeOK'
<1> USE DEF BatchTypeOK
<1>1. CASE UNCHANGED batchVars
  BY <1>1 DEF batchVars, Batch!Ids, Batch!Messages
<1>2. ASSUME NEW j \in Batch!Ids, Batch!Start(j) PROVE BatchTypeOK'
  BY <1>2 DEF Batch!Start, Batch!Ids, Batch!Messages
<1>3. ASSUME NEW j \in Batch!Ids, Batch!Collect(j) PROVE BatchTypeOK'
  <2>1. task' = task /\ phase' = phase /\ result' = result
        /\ status' = [status EXCEPT ![j] = "collected"]
        /\ kept' \in {kept, j}
    BY <1>3 DEF Batch!Collect
  <2>2. ASSUME NEW s \in Batch!Counted, counts' = Batch!Counting(s)
        PROVE  counts' \in [Batch!Counted -> Nat]
    BY <2>2 DEF Batch!Counting
  <2>3. task.kind # "orig" /\ result[j] # "empty" => result[j] \in Batch!Counted
    BY DEF Batch!Messages
  <2>4. counts' \in [Batch!Counted -> Nat]
    BY <1>3, <2>2, <2>3 DEF Batch!Collect
  <2> QED
    BY <2>1, <2>4 DEF Batch!Ids, Batch!Messages
<1>4. ASSUME NEW j \in Batch!Ids, NEW m \in Batch!Messages \cup {"empty"},
             Batch!End(j, m)
      PROVE  BatchTypeOK'
  BY <1>4 DEF Batch!End, Batch!Ids, Batch!Messages
<1>5. CASE Batch!Return \/ Batch!Abort
  BY <1>5 DEF Batch!Return, Batch!Abort, Batch!Ids, Batch!Messages
<1> QED
  BY <1>1, <1>2, <1>3, <1>4, <1>5

(* The part of TypeOK about main()'s own variables. *)
MainTypeOK ==
  /\ OrigState \in ExecState
  /\ temp \in [{"orig", "test"} -> SUBSET Nat]
  /\ harsh \in BOOLEAN

Stages == {"parse", "sanity", "help", "init", "timing", "orig", "check",
           "import", "assert", "tests", "cleanup", "dump", "csv", "moufoplot",
           "exit0", "exit1", "abort"}

LEMMA StageStep ==
  ASSUME TypeOK, [Next]_vars PROVE pc' \in Stages
<1> USE DEF Stages
<1>0. pc \in Stages
  BY DEF TypeOK
<1>1. CASE Parses
  BY <1>0, <1>1
     DEF Parses, ParserNext, ParseFlag, ParseValue, ParseArgs, ParseFails,
         ParseEnds, SanityChecks, HelpMessages, PrintsAndExits, InitDies,
         InitReturns, Goes
<1>2. CASE TimingRun \/ SkipTimingRun \/ TimingRunEnds \/ CheckExecTime \/ NoImport
  BY <1>2 DEF TimingRun, SkipTimingRun, TimingRunEnds, CheckExecTime, NoImport,
              MainGoes
<1>3. CASE ImportRefused \/ ImportDies \/ ImportState \/ AssertFails
  BY <1>3 DEF ImportRefused, ImportDies, ImportState, AssertFails, MainGoes
<1>4. CASE TestRunsBegin \/ TestRunsEnd \/ RemoveOrigFiles \/ Dump
  BY <1>4 DEF TestRunsBegin, TestRunsEnd, RemoveOrigFiles, Dump
<1>5. CASE DumpToCSV \/ DumpToMoufoplot \/ BatchAborts \/ NoJobAllowed
  BY <1>5 DEF DumpToCSV, DumpToMoufoplot, MainGoes, BatchAborts, NoJobAllowed
<1>6. ASSUME NEW j, JobStarts(j) \/ JobCollected(j) \/ JobStep(j)
      PROVE  pc' \in Stages
  BY <1>0, <1>6 DEF JobStarts, JobCollected, JobStep, JobEnds
<1>7. CASE Over \/ UNCHANGED vars
  BY <1>0, <1>7 DEF Over, vars
<1> QED
  BY <1>1, <1>2, <1>3, <1>4, <1>5, <1>6, <1>7 DEF Next, Main

LEMMA BatchStep ==
  ASSUME TypeOK, [Next]_vars PROVE BatchTypeOK'
<1>0. BatchTypeOK
  BY DEF TypeOK, BatchTypeOK
<1>1. CASE TimingRun
  <2>1. [kind |-> "orig", total |-> Min2(Jobs, TestRuns), limit |-> Jobs]
          \in Batch!Task
    BY SizesTyped DEF TypeOK, Batch!Task
  <2> QED
    BY <1>1, <2>1, BatchBegins DEF TimingRun
<1>2. CASE TestRunsBegin
  <2>1. [kind |-> "test", total |-> TestRuns, limit |-> Jobs] \in Batch!Task
    BY SizesTyped DEF TypeOK, Batch!Task
  <2> QED
    BY <1>2, <2>1, BatchBegins DEF TestRunsBegin
<1>3. CASE TimingRunEnds \/ TestRunsEnd \/ BatchAborts
  BY <1>0, <1>3, BatchTypes DEF TimingRunEnds, TestRunsEnd, BatchAborts
<1>4. ASSUME NEW j \in Batch!Ids, JobStarts(j) \/ JobCollected(j) \/ JobStep(j)
      PROVE  BatchTypeOK'
  BY <1>0, <1>4, BatchTypes DEF JobStarts, JobCollected, JobStep, JobEnds
<1>5. CASE Parses \/ SkipTimingRun \/ CheckExecTime \/ NoImport \/ ImportRefused
           \/ ImportDies \/ ImportState \/ AssertFails
  <2>1. UNCHANGED batchVars
    BY <1>5 DEF Parses, SkipTimingRun, CheckExecTime, NoImport, ImportRefused,
                ImportDies, ImportState, AssertFails, MainGoes
  <2> QED
    BY <1>0, <2>1, BatchTypes
<1>6. CASE RemoveOrigFiles \/ Dump \/ DumpToCSV \/ DumpToMoufoplot
           \/ NoJobAllowed \/ Over \/ UNCHANGED vars
  <2>1. UNCHANGED batchVars
    BY <1>6 DEF RemoveOrigFiles, Dump, DumpToCSV, DumpToMoufoplot, MainGoes,
                NoJobAllowed, Over, vars
  <2> QED
    BY <1>0, <2>1, BatchTypes
<1> QED
  BY <1>1, <1>2, <1>3, <1>4, <1>5, <1>6 DEF Next, Main

LEMMA MainStep ==
  ASSUME TypeOK, [Next]_vars PROVE MainTypeOK'
<1> USE DEF MainTypeOK
<1>0. MainTypeOK /\ Batch!Ids \subseteq Nat
  BY DEF TypeOK, Batch!Ids, Batch!Task
<1>1. CASE TimingRunEnds
  <2>1. CASE kept = Batch!NoId
    BY <1>0, <1>1, <2>1 DEF TimingRunEnds
  <2>2. CASE kept # Batch!NoId
    <3>1. PICK t \in {"Exited", "Stopped", "Signaled"} :
            OrigState' = [fds |-> TRUE, files |-> "job0", Type |-> t]
      BY <1>1, <2>2 DEF TimingRunEnds
    <3>2. OrigState' \in ExecState
      BY <3>1 DEF ExecState
    <3> QED
      BY <1>0, <1>1, <3>2 DEF TimingRunEnds
  <2> QED
    BY <2>1, <2>2
<1>2. CASE ImportState
  <2>1. Import.Type \in {"Exited", "Signaled"}
    BY <1>2, ImportsAssumption DEF ImportState, Import, WellFormed
  <2>2. OrigState' \in ExecState
    BY <1>0, <1>2, <2>1 DEF ImportState, ExecState
  <2> QED
    BY <1>0, <1>2, <2>2 DEF ImportState
<1>3. ASSUME NEW j \in Batch!Ids, JobStarts(j) PROVE MainTypeOK'
  <2>1. task.kind \in {"orig", "test"}
    BY DEF TypeOK, Batch!Task
  <2> QED
    BY <1>0, <1>3, <2>1 DEF JobStarts
<1>4. ASSUME NEW j \in Batch!Ids, NEW m, JobEnds(j, m) PROVE MainTypeOK'
  BY <1>0, <1>4 DEF JobEnds
<1>5. CASE RemoveOrigFiles
  BY <1>0, <1>5 DEF RemoveOrigFiles
<1>6. CASE Dump \/ DumpToCSV \/ DumpToMoufoplot
  BY <1>0, <1>6 DEF Dump, DumpToCSV, DumpToMoufoplot, MainGoes, mainVars
<1>7. CASE Parses \/ TimingRun \/ SkipTimingRun \/ CheckExecTime \/ NoImport
           \/ ImportRefused \/ ImportDies \/ AssertFails
  <2>1. UNCHANGED mainVars
    BY <1>7 DEF Parses, TimingRun, SkipTimingRun, CheckExecTime, NoImport,
                ImportRefused, ImportDies, AssertFails, MainGoes
  <2> QED
    BY <1>0, <2>1 DEF mainVars
<1>8. ASSUME \/ TestRunsBegin \/ TestRunsEnd \/ BatchAborts \/ NoJobAllowed
             \/ (\E j \in Batch!Ids : JobCollected(j))
             \/ Over \/ UNCHANGED vars
      PROVE  MainTypeOK'
  <2>1. UNCHANGED mainVars
    BY <1>8 DEF TestRunsBegin, TestRunsEnd, BatchAborts, NoJobAllowed,
                JobCollected, Over, vars
  <2> QED
    BY <1>0, <2>1 DEF mainVars
<1> QED
  BY <1>1, <1>2, <1>3, <1>4, <1>5, <1>6, <1>7, <1>8 DEF Next, Main, JobStep

LEMMA TypeInit == CampaignInit => TypeOK /\ ParserInv
<1> SUFFICES ASSUME CampaignInit PROVE TypeOK /\ ParserInv
  OBVIOUS
<1>1. ParserInv
  BY ParserInit DEF CampaignInit
<1>2. task = [kind |-> "orig", total |-> 0, limit |-> 0]
  BY DEF CampaignInit
<1>3. task \in Batch!Task
  BY <1>2 DEF Batch!Task
<1>4. BatchTypeOK
  BY <1>2, <1>3
     DEF CampaignInit, BatchTypeOK, Batch!Ids, Batch!InitialStatus,
         Batch!InitialResult, Batch!Zero
<1>5. MainTypeOK
  BY DEF CampaignInit, MainTypeOK, ExecState, NoFiles
<1> QED
  BY <1>1, <1>4, <1>5
     DEF CampaignInit, Init, ParserInv, BatchTypeOK, MainTypeOK, TypeOK

LEMMA TypeStep ==
  ASSUME TypeOK, OptionsInv, [Next]_vars PROVE TypeOK'
<1>1. ParserTypeOK'
  BY OptionsStep DEF OptionsInv, ParserInv
<1> QED
  BY <1>1, StageStep, BatchStep, MainStep
     DEF Stages, BatchTypeOK, MainTypeOK, TypeOK

-----------------------------------------------------------------------------
(* How main() goes from stage to stage.                                    *)

(* A job that ends was active, and only its own entries change. *)
LEMMA JobOnly ==
  ASSUME TypeOK, NEW j \in Batch!Ids, NEW m, JobEnds(j, m)
  PROVE  /\ UNCHANGED <<parserVars, pc, OrigState, task, kept>>
         /\ Batch!Ids' = Batch!Ids
         /\ status[j] = "active" /\ status'[j] = "ended" /\ result'[j] = m
         /\ \A k \in Batch!Ids \ {j} :
              status'[k] = status[k] /\ result'[k] = result[k]
BY DEF TypeOK, JobEnds, Batch!End, Batch!Ids

FlowFacts == TypeOK /\ OptionsInv /\ FlowInv /\ OrigFilesInv

LEMMA FlowParses == ASSUME FlowFacts, Parses PROVE FlowInv'
<1>1. \/ ParserStage'
      \/ pc' \in {"timing", "exit1"}
      \/ pc' = "exit0" /\ Prints'
  BY ParserLeaves DEF FlowFacts, OptionsInv, Parses
<1>2. ParserStage
  BY ParserLeaves DEF FlowFacts, OptionsInv, Parses
<1>3. task.kind = "orig" /\ task' = task
  <2>1. ~(pc = "tests" \/ Tested \/ Ended)
    BY <1>2 DEF ParserStage, Tested, Reporting, Ended
  <2> QED
    BY <2>1 DEF FlowFacts, FlowInv, Parses, batchVars
<1> QED
  BY <1>1, <1>3 DEF FlowInv, ParserStage, InBatch, Tested, Reporting,
     EndExplained

LEMMA FlowStep == ASSUME FlowFacts, [Next]_vars PROVE FlowInv'
<1> USE DEF FlowFacts
<1>1. CASE Parses
  BY <1>1, FlowParses
<1>2. CASE Over \/ UNCHANGED vars
  <2>1. UNCHANGED vars
    BY <1>2 DEF Over
  <2>2. UNCHANGED <<TestRuns, Prints, SetOrig, WellFormed, Import, Batch!Ids>>
    BY <2>1 DEF vars, parserVars, batchVars, TestRuns, Unsigned, Int32, Prints,
                SetOrig, WellFormed, Import, Batch!Ids
  <2> QED
    BY <2>1, <2>2 DEF vars, parserVars, batchVars, FlowInv, InBatch, Tested,
                      Reporting, Ended, EndExplained, NeedsTimingRun
<1>3. CASE TimingRun
  <2>1. task' = [kind |-> "orig", total |-> Min2(Jobs, TestRuns), limit |-> Jobs]
        /\ pc' = "orig" /\ NeedsTimingRun'
    BY <1>3 DEF TimingRun, NeedsTimingRun, Batch!Begin, parserVars
  <2>2. Jobs' = Jobs
    BY <1>3 DEF TimingRun, parserVars
  <2> QED
    BY <2>1, <2>2 DEF FlowInv, InBatch, Tested, Reporting, Ended, EndExplained
<1>4. CASE TestRunsBegin
  <2>1. task' = [kind |-> "test", total |-> TestRuns, limit |-> Jobs]
        /\ pc' = "tests"
    BY <1>4 DEF TestRunsBegin, Batch!Begin
  <2>2. Jobs' = Jobs /\ TestRuns' = TestRuns
    BY <1>4 DEF TestRunsBegin, parserVars, TestRuns, Unsigned, Int32
  <2> QED
    BY <2>1, <2>2 DEF FlowInv, InBatch, Tested, Reporting, Ended, EndExplained
<1>5. CASE TimingRunEnds
  <2>1. pc = "orig" /\ pc' = "check" /\ task' = task
    BY <1>5 DEF TimingRunEnds, Batch!Return
  <2> QED
    BY <2>1 DEF FlowInv, InBatch, Tested, Reporting, Ended, EndExplained
<1>6. CASE TestRunsEnd
  <2>1. /\ pc = "tests" /\ pc' = "cleanup" /\ task' = task /\ status' = status
        /\ \A j \in Batch!Ids : status[j] = "collected"
    BY <1>6 DEF TestRunsEnd, Batch!Return
  <2>2. TestRuns' = TestRuns
    BY <1>6 DEF TestRunsEnd, parserVars, TestRuns, Unsigned, Int32
  <2> QED
    BY <2>1, <2>2 DEF FlowInv, InBatch, Tested, Reporting, Ended, EndExplained,
                      Batch!Ids
<1>7. CASE BatchAborts
  <2>1. /\ pc' = "abort" /\ task' = task /\ status' = status /\ result' = result
        /\ \E j \in Batch!Ids : status[j] = "ended" /\ result[j] = "empty"
    BY <1>7 DEF BatchAborts, Batch!Abort
  <2> QED
    BY <2>1 DEF FlowInv, InBatch, Tested, Reporting, Ended, EndExplained,
                Batch!Ids
<1>8. CASE NoJobAllowed
  <2>1. pc' = "abort" /\ UNCHANGED <<task, HWThreads>> /\ Jobs = 0 /\ Running
    BY <1>8 DEF NoJobAllowed, FlowInv, InBatch, Running, Ended, parserVars,
                batchVars
  <2>2. HWThreads = 0
    BY <2>1, SizesTyped DEF OptionsInv, ParserInv
  <2> QED
    BY <2>1, <2>2 DEF FlowInv, InBatch, Tested, Reporting, Ended, EndExplained
<1>9. CASE SkipTimingRun \/ CheckExecTime \/ NoImport \/ ImportRefused
           \/ ImportState
  <2>1. /\ UNCHANGED <<task, IsSet>> /\ TestRuns' = TestRuns
        /\ \/ pc = "timing" /\ pc' = "check"
           \/ /\ pc = "check"
              /\ pc' = IF "-bin-exec-time" \notin IsSet /\ TestRuns # 0
                       THEN "exit1" ELSE "import"
           \/ pc = "import" /\ pc' \in {"assert", "exit1"}
    BY <1>9 DEF SkipTimingRun, CheckExecTime, NoImport, ImportRefused,
                ImportState, MainGoes, parserVars, batchVars, TestRuns,
                Unsigned, Int32
  <2> QED
    BY <2>1 DEF FlowInv, InBatch, Tested, Reporting, Ended, EndExplained
<1>10. CASE ImportDies \/ AssertFails
  <2>1. /\ UNCHANGED parserVars /\ UNCHANGED task /\ pc' = "abort"
        /\ \/ SetOrig /\ WellFormed /\ Import.Type = "bad"
           \/ pc = "assert" /\ "-bin-exec-time" \notin IsSet
    BY <1>10 DEF ImportDies, AssertFails, MainGoes, batchVars
  <2>2. \/ (SetOrig /\ WellFormed /\ Import.Type = "bad")'
        \/ (TestRuns = 0 /\ "-bin-exec-time" \notin IsSet)'
    BY <2>1 DEF FlowInv, parserVars, SetOrig, WellFormed, Import, TestRuns,
                Unsigned, Int32
  <2> QED
    BY <2>1, <2>2 DEF FlowInv, InBatch, Tested, Reporting, Ended, EndExplained
<1>11. CASE RemoveOrigFiles \/ Dump \/ DumpToCSV \/ DumpToMoufoplot
  <2>1. UNCHANGED parserVars /\ UNCHANGED batchVars
    BY <1>11 DEF RemoveOrigFiles, Dump, DumpToCSV, DumpToMoufoplot, MainGoes
  <2>2. TestRuns' = TestRuns /\ Prints' = Prints /\ task' = task
        /\ status' = status /\ Batch!Ids' = Batch!Ids
    BY <2>1 DEF parserVars, batchVars, TestRuns, Unsigned, Int32, Prints,
                Batch!Ids
  <2>3. Tested /\ pc \notin {"exit0", "exit1", "abort"}
    BY <1>11 DEF RemoveOrigFiles, Dump, DumpToCSV, DumpToMoufoplot, Tested,
                 Reporting
  <2>4. pc' \in {"dump", "csv", "moufoplot", "exit0", "exit1"}
    BY <1>11 DEF RemoveOrigFiles, Dump, DumpToCSV, DumpToMoufoplot, MainGoes,
                 OrigFilesInv
  <2> QED
    BY <2>2, <2>3, <2>4 DEF FlowInv, InBatch, Tested, Reporting, Ended,
                            EndExplained
<1>12. ASSUME NEW j \in Batch!Ids, JobStarts(j) \/ JobCollected(j)
       PROVE  FlowInv'
  <2>1. InBatch /\ pc' = pc /\ UNCHANGED parserVars /\ UNCHANGED task
    BY <1>12 DEF JobStarts, JobCollected, Batch!Start, Batch!Collect
  <2>2. TestRuns' = TestRuns
    BY <2>1 DEF parserVars, TestRuns, Unsigned, Int32
  <2> QED
    BY <2>1, <2>2 DEF FlowInv, InBatch, Tested, Reporting, Ended, EndExplained,
                      parserVars, NeedsTimingRun
<1>13. ASSUME NEW j \in Batch!Ids, NEW m, JobEnds(j, m) PROVE FlowInv'
  <2>1. ~Tested
    BY <1>13, JobOnly DEF FlowInv
  <2>2. UNCHANGED <<pc, task, Jobs, HWThreads, IsSet, val>> /\ Batch!Ids' = Batch!Ids
    BY <1>13, JobOnly DEF parserVars
  <2>3. UNCHANGED <<TestRuns, Prints, SetOrig, WellFormed, Import>>
    BY <2>2 DEF TestRuns, Unsigned, Int32, Prints, SetOrig, WellFormed, Import
  <2>4. \A k \in Batch!Ids : status[k] = "ended" /\ result[k] = "empty" =>
          status'[k] = "ended" /\ result'[k] = "empty"
    BY <1>13, JobOnly
  <2>5. EndExplained' /\ ~Tested'
    BY <2>1, <2>2, <2>3, <2>4 DEF FlowInv, EndExplained, Tested, Reporting
  <2> QED
    BY <2>1, <2>2, <2>3, <2>5 DEF FlowInv, InBatch, Ended, NeedsTimingRun
<1> QED
  BY <1>1, <1>2, <1>3, <1>4, <1>5, <1>6, <1>7, <1>8, <1>9, <1>10, <1>11, <1>12,
     <1>13 DEF Next, Main, JobStep

-----------------------------------------------------------------------------
(* The temporary files.                                                    *)

(* What a job that ends may do to the files: remove its own, and only a    *)
(* test job does.                                                          *)
LEMMA JobFiles ==
  ASSUME TypeOK, NEW j \in Batch!Ids, NEW m, JobEnds(j, m)
  PROVE  /\ temp' = temp \/ temp' = [temp EXCEPT !["test"] = @ \ {j}]
         /\ temp'["orig"] = temp["orig"]
         /\ task.kind = "orig" => temp' = temp
         /\ pc # "abort" =>
              temp' = IF CleansUp(m) THEN [temp EXCEPT !["test"] = @ \ {j}]
                      ELSE temp
<1>1. task.kind \in {"orig", "test"}
  BY DEF TypeOK, Batch!Task
<1>2. CleansUp(m) => task.kind = "test"
  BY DEF CleansUp
<1> QED
  BY <1>1, <1>2 DEF JobEnds, TypeOK

LEMMA OrigFilesStep == ASSUME Inv, [Next]_vars PROVE OrigFilesInv'
<1> USE DEF Inv
<1>1. CASE Parses
  <2>1. ParserStage /\ UNCHANGED <<task, temp, OrigState>>
    BY <1>1, ParserLeaves DEF OptionsInv, Parses, batchVars, mainVars
  <2>2. ParserStage' \/ pc' \in {"timing", "exit1"} \/ (pc' = "exit0" /\ Prints')
    BY <1>1, ParserLeaves DEF OptionsInv, Parses
  <2> QED
    BY <2>1, <2>2 DEF OrigFilesInv, ParserStage, Reporting, OrigFilesExist
<1>2. CASE TimingRun
  <2>1. /\ task'.kind = "orig" /\ status' = Batch!InitialStatus(task')
        /\ kept' = Batch!NoId /\ pc' = "orig" /\ UNCHANGED <<temp, OrigState>>
    BY <1>2 DEF TimingRun, Batch!Begin, mainVars
  <2>2. task.kind = "orig" /\ OrigState.files = "none"
    BY <1>2 DEF TimingRun, FlowInv, Tested, Reporting, Ended, OrigFilesInv
  <2>3. (0 \in Batch!Ids)' => status'[0] = "todo"
    BY <2>1 DEF Batch!InitialStatus, Batch!Ids
  <2> QED
    BY <2>1, <2>2, <2>3 DEF OrigFilesInv, Reporting
<1>3. CASE TimingRunEnds
  <2>1. /\ pc = "orig" /\ pc' = "check" /\ UNCHANGED <<task, temp>>
        /\ kept = Batch!NoId => OrigState' = OrigState
    BY <1>3 DEF TimingRunEnds, Batch!Return
  <2>2. kept # Batch!NoId => 0 \in temp["orig"]
    BY <2>1 DEF OrigFilesInv
  <2> QED
    BY <2>1, <2>2 DEF OrigFilesInv, OrigFilesExist, Reporting
<1>4. CASE ImportState
  <2>1. pc = "import" /\ pc' = "assert" /\ UNCHANGED <<task, temp>>
    BY <1>4 DEF ImportState, batchVars
  <2>2. OrigState'.files = "user"
    BY <1>4 DEF ImportState, TypeOK, ExecState
  <2> QED
    BY <2>1, <2>2 DEF OrigFilesInv, OrigFilesExist, Reporting
<1>5. CASE TestRunsBegin
  <2>1. /\ pc = "assert" /\ pc' = "tests" /\ task'.kind = "test"
        /\ UNCHANGED <<temp, OrigState>>
    BY <1>5 DEF TestRunsBegin, Batch!Begin, mainVars
  <2> QED
    BY <2>1 DEF OrigFilesInv, OrigFilesExist, Reporting
<1>6. CASE RemoveOrigFiles
  <2>1. pc = "cleanup" /\ task.kind = "test" /\ task' = task
        /\ UNCHANGED <<val, IsSet, OrigState>>
    BY <1>6 DEF RemoveOrigFiles, FlowInv, Tested, batchVars, parserVars
  <2>2. pc' = "dump"
    BY <1>6 DEF RemoveOrigFiles, OrigFilesInv
  <2> QED
    BY <2>1, <2>2 DEF OrigFilesInv
<1>7. CASE Dump \/ DumpToCSV \/ DumpToMoufoplot
  <2>1. UNCHANGED <<task, temp, OrigState, val, IsSet>>
    BY <1>7 DEF Dump, DumpToCSV, DumpToMoufoplot, MainGoes, mainVars,
                batchVars, parserVars
  <2>2. Reporting /\ pc' \in {"csv", "moufoplot", "exit0", "exit1"}
    BY <1>7 DEF Dump, DumpToCSV, DumpToMoufoplot, MainGoes, Reporting
  <2> QED
    BY <2>1, <2>2 DEF OrigFilesInv, Reporting
<1>8. CASE SkipTimingRun \/ CheckExecTime \/ NoImport \/ ImportRefused
           \/ ImportDies \/ AssertFails
  <2>1. UNCHANGED <<task, temp, OrigState>>
    BY <1>8 DEF SkipTimingRun, CheckExecTime, NoImport, ImportRefused,
                ImportDies, AssertFails, MainGoes, mainVars, batchVars
  <2>2. /\ pc \in {"timing", "check", "import", "assert"}
        /\ pc' \in {"check", "import", "assert", "exit1", "abort"}
    BY <1>8 DEF SkipTimingRun, CheckExecTime, NoImport, ImportRefused,
                ImportDies, AssertFails, MainGoes
  <2> QED
    BY <2>1, <2>2 DEF OrigFilesInv, OrigFilesExist, Reporting
<1>9. CASE TestRunsEnd \/ BatchAborts \/ NoJobAllowed
  <2>1. /\ UNCHANGED <<task, temp, OrigState>>
        /\ (pc = "tests" /\ pc' = "cleanup") \/ pc' = "abort"
    BY <1>9 DEF TestRunsEnd, BatchAborts, NoJobAllowed, Batch!Return,
                Batch!Abort, mainVars, batchVars
  <2> QED
    BY <2>1 DEF OrigFilesInv, OrigFilesExist, Reporting
<1>10. ASSUME NEW j \in Batch!Ids, JobStarts(j) PROVE OrigFilesInv'
  <2>1. /\ InBatch /\ pc' = pc /\ UNCHANGED <<task, OrigState, kept>>
        /\ temp' = [temp EXCEPT ![task.kind] = @ \cup {j}]
        /\ status[j] = "todo"
        /\ status' = [status EXCEPT ![j] = "active"]
        /\ Batch!Ids' = Batch!Ids
    BY <1>10 DEF JobStarts, Batch!Start, Batch!Ids
  <2>2. pc = "orig" => task.kind = "orig"
    BY DEF FlowInv
  <2>3. /\ temp["orig"] \subseteq temp'["orig"]
        /\ task.kind = "orig" => j \in temp'["orig"]
                                 /\ temp'["test"] = temp["test"]
    BY <2>1 DEF TypeOK
  <2>4. \A k \in Batch!Ids \ {j} : status'[k] = status[k]
    BY <2>1 DEF TypeOK
  <2> QED
    BY <2>1, <2>2, <2>3, <2>4 DEF OrigFilesInv, OrigFilesExist, InBatch,
                                  Reporting
<1>11. ASSUME NEW j \in Batch!Ids, JobCollected(j) PROVE OrigFilesInv'
  <2>1. /\ InBatch /\ pc' = pc /\ UNCHANGED <<task, OrigState, temp>>
        /\ status[j] = "ended"
        /\ status' = [status EXCEPT ![j] = "collected"]
        /\ kept' # kept => j = 0
        /\ Batch!Ids' = Batch!Ids
    BY <1>11 DEF JobCollected, Batch!Collect, Batch!Ids, mainVars
  <2>2. status'[j] = "collected"
        /\ \A k \in Batch!Ids \ {j} : status'[k] = status[k]
    BY <2>1 DEF TypeOK
  <2> QED
    BY <2>1, <2>2 DEF OrigFilesInv, OrigFilesExist, InBatch, Reporting
<1>12. ASSUME NEW j \in Batch!Ids, NEW m, JobEnds(j, m) PROVE OrigFilesInv'
  <2>1. 0 \in temp'["orig"] <=> 0 \in temp["orig"]
    BY <1>12, JobFiles
  <2>2. task.kind = "orig" => temp' = temp
    BY <1>12, JobFiles
  <2> QED
    BY <1>12, <2>1, <2>2, JobOnly DEF OrigFilesInv, OrigFilesExist
<1>13. CASE Over \/ UNCHANGED vars
  <2>1. UNCHANGED <<pc, task, status, kept, temp, OrigState, val, IsSet>>
    BY <1>13 DEF Over, vars, parserVars, batchVars, mainVars
  <2> QED
    BY <2>1 DEF OrigFilesInv, OrigFilesExist, Reporting, NoCleanup, SetOrig,
                Prints, Batch!Ids
<1> QED
  BY <1>1, <1>2, <1>3, <1>4, <1>5, <1>6, <1>7, <1>8, <1>9, <1>10, <1>11, <1>12,
     <1>13 DEF Next, Main, JobStep

LEMMA TestFilesStep == ASSUME Inv, [Next]_vars PROVE TestFilesInv'
<1> USE DEF Inv
<1>1. CASE task'.kind = "orig"
  BY <1>1 DEF TestFilesInv
<1>2. CASE Parses \/ TimingRun \/ TimingRunEnds
  <2>1. ASSUME Parses PROVE task'.kind = "orig"
    <3>1. ParserStage
      BY <2>1, ParserLeaves DEF OptionsInv, Parses
    <3>2. ~(pc = "tests" \/ Tested \/ Ended)
      BY <3>1 DEF ParserStage, Tested, Reporting, Ended
    <3> QED
      BY <2>1, <3>2 DEF FlowInv, Parses, batchVars
  <2>2. ASSUME TimingRun PROVE task'.kind = "orig"
    BY <2>2 DEF TimingRun, Batch!Begin
  <2>3. ASSUME TimingRunEnds PROVE task'.kind = "orig"
    BY <2>3 DEF TimingRunEnds, Batch!Return, FlowInv
  <2> QED
    BY <1>1, <1>2, <2>1, <2>2, <2>3
<1>3. CASE TestRunsBegin
  <2>1. temp' = temp /\ status' = Batch!InitialStatus(task')
    BY <1>3 DEF TestRunsBegin, Batch!Begin, mainVars
  <2>2. \A j \in Batch!Ids' : status'[j] = "todo"
    BY <2>1 DEF Batch!InitialStatus, Batch!Ids
  <2>3. task.kind = "orig"
    BY <1>3 DEF TestRunsBegin, FlowInv, Tested, Reporting, Ended
  <2>4. temp["test"] = {}
    BY <2>3 DEF OrigFilesInv
  <2> QED
    BY <2>1, <2>2, <2>4 DEF TestFilesInv
<1>4. ASSUME NEW j \in Batch!Ids, JobStarts(j), task'.kind # "orig"
      PROVE  TestFilesInv'
  <2>1. /\ task' = task /\ pc' = pc /\ InBatch /\ NoCleanup' = NoCleanup
        /\ temp' = [temp EXCEPT ![task.kind] = @ \cup {j}]
        /\ result' = result
        /\ status' = [status EXCEPT ![j] = "active"]
        /\ Batch!Ids' = Batch!Ids
    BY <1>4 DEF JobStarts, Batch!Start, Batch!Ids, parserVars, NoCleanup
  <2>2. task.kind = "test"
    BY <1>4, <2>1 DEF TypeOK, Batch!Task
  <2>3. status'[j] = "active"
        /\ \A k \in Batch!Ids \ {j} : status'[k] = status[k]
    BY <2>1 DEF TypeOK
  <2>4. temp'["test"] = temp["test"] \cup {j}
    BY <2>1, <2>2 DEF TypeOK
  <2>5. /\ TestFilesInv
        /\ pc # "abort"
    BY <2>1 DEF InBatch
  <2> QED
    BY <2>1, <2>2, <2>3, <2>4, <2>5 DEF TestFilesInv
<1>5. ASSUME NEW j \in Batch!Ids, JobCollected(j) PROVE TestFilesInv'
  <2>1. /\ task' = task /\ pc' = pc /\ NoCleanup' = NoCleanup
        /\ temp' = temp /\ result' = result /\ status[j] = "ended"
        /\ status' = [status EXCEPT ![j] = "collected"]
        /\ Batch!Ids' = Batch!Ids
    BY <1>5 DEF JobCollected, Batch!Collect, Batch!Ids, mainVars, parserVars,
                NoCleanup
  <2>2. status'[j] = "collected"
        /\ \A k \in Batch!Ids \ {j} : status'[k] = status[k]
    BY <2>1 DEF TypeOK
  <2> QED
    BY <2>1, <2>2 DEF TestFilesInv
<1>6. ASSUME NEW j \in Batch!Ids, NEW m, JobEnds(j, m), task.kind = "test",
             pc # "abort"
      PROVE  TestFilesInv'
  <2>1. /\ task' = task /\ pc' = pc /\ NoCleanup' = NoCleanup
        /\ Batch!Ids' = Batch!Ids
    BY <1>6, JobOnly DEF parserVars, NoCleanup
  <2>2. j \in temp["test"]
    BY <1>6, JobOnly DEF TestFilesInv
  <2>4. temp'["test"] = IF m = "empty" \/ NoCleanup THEN temp["test"]
                        ELSE temp["test"] \ {j}
    BY <1>6, <2>2, JobFiles DEF CleansUp, TypeOK
  <2> QED
    BY <1>6, <2>1, <2>2, <2>4, JobOnly DEF TestFilesInv
<1>7. ASSUME UNCHANGED <<val, task, status, result>>,
             pc' # "abort" => pc # "abort",
             temp'["test"] = temp["test"]
      PROVE  TestFilesInv'
  <2>1. Batch!Ids \subseteq Nat /\ Batch!Ids' = Batch!Ids
    BY <1>7 DEF TypeOK, Batch!Ids, Batch!Task
  <2> QED
    BY <1>7, <2>1 DEF TestFilesInv, NoCleanup
<1>8. CASE RemoveOrigFiles
  BY <1>7, <1>8 DEF RemoveOrigFiles, parserVars, batchVars, TypeOK
<1>9. CASE Dump \/ DumpToCSV \/ DumpToMoufoplot \/ SkipTimingRun
           \/ CheckExecTime \/ NoImport \/ ImportRefused \/ ImportDies
           \/ ImportState \/ AssertFails
  <2>1. UNCHANGED <<val, task, status, result, temp>> /\ pc # "abort"
    BY <1>9 DEF Dump, DumpToCSV, DumpToMoufoplot, SkipTimingRun, CheckExecTime,
                NoImport, ImportRefused, ImportDies, ImportState, AssertFails,
                MainGoes, parserVars, batchVars, mainVars
  <2> QED
    BY <1>7, <2>1
<1>10. CASE TestRunsEnd \/ BatchAborts \/ NoJobAllowed
  <2>1. UNCHANGED <<val, task, status, result, temp>> /\ pc # "abort"
    BY <1>10 DEF TestRunsEnd, BatchAborts, NoJobAllowed, Batch!Return,
                 Batch!Abort, InBatch, parserVars, batchVars, mainVars
  <2> QED
    BY <1>7, <2>1
<1>11. CASE Over \/ UNCHANGED vars
  <2>1. UNCHANGED <<val, task, status, result, temp, pc>>
    BY <1>11 DEF Over, vars, parserVars, batchVars, mainVars
  <2> QED
    BY <1>7, <2>1
<1>12. ASSUME NEW j \in Batch!Ids, NEW m, JobEnds(j, m) PROVE TestFilesInv'
  <2>1. task' = task /\ pc' = pc /\ task.kind \in {"orig", "test"}
    BY <1>12, JobOnly DEF TypeOK, Batch!Task
  <2> QED
    BY <1>1, <1>6, <1>12, <2>1 DEF TestFilesInv
<1> QED
  BY <1>1, <1>2, <1>3, <1>4, <1>5, <1>8, <1>9, <1>10, <1>11, <1>12
     DEF Next, Main, JobStep

-----------------------------------------------------------------------------
(* The files of the timing run.                                            *)

(* As long as the options and the state stay the same, so does what the    *)
(* timing run leaves.                                                      *)
LEMMA SameTiming ==
  ASSUME UNCHANGED <<val, IsSet, Jobs>>
  PROVE  /\ TimingRunMade' = TimingRunMade /\ TimingIds' = TimingIds
         /\ Min2(Jobs, TestRuns)' = Min2(Jobs, TestRuns)
         /\ OrigState' = OrigState => RemovedIds' = RemovedIds
<1>1. SetOrig' = SetOrig /\ NoCleanup' = NoCleanup /\ TestRuns' = TestRuns
  BY DEF SetOrig, NoCleanup, TestRuns, Unsigned, Int32
<1> QED
  BY <1>1 DEF TimingRunMade, TimingIds, RemovedIds, Removes, Min2

(* The execution time is a number as long as it is the user's.             *)
LEMMA TimeParsed ==
  ASSUME TypeOK, IsNum(val["-bin-exec-time"]), ParserNext
  PROVE  IsNum(val'["-bin-exec-time"])
<1>1. val \in [Flags -> Word] /\ "-bin-exec-time" \in NumFlags
      /\ "-bin-exec-time" \notin BoolFlags
  BY DEF TypeOK, ParserTypeOK, NumFlags, BoolFlags
<1>2. CASE ParseFlag
  BY <1>1, <1>2 DEF ParseFlag, SetFromStr
<1>3. CASE ParseValue
  BY <1>1, <1>3 DEF ParseValue, SetFromStr
<1>4. CASE ~ParseFlag /\ ~ParseValue
  <2>1. val' = val
    BY <1>4 DEF ParserNext, ParseArgs, ParseFails, ParseEnds, SanityChecks,
                HelpMessages, PrintsAndExits, InitDies, InitReturns, Goes,
                parserVars
  <2> QED
    BY <2>1
<1> QED
  BY <1>2, <1>3, <1>4

LEMMA TimingFilesStep == ASSUME Inv, [Next]_vars PROVE TimingFilesInv'
<1> USE DEF Inv
<1> DEFINE Early == {"parse", "sanity", "help", "init", "timing"}
           Later == {"check", "import", "assert", "tests", "cleanup"}
<1>1. CASE Parses
  <2>1. ParserStage /\ temp' = temp
    BY <1>1, ParserLeaves DEF OptionsInv, Parses, mainVars
  <2>2. ParserStage' \/ pc' \in {"timing", "exit1"} \/ (pc' = "exit0" /\ Prints')
    BY <1>1, ParserLeaves DEF OptionsInv, Parses
  <2>3. temp' = NoFiles /\ IsNum(val'["-bin-exec-time"])
    BY <1>1, <2>1, TimeParsed DEF TimingFilesInv, ParserStage, Parses
  <2> QED
    BY <2>2, <2>3 DEF TimingFilesInv, ParserStage, Reporting, IsNum
<1>2. CASE TimingRun
  <2>1. /\ task'.total = Min2(Jobs, TestRuns) /\ pc = "timing" /\ pc' = "orig"
        /\ status' = Batch!InitialStatus(task') /\ temp' = temp
        /\ UNCHANGED <<val, IsSet, Jobs>>
    BY <1>2 DEF TimingRun, Batch!Begin, mainVars, parserVars
  <2>2. {j \in Batch!Ids' : status'[j] # "todo"} = {}
    BY <2>1 DEF Batch!InitialStatus, Batch!Ids
  <2>3. temp'["orig"] = {}
    BY <2>1 DEF TimingFilesInv, NoFiles
  <2> QED
    BY <2>1, <2>2, <2>3, SameTiming DEF TimingFilesInv, Reporting
<1>3. CASE TimingRunEnds
  <2>1. /\ pc = "orig" /\ pc' = "check" /\ temp' = temp /\ NeedsTimingRun
        /\ \A j \in Batch!Ids : status[j] = "collected"
    BY <1>3 DEF TimingRunEnds, Batch!Return, FlowInv
  <2>2. TimingRunMade'
    <3>1. "-bin-exec-time" \in Flags
      BY DEF Flags, NumFlags
    <3>2. CASE "-bin-exec-time" \in IsSet
      BY <1>3, <2>1, <3>2 DEF TimingRunEnds, NeedsTimingRun, TimingRunMade,
                              SetOrig
    <3>3. CASE "-bin-exec-time" \notin IsSet
      <4>1. val'["-bin-exec-time"] = "measured"
        BY <1>3, <3>1, <3>3 DEF TimingRunEnds, TypeOK, ParserTypeOK
      <4>2. IsSet' = IsSet \cup {"-bin-exec-time"}
        BY <1>3, <3>3 DEF TimingRunEnds
      <4> QED
        BY <2>1, <4>1, <4>2 DEF NeedsTimingRun, TimingRunMade
    <3> QED
      BY <3>2, <3>3
  <2>3. TestRuns' = TestRuns /\ Jobs' = Jobs
    <3>1. ~Parses
      BY <2>1, ParserLeaves DEF OptionsInv, ParserStage, Parses
    <3> QED
      BY <3>1, OptionsFixed, SameMeaning DEF SameOptions
  <2>4. temp["orig"] = 0..(Min2(Jobs, TestRuns) - 1)
    BY <2>1 DEF TimingFilesInv, Batch!Ids
  <2> QED
    BY <2>1, <2>2, <2>3, <2>4 DEF TimingFilesInv, TimingIds, Reporting, Min2
<1>4. CASE SkipTimingRun
  <2>1. /\ pc = "timing" /\ pc' = "check" /\ temp' = temp /\ ~NeedsTimingRun
        /\ UNCHANGED <<val, IsSet, Jobs>>
    BY <1>4 DEF SkipTimingRun, mainVars, parserVars
  <2>2. val["-bin-exec-time"] # "measured" /\ temp["orig"] = {}
    BY <2>1, ParserAssumption DEF TimingFilesInv, IsNum, NoFiles
  <2>3. TimingIds = {}
    BY <2>1, <2>2 DEF TimingIds, TimingRunMade, NeedsTimingRun, SetOrig
  <2> QED
    BY <2>1, <2>2, <2>3, SameTiming DEF TimingFilesInv, Reporting
<1>5. CASE RemoveOrigFiles
  <2>1. /\ pc = "cleanup" /\ UNCHANGED <<val, IsSet, Jobs, OrigState>>
        /\ pc' \in {"abort", "dump"}
        /\ temp' = IF Removes THEN [temp EXCEPT !["orig"] = @ \ {0}] ELSE temp
    BY <1>5 DEF RemoveOrigFiles, parserVars
  <2>2. temp'["orig"] = temp["orig"] \ RemovedIds
    BY <2>1 DEF RemovedIds, TypeOK
  <2> QED
    BY <2>1, <2>2, SameTiming DEF TimingFilesInv, Reporting
<1>6. CASE CheckExecTime \/ NoImport \/ ImportState \/ ImportRefused
           \/ ImportDies \/ AssertFails \/ TestRunsBegin
  <2>1. /\ UNCHANGED <<val, IsSet, Jobs, temp>>
        /\ pc \in {"check", "import", "assert"}
        /\ pc' \in {"import", "assert", "tests", "exit1", "abort"}
    BY <1>6 DEF CheckExecTime, NoImport, ImportState, ImportRefused, ImportDies,
                AssertFails, TestRunsBegin, MainGoes, parserVars, mainVars
  <2> QED
    BY <2>1, SameTiming DEF TimingFilesInv, Reporting
<1>7. CASE TestRunsEnd \/ BatchAborts \/ NoJobAllowed
  <2>1. /\ UNCHANGED <<val, IsSet, Jobs, temp>>
        /\ (pc = "tests" /\ pc' = "cleanup") \/ pc' = "abort"
    BY <1>7 DEF TestRunsEnd, BatchAborts, NoJobAllowed, parserVars, mainVars
  <2> QED
    BY <2>1, SameTiming DEF TimingFilesInv, Reporting
<1>8. CASE Dump \/ DumpToCSV \/ DumpToMoufoplot
  <2>1. /\ UNCHANGED <<val, IsSet, Jobs, temp, OrigState>> /\ Reporting
        /\ pc' \in {"csv", "moufoplot", "exit0", "exit1"}
    BY <1>8 DEF Dump, DumpToCSV, DumpToMoufoplot, MainGoes, mainVars,
                parserVars, Reporting
  <2> QED
    BY <2>1, SameTiming DEF TimingFilesInv
<1>9. ASSUME NEW j \in Batch!Ids, JobStarts(j) PROVE TimingFilesInv'
  <2>1. /\ InBatch /\ pc' = pc /\ task' = task
        /\ temp' = [temp EXCEPT ![task.kind] = @ \cup {j}]
        /\ status' = [status EXCEPT ![j] = "active"]
        /\ Batch!Ids' = Batch!Ids /\ UNCHANGED <<val, IsSet, Jobs>>
    BY <1>9 DEF JobStarts, Batch!Start, Batch!Ids, parserVars
  <2>2. CASE pc = "orig"
    <3>1. task.kind = "orig"
      BY <2>2 DEF FlowInv
    <3>2. temp'["orig"] = temp["orig"] \cup {j}
      BY <2>1, <3>1 DEF TypeOK
    <3>3. {k \in Batch!Ids : status'[k] # "todo"}
            = {k \in Batch!Ids : status[k] # "todo"} \cup {j}
      BY <2>1 DEF TypeOK
    <3> QED
      BY <2>1, <2>2, <3>2, <3>3, SameTiming DEF TimingFilesInv, Reporting
  <2>3. CASE pc = "tests"
    <3>1. task.kind = "test"
      BY <2>3 DEF FlowInv
    <3>2. temp'["orig"] = temp["orig"]
      BY <2>1, <3>1 DEF TypeOK
    <3> QED
      BY <2>1, <2>3, <3>2, SameTiming DEF TimingFilesInv, Reporting
  <2> QED
    BY <2>1, <2>2, <2>3 DEF InBatch
<1>10. ASSUME NEW j \in Batch!Ids, JobCollected(j) PROVE TimingFilesInv'
  <2>1. /\ InBatch /\ pc' = pc /\ UNCHANGED <<task, temp>>
        /\ status[j] = "ended"
        /\ status' = [status EXCEPT ![j] = "collected"]
        /\ Batch!Ids' = Batch!Ids /\ UNCHANGED <<val, IsSet, Jobs>>
    BY <1>10 DEF JobCollected, Batch!Collect, Batch!Ids, mainVars, parserVars
  <2>2. {k \in Batch!Ids : status'[k] # "todo"}
          = {k \in Batch!Ids : status[k] # "todo"}
    BY <2>1 DEF TypeOK
  <2> QED
    BY <2>1, <2>2, SameTiming DEF TimingFilesInv, InBatch, Reporting
<1>11. ASSUME NEW j \in Batch!Ids, NEW m, JobEnds(j, m) PROVE TimingFilesInv'
  <2>1. /\ UNCHANGED <<val, IsSet, Jobs, pc, task, OrigState>>
        /\ Batch!Ids' = Batch!Ids
    BY <1>11, JobOnly DEF parserVars
  <2>2. temp'["orig"] = temp["orig"] /\ (task.kind = "orig" => temp' = temp)
    BY <1>11, JobFiles
  <2>3. {k \in Batch!Ids : status'[k] # "todo"}
          = {k \in Batch!Ids : status[k] # "todo"}
    BY <1>11, JobOnly DEF TypeOK
  <2>4. pc \in Early => task.kind = "orig"
    BY DEF FlowInv, Tested, Reporting, Ended
  <2>5. Prints' = Prints
    BY <2>1 DEF Prints
  <2> QED
    BY <2>1, <2>2, <2>3, <2>4, <2>5, SameTiming DEF TimingFilesInv, Reporting,
       IsNum
<1>12. CASE Over \/ UNCHANGED vars
  <2>1. UNCHANGED <<val, IsSet, Jobs, pc, task, status, temp, OrigState>>
    BY <1>12 DEF Over, vars, parserVars, batchVars, mainVars
  <2>2. Batch!Ids' = Batch!Ids /\ Prints' = Prints
    BY <2>1 DEF Batch!Ids, Prints
  <2> QED
    BY <2>1, <2>2, SameTiming DEF TimingFilesInv, Reporting, IsNum
<1> QED
  BY <1>1, <1>2, <1>3, <1>4, <1>5, <1>6, <1>7, <1>8, <1>9, <1>10, <1>11, <1>12
     DEF Next, Main, JobStep

-----------------------------------------------------------------------------
(* The theorems.                                                           *)

LEMMA InvInit == CampaignInit => Inv
<1> SUFFICES ASSUME CampaignInit PROVE Inv
  OBVIOUS
<1>1. pc = "parse" /\ temp = NoFiles /\ task.kind = "orig"
      /\ OrigState = [fds |-> FALSE, files |-> "none", Type |-> "Invalid"]
  BY DEF CampaignInit, Init
<1>2. TypeOK /\ OptionsInv
  BY <1>1, TypeInit DEF OptionsInv, Running
<1>3. FlowInv
  BY <1>1 DEF FlowInv, InBatch, Tested, Reporting, Ended, EndExplained
<1>4. OrigFilesInv /\ TestFilesInv /\ TimingFilesInv
  <2>1. val = Defaults /\ IsNum("0")
    BY ParserAssumption DEF CampaignInit, Init, IsNum
  <2>2. IsNum(val["-bin-exec-time"])
    BY <2>1 DEF Defaults, Flags, NumFlags, WordFlags, BoolFlags
  <2> QED
    BY <1>1, <2>2 DEF OrigFilesInv, Reporting, TestFilesInv, TimingFilesInv,
       NoFiles
<1> QED
  BY <1>2, <1>3, <1>4 DEF Inv

(* The invariant behind the theorems below: the options are what the       *)
(* parser made of them, each stage of main() has the batch and the files   *)
(* that the stages before it left, and the files of each job follow its    *)
(* status.                                                                 *)
THEOREM Invariant == Spec => []Inv
<1>1. Inv /\ [Next]_vars => Inv'
  <2> SUFFICES ASSUME Inv, [Next]_vars PROVE Inv'
    OBVIOUS
  <2> QED
    BY TypeStep, OptionsStep, FlowStep, OrigFilesStep, TestFilesStep,
       TimingFilesStep DEF Inv, FlowFacts
<1> QED
  BY <1>1, InvInit, PTL DEF Spec

(* Whatever the command line, every variable of main() keeps its type: no  *)
(* number of jobs or runs is negative, no counter leaves the naturals, and *)
(* the original exit state is never of a type that is not known.           *)
THEOREM TypeCorrect == Spec => []TypeOK
<1>1. Inv => TypeOK
  BY DEF Inv
<1> QED
  BY <1>1, Invariant, PTL

(* init() and sanityChecks() establish what the rest of the program relies *)
(* on, for every command line, register file and number of cores, and      *)
(* nothing in main() undoes it.                                            *)
THEOREM OptionsLegal == Spec => []OptionsEstablished
<1>1. OptionsInv => OptionsEstablished
  <2> SUFFICES ASSUME OptionsInv, Running PROVE OptionsEstablished
    BY DEF OptionsEstablished
  <2>1. LegalInjection /\ Jobs <= HWThreads /\ (HWThreads > 0 => Jobs > 0)
    BY DEF OptionsInv
  <2>2. Unsigned("-injections-per-run") \in {0, 1}
    <3>1. Unsigned("-injections-per-run") \in Nat
      BY UnsignedType, Words DEF OptionsInv, ParserInv, NumFlags
    <3> QED
      BY <3>1 DEF OptionsInv
  <2>3. ASSUME Bit \in DOMAIN Numeral, Reg \in DOMAIN LastBit
        PROVE  Numeral[Bit] \in 0..LastBit[Reg]
    <3>1. Bit # "" /\ Bit # "help" /\ Reg # ""
      BY <2>3, ParserAssumption
    <3>2. Defaults["-force-inject-to-bit"] = "" /\ Defaults["-force-inject-to-reg"] = ""
      BY DEF Defaults, Flags, WordFlags
    <3>3. ForcesBit /\ KnownReg
      BY <2>3, <3>1, <3>2 DEF OptionsInv, ParserInv, Bit, Reg, ForcesBit,
                              KnownReg, Flags, WordFlags
    <3>4. Numeral[Bit] >= 0 /\ Numeral[Bit] <= LastBit[Reg]
      BY <2>1, <3>3 DEF LegalInjection, LegalBit
    <3>5. Numeral[Bit] \in Int /\ LastBit[Reg] \in Nat
      BY <2>3, Words
    <3> QED
      BY <3>4, <3>5
  <2> QED
    BY <2>1, <2>2, <2>3 DEF OptionsEstablished, LegalInjection
<1>2. Inv => OptionsInv
  BY DEF Inv
<1> QED
  BY <1>1, <1>2, Invariant, PTL

(* zofi.cpp removes the original output files only when no test job can    *)
(* still compare with them, however many jobs there are and fail.          *)
THEOREM OriginalOutlivesTests == Spec => []OrigFilesKept
<1>1. Inv => OrigFilesKept
  BY DEF Inv, OrigFilesInv, OrigFilesKept, OrigFilesExist
<1> QED
  BY <1>1, Invariant, PTL

(* Exactly which temporary files zofi leaves, for every number of jobs and *)
(* test runs: those of the timing run (but for job 0's, when its state was *)
(* measured and is cleaned up) and those of the test jobs that failed.     *)
THEOREM Leftovers == Spec => []LeftoversKnown
<1>1. ASSUME Inv PROVE LeftoversKnown
  <2> SUFFICES ASSUME pc = "exit0", ~Prints
               PROVE  /\ temp["orig"] = TimingIds \ RemovedIds
                      /\ temp["test"] = {j \in Batch!Ids :
                                           NoCleanup \/ result[j] = "empty"}
    BY DEF LeftoversKnown
  <2>1. Reporting /\ Tested /\ task.kind = "test"
        /\ \A j \in Batch!Ids : status[j] = "collected"
    BY <1>1 DEF Inv, FlowInv, Reporting, Tested
  <2> QED
    BY <1>1, <2>1 DEF Inv, TestFilesInv, TimingFilesInv
<1> QED
  BY <1>1, Invariant, PTL

(* How zofi ends, for every number of jobs and test runs: success means    *)
(* that all test runs were collected, and an abort has a reason.           *)
THEOREM Endings == Spec => []EndExplained
<1>1. Inv => EndExplained
  BY DEF Inv, FlowInv
<1> QED
  BY <1>1, Invariant, PTL

-----------------------------------------------------------------------------
(* What is counted and reported.                                           *)

(* The outcomes that are counted, one by one.                              *)
LEMMA CountedNames ==
  /\ \A s \in {"Masked", "Exception", "InfExec", "Corrupted", "Detected",
               "InjFailed", "Skipped"} : s \in Batch!Counted
  /\ \A s \in Batch!Counted \ {"InjFailed"} :
       s \in {"Masked", "Exception", "InfExec", "Corrupted", "Detected",
              "Skipped"}
BY DEF Batch!Counted, Batch!FtStatus

(* The jobs of a batch are a finite set. *)
LEMMA FiniteJobs ==
  ASSUME BatchTypeOK
  PROVE  /\ IsFiniteSet(Gathered) /\ Cardinality(Gathered) \in Nat
         /\ Cardinality(Batch!Ids) = task.total
<1>1. task.total \in Nat
  BY DEF BatchTypeOK, Batch!Task
<1>2. IsFiniteSet(Batch!Ids) /\ Cardinality(Batch!Ids) = task.total
  <2> DEFINE last == task.total - 1
  <2>1. 0 \in Int /\ last \in Int
    BY <1>1
  <2>2. IsFiniteSet(0..last)
        /\ Cardinality(0..last) = IF 0 > last THEN 0 ELSE last - 0 + 1
    BY <2>1, FS_Interval
  <2> QED
    BY <1>1, <2>2 DEF Batch!Ids
<1>3. IsFiniteSet(Gathered)
  BY <1>2, FS_Subset DEF Gathered
<1> QED
  BY <1>1, <1>2, <1>3, FS_CardinalityType

(* Statistics::incr() counts a verdict once.                               *)
LEMMA VerdictCounted ==
  ASSUME counts \in [Batch!Counted -> Nat],
         NEW s \in Batch!Counted \ {"InjFailed"}, counts' = Batch!Counting(s)
  PROVE  /\ TotalInjOK' + counts'["Skipped"] = TotalInjOK + counts["Skipped"] + 1
         /\ s # "Detected" => counts'["Detected"] = counts["Detected"]
<1>1. \A r \in Batch!Counted :
        counts'[r] = IF r = s THEN counts[r] + 1 ELSE counts[r]
  BY DEF Batch!Counting
<1>2. \A r \in Batch!Counted : counts[r] \in Nat
  OBVIOUS
<1> QED
  BY <1>1, <1>2, CountedNames DEF TotalInjOK

(* A batch begins with nothing collected and nothing counted.              *)
LEMMA CountBegins ==
  ASSUME NEW t, Batch!Begin(t) PROVE CountInv'
<1>1. /\ status' = [j \in 0..(t.total - 1) |-> "todo"]
      /\ result' = [j \in 0..(t.total - 1) |-> "empty"]
      /\ counts' = [s \in Batch!Counted |-> 0] /\ task' = t
  BY DEF Batch!Begin, Batch!InitialStatus, Batch!InitialResult, Batch!Zero
<1>2. Batch!Ids' = 0..(t.total - 1)
  BY <1>1 DEF Batch!Ids
<1>3. Gathered' = {} /\ \A j \in Batch!Ids' : result'[j] = "empty"
  BY <1>1, <1>2 DEF Gathered
<1>4. TotalInjOK' = 0 /\ counts'["Skipped"] = 0 /\ counts'["Detected"] = 0
  BY <1>1, CountedNames DEF TotalInjOK
<1>5. Cardinality(Gathered') = 0
  BY <1>3, FS_EmptySet
<1> QED
  BY <1>3, <1>4, <1>5 DEF CountInv

(* A job that starts or ends is not counted, and Detected is only sent by  *)
(* a job that was given an exit code to detect.                            *)
LEMMA CountJobs ==
  ASSUME TypeOK, CountInv, NEW j \in Batch!Ids,
         JobStarts(j) \/ \E m \in Batch!Messages \cup {"empty"} : JobEnds(j, m)
  PROVE  CountInv'
<1>1. BatchTypeOK
  BY DEF TypeOK, BatchTypeOK
<1>2. UNCHANGED <<val, task, counts>>
  BY DEF JobStarts, JobEnds, Batch!Start, Batch!End, parserVars
<1>3. Batch!Ids' = Batch!Ids /\ TotalInjOK' = TotalInjOK
      /\ Int32("-detection-exit-code")' = Int32("-detection-exit-code")
  BY <1>2 DEF Batch!Ids, TotalInjOK, Int32
<1>4. CASE JobStarts(j)
  <2>1. /\ result' = result /\ status[j] = "todo"
        /\ status' = [status EXCEPT ![j] = "active"]
    BY <1>4 DEF JobStarts, Batch!Start
  <2>2. Gathered' = Gathered
    BY <1>1, <1>3, <2>1 DEF Gathered, BatchTypeOK
  <2> QED
    BY <1>2, <1>3, <2>1, <2>2 DEF CountInv, Gathered
<1>5. ASSUME NEW m \in Batch!Messages \cup {"empty"}, JobEnds(j, m)
      PROVE  CountInv'
  <2>1. /\ status[j] = "active" /\ status'[j] = "ended" /\ result'[j] = m
        /\ \A k \in Batch!Ids \ {j} :
             status'[k] = status[k] /\ result'[k] = result[k]
    BY <1>5, JobOnly
  <2>2. Gathered' = Gathered /\ \A k \in Gathered : result'[k] = result[k]
    BY <1>3, <2>1 DEF Gathered
  <2>3. task.kind = "test" /\ m = "Detected" =>
          Int32("-detection-exit-code") > 0
    BY <1>5 DEF JobEnds, MaySend, JobOpt, Job!Reports, Job!Compared
  <2>4. task.kind = "test" =>
          \A k \in Batch!Ids' : result'[k] = "Detected" =>
            Int32("-detection-exit-code")' > 0
    BY <1>3, <2>1, <2>3 DEF CountInv
  <2> QED
    BY <1>2, <1>3, <2>2, <2>4 DEF CountInv
<1> QED
  BY <1>4, <1>5

(* Collecting a job that sent a verdict counts it.                         *)
LEMMA CountCollects ==
  ASSUME TypeOK, CountInv, NEW j \in Batch!Ids, JobCollected(j)
  PROVE  CountInv'
<1>1. BatchTypeOK
  BY DEF TypeOK, BatchTypeOK
<1>2. /\ UNCHANGED <<val, task, result>> /\ status[j] = "ended"
      /\ status' = [status EXCEPT ![j] = "collected"]
      /\ task.kind = "test" /\ result[j] # "empty" =>
           counts' = Batch!Counting(result[j])
  BY DEF JobCollected, Batch!Collect, parserVars
<1>3. Batch!Ids' = Batch!Ids
      /\ Int32("-detection-exit-code")' = Int32("-detection-exit-code")
  BY <1>2 DEF Batch!Ids, Int32
<1>4. Gathered' = Gathered \cup {j} /\ j \notin Gathered
  BY <1>1, <1>2, <1>3 DEF Gathered, BatchTypeOK
<1>5. Cardinality(Gathered') = Cardinality(Gathered) + 1
  BY <1>1, <1>4, FiniteJobs, FS_AddElement
<1>6. SUFFICES ASSUME task.kind = "test", \A k \in Gathered' : result[k] # "empty"
               PROVE  /\ TotalInjOK' + counts'["Skipped"] = Cardinality(Gathered')
                      /\ counts'["Detected"] # 0 =>
                           Int32("-detection-exit-code") > 0
  BY <1>2, <1>3 DEF CountInv
<1>7. /\ TotalInjOK + counts["Skipped"] = Cardinality(Gathered)
      /\ counts["Detected"] # 0 => Int32("-detection-exit-code") > 0
      /\ result[j] = "Detected" => Int32("-detection-exit-code") > 0
  BY <1>4, <1>6 DEF CountInv
<1>8. /\ result[j] \in Batch!Counted \ {"InjFailed"}
      /\ counts' = Batch!Counting(result[j])
      /\ counts \in [Batch!Counted -> Nat]
  BY <1>1, <1>2, <1>4, <1>6 DEF BatchTypeOK, Batch!Messages
<1> QED
  BY <1>5, <1>7, <1>8, VerdictCounted

(* All other steps leave the batch and the options as they are.            *)
LEMMA CountStep ==
  ASSUME Inv, CountInv, [Next]_vars PROVE CountInv'
<1>1. TypeOK
  BY DEF Inv
<1>2. CASE Parses
  <2>1. ParserStage /\ task' = task
    BY <1>2, ParserLeaves DEF Inv, OptionsInv, Parses, batchVars
  <2>2. task.kind = "orig"
    BY <2>1 DEF Inv, FlowInv, ParserStage, Tested, Reporting, Ended
  <2> QED
    BY <2>1, <2>2 DEF CountInv
<1>3. CASE TimingRun \/ TestRunsBegin
  BY <1>3, CountBegins DEF TimingRun, TestRunsBegin
<1>4. ASSUME NEW j \in Batch!Ids, JobStarts(j) \/ JobStep(j) PROVE CountInv'
  BY <1>1, <1>4, CountJobs DEF JobStep
<1>5. ASSUME NEW j \in Batch!Ids, JobCollected(j) PROVE CountInv'
  BY <1>1, <1>5, CountCollects
<1>6. ASSUME UNCHANGED <<task, status, result, counts>>, ~Parses
      PROVE  CountInv'
  <2>1. Int32("-detection-exit-code")' = Int32("-detection-exit-code")
    BY <1>1, <1>6, OptionsFixed DEF SameOptions, Int32, Flags, NumFlags
  <2>2. Batch!Ids' = Batch!Ids /\ TotalInjOK' = TotalInjOK
    BY <1>6 DEF Batch!Ids, TotalInjOK
  <2>3. Gathered' = Gathered
    BY <1>6, <2>2 DEF Gathered
  <2> QED
    BY <1>6, <2>1, <2>2, <2>3 DEF CountInv
<1>7. CASE TimingRunEnds \/ TestRunsEnd \/ BatchAborts
  BY <1>2, <1>6, <1>7 DEF TimingRunEnds, TestRunsEnd, BatchAborts,
     Batch!Return, Batch!Abort
<1>8. CASE SkipTimingRun \/ CheckExecTime \/ NoImport \/ ImportRefused
           \/ ImportDies \/ ImportState \/ AssertFails
  BY <1>2, <1>6, <1>8 DEF SkipTimingRun, CheckExecTime, NoImport,
     ImportRefused, ImportDies, ImportState, AssertFails, MainGoes, batchVars
<1>9. CASE RemoveOrigFiles \/ Dump \/ DumpToCSV \/ DumpToMoufoplot
           \/ NoJobAllowed \/ Over \/ UNCHANGED vars
  BY <1>2, <1>6, <1>9 DEF RemoveOrigFiles, Dump, DumpToCSV, DumpToMoufoplot,
     MainGoes, NoJobAllowed, Over, vars, batchVars
<1> QED
  BY <1>2, <1>3, <1>4, <1>5, <1>7, <1>8, <1>9 DEF Next, Main

(* What was reported stays as it is, and so do the counters it is made of. *)
LEMMA ReportStays ==
  ASSUME TypeOK, ReportInv, [Next]_vars, ~Parses, UNCHANGED <<counts, table, csv>>,
         pc' \in {"csv", "moufoplot"} \/ Ended' \/ (pc \notin {"csv", "moufoplot"} /\ ~Ended)
  PROVE  ReportInv'
<1>1. Printed' = Printed
  BY OptionsFixed DEF Printed, Int32, SameOptions, Flags, NumFlags
<1> QED
  BY <1>1 DEF ReportInv

(* dump() and dumpToCSV() report the counters as they are after the last   *)
(* test run.                                                               *)
LEMMA ReportStep ==
  ASSUME Inv, ReportInv, [Next]_vars PROVE ReportInv'
<1>1. TypeOK
  BY DEF Inv
<1> USE DEF Ended
<1>2. CASE Parses
  <2>1. ParserStage /\ UNCHANGED <<counts, table, csv>>
    BY <1>2, ParserLeaves DEF Inv, OptionsInv, Parses, batchVars, mainVars
  <2>2. table = NoRows /\ csv = NoRows
    BY <2>1 DEF ReportInv, ParserStage
  <2> QED
    BY <2>1, <2>2 DEF ReportInv, NoRows
<1>3. CASE Dump
  <2>1. pc = "dump" /\ pc' = "csv" /\ UNCHANGED <<val, counts, csv>>
        /\ (table' = [s \in Printed |-> counts[s]] \/ table' = table)
    BY <1>3 DEF Dump, parserVars, batchVars
  <2>2. table = NoRows /\ csv = NoRows
    BY <2>1 DEF ReportInv
  <2>3. Printed' = Printed
    BY <2>1 DEF Printed, Int32
  <2> QED
    BY <2>1, <2>2, <2>3 DEF ReportInv, NoRows
<1>4. CASE DumpToCSV
  <2>1. pc = "csv" /\ pc' \in {"moufoplot", "exit1"}
        /\ UNCHANGED <<val, counts, table>>
        /\ (csv' = [s \in Columns |-> counts[s]] \/ csv' = csv)
    BY <1>4 DEF DumpToCSV, parserVars, batchVars
  <2>2. Printed' = Printed
    BY <2>1 DEF Printed, Int32
  <2> QED
    BY <2>1, <2>2 DEF ReportInv
<1>5. CASE DumpToMoufoplot
  <2>1. UNCHANGED <<counts, table, csv>> /\ Ended'
    BY <1>5 DEF DumpToMoufoplot, MainGoes, batchVars, mainVars
  <2> QED
    BY <1>1, <1>2, <2>1, ReportStays
<1>6. CASE TimingRun \/ TestRunsBegin
  <2>1. table = NoRows /\ csv = NoRows /\ UNCHANGED <<table, csv>>
        /\ pc' \in {"orig", "tests"}
    BY <1>6 DEF TimingRun, TestRunsBegin, ReportInv, mainVars
  <2> QED
    BY <2>1 DEF ReportInv
<1>7. ASSUME NEW j \in Batch!Ids, JobCollected(j) PROVE ReportInv'
  <2>1. table = NoRows /\ csv = NoRows /\ UNCHANGED <<table, csv, pc>>
    BY <1>7 DEF JobCollected, InBatch, ReportInv, mainVars
  <2> QED
    BY <2>1 DEF ReportInv
<1>8. ASSUME NEW j \in Batch!Ids, JobStarts(j) \/ JobStep(j) PROVE ReportInv'
  <2>1. UNCHANGED <<counts, table, csv, pc>>
    BY <1>8 DEF JobStarts, JobStep, JobEnds, Batch!Start, Batch!End
  <2> QED
    BY <1>1, <1>2, <2>1, ReportStays
<1>9. CASE SkipTimingRun \/ TimingRunEnds \/ CheckExecTime \/ NoImport
           \/ ImportRefused \/ ImportDies \/ ImportState \/ AssertFails
  <2>1. UNCHANGED <<counts, table, csv>>
        /\ pc \in {"timing", "orig", "check", "import", "assert"}
    BY <1>9 DEF SkipTimingRun, TimingRunEnds, CheckExecTime, NoImport,
       ImportRefused, ImportDies, ImportState, AssertFails, MainGoes,
       Batch!Return, batchVars, mainVars
  <2> QED
    BY <1>1, <1>2, <2>1, ReportStays
<1>10. CASE TestRunsEnd \/ BatchAborts \/ NoJobAllowed \/ RemoveOrigFiles
  <2>1. UNCHANGED <<counts, table, csv>> /\ pc \in {"orig", "tests", "cleanup"}
    BY <1>10 DEF TestRunsEnd, BatchAborts, NoJobAllowed, RemoveOrigFiles,
       InBatch, Batch!Return, Batch!Abort, batchVars, mainVars
  <2> QED
    BY <1>1, <1>2, <2>1, ReportStays
<1>11. CASE Over \/ UNCHANGED vars
  <2>1. UNCHANGED <<counts, table, csv, pc>>
    BY <1>11 DEF Over, vars, batchVars, mainVars
  <2> QED
    BY <1>1, <1>2, <2>1, ReportStays
<1> QED
  BY <1>2, <1>3, <1>4, <1>5, <1>6, <1>7, <1>8, <1>9, <1>10, <1>11
     DEF Next, Main

(* The counters and the reports are right at every stage.                  *)
THEOREM ReportInvariant == Spec => [](Inv /\ CountInv /\ ReportInv)
<1>1. CampaignInit => CountInv /\ ReportInv
  BY DEF CampaignInit, Init, CountInv, ReportInv
<1>2. Inv /\ CountInv /\ ReportInv /\ [Next]_vars => (CountInv /\ ReportInv)'
  BY CountStep, ReportStep
<1> QED
  BY <1>1, <1>2, Invariant, PTL DEF Spec

(* When every test run gave a verdict, what zofi prints accounts for each  *)
(* of them once, whatever the options: the percentages of dump() add up,   *)
(* and the CSV file lacks no more than the detected and the skipped runs.  *)
THEOREM ReportsAddUp == Spec => []ReportComplete
<1>1. ASSUME Inv, CountInv, ReportInv PROVE ReportComplete
  <2> SUFFICES ASSUME pc = "exit0", ~Prints, \A j \in Batch!Ids : result[j] # "empty"
      PROVE  /\ table # NoRows =>
                  /\ RowSum(table) = TotalInjOK
                  /\ RowSum(table) + Row(table, "Skipped") = TestRuns
             /\ csv # NoRows =>
                  RowSum(csv) + Row(csv, "Skipped")
                  + counts["Detected"] + counts["Skipped"] = TestRuns
    BY DEF ReportComplete
  <2>1. task.kind = "test" /\ task.total = TestRuns
        /\ \A j \in Batch!Ids : status[j] = "collected"
    BY <1>1 DEF Inv, FlowInv, Tested, Reporting
  <2>2. Gathered = Batch!Ids
    BY <2>1 DEF Gathered
  <2>3. /\ TotalInjOK + counts["Skipped"] = TestRuns
        /\ counts["Detected"] # 0 => Int32("-detection-exit-code") > 0
    <3>1. BatchTypeOK
      BY <1>1 DEF Inv, TypeOK, BatchTypeOK
    <3> QED
      BY <1>1, <2>1, <2>2, <3>1, FiniteJobs DEF CountInv
  <2>4. \A s \in {"Masked", "Exception", "InfExec", "Corrupted", "Detected",
                  "Skipped"} : counts[s] \in Nat
    BY <1>1, CountedNames DEF Inv, TypeOK
  <2>5. ASSUME table # NoRows
        PROVE  /\ RowSum(table) = TotalInjOK
               /\ Row(table, "Skipped") = counts["Skipped"]
    <3>1. table = [s \in Printed |-> counts[s]]
      BY <1>1, <2>5 DEF ReportInv
    <3>2. /\ \A s \in Columns : Row(table, s) = counts[s]
          /\ Row(table, "InjFailed") = 0
      BY <3>1 DEF Row, Printed, Columns
    <3>3. Row(table, "Detected") = counts["Detected"]
      BY <2>3, <2>4, <3>1 DEF Row, Printed, Columns
    <3>4. Row(table, "Skipped") = counts["Skipped"]
      BY <3>1 DEF Row, Printed, Columns
    <3> QED
      BY <2>4, <3>2, <3>3, <3>4 DEF RowSum, TotalInjOK, Columns
  <2>6. ASSUME csv # NoRows
        PROVE  RowSum(csv) + Row(csv, "Skipped") + counts["Detected"] = TotalInjOK
    <3>1. csv = [s \in Columns |-> counts[s]]
      BY <1>1, <2>6 DEF ReportInv
    <3>2. /\ \A s \in Columns : Row(csv, s) = counts[s]
          /\ Row(csv, "InjFailed") = 0 /\ Row(csv, "Detected") = 0
          /\ Row(csv, "Skipped") = 0
      BY <3>1 DEF Row, Columns
    <3> QED
      BY <2>4, <3>2 DEF RowSum, TotalInjOK, Columns
  <2> QED
    BY <2>3, <2>5, <2>6
<1> QED
  BY <1>1, ReportInvariant, PTL
=============================================================================
