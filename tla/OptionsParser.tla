--------------------------- MODULE OptionsParser ----------------------------
(***************************************************************************)
(* OptionsParser::init() of src/options.cpp: the loop over the words of    *)
(* the command line, sanityChecks(), helpMessages() and the checks before  *)
(* main() goes on.  Modelled are the options that steer main() or a check  *)
(* here; those that only steer a job are in Ptrace!Config and BitFlip.     *)
(* Words are uninterpreted: Numeral, Letters and LastBit say what strtol,  *)
(* the characters of -inject-to and regs.def make of them.                 *)
(***************************************************************************)
EXTENDS Integers, Sequences

CONSTANTS
  Argvs,       \* the command lines to consider
  Numeral,     \* number word |-> the int that is left of strtol()'s long
  OutOfRange,  \* those that are too large for a long: strtol() sets errno
  Letters,     \* word |-> the characters of it
  LastBit,     \* regs.def: register |-> StartBit + Bits - 1
  Files,       \* the paths that exist
  UIntMax,     \* the largest `unsigned`
  Cores        \* what hardware_concurrency() may return

(* The words options are made of: those given, and those of the program. *)
Word == {"", "0", "1", "rwe", "measured"}
        \cup UNION {{a[i] : i \in DOMAIN a} : a \in Argvs}

ASSUME ParserAssumption ==
  /\ \A a \in Argvs : a \in Seq(Word)
  /\ UIntMax \in Nat \ {0}
  /\ Cores \subseteq 0..UIntMax
  /\ Numeral \in [DOMAIN Numeral -> Int]
  /\ LastBit \in [DOMAIN LastBit -> Nat]
  /\ \A w \in OutOfRange \cap DOMAIN Numeral : Numeral[w] = -1
  /\ {"", "help", "measured"} \cap (DOMAIN Numeral \cup DOMAIN LastBit) = {}
  /\ {"0", "1"} \subseteq DOMAIN Numeral
  /\ Numeral["0"] = 0 /\ Numeral["1"] = 1
  /\ "rwe" \in DOMAIN Letters /\ Letters["rwe"] = {"r", "w", "e"}

VARIABLES
  argv,       \* the words after the program's name
  argi,       \* the index of the next one
  val,        \* the value of each option, as the word it was given
  IsSet,      \* the options whose IsSet is true
  errno,      \* a conversion has left errno set
  HWThreads,  \* hardware_concurrency()
  Jobs,       \* the value of -j once init() has adjusted it
  pc          \* where main() is

parserVars == <<argv, argi, val, IsSet, errno, HWThreads, Jobs>>

BoolFlags == {"-help", "-version", "-no-redirect", "-no-cleanup",
              "-disable-timing-run"}
NumFlags == {"-injections-per-run", "-test-runs", "-j", "-bin-exec-time",
             "-detection-exit-code", "-v"}
WordFlags == {"-bin", "-args", "-inject-to", "-force-inject-to-reg",
              "-force-inject-to-bit", "-out-csv", "-out-moufoplot",
              "-set-orig-exit-state"}
Flags == BoolFlags \cup NumFlags \cup WordFlags

(* optionsList.cpp; "" is the empty string or the null pointer. *)
Defaults ==
  [f \in Flags |->
     IF f \in {"-injections-per-run", "-test-runs", "-j", "-v"} THEN "1"
     ELSE IF f = "-inject-to" THEN "rwe"
     ELSE IF f \in WordFlags THEN "" ELSE "0"]

IsNum(w) == w \in DOMAIN Numeral

(* An int, and an unsigned: strtoul() accepts a minus sign. *)
Int32(f) == Numeral[val[f]]
Unsigned(f) == Int32(f) % (UIntMax + 1)

Init ==
  /\ argv \in Argvs
  /\ argi = 1
  /\ val = Defaults
  /\ IsSet = {}
  /\ errno = FALSE
  /\ HWThreads \in Cores
  /\ Jobs = 1
  /\ pc = "parse"

Goes(to) == pc' = to /\ UNCHANGED parserVars

-----------------------------------------------------------------------------
(* OptionsParser::parse(), one word or one option with its value a time.   *)

AtWord == pc = "parse" /\ argi <= Len(argv)
NeedsValue(w) == w \in (NumFlags \cup WordFlags) \ {"-args"}

SetFromStr(f, w) ==
  /\ val' = [val EXCEPT ![f] = w]
  /\ IsSet' = IsSet \cup {f}
  /\ errno' = (errno \/ (f \in NumFlags /\ w \in OutOfRange))
  /\ UNCHANGED <<argv, HWThreads, Jobs>>

ParseFlag ==
  /\ AtWord /\ argv[argi] \in BoolFlags
  /\ SetFromStr(argv[argi], "1")
  /\ argi' = argi + 1
  /\ UNCHANGED pc

(* The next word is the value, whatever it looks like. *)
ParseValue ==
  /\ AtWord /\ NeedsValue(argv[argi]) /\ argi < Len(argv)
  /\ argv[argi] \in NumFlags => IsNum(argv[argi + 1])
  /\ SetFromStr(argv[argi], argv[argi + 1])
  /\ argi' = argi + 2
  /\ UNCHANGED pc

(* -args takes all that follows. *)
ParseArgs ==
  /\ AtWord /\ argv[argi] = "-args"
  /\ IsSet' = IsSet \cup {"-args"}
  /\ pc' = "sanity"
  /\ UNCHANGED <<argv, argi, val, errno, HWThreads, Jobs>>

(* userDie(): no such option, its value is missing, or it is no number. *)
ParseFails ==
  /\ AtWord
  /\ \/ argv[argi] \notin Flags
     \/ NeedsValue(argv[argi]) /\ argi = Len(argv)
     \/ argv[argi] \in NumFlags /\ argi < Len(argv) /\ ~IsNum(argv[argi + 1])
  /\ Goes("exit1")

ParseEnds ==
  /\ pc = "parse" /\ argi > Len(argv)
  /\ Goes("sanity")

-----------------------------------------------------------------------------
(* sanityChecks() and helpMessages().                                      *)

Chars == IF val["-inject-to"] \in DOMAIN Letters
         THEN Letters[val["-inject-to"]] ELSE {"?"}
Bit == val["-force-inject-to-bit"]
Reg == val["-force-inject-to-reg"]

(* A long here: a bit that is out of range is LONG_MAX. *)
ForcesBit == "-force-inject-to-bit" \in IsSet /\ Bit # "help"
KnownReg == "-force-inject-to-reg" \in IsSet /\ Reg \in DOMAIN LastBit

(* A mutant of LegalBit: the bit after the last one is accepted. *)
LegalBitOffByOne ==
  ForcesBit =>
    /\ IsNum(Bit) /\ (Bit \in OutOfRange \/ Numeral[Bit] >= 0)
    /\ KnownReg => Bit \notin OutOfRange /\ Numeral[Bit] <= LastBit[Reg] + 1

LegalBit ==
  ForcesBit =>
    /\ IsNum(Bit) /\ (Bit \in OutOfRange \/ Numeral[Bit] >= 0)
    /\ KnownReg => Bit \notin OutOfRange /\ Numeral[Bit] <= LastBit[Reg]

LegalInjection ==
  /\ ~({"-inject-to", "-force-inject-to-reg"} \subseteq IsSet)
  /\ Chars \subseteq {"r", "w", "e", "i", "c", "o"}
  /\ Chars \cap {"r", "w"} # {}
  /\ Chars \cap {"e", "i", "c", "o"} # {}
  /\ LegalBit

SanityChecks ==
  /\ pc = "sanity"
  /\ errno' = (errno \/ (ForcesBit /\ Bit \in OutOfRange))
  /\ pc' = IF LegalInjection THEN "help" ELSE "exit1"
  /\ UNCHANGED <<argv, argi, val, IsSet, HWThreads, Jobs>>

(* The lists of registers and bits end in a userDie() too. *)
HelpMessages ==
  /\ pc = "help"
  /\ Goes(IF \/ "-force-inject-to-reg" \in IsSet /\ Reg = "help"
             \/ "-force-inject-to-bit" \in IsSet /\ Bit = "help"
          THEN "exit1" ELSE "init")

-----------------------------------------------------------------------------
(* The rest of init().                                                     *)

Prints == "-version" \in IsSet \/ val["-help"] = "1"

PrintsAndExits ==
  /\ pc = "init" /\ Prints
  /\ Goes("exit0")

Acceptable ==
  /\ val["-bin"] \in Files
  /\ Int32("-detection-exit-code") <= 125
  /\ "-out-moufoplot" \in IsSet => val["-out-moufoplot"] \in Files
  /\ Unsigned("-injections-per-run") <= 1

InitDies ==
  /\ pc = "init" /\ ~Prints /\ ~Acceptable
  /\ Goes("exit1")

(* -j 0 is the number of cores, which also is the limit. *)
LimitedJobs(j) == IF j = 0 \/ j > HWThreads THEN HWThreads ELSE j

InitReturns ==
  /\ pc = "init" /\ ~Prints /\ Acceptable
  /\ Jobs' = LimitedJobs(Unsigned("-j"))
  /\ pc' = "timing"
  /\ UNCHANGED <<argv, argi, val, IsSet, errno, HWThreads>>

ParserNext ==
  \/ ParseFlag \/ ParseValue \/ ParseArgs \/ ParseFails \/ ParseEnds
  \/ SanityChecks \/ HelpMessages
  \/ PrintsAndExits \/ InitDies \/ InitReturns

-----------------------------------------------------------------------------
ParserTypeOK ==
  /\ argv \in Argvs
  /\ argi \in 1..(Len(argv) + 1)
  /\ val \in [Flags -> Word]
  /\ \A f \in NumFlags \ {"-bin-exec-time"} : IsNum(val[f])
  /\ IsSet \subseteq Flags
  /\ errno \in BOOLEAN
  /\ HWThreads \in Cores /\ Jobs \in 0..UIntMax

(* An option that was not given has its default. *)
ParserInv == ParserTypeOK /\ \A f \in Flags \ IsSet : val[f] = Defaults[f]
=============================================================================
