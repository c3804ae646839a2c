------------------------------ MODULE BitFlip -------------------------------
(***************************************************************************)
(* Runner::doBitFlip() and the RegisterManipulator of src/regManip.cpp:    *)
(* the choice of a register and a bit from the instruction a thread is     *)
(* stopped at, the step over that instruction, and the flip, done on a     *)
(* copy of the registers that is read from the thread and written back.    *)
(* Runner abstracts all of this to a few outcomes (module Injection).      *)
(*                                                                         *)
(* A set of registers is represented by its age, the number of             *)
(* instructions executed since the stop when its values were current, and  *)
(* the bits in which it differs from a run without a fault.                *)
(***************************************************************************)
EXTENDS Integers, FiniteSets, AddressSpace

CONSTANTS
  RegTable,   \* regs.def: name |-> area, field, StartBit, Bits
  Masked,     \* the <<field, bit>> the kernel never takes from a tracer
  Instrs,     \* the instructions the thread may be stopped at
  Settings    \* settings of the injection options

VARIABLES
  opt,        \* the options; they never change
  instr,      \* the instruction at the program counter of the stop
  pc,         \* where doBitFlip() is
  sel,        \* the RegDescr and the bit that were picked
  machine,    \* the thread's registers
  buf,        \* gpregs, and the two parts of vecregs
  executed,   \* instructions the thread has executed since the stop
  seen        \* an instruction has read a register that differs

vars == <<opt, instr, pc, sel, machine, buf, executed, seen>>

Unset == "unset"
NoBit == -1
NoSel == [Name |-> Unset, Written |-> FALSE, bit |-> NoBit]
Names == DOMAIN RegTable
BufferAreas == {"gpregs", "xsave", "zmm"}

(* The table gives every register a field of one of the three buffers, or  *)
(* none ("nullptr"), and a nonempty range of the field's bits.             *)
Register == [area : BufferAreas \cup {"nullptr"}, field : STRING,
             StartBit : Nat, Bits : Nat \ {0}]

ASSUME RegTableAssumption ==
  /\ RegTable \in [Names -> Register]
  /\ Unset \notin Names
  /\ "rip" \in Names /\ RegTable["rip"].area = "gpregs"

(* The kernel writes the registers back without an error and leaves these *)
(* as they are: the flags outside FLAG_MASK in PTRACE_SETREGS, the bits of *)
(* mxcr_mask in PTRACE_SETREGSET.                                          *)
ASSUME MaskedAssumption == Masked \subseteq STRING \X Nat

(* An instruction as capstone describes it: whether it is known, its bytes *)
(* and its operands.  Implicit ones are regs_read and regs_write; an       *)
(* explicit one is a register with its access, empty where capstone has    *)
(* none, or the registers of an address.  control: isControlInstr().       *)
(*   at        where the thread has stopped, in the terms of AddressSpace  *)
(*   readable  the 16 words from there on can be peeked at                 *)
(*   inuse     the processor has the component of xsave that it accesses   *)
(*             in use: XSTATE_BV, which is written back as it was read     *)
(*   ends      a step over it may end the process                          *)
Described(i) ==
  /\ {i.known, i.control, i.readable, i.inuse, i.ends} \subseteq BOOLEAN
  /\ i.bytes \in 1..15
  /\ Stop(i.at)
  /\ i.regs_read \subseteq STRING /\ i.regs_write \subseteq STRING
  /\ \A op \in i.operands :
       IF op.type = "REG" THEN op.access \in SUBSET {"R", "W"}
       ELSE op.type = "MEM" /\ op.regs \subseteq STRING

ASSUME InstrsAssumption == \A i \in Instrs : Described(i)

Setting == [InjectTo : SUBSET {"r", "w", "e", "i", "c", "o"},
            InjectToSet : BOOLEAN,
            ForceInjectToReg : STRING,
            ForceInjectToBit : Nat \cup {NoBit},
            DontInjectToLibs : BOOLEAN]

ASSUME SettingsAssumption ==
  \A o \in Settings : /\ o \in Setting
                      /\ o.InjectToSet \/ o.InjectTo = {"r", "w", "e"}

BitsOf(n) ==
  RegTable[n].StartBit .. (RegTable[n].StartBit + RegTable[n].Bits - 1)
Forced(o) == o.ForceInjectToReg # Unset

-----------------------------------------------------------------------------
(* OptionsParser::sanityChecks().                                          *)
sanityChecks(o) ==
  /\ ~(o.InjectToSet /\ Forced(o))
  /\ o.InjectTo \cap {"r", "w"} # {}
  /\ o.InjectTo \cap {"e", "i", "c", "o"} # {}
  /\ o.ForceInjectToReg \in Names =>
       o.ForceInjectToBit < RegTable[o.ForceInjectToReg].StartBit
                            + RegTable[o.ForceInjectToReg].Bits

-----------------------------------------------------------------------------
(* RegisterManipulator::getInstrRegisters().  The vectors are sets here: a *)
(* register that is listed twice is only more likely to be picked.         *)

(* cs_disasm() is given 8 of the 16 bytes that are peeked at.              *)
Decoded(i) == i.known /\ i.bytes <= 8

RegDescr(n, written) == [Name |-> n, Written |-> written]
Reading(names) == {RegDescr(n, FALSE) : n \in names}
Writing(names) == {RegDescr(n, TRUE) : n \in names}

RegOps(i) == {op \in i.operands : op.type = "REG"}
MemRegs(i) == UNION {op.regs : op \in {q \in i.operands : q.type = "MEM"}}

ExplicitReads(i) ==
  {op.reg : op \in {q \in RegOps(i) : "R" \in q.access}} \cup MemRegs(i)

(* A mutant of ExplicitR: the registers of an address are left out. *)
ExplicitRNoAddress(i) ==
  {op.reg : op \in {q \in RegOps(i) : q.access = {"R"}}}

(* An operand that is read and written counts as written only. *)
ExplicitW(i) == {op.reg : op \in {q \in RegOps(i) : "W" \in q.access}}
ExplicitR(i) == {op.reg : op \in {q \in RegOps(i) : q.access = {"R"}}}
                \cup MemRegs(i)

(* Operands without an access: only AllRegs gets them, as not written.     *)
Unaccounted(i) == {op.reg : op \in {q \in RegOps(i) : q.access = {}}}

InstructionPointer(o, i) ==
  IF \/ "c" \in o.InjectTo /\ i.control
     \/ "o" \in o.InjectTo /\ ~i.control
  THEN {"rip"} ELSE {}

When(o, class, names) == IF class \in o.InjectTo THEN names ELSE {}

RRegs(o, i) == Reading(InstructionPointer(o, i)
                       \cup When(o, "i", i.regs_read)
                       \cup When(o, "e", ExplicitR(i)))

WRegs(o, i) == Reading(InstructionPointer(o, i))
               \cup Writing(When(o, "i", i.regs_write)
                            \cup When(o, "e", ExplicitW(i)))

(* Implicitly accessed registers are not added to AllRegs. *)
AllRegs(o, i) == Reading(InstructionPointer(o, i)
                         \cup When(o, "e", ExplicitR(i) \cup Unaccounted(i)))
                 \cup Writing(When(o, "e", ExplicitW(i)))

(* getRegDataForStrSafe() is called for each register that is collected. *)
LookedUp(o, i) ==
  IF Decoded(i)
  THEN When(o, "i", i.regs_read \cup i.regs_write)
       \cup When(o, "e", ExplicitR(i) \cup ExplicitW(i) \cup Unaccounted(i))
  ELSE {}

-----------------------------------------------------------------------------
(* RegisterManipulator::getSelectedRegAndBit().                            *)

(* A mutant of RegsVec: reads and writes are swapped. *)
RegsVecSwapped(o, i) ==
  IF Forced(o) THEN Reading({o.ForceInjectToReg})
  ELSE IF ~Decoded(i) THEN {}
  ELSE IF {"r", "w"} \subseteq o.InjectTo THEN AllRegs(o, i)
  ELSE IF "r" \in o.InjectTo THEN WRegs(o, i) ELSE RRegs(o, i)

RegsVec(o, i) ==
  IF Forced(o) THEN Reading({o.ForceInjectToReg})
  ELSE IF ~Decoded(i) THEN {}
  ELSE IF {"r", "w"} \subseteq o.InjectTo THEN AllRegs(o, i)
  ELSE IF "r" \in o.InjectTo THEN RRegs(o, i) ELSE WRegs(o, i)

(* A mutant of MayPickBit: a forced bit is not compared with the range. *)
MayPickBitUnchecked(o, n, b) ==
  IF o.ForceInjectToBit # NoBit THEN b = o.ForceInjectToBit
  ELSE b \in BitsOf(n)

(* The forced bit, when it is in range, or any bit of the register. *)
MayPickBit(o, n, b) ==
  b \in BitsOf(n) /\ o.ForceInjectToBit \in {NoBit, b}

-----------------------------------------------------------------------------
(* What the thread executes.                                               *)

Covers(names, f) ==
  \E n \in names \cap Names : RegTable[n].field = f[1] /\ f[2] \in BitsOf(n)

(* What the instruction really reads and writes; it is fetched through the *)
(* instruction pointer.                                                    *)
Reads(i) == {"rip"} \cup i.regs_read \cup ExplicitReads(i)
Writes(i) == i.regs_write \cup ExplicitW(i)

Flips(m) == m.gpregs.flips \cup m.xsave.flips

Execute(i) ==
  LET After(r) == [age |-> r.age + 1,
                   flips |-> {f \in r.flips : ~Covers(Writes(i), f)}]
  IN /\ machine' = [gpregs |-> After(machine.gpregs),
                    xsave |-> After(machine.xsave)]
     /\ executed' = executed + 1
     /\ seen' = (seen \/ \E f \in Flips(machine) : Covers(Reads(i), f))

-----------------------------------------------------------------------------
(* importRegistersTo(), setRegisterContents(), exportRegisters().          *)

(* zmm gets a copy of the vector registers of xsave. *)
Imported == [a \in BufferAreas |->
               IF a = "gpregs" THEN machine.gpregs ELSE machine.xsave]

Toggle(S, x) == IF x \in S THEN S \ {x} ELSE S \cup {x}

Flipped(b, n, bit) ==
  [b EXCEPT ![RegTable[n].area].flips = Toggle(@, <<RegTable[n].field, bit>>)]

(* A mutant of Changed: the registers read before the step are written. *)
ChangedStale == Flipped(buf, sel.Name, sel.bit)

(* The buffers once tryBitFlip() has read the registers and changed one. *)
Changed == Flipped(Imported, sel.Name, sel.bit)

(* gpregs and xsave are written back; zmm is not, as nothing calls         *)
(* VecRegsState::exportData().  The kernel leaves masked bits as they are, *)
(* and gives a component that is not in use its initial state.             *)
Unmasked(r) == [r EXCEPT !.flips = @ \ Masked]
Exported(b) ==
  [gpregs |-> Unmasked(b.gpregs),
   xsave |-> IF instr.inuse THEN Unmasked(b.xsave)
             ELSE [b.xsave EXCEPT !.flips = {}]]

-----------------------------------------------------------------------------
RegSet == [age : Nat, flips : SUBSET (STRING \X Nat)]

TypeOK ==
  /\ opt \in Settings /\ instr \in Instrs
  /\ pc \in {"start", "select", "step", "flip", "resumed", "ran",
             "failed", "exit1", "abort"}
  /\ sel \in [Name : Names \cup {Unset}, Written : BOOLEAN,
              bit : Nat \cup {NoBit}]
  /\ pc \in {"step", "flip", "resumed", "ran"} =>
       sel.Name \in Names /\ sel.bit \in BitsOf(sel.Name)
  /\ machine \in [gpregs : RegSet, xsave : RegSet]
  /\ buf \in [BufferAreas -> RegSet]
  /\ executed \in 0..1 /\ seen \in BOOLEAN

Pristine == [age |-> 0, flips |-> {}]

(* The manipulator is constructed when the thread is stopped at instr.     *)
Init ==
  /\ opt \in {o \in Settings : sanityChecks(o)}
  /\ instr \in Instrs
  /\ pc = "start"
  /\ sel = NoSel
  /\ machine = [gpregs |-> Pristine, xsave |-> Pristine]
  /\ buf = [a \in BufferAreas |-> Pristine]
  /\ executed = 0
  /\ seen = FALSE

(* getProgramCounter() reads the registers; code of a library is refused,  *)
(* and an address that no line of the maps has would be a die().           *)
ReadProgramCounter ==
  /\ pc = "start"
  /\ buf' = Imported
  /\ pc' = IF ~opt.DontInjectToLibs THEN "select"
           ELSE IF CouldNotFind(instr.at) THEN "abort"
           ELSE IF isInLibrary(instr.at) THEN "failed" ELSE "select"
  /\ UNCHANGED <<opt, instr, sel, machine, executed, seen>>

Ends(outcome) ==
  /\ pc' = outcome
  /\ UNCHANGED <<opt, instr, sel, machine, buf, executed, seen>>

(* die(): the bytes of the instruction cannot be peeked at, or it names a  *)
(* register that regs.def does not.                                        *)
SelectDies ==
  /\ pc = "select"
  /\ ~instr.readable \/ ~(LookedUp(opt, instr) \subseteq Names)
  /\ Ends("abort")

Peekable == pc = "select" /\ instr.readable

(* A mutant of SelectUnknown: die() in the place of userDie(). *)
SelectUnknownDies ==
  /\ Peekable
  /\ LookedUp(opt, instr) \subseteq Names
  /\ Forced(opt) /\ opt.ForceInjectToReg \notin Names
  /\ Ends("abort")

(* userDie(): the user names a register that regs.def does not.            *)
SelectUnknown ==
  /\ Peekable
  /\ LookedUp(opt, instr) \subseteq Names
  /\ Forced(opt) /\ opt.ForceInjectToReg \notin Names
  /\ Ends("exit1")

Selectable ==
  /\ Peekable
  /\ LookedUp(opt, instr) \subseteq Names
  /\ Forced(opt) => opt.ForceInjectToReg \in Names

SelectNone ==
  /\ Selectable
  /\ RegsVec(opt, instr) = {}
  /\ Ends("failed")

(* The forced bit is out of the range of the register that was drawn.      *)
SelectOutOfRange(d) ==
  /\ Selectable
  /\ d \in RegsVec(opt, instr)
  /\ opt.ForceInjectToBit # NoBit
  /\ ~MayPickBit(opt, d.Name, opt.ForceInjectToBit)
  /\ Ends("failed")

(* A mutant of Select: a written register is flipped before the step. *)
SelectNoStep(d, b) ==
  /\ Selectable
  /\ d \in RegsVec(opt, instr)
  /\ MayPickBit(opt, d.Name, b)
  /\ sel' = [Name |-> d.Name, Written |-> d.Written, bit |-> b]
  /\ pc' = "flip"
  /\ UNCHANGED <<opt, instr, machine, buf, executed, seen>>

Select(d, b) ==
  /\ Selectable
  /\ d \in RegsVec(opt, instr)
  /\ MayPickBit(opt, d.Name, b)
  /\ sel' = [Name |-> d.Name, Written |-> d.Written, bit |-> b]
  /\ pc' = IF d.Written THEN "step" ELSE "flip"
  /\ UNCHANGED <<opt, instr, machine, buf, executed, seen>>

(* PTRACE_SINGLESTEP ends in a SIGTRAP.                                    *)
StepTraps ==
  /\ pc = "step"
  /\ Execute(instr)
  /\ pc' = "flip"
  /\ UNCHANGED <<opt, instr, sel, buf>>

StepAlarm == pc = "step" /\ Ends("failed")

StepAsserts == pc = "step" /\ instr.ends /\ Ends("abort")

(* getRegPtr() of a register without storage. *)
FlipAsserts ==
  /\ pc = "flip"
  /\ RegTable[sel.Name].area = "nullptr"
  /\ Ends("abort")

(* tryBitFlip(), and the PTRACE_CONT that follows it.                      *)
TryBitFlip ==
  /\ pc = "flip"
  /\ RegTable[sel.Name].area # "nullptr"
  /\ buf' = Changed
  /\ machine' = Exported(buf')
  /\ pc' = "resumed"
  /\ UNCHANGED <<opt, instr, sel, executed, seen>>

(* PTRACE_SETREGS or PTRACE_SETREGSET refuses the value.                   *)
ExportFails ==
  /\ pc = "flip"
  /\ RegTable[sel.Name].area # "nullptr"
  /\ buf' = Changed
  /\ \/ UNCHANGED machine
     \/ machine' = [machine EXCEPT !.gpregs = Exported(buf').gpregs]
  /\ pc' = "failed"
  /\ UNCHANGED <<opt, instr, sel, executed, seen>>

(* The thread runs on: first the instruction it was stopped at, unless it  *)
(* has executed that one already.                                          *)
Resume ==
  /\ pc = "resumed"
  /\ IF executed = 0 THEN Execute(instr)
     ELSE UNCHANGED <<machine, executed, seen>>
  /\ pc' = "ran"
  /\ UNCHANGED <<opt, instr, sel, buf>>

Over == pc \in {"ran", "failed", "exit1", "abort"} /\ UNCHANGED vars

Next ==
  \/ ReadProgramCounter
  \/ SelectDies \/ SelectUnknown \/ SelectNone
  \/ \E d \in RegsVec(opt, instr) :
       \/ SelectOutOfRange(d)
       \/ /\ d.Name \in Names
          /\ \E b \in BitsOf(d.Name) \cup {opt.ForceInjectToBit} : Select(d, b)
  \/ StepTraps \/ StepAlarm \/ StepAsserts
  \/ FlipAsserts \/ TryBitFlip \/ ExportFails
  \/ Resume \/ Over

Spec == Init /\ [][Next]_vars

-----------------------------------------------------------------------------
(* Properties. *)

(* The registers the table in README.md promises for the characters of     *)
(* -inject-to.                                                             *)
Promised(o, i) ==
  When(o, "r", When(o, "e", ExplicitReads(i)) \cup When(o, "i", i.regs_read))
  \cup
  When(o, "w", When(o, "e", ExplicitW(i)) \cup When(o, "i", i.regs_write))
  \cup
  When(o, IF i.control THEN "c" ELSE "o", {"rip"})

(* What was picked is what the options ask for, or an operand of which     *)
(* capstone does not say how it is accessed, when any access will do.      *)
SelOK ==
  /\ IF Forced(opt) THEN sel.Name = opt.ForceInjectToReg
     ELSE \/ sel.Name \in Promised(opt, instr)
          \/ /\ sel.Name \in Unaccounted(instr)
             /\ {"r", "w", "e"} \subseteq opt.InjectTo
  /\ sel.bit \in BitsOf(sel.Name)
  /\ opt.ForceInjectToBit \in {NoBit, sel.bit}

(* The register that is flipped is the forced one, or one the instruction  *)
(* accesses in a way -inject-to asks for, or under reads and writes one    *)
(* whose access is not known; the bit is one of that register's own (ah    *)
(* and bh begin at bit 8 of their storage), and the forced one if there is *)
(* one.                                                                    *)
AsRequested == pc = "resumed" => SelOK

(* What -inject-to promises and the code does not collect: everything of   *)
(* an instruction that capstone does not know or that is longer than the 8 *)
(* bytes it is given; implicit registers when both reads and writes are    *)
(* asked for, which AllRegs leaves out; and operands that are read and     *)
(* written when only reads are asked for.                                  *)
LeftOut(o, i) ==
  IF ~Decoded(i) THEN Promised(o, i)
  ELSE (IF {"r", "w", "i"} \subseteq o.InjectTo
        THEN i.regs_read \cup i.regs_write ELSE {})
       \cup
       (IF "w" \notin o.InjectTo THEN ExplicitReads(i) \cap ExplicitW(i) ELSE {})

(* Every register that -inject-to promises of the current instruction may  *)
(* be drawn, those in LeftOut excepted: an instruction is only passed over *)
(* for want of a register when LeftOut has all that is promised.           *)
NothingLeftOut ==
  Selectable /\ ~Forced(opt) =>
    Promised(opt, instr) \ LeftOut(opt, instr)
      \subseteq {d.Name : d \in RegsVec(opt, instr)}

(* The flips that can reach the thread: exportRegisters() writes the       *)
(* register's buffer back, and the kernel takes the bit over.              *)
Reaches(n, b) ==
  /\ RegTable[n].area # "zmm"
  /\ RegTable[n].area = "xsave" => instr.inuse
  /\ <<RegTable[n].field, b>> \notin Masked

(* After tryBitFlip() has returned true, the thread's registers differ     *)
(* from a run without fault in the chosen bit if its flip can reach the    *)
(* thread, and never in anything else: a step between the first reading of *)
(* the registers and their writing back is not undone.                     *)
DiffersInOneBit ==
  pc = "resumed" =>
    /\ Flips(machine) \subseteq {<<RegTable[sel.Name].field, sel.bit>>}
    /\ Reaches(sel.Name, sel.bit) => Flips(machine) # {}
    /\ machine.gpregs.age = executed /\ machine.xsave.age = executed

(* "otherwise the bitflip will be overwritten by the output of the current *)
(* instruction": a fault that can reach the thread, in a register chosen   *)
(* through -inject-to whose access is known, is read by the current        *)
(* instruction, or is still there after it.                                *)
FaultReachesProgram ==
  /\ pc = "ran" /\ ~Forced(opt)
  /\ Reaches(sel.Name, sel.bit)
  /\ sel.Name \notin Unaccounted(instr)
  => seen \/ Flips(machine) # {}

(* With -no-inject-to-libs, what decides is the path of the mapping that   *)
(* has the address, though the mappings are searched by an order made for  *)
(* ranges and found by a query of no length: an instruction is never       *)
(* passed over for the path of a neighbour, and the search never comes up  *)
(* empty.  Two exceptions: the first address of a mapping is taken for the *)
(* last of the mapping directly below, and an anonymous mapping has the    *)
(* path read last before it.                                               *)
OwnPathDecides ==
  [][pc = "start" /\ opt.DontInjectToLibs =>
       /\ pc' \in {"failed", "select"}
       /\ \A k \in Home(instr.at) :
            ~AtSeam(instr.at) /\ instr.at.lines[k].path # "" =>
              (pc' = "failed" <=> instr.at.lines[k].path \in SoPaths)]_vars

(* How Runner sees all this: the class of registers the injection may      *)
(* meet, and the pc of the job's main thread.                              *)
RegsClass ==
  IF ~instr.readable \/ ~(LookedUp(opt, instr) \subseteq Names)
  THEN "unsupported"
  ELSE IF Forced(opt) /\ opt.ForceInjectToReg \notin Names THEN "unknown"
  ELSE IF \E d \in RegsVec(opt, instr) : RegTable[d.Name].area = "nullptr"
       THEN "unsupported"
  ELSE "known"

RunnerPhase ==
  CASE pc \in {"start", "select"} \/ (pc = "flip" /\ executed = 0) -> "flip"
    [] pc = "step" \/ (pc = "flip" /\ executed = 1) -> "stepwait"
    [] pc \in {"resumed", "ran"} -> "done"
    [] pc \in {"failed", "exit1", "abort"} -> pc

(* doBitFlip() has no other outcome than those Runner's actions allow it,  *)
(* each under the conditions Runner gives: a job only aborts in it over a  *)
(* register that is not supported or a system call, and only exits over a  *)
(* forced register that is not known.                                      *)
RunnersView == INSTANCE Injection WITH
  phase <- RunnerPhase, regs <- RegsClass, syscallStep <- instr.ends

KeepsRunnersView == RunnersView!Spec

-----------------------------------------------------------------------------
(* The inductive invariant behind TypeOK, AsRequested and DiffersInOneBit: *)
(* until the flip no register differs, the registers are as old as the     *)
(* instructions executed, and what is picked stays as requested.           *)
Inv ==
  /\ TypeOK
  /\ sanityChecks(opt)
  /\ machine.gpregs.age = executed /\ machine.xsave.age = executed
  /\ pc \in {"start", "select", "step"} => executed = 0
  /\ pc \in {"start", "select", "step", "flip"} => Flips(machine) = {}
  /\ pc \in {"step", "flip", "resumed"} => SelOK
  /\ DiffersInOneBit

(* Behind FaultReachesProgram: a register that is flipped without a step   *)
(* is one the current instruction reads.                                   *)
FaultInv ==
  /\ pc \in {"flip", "resumed"} /\ executed = 0 /\ ~Forced(opt) =>
       sel.Name \in Reads(instr) \cup Unaccounted(instr)
  /\ FaultReachesProgram

(* Behind KeepsRunnersView: what is picked was among what could be drawn.  *)
DrawnInv ==
  pc \in {"step", "flip"} => \E d \in RegsVec(opt, instr) : d.Name = sel.Name

-----------------------------------------------------------------------------
(* "Flip the \p Bit of \p Reg. \Returns true on success." (regManip.h):    *)
(* when tryBitFlip() has returned true, the thread has a flipped bit.      *)
SuccessMeansFlipped == pc = "resumed" => Flips(machine) # {}

(* "ZOFI supports disabling fault injection to .so libraries that are      *)
(* dynamically linked to the executable, with the -no-inject-to-libs       *)
(* flag." (README.md)                                                      *)
LibrariesSpared ==
  pc = "resumed" /\ opt.DontInjectToLibs => ~InLibrary(instr.at)
=============================================================================
