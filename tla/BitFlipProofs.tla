--------------------------- MODULE BitFlipProofs ----------------------------
(***************************************************************************)
(* Proofs about BitFlip for every table of registers, every set of         *)
(* instructions and every set of option settings.                          *)
(***************************************************************************)
EXTENDS BitFlip, AddressSpaceProofs, TLAPS

(* A described register has the name it was made from. *)
LEMMA DescribedNames ==
  ASSUME NEW S, NEW d \in Reading(S) \cup Writing(S)
  PROVE  d.Name \in S /\ d.Written \in BOOLEAN
<1>1. PICK n \in S, w \in BOOLEAN : d = RegDescr(n, w)
  BY DEF Reading, Writing
<1> QED
  BY <1>1 DEF RegDescr

(* A register that is only read is read. *)
LEMMA ExplicitRReads ==
  ASSUME NEW i PROVE ExplicitR(i) \subseteq ExplicitReads(i)
BY DEF ExplicitR, ExplicitReads

(* What -inject-to promises: the instruction pointer, and the registers    *)
(* read and written, each when its characters are there.                   *)
LEMMA PromisedParts ==
  ASSUME NEW o, NEW i
  PROVE  /\ InstructionPointer(o, i) \subseteq Promised(o, i)
         /\ "r" \in o.InjectTo =>
              /\ When(o, "i", i.regs_read) \subseteq Promised(o, i)
              /\ When(o, "e", ExplicitR(i)) \subseteq Promised(o, i)
         /\ "w" \in o.InjectTo =>
              /\ When(o, "i", i.regs_write) \subseteq Promised(o, i)
              /\ When(o, "e", ExplicitW(i)) \subseteq Promised(o, i)
<1>1. InstructionPointer(o, i) \subseteq Promised(o, i)
  BY DEF InstructionPointer, Promised, When
<1>2. ASSUME "r" \in o.InjectTo
      PROVE  /\ When(o, "i", i.regs_read) \subseteq Promised(o, i)
             /\ When(o, "e", ExplicitR(i)) \subseteq Promised(o, i)
  BY <1>2, ExplicitRReads DEF Promised, When
<1>3. ASSUME "w" \in o.InjectTo
      PROVE  /\ When(o, "i", i.regs_write) \subseteq Promised(o, i)
             /\ When(o, "e", ExplicitW(i)) \subseteq Promised(o, i)
  BY <1>3 DEF Promised, When
<1> QED
  BY <1>1, <1>2, <1>3

(* A register that may be drawn is promised or forced, or its access is    *)
(* not known.                                                              *)
LEMMA DrawnAsRequested ==
  ASSUME NEW o, NEW i, o.InjectTo \cap {"r", "w"} # {}, NEW d \in RegsVec(o, i)
  PROVE  /\ IF Forced(o) THEN d.Name = o.ForceInjectToReg
            ELSE \/ d.Name \in Promised(o, i)
                 \/ d.Name \in Unaccounted(i) /\ {"r", "w", "e"} \subseteq o.InjectTo
         /\ d.Written \in BOOLEAN
<1>1. CASE Forced(o)
  <2>1. d \in Reading({o.ForceInjectToReg}) \cup Writing({o.ForceInjectToReg})
    BY <1>1 DEF RegsVec
  <2> QED
    BY <1>1, <2>1, DescribedNames
<1>2. CASE ~Forced(o)
  <2>1. \/ d \in RRegs(o, i) /\ "r" \in o.InjectTo
        \/ d \in WRegs(o, i) /\ "w" \in o.InjectTo
        \/ d \in AllRegs(o, i) /\ {"r", "w"} \subseteq o.InjectTo
    BY <1>2 DEF RegsVec
  <2>2. ASSUME d \in RRegs(o, i), "r" \in o.InjectTo
        PROVE  d.Name \in Promised(o, i) /\ d.Written \in BOOLEAN
    <3> DEFINE S == InstructionPointer(o, i) \cup When(o, "i", i.regs_read)
                    \cup When(o, "e", ExplicitR(i))
    <3>1. d \in Reading(S) \cup Writing(S)
      BY <2>2 DEF RRegs
    <3> HIDE DEF S
    <3>2. d.Name \in S /\ d.Written \in BOOLEAN
      BY <3>1, DescribedNames
    <3> QED
      BY <2>2, <3>2, PromisedParts DEF S
  <2>3. ASSUME d \in WRegs(o, i), "w" \in o.InjectTo
        PROVE  d.Name \in Promised(o, i) /\ d.Written \in BOOLEAN
    <3> DEFINE S == InstructionPointer(o, i)
               T == When(o, "i", i.regs_write) \cup When(o, "e", ExplicitW(i))
    <3>1. d \in Reading(S) \cup Writing(S) \/ d \in Reading(T) \cup Writing(T)
      BY <2>3 DEF WRegs
    <3> HIDE DEF S, T
    <3>2. d.Name \in S \cup T /\ d.Written \in BOOLEAN
      BY <3>1, DescribedNames
    <3> QED
      BY <2>3, <3>2, PromisedParts DEF S, T
  <2>4. ASSUME d \in AllRegs(o, i), {"r", "w"} \subseteq o.InjectTo
        PROVE  /\ \/ d.Name \in Promised(o, i)
                  \/ d.Name \in Unaccounted(i) /\ {"r", "w", "e"} \subseteq o.InjectTo
               /\ d.Written \in BOOLEAN
    <3> DEFINE S == InstructionPointer(o, i)
                    \cup When(o, "e", ExplicitR(i) \cup Unaccounted(i))
               T == When(o, "e", ExplicitW(i))
    <3>1. d \in Reading(S) \cup Writing(S) \/ d \in Reading(T) \cup Writing(T)
      BY <2>4 DEF AllRegs
    <3> HIDE DEF S, T
    <3>2. d.Name \in S \cup T /\ d.Written \in BOOLEAN
      BY <3>1, DescribedNames
    <3>3. S \subseteq InstructionPointer(o, i) \cup When(o, "e", ExplicitR(i))
                      \cup When(o, "e", Unaccounted(i))
      BY DEF S, When
    <3>4. When(o, "e", Unaccounted(i)) # {} => "e" \in o.InjectTo
      BY DEF When
    <3>5. When(o, "e", Unaccounted(i)) \subseteq Unaccounted(i)
      BY DEF When
    <3> QED
      BY <2>4, <3>2, <3>3, <3>4, <3>5, PromisedParts DEF T
  <2> QED
    BY <1>2, <2>1, <2>2, <2>3, <2>4
<1> QED
  BY <1>1, <1>2

-----------------------------------------------------------------------------
(* The bits of a register are natural numbers. *)
LEMMA BitsAreNat ==
  ASSUME NEW n \in Names, NEW b \in BitsOf(n)
  PROVE  b \in Nat
BY RegTableAssumption DEF BitsOf, Register

(* An execution keeps a thread that has no flipped bit free of them, and   *)
(* its registers current.                                                  *)
LEMMA ExecuteFacts ==
  ASSUME machine \in [gpregs : RegSet, xsave : RegSet], executed \in Nat,
         machine.gpregs.age = executed, machine.xsave.age = executed,
         seen \in BOOLEAN, NEW i, Execute(i)
  PROVE  /\ machine' \in [gpregs : RegSet, xsave : RegSet]
         /\ machine'.gpregs.age = executed' /\ machine'.xsave.age = executed'
         /\ executed' = executed + 1 /\ seen' \in BOOLEAN
         /\ Flips(machine) = {} => Flips(machine') = {}
<1> DEFINE After(r) == [age |-> r.age + 1,
                        flips |-> {f \in r.flips : ~Covers(Writes(i), f)}]
<1>1. /\ machine' = [gpregs |-> After(machine.gpregs),
                     xsave |-> After(machine.xsave)]
      /\ executed' = executed + 1
      /\ seen' = (seen \/ \E f \in Flips(machine) : Covers(Reads(i), f))
  BY DEF Execute
<1>2. \A r \in RegSet : /\ After(r) \in RegSet
                        /\ After(r).age = r.age + 1
                        /\ After(r).flips \subseteq r.flips
  BY DEF RegSet
<1> HIDE DEF After
<1>3. machine.gpregs \in RegSet /\ machine.xsave \in RegSet
  OBVIOUS
<1>4. /\ machine'.gpregs = After(machine.gpregs)
      /\ machine'.xsave = After(machine.xsave)
  BY <1>1
<1>5. Flips(machine) = {} => Flips(machine') = {}
  BY <1>2, <1>3, <1>4 DEF Flips
<1>6. seen' \in BOOLEAN
  BY <1>1
<1> QED
  BY <1>1, <1>2, <1>3, <1>4, <1>5, <1>6

(* Flipping one bit of current registers without differences gives the     *)
(* thread at most that difference, and that one if it can reach it.        *)
LEMMA ChangedFacts ==
  ASSUME machine \in [gpregs : RegSet, xsave : RegSet],
         Flips(machine) = {}, sel.Name \in Names, sel.bit \in Nat,
         RegTable[sel.Name].area # "nullptr"
  PROVE  /\ Changed \in [BufferAreas -> RegSet]
         /\ Exported(Changed) \in [gpregs : RegSet, xsave : RegSet]
         /\ Exported(Changed).gpregs.age = machine.gpregs.age
         /\ Exported(Changed).xsave.age = machine.xsave.age
         /\ Flips(Exported(Changed))
              \subseteq {<<RegTable[sel.Name].field, sel.bit>>}
         /\ Reaches(sel.Name, sel.bit) => Flips(Exported(Changed)) # {}
<1> DEFINE area == RegTable[sel.Name].area
           x == <<RegTable[sel.Name].field, sel.bit>>
<1>1. area \in BufferAreas /\ x \in STRING \X Nat
  BY RegTableAssumption DEF Register
<1>2. Imported \in [BufferAreas -> RegSet]
  BY DEF Imported
<1>3. \A a \in BufferAreas : Imported[a].flips = {}
  BY DEF Imported, Flips
<1>4. Changed = [Imported EXCEPT ![area] = [@ EXCEPT !.flips = {x}]]
  BY <1>1, <1>2, <1>3 DEF Changed, Flipped, Toggle
<1>5. [Imported[area] EXCEPT !.flips = {x}] \in RegSet
  BY <1>1, <1>2 DEF RegSet
<1>6. Changed \in [BufferAreas -> RegSet]
  BY <1>2, <1>4, <1>5
<1>7. \A a \in BufferAreas :
        /\ Changed[a].age = Imported[a].age
        /\ Changed[a].flips = IF a = area THEN {x} ELSE {}
  BY <1>1, <1>2, <1>3, <1>4 DEF RegSet
<1>8. "gpregs" \in BufferAreas /\ "xsave" \in BufferAreas
  BY DEF BufferAreas
<1>9. \A r \in RegSet : /\ Unmasked(r) \in RegSet /\ Unmasked(r).age = r.age
                        /\ Unmasked(r).flips = r.flips \ Masked
  BY DEF Unmasked, RegSet
<1>10. \A r \in RegSet : /\ [r EXCEPT !.flips = {}] \in RegSet
                         /\ [r EXCEPT !.flips = {}].age = r.age
                         /\ [r EXCEPT !.flips = {}].flips = {}
  BY DEF RegSet
<1>11. Changed["gpregs"] \in RegSet /\ Changed["xsave"] \in RegSet
  BY <1>6, <1>8
<1>12. /\ Imported["gpregs"] = machine.gpregs
       /\ Imported["xsave"] = machine.xsave
  BY <1>8 DEF Imported
<1> DEFINE g == Exported(Changed).gpregs
           v == Exported(Changed).xsave
<1>13. /\ g = Unmasked(Changed["gpregs"])
       /\ v = IF instr.inuse THEN Unmasked(Changed["xsave"])
              ELSE [Changed["xsave"] EXCEPT !.flips = {}]
       /\ Exported(Changed) = [gpregs |-> g, xsave |-> v]
  BY DEF Exported
<1>14. /\ g \in RegSet /\ g.age = machine.gpregs.age
       /\ g.flips = Changed["gpregs"].flips \ Masked
  BY <1>7, <1>8, <1>9, <1>11, <1>12, <1>13
<1>15. /\ v \in RegSet /\ v.age = machine.xsave.age
       /\ v.flips = IF instr.inuse THEN Changed["xsave"].flips \ Masked ELSE {}
  <2>1. CASE instr.inuse
    BY <1>7, <1>8, <1>9, <1>11, <1>12, <1>13, <2>1
  <2>2. CASE ~instr.inuse
    BY <1>7, <1>8, <1>10, <1>11, <1>12, <1>13, <2>2
  <2> QED
    BY <2>1, <2>2
<1>16. Flips(Exported(Changed)) = g.flips \cup v.flips
  BY DEF Flips
<1> HIDE DEF g, v
<1>17. g.flips \cup v.flips \subseteq {x}
  BY <1>7, <1>8, <1>14, <1>15
<1>18. ASSUME Reaches(sel.Name, sel.bit) PROVE x \in g.flips \cup v.flips
  <2>1. x \notin Masked /\ area # "zmm" /\ (area = "xsave" => instr.inuse)
    BY <1>18 DEF Reaches
  <2>2. area = "gpregs" \/ area = "xsave"
    BY <1>1, <2>1 DEF BufferAreas
  <2> QED
    BY <1>7, <1>8, <1>14, <1>15, <2>1, <2>2
<1>19. Exported(Changed) \in [gpregs : RegSet, xsave : RegSet]
  BY <1>13, <1>14, <1>15
<1>20. Exported(Changed).gpregs = g /\ Exported(Changed).xsave = v
  BY <1>13
<1> QED
  BY <1>6, <1>14, <1>15, <1>16, <1>17, <1>18, <1>19, <1>20

-----------------------------------------------------------------------------
(* The invariant holds initially. *)
LEMMA InitInv == Init => Inv
<1> SUFFICES ASSUME Init PROVE Inv
  OBVIOUS
<1>1. Pristine \in RegSet
  BY DEF Pristine, RegSet
<1>2. buf \in [BufferAreas -> RegSet]
  BY <1>1 DEF Init
<1>3. machine \in [gpregs : RegSet, xsave : RegSet]
  BY <1>1 DEF Init
<1>4. /\ machine.gpregs.age = 0 /\ machine.xsave.age = 0
      /\ machine.gpregs.flips = {} /\ machine.xsave.flips = {}
  BY DEF Init, Pristine
<1>5. Flips(machine) = {}
  BY <1>4 DEF Flips
<1>6. sel \in [Name : Names \cup {Unset}, Written : BOOLEAN,
               bit : Nat \cup {NoBit}]
  BY DEF Init, NoSel
<1>7. /\ opt \in Settings /\ sanityChecks(opt) /\ instr \in Instrs
      /\ pc = "start" /\ executed = 0 /\ seen = FALSE
  BY DEF Init
<1>8. TypeOK
  <2>1. executed \in 0..1
    BY <1>7
  <2>2. seen \in BOOLEAN
    BY <1>7, Zenon
  <2>3. /\ pc \in {"start", "select", "step", "flip", "resumed", "ran",
                  "failed", "exit1", "abort"}
        /\ pc \notin {"step", "flip", "resumed", "ran"}
    BY <1>7
  <2> QED
    BY <1>2, <1>3, <1>6, <1>7, <2>1, <2>2, <2>3 DEF TypeOK
<1> QED
  BY <1>3, <1>4, <1>5, <1>7, <1>8 DEF Inv, DiffersInOneBit

(* A return, an exit or an abort leaves nothing to prove but the types. *)
LEMMA EndsInv ==
  ASSUME Inv, NEW outcome \in {"failed", "exit1", "abort"}, Ends(outcome)
  PROVE  Inv'
BY DEF Inv, TypeOK, Ends, DiffersInOneBit, SelOK, Flips

(* Picking a register and a bit picks what the options ask for. *)
LEMMA SelectInv ==
  ASSUME Inv, NEW d \in RegsVec(opt, instr), d.Name \in Names, NEW b,
         Select(d, b)
  PROVE  Inv'
<1>1. b \in BitsOf(d.Name) /\ opt.ForceInjectToBit \in {NoBit, b}
  BY DEF Select, MayPickBit
<1>2. b \in Nat
  BY <1>1, BitsAreNat
<1>3. /\ IF Forced(opt) THEN d.Name = opt.ForceInjectToReg
         ELSE \/ d.Name \in Promised(opt, instr)
              \/ /\ d.Name \in Unaccounted(instr)
                 /\ {"r", "w", "e"} \subseteq opt.InjectTo
      /\ d.Written \in BOOLEAN
  BY DrawnAsRequested DEF Inv, sanityChecks
<1>4. sel' = [Name |-> d.Name, Written |-> d.Written, bit |-> b]
      /\ pc' \in {"step", "flip"} /\ pc = "select"
      /\ UNCHANGED <<opt, instr, machine, buf, executed, seen>>
  BY DEF Select, Selectable, Peekable
<1>5. SelOK'
  BY <1>1, <1>3, <1>4 DEF SelOK
<1>6. TypeOK'
  BY <1>1, <1>2, <1>3, <1>4 DEF Inv, TypeOK
<1>7. executed' = 0 /\ Flips(machine') = {}
  BY <1>4 DEF Inv
<1> QED
  BY <1>4, <1>5, <1>6, <1>7 DEF Inv, DiffersInOneBit

(* Every step keeps the invariant. *)
LEMMA NextInv == Inv /\ [Next]_vars => Inv'
<1> SUFFICES ASSUME Inv, [Next]_vars PROVE Inv'
  OBVIOUS
<1>1. /\ machine \in [gpregs : RegSet, xsave : RegSet]
      /\ executed \in Nat /\ seen \in BOOLEAN
      /\ machine.gpregs.age = executed /\ machine.xsave.age = executed
  BY DEF Inv, TypeOK
<1>2. CASE UNCHANGED vars \/ Over
  BY <1>2 DEF Over, vars, Inv, TypeOK, sanityChecks, SelOK, DiffersInOneBit,
     Reaches, Flips
<1>3. CASE ReadProgramCounter
  <2>1. Imported \in [BufferAreas -> RegSet]
    BY <1>1 DEF Imported
  <2> QED
    BY <1>3, <2>1 DEF ReadProgramCounter, Inv, TypeOK, DiffersInOneBit
<1>4. CASE SelectDies \/ SelectUnknown \/ SelectNone \/ StepAlarm
           \/ StepAsserts \/ FlipAsserts
           \/ \E d \in RegsVec(opt, instr) : SelectOutOfRange(d)
  BY <1>4, EndsInv DEF SelectDies, SelectUnknown, SelectNone, StepAlarm,
     StepAsserts, FlipAsserts, SelectOutOfRange
<1>5. ASSUME NEW d \in RegsVec(opt, instr), d.Name \in Names,
             NEW b \in BitsOf(d.Name) \cup {opt.ForceInjectToBit}, Select(d, b)
      PROVE  Inv'
  BY <1>5, SelectInv
<1>6. CASE StepTraps
  <2>1. /\ pc = "step" /\ pc' = "flip" /\ Execute(instr)
        /\ UNCHANGED <<opt, instr, sel, buf>>
    BY <1>6 DEF StepTraps
  <2>2. /\ machine' \in [gpregs : RegSet, xsave : RegSet]
        /\ machine'.gpregs.age = executed' /\ machine'.xsave.age = executed'
        /\ executed' = executed + 1 /\ seen' \in BOOLEAN
        /\ Flips(machine) = {} => Flips(machine') = {}
    BY <1>1, <2>1, ExecuteFacts
  <2>3. SelOK'
    BY <2>1 DEF Inv, SelOK
  <2>4. TypeOK'
    BY <2>1, <2>2 DEF Inv, TypeOK
  <2> QED
    BY <2>1, <2>2, <2>3, <2>4 DEF Inv, DiffersInOneBit
<1>7. ASSUME pc = "flip", RegTable[sel.Name].area # "nullptr"
      PROVE  /\ sel.Name \in Names /\ sel.bit \in BitsOf(sel.Name)
             /\ Changed \in [BufferAreas -> RegSet]
             /\ Exported(Changed) \in [gpregs : RegSet, xsave : RegSet]
             /\ Exported(Changed).gpregs.age = executed
             /\ Exported(Changed).xsave.age = executed
             /\ Flips(Exported(Changed))
                  \subseteq {<<RegTable[sel.Name].field, sel.bit>>}
             /\ Reaches(sel.Name, sel.bit) => Flips(Exported(Changed)) # {}
  <2>1. /\ sel.Name \in Names /\ sel.bit \in BitsOf(sel.Name)
        /\ Flips(machine) = {}
    BY <1>7 DEF Inv, TypeOK
  <2>2. sel.bit \in Nat
    BY <2>1, BitsAreNat
  <2> QED
    BY <1>1, <1>7, <2>1, <2>2, ChangedFacts
<1>8. CASE TryBitFlip
  <2>1. /\ pc = "flip" /\ pc' = "resumed"
        /\ RegTable[sel.Name].area # "nullptr"
        /\ buf' = Changed /\ machine' = Exported(Changed)
        /\ UNCHANGED <<opt, instr, sel, executed, seen>>
    BY <1>8 DEF TryBitFlip
  <2>2. TypeOK'
    BY <1>7, <2>1 DEF Inv, TypeOK
  <2>3. SelOK'
    BY <2>1 DEF Inv, SelOK
  <2>4. Reaches(sel.Name, sel.bit)' <=> Reaches(sel.Name, sel.bit)
    BY <2>1 DEF Reaches
  <2>5. Flips(machine)' = Flips(Exported(Changed))
    BY <2>1 DEF Flips
  <2>6. DiffersInOneBit'
    BY <1>7, <2>1, <2>4, <2>5 DEF DiffersInOneBit
  <2> QED
    BY <1>7, <2>1, <2>2, <2>3, <2>6 DEF Inv
<1>9. CASE ExportFails
  <2>1. /\ pc = "flip" /\ pc' = "failed"
        /\ RegTable[sel.Name].area # "nullptr"
        /\ buf' = Changed
        /\ UNCHANGED <<opt, instr, sel, executed, seen>>
    BY <1>9 DEF ExportFails
  <2>2. machine' = machine
        \/ machine' = [machine EXCEPT !.gpregs = Exported(Changed).gpregs]
    BY <1>9, <2>1 DEF ExportFails, Exported
  <2>3. machine' \in [gpregs : RegSet, xsave : RegSet]
        /\ machine'.gpregs.age = executed /\ machine'.xsave.age = executed
    BY <1>1, <1>7, <2>1, <2>2
  <2>4. TypeOK'
    BY <1>7, <2>1, <2>3 DEF Inv, TypeOK
  <2> QED
    BY <2>1, <2>3, <2>4 DEF Inv, DiffersInOneBit
<1>10. CASE Resume
  <2>1. pc = "resumed" /\ pc' = "ran" /\ UNCHANGED <<opt, instr, sel, buf>>
    BY <1>10 DEF Resume
  <2>2. /\ machine' \in [gpregs : RegSet, xsave : RegSet]
        /\ machine'.gpregs.age = executed' /\ machine'.xsave.age = executed'
        /\ executed' \in 0..1 /\ seen' \in BOOLEAN
    <3>1. CASE executed = 0
      BY <1>1, <1>10, <3>1, ExecuteFacts DEF Resume
    <3>2. CASE executed # 0
      BY <1>1, <1>10, <3>2 DEF Resume, Inv, TypeOK
    <3> QED
      BY <3>1, <3>2
  <2> QED
    BY <2>1, <2>2 DEF Inv, TypeOK, DiffersInOneBit
<1> QED
  BY <1>2, <1>3, <1>4, <1>5, <1>6, <1>8, <1>9, <1>10 DEF Next

(* The invariant holds in every reachable state. *)
THEOREM Invariance == Spec => []Inv
BY InitInv, NextInv, PTL DEF Spec

(* The state of an injection keeps its types; in particular, the bit that  *)
(* is picked is a bit of the register that is picked, whatever the table,  *)
(* the instruction and the options.                                        *)
THEOREM TypeCorrect == Spec => []TypeOK
<1>1. Inv => TypeOK
  BY DEF Inv
<1> QED
  BY <1>1, Invariance, PTL

(* What is flipped is what -inject-to and the forced options ask for.      *)
THEOREM FlipsAsRequested == Spec => []AsRequested
<1>1. Inv => AsRequested
  BY DEF Inv, AsRequested
<1> QED
  BY <1>1, Invariance, PTL

(* A flip changes nothing of the thread but the chosen bit, and that bit   *)
(* unless it is of a register of zmm, of a component that is not in use,   *)
(* or one that the kernel masks.                                           *)
THEOREM FlipsOneBit == Spec => []DiffersInOneBit
<1>1. Inv => DiffersInOneBit
  BY DEF Inv
<1> QED
  BY <1>1, Invariance, PTL

(* With -no-inject-to-libs an instruction is passed over or not by the     *)
(* path of the mapping that has it, wherever the kernel has mapped what;   *)
(* the seams and the anonymous mappings are excepted.                      *)
THEOREM OwnPathJudged == Spec => OwnPathDecides
<1> DEFINE Decides ==
             /\ pc' \in {"failed", "select"}
             /\ \A k \in Home(instr.at) :
                  ~AtSeam(instr.at) /\ instr.at.lines[k].path # "" =>
                    (pc' = "failed" <=> instr.at.lines[k].path \in SoPaths)
<1>1. ASSUME Inv, [Next]_vars
      PROVE  [pc = "start" /\ opt.DontInjectToLibs => Decides]_vars
  <2> SUFFICES ASSUME pc = "start", opt.DontInjectToLibs, ~UNCHANGED vars
               PROVE  Decides
    OBVIOUS
  <2>1. ReadProgramCounter
    BY <1>1 DEF Next, SelectDies, SelectUnknown, SelectNone, SelectOutOfRange,
                Select, Selectable, Peekable, StepTraps, StepAlarm,
                StepAsserts, Ends, FlipAsserts, TryBitFlip, ExportFails,
                Resume, Over
  <2>2. Stop(instr.at)
    BY <1>1, InstrsAssumption DEF Inv, TypeOK, Described
  <2>3. /\ ~CouldNotFind(instr.at)
        /\ \A k \in Home(instr.at) :
             ~AtSeam(instr.at) /\ instr.at.lines[k].path # "" =>
               (isInLibrary(instr.at) <=> instr.at.lines[k].path \in SoPaths)
    BY <2>2, LibrarySearch
  <2>4. pc' = IF isInLibrary(instr.at) THEN "failed" ELSE "select"
    BY <2>1, <2>3 DEF ReadProgramCounter
  <2> QED
    BY <2>3, <2>4
<1> QED
  BY <1>1, Invariance, PTL DEF Spec, OwnPathDecides

(* A register that may be drawn and is not described as written is one the *)
(* instruction reads, or one whose access is not known.                    *)
LEMMA DrawnRead ==
  ASSUME NEW o, NEW i, ~Forced(o), NEW d \in RegsVec(o, i), ~d.Written
  PROVE  d.Name \in Reads(i) \cup Unaccounted(i)
<1>1. /\ InstructionPointer(o, i) \subseteq Reads(i)
      /\ When(o, "i", i.regs_read) \subseteq Reads(i)
      /\ When(o, "e", ExplicitR(i)) \subseteq Reads(i)
      /\ When(o, "e", ExplicitR(i) \cup Unaccounted(i))
           \subseteq Reads(i) \cup Unaccounted(i)
  BY ExplicitRReads DEF InstructionPointer, When, Reads
<1>2. ASSUME NEW S, d \in Writing(S) PROVE FALSE
  BY <1>2 DEF Writing, RegDescr
<1>3. ASSUME NEW S, d \in Reading(S) PROVE d.Name \in S
  BY <1>3, DescribedNames
<1>4. d \in RRegs(o, i) \cup WRegs(o, i) \cup AllRegs(o, i)
  BY DEF RegsVec
<1>5. \/ d \in Reading(InstructionPointer(o, i)
                        \cup When(o, "i", i.regs_read)
                        \cup When(o, "e", ExplicitR(i)))
      \/ d \in Reading(InstructionPointer(o, i))
      \/ d \in Reading(InstructionPointer(o, i)
                        \cup When(o, "e", ExplicitR(i) \cup Unaccounted(i)))
  BY <1>2, <1>4 DEF RRegs, WRegs, AllRegs
<1> QED
  BY <1>1, <1>3, <1>5

(* The instruction a thread goes on with reads a fault in one of its own   *)
(* operands.                                                               *)
LEMMA ReadFaultSeen ==
  ASSUME Inv, pc = "resumed", Reaches(sel.Name, sel.bit),
         sel.Name \in Reads(instr), Execute(instr)
  PROVE  seen'
<1> DEFINE f == <<RegTable[sel.Name].field, sel.bit>>
<1>1. f \in Flips(machine)
  BY DEF Inv, DiffersInOneBit
<1>2. sel.Name \in Names /\ sel.bit \in BitsOf(sel.Name)
  BY DEF Inv, TypeOK
<1>3. Covers(Reads(instr), f)
  BY <1>2 DEF Covers
<1> QED
  BY <1>1, <1>3 DEF Execute

LEMMA FaultNext == Inv /\ FaultInv /\ [Next]_vars => FaultInv'
<1> SUFFICES ASSUME Inv, FaultInv, [Next]_vars PROVE FaultInv'
  OBVIOUS
<1>1. CASE UNCHANGED vars \/ Over
  BY <1>1 DEF Over, vars, FaultInv, FaultReachesProgram, Reaches, Flips
<1>2. ASSUME NEW d \in RegsVec(opt, instr), NEW b, Select(d, b)
      PROVE  FaultInv'
  <2>1. ~Forced(opt) /\ ~d.Written =>
          d.Name \in Reads(instr) \cup Unaccounted(instr)
    BY DrawnRead
  <2>2. /\ opt' = opt /\ instr' = instr /\ sel'.Name = d.Name
        /\ pc' = IF d.Written THEN "step" ELSE "flip"
    BY <1>2 DEF Select
  <2>3. Forced(opt') <=> Forced(opt)
    BY <2>2 DEF Forced
  <2> QED
    BY <2>1, <2>2, <2>3 DEF FaultInv, FaultReachesProgram
<1>3. CASE StepTraps
  <2>1. executed' = 1 /\ pc' = "flip"
    BY <1>3 DEF StepTraps, Execute, Inv
  <2> QED
    BY <2>1 DEF FaultInv, FaultReachesProgram
<1>4. CASE TryBitFlip
  BY <1>4 DEF TryBitFlip, FaultInv, FaultReachesProgram, Forced
<1>5. CASE Resume
  <2>1. ASSUME ~Forced(opt), Reaches(sel.Name, sel.bit), executed = 0,
               sel.Name \notin Unaccounted(instr)
        PROVE  seen'
    BY <1>5, <2>1, ReadFaultSeen DEF Resume, FaultInv
  <2>2. ASSUME Reaches(sel.Name, sel.bit), executed # 0
        PROVE  Flips(machine') # {}
    BY <1>5, <2>2 DEF Resume, Inv, DiffersInOneBit
  <2>3. pc' = "ran" /\ opt' = opt /\ sel' = sel /\ instr' = instr
    BY <1>5 DEF Resume
  <2>4. Flips(machine)' = Flips(machine')
    BY DEF Flips
  <2>5. /\ Reaches(sel.Name, sel.bit)' <=> Reaches(sel.Name, sel.bit)
        /\ Unaccounted(instr)' = Unaccounted(instr)
        /\ Forced(opt)' <=> Forced(opt)
    BY <2>3 DEF Reaches, Unaccounted, RegOps, Forced
  <2> QED
    BY <2>1, <2>2, <2>3, <2>4, <2>5 DEF FaultInv, FaultReachesProgram
<1>6. ASSUME pc' \in {"select", "failed", "exit1", "abort"}
      PROVE  FaultInv'
  BY <1>6 DEF FaultInv, FaultReachesProgram
<1> QED
  BY <1>1, <1>2, <1>3, <1>4, <1>5, <1>6
     DEF Next, ReadProgramCounter, SelectDies, SelectUnknown, SelectNone,
         SelectOutOfRange, StepAlarm, StepAsserts, FlipAsserts, Ends,
         ExportFails

(* A fault that can reach the thread, in a register that was chosen        *)
(* through -inject-to and whose access is known, is read by the            *)
(* instruction the thread is stopped at, or survives it, whatever the      *)
(* table of registers and the instructions are.                            *)
THEOREM FaultReaches == Spec => []FaultReachesProgram
<1>1. Init => FaultInv
  BY DEF Init, FaultInv, FaultReachesProgram
<1>2. FaultInv => FaultReachesProgram
  BY DEF FaultInv
<1> QED
  BY <1>1, <1>2, FaultNext, Invariance, PTL DEF Spec

(* What is read explicitly is listed as read or as written.                *)
LEMMA ExplicitReadsListed ==
  ASSUME NEW i, Described(i)
  PROVE  ExplicitReads(i) \subseteq ExplicitR(i) \cup ExplicitW(i)
<1>1. ASSUME NEW op \in RegOps(i), "R" \in op.access
      PROVE  op.access = {"R"} \/ "W" \in op.access
  BY <1>1 DEF RegOps, Described
<1> QED
  BY <1>1 DEF ExplicitReads, ExplicitR, ExplicitW

(* A register described by any of the lists has its name among the drawn.  *)
LEMMA NamesOf ==
  ASSUME NEW S, NEW T, NEW D, D = Reading(S) \cup Writing(T)
  PROVE  {d.Name : d \in D} = S \cup T
<1>1. \A n, w : RegDescr(n, w).Name = n
  BY DEF RegDescr
<1> QED
  BY <1>1 DEF Reading, Writing

(* What -inject-to promises is listed, but for what is left out.           *)
LEMMA PromisedListed ==
  ASSUME NEW o, NEW i, Described(i), Decoded(i), ~Forced(o),
         o.InjectTo \cap {"r", "w"} # {}
  PROVE  Promised(o, i) \ LeftOut(o, i) \subseteq {d.Name : d \in RegsVec(o, i)}
<1> DEFINE ip == InstructionPointer(o, i)
<1>1. When(o, IF i.control THEN "c" ELSE "o", {"rip"}) \subseteq ip
  BY DEF When, InstructionPointer
<1>2. ExplicitReads(i) \subseteq ExplicitR(i) \cup ExplicitW(i)
  BY ExplicitReadsListed
<1>3. CASE {"r", "w"} \subseteq o.InjectTo
  <2>1. {d.Name : d \in RegsVec(o, i)}
          = (ip \cup When(o, "e", ExplicitR(i) \cup Unaccounted(i)))
            \cup When(o, "e", ExplicitW(i))
    <3>1. RegsVec(o, i) = AllRegs(o, i)
      BY <1>3 DEF RegsVec
    <3> QED
      BY <3>1, NamesOf DEF AllRegs
  <2>2. When(o, "i", i.regs_read \cup i.regs_write) \subseteq LeftOut(o, i)
    BY <1>3 DEF LeftOut, When
  <2>3. Promised(o, i)
          \subseteq ip \cup When(o, "i", i.regs_read \cup i.regs_write)
                   \cup When(o, "e", ExplicitReads(i) \cup ExplicitW(i))
    BY <1>1 DEF Promised, When
  <2>4. When(o, "e", ExplicitReads(i) \cup ExplicitW(i))
          \subseteq When(o, "e", ExplicitR(i) \cup Unaccounted(i))
                   \cup When(o, "e", ExplicitW(i))
    BY <1>2 DEF When
  <2> QED
    BY <2>1, <2>2, <2>3, <2>4
<1>4. CASE "r" \in o.InjectTo /\ "w" \notin o.InjectTo
  <2>1. {d.Name : d \in RegsVec(o, i)}
          = ip \cup When(o, "i", i.regs_read) \cup When(o, "e", ExplicitR(i))
    <3>1. RegsVec(o, i) = RRegs(o, i)
      BY <1>4 DEF RegsVec
    <3>2. RRegs(o, i) = Reading(ip \cup When(o, "i", i.regs_read)
                                   \cup When(o, "e", ExplicitR(i)))
                        \cup Writing({})
      BY DEF RRegs, Writing
    <3> HIDE DEF ip
    <3>3. {d.Name : d \in RRegs(o, i)}
            = (ip \cup When(o, "i", i.regs_read) \cup When(o, "e", ExplicitR(i)))
              \cup {}
      BY <3>2, NamesOf
    <3> QED
      BY <3>1, <3>3
  <2>2. ExplicitReads(i) \cap ExplicitW(i) \subseteq LeftOut(o, i)
    BY <1>4 DEF LeftOut
  <2>3. Promised(o, i) \subseteq ip \cup When(o, "i", i.regs_read)
                                \cup When(o, "e", ExplicitReads(i))
    BY <1>1, <1>4 DEF Promised, When
  <2>4. When(o, "e", ExplicitReads(i))
          \subseteq When(o, "e", ExplicitR(i))
                   \cup (ExplicitReads(i) \cap ExplicitW(i))
    BY <1>2 DEF When
  <2> QED
    BY <2>1, <2>2, <2>3, <2>4
<1>5. CASE "r" \notin o.InjectTo /\ "w" \in o.InjectTo
  <2>1. {d.Name : d \in RegsVec(o, i)}
          = ip \cup When(o, "i", i.regs_write) \cup When(o, "e", ExplicitW(i))
    <3>1. RegsVec(o, i) = WRegs(o, i)
      BY <1>5 DEF RegsVec
    <3>2. WRegs(o, i) = Reading(ip)
                        \cup Writing(When(o, "i", i.regs_write)
                                     \cup When(o, "e", ExplicitW(i)))
      BY DEF WRegs
    <3> HIDE DEF ip
    <3>3. {d.Name : d \in WRegs(o, i)}
            = ip \cup (When(o, "i", i.regs_write) \cup When(o, "e", ExplicitW(i)))
      BY <3>2, NamesOf
    <3> QED
      BY <3>1, <3>3
  <2>2. Promised(o, i) \subseteq ip \cup When(o, "i", i.regs_write)
                                \cup When(o, "e", ExplicitW(i))
    BY <1>1, <1>5 DEF Promised, When
  <2> QED
    BY <2>1, <2>2
<1> QED
  BY <1>3, <1>4, <1>5

(* Whenever a register is to be drawn, every register that -inject-to      *)
(* promises of the instruction is among the candidates, with the           *)
(* exceptions LeftOut names.                                               *)
THEOREM NoRegisterLeftOut == Spec => []NothingLeftOut
<1>1. Inv => NothingLeftOut
  <2> SUFFICES ASSUME Inv, Selectable, ~Forced(opt)
               PROVE  Promised(opt, instr) \ LeftOut(opt, instr)
                        \subseteq {d.Name : d \in RegsVec(opt, instr)}
    BY DEF NothingLeftOut
  <2>1. Described(instr)
    BY InstrsAssumption DEF Inv, TypeOK
  <2>2. opt.InjectTo \cap {"r", "w"} # {}
    BY DEF Inv, sanityChecks
  <2>3. CASE Decoded(instr)
    BY <2>1, <2>2, <2>3, PromisedListed
  <2>4. CASE ~Decoded(instr)
    BY <2>4 DEF LeftOut
  <2> QED
    BY <2>3, <2>4
<1> QED
  BY <1>1, Invariance, PTL

LEMMA DrawnNext == DrawnInv /\ [Next]_vars => DrawnInv'
<1> SUFFICES ASSUME DrawnInv, [Next]_vars PROVE DrawnInv'
  OBVIOUS
<1>1. CASE UNCHANGED vars \/ Over
  BY <1>1 DEF Over, vars, DrawnInv
<1>2. ASSUME NEW d \in RegsVec(opt, instr), NEW b, Select(d, b)
      PROVE  DrawnInv'
  BY <1>2 DEF Select, DrawnInv
<1>3. CASE StepTraps
  BY <1>3 DEF StepTraps, DrawnInv
<1>4. ASSUME pc' \notin {"step", "flip"} PROVE DrawnInv'
  BY <1>4 DEF DrawnInv
<1> QED
  BY <1>1, <1>2, <1>3, <1>4
     DEF Next, ReadProgramCounter, SelectDies, SelectUnknown, SelectNone,
         SelectOutOfRange, StepAlarm, StepAsserts, FlipAsserts, Ends,
         ExportFails, TryBitFlip, Resume

(* The class of registers stays what it is. *)
LEMMA ClassKept ==
  ASSUME opt' = opt, instr' = instr PROVE RegsClass' = RegsClass
BY DEF RegsClass

(* A register without storage was drawn because the class has one; a       *)
(* forced register that is not known is never drawn.                       *)
LEMMA ClassOfSelected ==
  ASSUME Inv, DrawnInv, pc \in {"step", "flip"}
  PROVE  /\ RegsClass # "unknown"
         /\ RegTable[sel.Name].area = "nullptr" => RegsClass = "unsupported"
<1>1. Forced(opt) => opt.ForceInjectToReg \in Names
  BY DEF Inv, TypeOK, SelOK
<1>2. \E d \in RegsVec(opt, instr) : d.Name = sel.Name
  BY DEF DrawnInv
<1> QED
  BY <1>1, <1>2 DEF RegsClass

LEMMA ViewStep ==
  Inv /\ DrawnInv /\ Inv' /\ [Next]_vars
    => [RunnersView!Next]_(RunnersView!vars)
<1> SUFFICES ASSUME Inv, DrawnInv, Inv', [Next]_vars
             PROVE  [RunnersView!Next]_(RunnersView!vars)
  OBVIOUS
<1> USE DEF RunnersView!Next, RunnersView!vars
<1>1. /\ pc \in {"start", "select", "step"} => executed = 0
      /\ executed \in 0..1
  BY DEF Inv, TypeOK
<1>2. opt' = opt /\ instr' = instr
  BY DEF Next, vars, Over, ReadProgramCounter, SelectDies, SelectUnknown,
         SelectNone, SelectOutOfRange, Select, StepTraps, StepAlarm,
         StepAsserts, FlipAsserts, Ends, ExportFails, TryBitFlip, Resume
<1>3. RegsClass' = RegsClass /\ instr'.ends = instr.ends
  BY <1>2, ClassKept
<1>4. CASE UNCHANGED vars \/ Over
  <2>1. RunnerPhase' = RunnerPhase
    BY <1>4 DEF RunnerPhase, Over, vars
  <2> QED
    BY <1>3, <2>1
<1>5. CASE ReadProgramCounter
  <2>1. ~CouldNotFind(instr.at)
    BY LibrarySearch, InstrsAssumption DEF Inv, TypeOK, Described
  <2>2. RunnerPhase = "flip" /\ RunnerPhase' \in {"flip", "failed"}
    BY <1>5, <2>1 DEF ReadProgramCounter, RunnerPhase
  <2> QED
    BY <1>3, <2>2 DEF RunnersView!FlipRefused, RunnersView!Goes
<1>6. CASE SelectDies
  <2>1. RunnerPhase = "flip" /\ RunnerPhase' = "abort"
    BY <1>6 DEF SelectDies, Ends, RunnerPhase
  <2>2. RegsClass = "unsupported"
    BY <1>6 DEF SelectDies, RegsClass
  <2> QED
    BY <1>3, <2>1, <2>2 DEF RunnersView!FlipUnsupported, RunnersView!Goes
<1>7. CASE SelectUnknown
  <2>1. RunnerPhase = "flip" /\ RunnerPhase' = "exit1"
    BY <1>7 DEF SelectUnknown, Peekable, Ends, RunnerPhase
  <2>2. RegsClass = "unknown"
    BY <1>7 DEF SelectUnknown, Peekable, RegsClass
  <2> QED
    BY <1>3, <2>1, <2>2 DEF RunnersView!FlipUnknown, RunnersView!Goes
<1>8. ASSUME pc = "select", pc' = "failed"
      PROVE  [RunnersView!Next]_(RunnersView!vars)
  <2>1. RunnerPhase = "flip" /\ RunnerPhase' = "failed"
    BY <1>8 DEF RunnerPhase
  <2> QED
    BY <1>3, <2>1 DEF RunnersView!FlipRefused, RunnersView!Goes
<1>9. ASSUME NEW d \in RegsVec(opt, instr), NEW b, Select(d, b)
      PROVE  [RunnersView!Next]_(RunnersView!vars)
  <2>1. RunnerPhase = "flip" /\ RunnerPhase' \in {"flip", "stepwait"}
    BY <1>1, <1>9 DEF Select, Selectable, Peekable, RunnerPhase
  <2>2. RegsClass # "unknown"
    BY <1>9 DEF Select, Selectable, Peekable, RegsClass
  <2> QED
    BY <1>3, <2>1, <2>2 DEF RunnersView!FlipWritten, RunnersView!Goes
<1>10. CASE StepTraps
  <2>1. executed' = 1
    BY <1>1, <1>10 DEF StepTraps, Execute
  <2>2. RunnerPhase = "stepwait" /\ RunnerPhase' = "stepwait"
    BY <1>10, <2>1 DEF StepTraps, RunnerPhase
  <2> QED
    BY <1>3, <2>2
<1>11. CASE StepAlarm
  <2>1. RunnerPhase = "stepwait" /\ RunnerPhase' = "failed"
    BY <1>11 DEF StepAlarm, Ends, RunnerPhase
  <2> QED
    BY <1>3, <2>1 DEF RunnersView!StepRefused, RunnersView!Goes
<1>12. CASE StepAsserts
  <2>1. RunnerPhase = "stepwait" /\ RunnerPhase' = "abort" /\ instr.ends
    BY <1>12 DEF StepAsserts, Ends, RunnerPhase
  <2> QED
    BY <1>3, <2>1 DEF RunnersView!StepAsserts, RunnersView!Goes
<1>13. CASE FlipAsserts
  <2>1. RunnerPhase \in {"flip", "stepwait"} /\ RunnerPhase' = "abort"
    BY <1>1, <1>13 DEF FlipAsserts, Ends, RunnerPhase
  <2>2. RegsClass = "unsupported"
    BY <1>13, ClassOfSelected DEF FlipAsserts
  <2> QED
    BY <1>3, <2>1, <2>2 DEF RunnersView!FlipUnsupported,
       RunnersView!StepAsserts, RunnersView!Goes
<1>14. CASE TryBitFlip
  <2>1. RunnerPhase \in {"flip", "stepwait"} /\ RunnerPhase' = "done"
    BY <1>1, <1>14 DEF TryBitFlip, RunnerPhase
  <2>2. RegsClass # "unknown"
    BY <1>14, ClassOfSelected DEF TryBitFlip
  <2> QED
    BY <1>3, <2>1, <2>2 DEF RunnersView!FlipRead, RunnersView!StepFlip,
       RunnersView!Goes
<1>15. CASE ExportFails
  <2>1. RunnerPhase \in {"flip", "stepwait"} /\ RunnerPhase' = "failed"
    BY <1>1, <1>15 DEF ExportFails, RunnerPhase
  <2> QED
    BY <1>3, <2>1 DEF RunnersView!FlipRefused, RunnersView!StepRefused,
       RunnersView!Goes
<1>16. CASE Resume
  <2>1. RunnerPhase = "done" /\ RunnerPhase' = "done"
    BY <1>16 DEF Resume, RunnerPhase
  <2> QED
    BY <1>3, <2>1
<1> QED
  BY <1>4, <1>5, <1>6, <1>7, <1>8, <1>9, <1>10, <1>11, <1>12, <1>13, <1>14,
     <1>15, <1>16
     DEF Next, SelectNone, SelectOutOfRange, Selectable, Peekable, Ends

(* doBitFlip() implements what Runner takes it to be, for every table of   *)
(* registers, instruction and setting: it aborts only over a register that *)
(* is not supported or a step that ends the process, and exits only over a *)
(* forced register that is not known.                                      *)
THEOREM RunnersViewKept == Spec => KeepsRunnersView
<1>1. Init => RunnersView!Init
  <2> SUFFICES ASSUME Init PROVE RunnersView!Init
    OBVIOUS
  <2>1. RunnerPhase = "flip"
    BY DEF Init, RunnerPhase
  <2>2. RegsClass \in {"known", "unsupported", "unknown"}
    BY DEF RegsClass
  <2>3. instr.ends \in BOOLEAN
    BY InstrsAssumption DEF Init, Described
  <2> QED
    BY <2>1, <2>2, <2>3 DEF RunnersView!Init
<1>2. Init => DrawnInv
  BY DEF Init, DrawnInv
<1>3. Spec => []DrawnInv
  BY <1>2, DrawnNext, PTL DEF Spec
<1> QED
  BY <1>1, <1>3, ViewStep, Invariance, PTL
     DEF Spec, KeepsRunnersView, RunnersView!Spec
=============================================================================
