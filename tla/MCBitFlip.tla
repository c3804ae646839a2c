----------------------------- MODULE MCBitFlip ------------------------------
(* Instances of BitFlip for TLC: a register of each kind of regs.def with  *)
(* its real width, an instruction of each kind that matters, and settings. *)
EXTENDS BitFlip

Reg(a, f, start, bits) ==
  [area |-> a, field |-> f, StartBit |-> start, Bits |-> bits]

(* Four names share rax; xmm0 is the low half of ymm0; riz and fpsw have   *)
(* no storage.  bnd0 is a register capstone knows and regs.def does not.   *)
MCRegTable ==
  [rax |-> Reg("gpregs", "rax", 0, 64), eax |-> Reg("gpregs", "rax", 0, 32),
   al |-> Reg("gpregs", "rax", 0, 8), ah |-> Reg("gpregs", "rax", 8, 8),
   rbx |-> Reg("gpregs", "rbx", 0, 64), rsp |-> Reg("gpregs", "rsp", 0, 64),
   rip |-> Reg("gpregs", "rip", 0, 64),
   rflags |-> Reg("gpregs", "eflags", 0, 64),
   st0 |-> Reg("xsave", "mm0", 0, 80), mm0 |-> Reg("xsave", "mm0", 0, 64),
   xmm0 |-> Reg("zmm", "zmm0", 0, 128), ymm0 |-> Reg("zmm", "zmm0", 0, 256),
   riz |-> Reg("nullptr", "none", 0, 64),
   fpsw |-> Reg("nullptr", "none", 0, 80)]

(* The flags outside the kernel's FLAG_MASK. *)
MCMasked == {<<"eflags", b>> :
               b \in (0..63) \ {0, 2, 4, 6, 7, 8, 10, 11, 14, 16, 18}}

RegOp(n, a) == [type |-> "REG", reg |-> n, access |-> a]
MemOp(ns) == [type |-> "MEM", regs |-> ns]

(* A program, its anonymous heap, two libraries, the first with anonymous  *)
(* data that touch it, the second touched by more code of the program; in  *)
(* the second map an anonymous mapping comes first.  The path of libc ends *)
(* in .so.6, which is no .so.                                              *)
Line(from, to, path) == [From |-> from, To |-> to, path |-> path]
Lines == <<Line(1, 4, "prog"), Line(4, 6, ""), Line(8, 10, "libm.so"),
           Line(10, 12, ""), Line(14, 16, "libc.so.6"), Line(16, 18, "libz.so"),
           Line(18, 20, "prog")>>
LinesAnonymous == <<Line(1, 2, "")>> \o SubSeq(Lines, 3, 7)
MCSoPaths == {"libm.so", "libz.so"}
MCLibPaths == {"libm.so", "libc.so.6", "libz.so"}

At(a) == [addr |-> a, lines |-> Lines, path0 |-> "garbage"]
Stops == {At(a) : a \in {1, 3, 4, 5, 8, 9, 10, 11, 14, 15, 16, 17, 18, 19}}
         \cup {[addr |-> a, lines |-> LinesAnonymous, path0 |-> p] :
                a \in {1, 8, 9}, p \in {"prog", "libz.so"}}

Instr(ops, rd, wr) ==
  [known |-> TRUE, bytes |-> 3, readable |-> TRUE, inuse |-> TRUE,
   control |-> FALSE, at |-> At(2), ends |-> FALSE,
   operands |-> ops, regs_read |-> rd, regs_write |-> wr]

AddRaxRbx == Instr({RegOp("rax", {"R", "W"}), RegOp("rbx", {"R"})}, {}, {"rflags"})
PadddXmm0 == Instr({RegOp("xmm0", {"R", "W"})}, {}, {})
MovqMm0 == Instr({RegOp("rax", {"W"}), RegOp("mm0", {"R"})}, {}, {})
Nop == Instr({}, {}, {})

MCInstrs == {
  AddRaxRbx, PadddXmm0,
  (* movq rax, mm0, with the x87 state in use and with it not in use *)
  MovqMm0, [MovqMm0 EXCEPT !.inuse = FALSE],
  (* add rax, rbx, so near the end of a mapping that not all of the 16 *)
  (* words from there on can be peeked at *)
  [AddRaxRbx EXCEPT !.readable = FALSE],
  (* movabs rax, imm64 *)
  [Instr({RegOp("rax", {"W"})}, {}, {}) EXCEPT !.bytes = 10],
  (* one whose operand capstone gives no access *)
  Instr({RegOp("rbx", {}), RegOp("rax", {"W"})}, {}, {"rbx"}),
  (* mov rax, [rax] *)
  Instr({RegOp("rax", {"W"}), MemOp({"rax"})}, {}, {}),
  (* mov eax, [rsp + riz] *)
  Instr({RegOp("eax", {"W"}), MemOp({"rsp", "riz"})}, {}, {}),
  (* push rbx *)
  Instr({RegOp("rbx", {"R"})}, {"rsp"}, {"rsp"}),
  (* jne *)
  [Instr({}, {"rflags"}, {}) EXCEPT !.control = TRUE],
  (* a system call that may end the process *)
  [Instr({}, {"rax"}, {"rbx"}) EXCEPT !.control = TRUE, !.ends = TRUE],
  (* fadd st0 *)
  Instr({RegOp("st0", {"R", "W"})}, {}, {"fpsw"}),
  (* bndmov bnd0 *)
  Instr({RegOp("bnd0", {"W"})}, {}, {}),
  (* undecodable *)
  [Nop EXCEPT !.known = FALSE],
  (* mov ah, al *)
  Instr({RegOp("ah", {"W"}), RegOp("al", {"R"})}, {}, {})}
  (* nop, anywhere *)
  \cup {[Nop EXCEPT !.at = s] : s \in Stops}

(* A vector instruction, for the flips of vector registers; an instruction *)
(* of libc, for those in libraries.                                        *)
VectorInstrs == {PadddXmm0}
LibraryInstrs == {[AddRaxRbx EXCEPT !.at = At(15)]}

Default == [InjectTo |-> {"r", "w", "e"}, InjectToSet |-> FALSE,
            ForceInjectToReg |-> Unset, ForceInjectToBit |-> NoBit,
            DontInjectToLibs |-> FALSE]

(* Every value of -inject-to; some forced bits, in and out of range; and   *)
(* forced registers, known and not.                                        *)
MCSettings ==
  {[Default EXCEPT !.InjectTo = t, !.InjectToSet = TRUE] :
     t \in SUBSET {"r", "w", "e", "i", "c", "o"}}
  \cup
  {[Default EXCEPT !.ForceInjectToReg = n, !.ForceInjectToBit = b] :
     n \in {"rax", "ah", "rflags", "xmm0", "riz", "r99"}, b \in {NoBit, 0, 12, 70}}
  \cup
  {[Default EXCEPT !.ForceInjectToBit = b, !.DontInjectToLibs = l] :
     b \in {NoBit, 12, 70}, l \in BOOLEAN}

(* No option given, and -no-inject-to-libs alone. *)
DefaultSettings == {Default}
LibrarySettings == {[Default EXCEPT !.DontInjectToLibs = TRUE]}
=============================================================================
