----------------------------- MODULE ThunkFrame -----------------------------
(***************************************************************************)
(* The stack frame of one thunk on Windows, instruction by instruction:    *)
(* the prolog and epilog the library emits, the unwind codes it hands to   *)
(* the system, and what the system's unwinder makes of those codes when an *)
(* exception or a debugger finds the thread at any of the instructions.    *)
(*                                                                         *)
(* A register is <<class, id>>.  Memory is a function of the 8-byte cells  *)
(* written so far.  The instructions between prolog and epilog appear only *)
(* through what they do to the frame.                                      *)
(***************************************************************************)
EXTENDS Integers, SequencesExt

CONSTANTS
  ArgCounts,  \* numbers of arguments of the signatures thunks are generated for
  SavedGp,    \* nonvolatile general-purpose registers, by increasing id
  SavedVec    \* nonvolatile vector registers, by increasing id

MaxFuncArgs == 32  \* AsmJit's kMaxFuncArgs

ASSUME ArgCountAssumption == ArgCounts \subseteq 0..MaxFuncArgs
ASSUME SavedAssumption ==
  /\ SavedGp \in Seq({"gp"} \X (0..15)) /\ SavedVec \in Seq({"vec"} \X (0..15))
  /\ Len(SavedGp) <= 16 /\ Len(SavedVec) <= 16

VARIABLES
  plan,  \* the frame the generator asked for
  pc,    \* the next instruction
  cpu    \* rsp, the nonvolatile registers and the stack

vars == <<plan, pc, cpu>>

-----------------------------------------------------------------------------
(* Frame layouts *)

ShadowArgSpace(n) == 8 * Max({4, n})  \* FuncDetail::arg_stack_size
SizeOfXmm == 16
SizeOfRegisterContext == 15 * 8 + 16 * SizeOfXmm
ArgumentContextSize(n) == 24 + 8 * n

AlignUnadjusted(raw, push) == raw   \* mutant: no padding
AlignThunkStackAllocation(raw, push) ==
  raw + ((8 + 16 - ((push + raw) % 16)) % 16)

RoundUp16(x) == ((x + 15) \div 16) * 16

\* compiled: AsmJit's compiler lays the frame out and emits prolog and epilog.
\* flags: the body moves rflags through the stack.
Plan == [PushedGpRegs : Seq({"gp"} \X (0..15)), SavedVecRegs : Seq({"vec"} \X (0..15)),
         RawStackAllocation : Nat, SavedVecOffset : Nat,
         compiled : BOOLEAN, flags : BOOLEAN]

Unsaved(raw, flags) ==
  [PushedGpRegs |-> <<>>, SavedVecRegs |-> <<>>, RawStackAllocation |-> raw,
   SavedVecOffset |-> 0, compiled |-> FALSE, flags |-> flags]
SavingAll(offset) ==
  [PushedGpRegs |-> SavedGp, SavedVecRegs |-> SavedVec,
   RawStackAllocation |-> offset + SizeOfXmm * Len(SavedVec),
   SavedVecOffset |-> offset, compiled |-> FALSE, flags |-> TRUE]

\* GenerateShiftWithRegisterContext, for n shifted arguments
RegisterBindingPlan(n) == Unsaved(ShadowArgSpace(n) + SizeOfRegisterContext, TRUE)
\* GenerateBindingThunkForArgumentContext
ArgumentBindingPlan(n, capture) ==
  Unsaved(ShadowArgSpace(2) + ArgumentContextSize(n) +
          IF capture THEN SizeOfRegisterContext ELSE 0, capture)
\* GenerateRestoreThunkForRegisterContext, vecs of the register arguments floating
RegisterRestorePlan(n, vecs) ==
  SavingAll(RoundUp16(ShadowArgSpace(n) + 8 * (Min({4, n}) - vecs) + SizeOfXmm * vecs))
\* GenerateRestoreThunkForArgumentContext
ArgumentRestorePlan(n, bSafe) ==
  IF bSafe THEN SavingAll(RoundUp16(ShadowArgSpace(n) + 8))
  ELSE Unsaved(ShadowArgSpace(n) + 8, FALSE)
\* A FuncFrame of GenerateComplexShift that keeps some values in nonvolatiles.
CompiledPlan(n, gps, vecs) ==
  [PushedGpRegs |-> SubSeq(SavedGp, 1, gps), SavedVecRegs |-> SubSeq(SavedVec, 1, vecs),
   RawStackAllocation |-> RoundUp16(ShadowArgSpace(n)) + SizeOfXmm * vecs,
   SavedVecOffset |-> RoundUp16(ShadowArgSpace(n)), compiled |-> TRUE, flags |-> FALSE]

PlansFor(n) ==
  {RegisterBindingPlan(m) : m \in {n + 1} \cap 1..MaxFuncArgs}
    \cup {ArgumentBindingPlan(n, capture) : capture \in BOOLEAN}
    \cup {RegisterRestorePlan(n, vecs) : vecs \in 0..Min({4, n})}
    \cup {ArgumentRestorePlan(n, bSafe) : bSafe \in BOOLEAN}
    \cup {CompiledPlan(n, gps, vecs) : gps \in 0..Len(SavedGp), vecs \in 0..Len(SavedVec)}
Plans == UNION {PlansFor(n) : n \in ArgCounts}

PushBytes(p) == 8 * Len(p.PushedGpRegs)
StackAllocation(p) == AlignThunkStackAllocation(p.RawStackAllocation, PushBytes(p))
EntryRspOffset(p) == StackAllocation(p) + PushBytes(p) + 8
VecOffset(p, i) == p.SavedVecOffset + SizeOfXmm * (i - 1)

\* The bytes above rsp that belong to the body and to the functions it calls.
LocalSpace(p) ==
  IF p.SavedVecRegs = <<>> THEN p.RawStackAllocation ELSE p.SavedVecOffset

-----------------------------------------------------------------------------
(* Instructions *)

Instruction(op, reg, imm) == [op |-> op, reg |-> reg, imm |-> imm]
NoReg == <<"none", 0>>

Prolog(p) ==
  [i \in DOMAIN p.PushedGpRegs |-> Instruction("push", p.PushedGpRegs[i], 0)]
  \o (IF StackAllocation(p) = 0 THEN <<>>
      ELSE <<Instruction("sub", NoReg, StackAllocation(p))>>)
  \o [i \in DOMAIN p.SavedVecRegs |-> Instruction("save", p.SavedVecRegs[i], VecOffset(p, i))]

Body(p) ==
  (IF p.flags THEN <<Instruction("pushf", NoReg, 0), Instruction("popf", NoReg, 0)>> ELSE <<>>)
  \o <<Instruction("work", NoReg, LocalSpace(p)), Instruction("call", NoReg, 0)>>
  \o Reverse([i \in DOMAIN p.SavedVecRegs |->
                Instruction("load", p.SavedVecRegs[i], VecOffset(p, i))])

EpilogPopsForward(p) ==   \* mutant: registers are popped in the order of the pushes
  (IF StackAllocation(p) = 0 THEN <<>>
   ELSE <<Instruction("add", NoReg, StackAllocation(p))>>)
  \o [i \in DOMAIN p.PushedGpRegs |-> Instruction("pop", p.PushedGpRegs[i], 0)]
  \o <<Instruction("ret", NoReg, 0)>>

EpilogAddsAll(p) ==   \* mutant: the push bytes are released twice
  <<Instruction("add", NoReg, EntryRspOffset(p))>>
  \o Reverse([i \in DOMAIN p.PushedGpRegs |-> Instruction("pop", p.PushedGpRegs[i], 0)])
  \o <<Instruction("ret", NoReg, 0)>>

Epilog(p) ==
  (IF StackAllocation(p) = 0 THEN <<>>
   ELSE <<Instruction("add", NoReg, StackAllocation(p))>>)
  \o Reverse([i \in DOMAIN p.PushedGpRegs |-> Instruction("pop", p.PushedGpRegs[i], 0)])
  \o <<Instruction("ret", NoReg, 0)>>

Code(p) == Prolog(p) \o Body(p) \o Epilog(p)
EpilogStart(p) == Len(Prolog(p)) + Len(Body(p)) + 1

\* The bytes the assembler emits; only those of the prolog matter.
EncodedSize(p, i) ==
  LET rex == IF i.reg[2] >= 8 THEN 1 ELSE 0
      disp == IF i.imm = 0 THEN 0 ELSE IF i.imm < 128 THEN 1 ELSE 4
  IN  CASE i.op = "push" -> 1 + rex
        [] i.op = "sub" -> IF i.imm < 128 THEN 4 ELSE 7
        [] i.op = "save" -> (IF p.compiled THEN 4 ELSE 5) + rex + disp
        [] OTHER -> 1

\* What the first n of some sizes add up to.
Total(size, n) ==
  LET total[k \in 0..n] == IF k = 0 THEN 0 ELSE total[k - 1] + size[k]
  IN  total[n]
CodeOffset(p, n) ==
  LET code == Code(p) IN Total([k \in 1..n |-> EncodedSize(p, code[k])], n)

-----------------------------------------------------------------------------
(* Unwind codes *)

UWOP_PUSH_NONVOL == 0
UWOP_ALLOC_LARGE == 1
UWOP_ALLOC_SMALL == 2
UWOP_SAVE_XMM128 == 8

\* What BuildWindowsUnwindInfoForFuncFrame takes an instruction's size to be.
GpPushInstructionSize(id) == IF id < 8 THEN 1 ELSE 2
SubRspInstructionSize(allocation) == IF allocation <= 127 THEN 4 ELSE 7
VecStoreInstructionSize(id, offset) ==
  (IF id >= 8 THEN 1 ELSE 0) + 2 +
  (IF offset = 0 THEN 2 ELSE IF offset <= 127 THEN 3 ELSE 6)
PredictedSize(i) ==
  CASE i.op = "push" -> GpPushInstructionSize(i.reg[2])
    [] i.op = "sub" -> SubRspInstructionSize(i.imm)
    [] i.op = "save" -> VecStoreInstructionSize(i.reg[2], i.imm)

\* The manual prolog asks the assembler for its offset, the other adds up sizes.
PrologOffset(p, n) ==
  IF p.compiled
  THEN LET prolog == Prolog(p) IN Total([k \in 1..n |-> PredictedSize(prolog[k])], n)
  ELSE CodeOffset(p, n)

\* One code as stored: offset in a byte, operation info in four bits, an operand
\* in an extra slot of 16 bits.  Larger operands do not occur in these frames.
Slot(offset, op, info, extra) ==
  [offset |-> offset % 256, op |-> op, info |-> info % 16, extra |-> extra % 65536]

UnwindCodeSmallTooFar(i, offset) ==   \* mutant: 136 bytes pass for a small allocation
  CASE i.op = "push" -> Slot(offset, UWOP_PUSH_NONVOL, i.reg[2], 0)
    [] i.op = "sub" -> IF i.imm <= 136
                       THEN Slot(offset, UWOP_ALLOC_SMALL, (i.imm - 8) \div 8, 0)
                       ELSE Slot(offset, UWOP_ALLOC_LARGE, 0, i.imm \div 8)
    [] i.op = "save" -> Slot(offset, UWOP_SAVE_XMM128, i.reg[2], i.imm \div 16)

UnwindCode(i, offset) ==
  CASE i.op = "push" -> Slot(offset, UWOP_PUSH_NONVOL, i.reg[2], 0)
    [] i.op = "sub" -> IF i.imm <= 128
                       THEN Slot(offset, UWOP_ALLOC_SMALL, (i.imm - 8) \div 8, 0)
                       ELSE Slot(offset, UWOP_ALLOC_LARGE, 0, i.imm \div 8)
    [] i.op = "save" -> Slot(offset, UWOP_SAVE_XMM128, i.reg[2], i.imm \div 16)

\* The codes of the UNWIND_INFO: those of the last instruction come first.
WindowsUnwindInfo(p) ==
  LET prolog == Prolog(p)
  IN  Reverse([n \in DOMAIN prolog |-> UnwindCode(prolog[n], PrologOffset(p, n))])

-----------------------------------------------------------------------------
(* The processor *)

EntryRsp == 160008                    \* any address that is 8 modulo 16
Caller(reg) == <<"caller", reg>>
Junk == <<"junk", NoReg>>
ReturnAddress == <<"return", NoReg>>
Nonvolatile == ToSet(SavedGp) \cup ToSet(SavedVec)

Write(c, cells, value) ==
  [a \in DOMAIN c.mem \cup cells |-> IF a \in cells THEN value ELSE c.mem[a]]
Read(c, a) == IF a \in DOMAIN c.mem THEN c.mem[a] ELSE Junk
\* A 16-byte value is whole only if both its cells are.
ReadXmm(c, a) == IF Read(c, a) = Read(c, a + 8) THEN Read(c, a) ELSE Junk

Push(c, value) == [c EXCEPT !.rsp = @ - 8, !.mem = Write(c, {c.rsp - 8}, value)]

Execute(p, i, c) ==
  CASE i.op = "push" -> Push(c, c.reg[i.reg])
    [] i.op = "pushf" -> Push(c, Junk)
    [] i.op = "sub" -> [c EXCEPT !.rsp = @ - i.imm]
    [] i.op = "add" -> [c EXCEPT !.rsp = @ + i.imm]
    [] i.op = "pop" -> [c EXCEPT !.rsp = @ + 8, !.reg[i.reg] = Read(c, c.rsp)]
    [] i.op \in {"popf", "ret"} -> [c EXCEPT !.rsp = @ + 8]
    [] i.op = "save" -> [c EXCEPT !.mem = Write(c, {c.rsp + i.imm, c.rsp + i.imm + 8}, c.reg[i.reg])]
    [] i.op = "load" -> [c EXCEPT !.reg[i.reg] = ReadXmm(c, c.rsp + i.imm)]
    [] i.op = "work" ->  \* the body uses what it saved, and its local space
         [c EXCEPT !.mem = Write(c, {c.rsp + 8 * k : k \in 0..((i.imm - 1) \div 8)}, Junk),
                   !.reg = [r \in Nonvolatile |->
                              IF r \in ToSet(p.PushedGpRegs \o p.SavedVecRegs) THEN Junk ELSE @[r]]]
    [] i.op = "call" ->  \* the callee may use the shadow space and what lies below rsp
         [c EXCEPT !.mem = Write(c, {c.rsp - 8} \cup {c.rsp + 8 * k : k \in 0..3}, Junk)]

-----------------------------------------------------------------------------
(* The system's unwinder, as its documentation describes the codes *)

Undo(c, code) ==
  CASE code.op = UWOP_PUSH_NONVOL ->
         [c EXCEPT !.rsp = @ + 8, !.reg[<<"gp", code.info>>] = Read(c, c.rsp)]
    [] code.op = UWOP_ALLOC_SMALL -> [c EXCEPT !.rsp = @ + code.info * 8 + 8]
    [] code.op = UWOP_ALLOC_LARGE -> [c EXCEPT !.rsp = @ + code.extra * 8]
    [] code.op = UWOP_SAVE_XMM128 ->
         [c EXCEPT !.reg[<<"vec", code.info>>] = ReadXmm(c, c.rsp + code.extra * 16)]

\* An epilog is recognised and run to its end; anywhere else the codes whose
\* instruction lies behind are undone.
Unwind(p, n, c) ==
  IF n >= EpilogStart(p)
  THEN LET code == Code(p)
           left == Len(code) - n   \* all but the return
           run[k \in 0..left] == IF k = 0 THEN c ELSE Execute(p, code[n + k - 1], run[k - 1])
       IN  run[left]
  ELSE LET info == WindowsUnwindInfo(p)
           behind == CodeOffset(p, n - 1)
           undone[k \in 0..Len(info)] ==
             IF k = 0 THEN c
             ELSE IF info[k].offset <= behind THEN Undo(undone[k - 1], info[k])
             ELSE undone[k - 1]
       IN  undone[Len(info)]

-----------------------------------------------------------------------------
Init ==
  /\ plan \in Plans
  /\ pc = 1
  /\ cpu = [rsp |-> EntryRsp, reg |-> [r \in Nonvolatile |-> Caller(r)],
            mem |-> [a \in {EntryRsp} |-> ReturnAddress]]

Step ==
  /\ pc <= Len(Code(plan))
  /\ cpu' = Execute(plan, Code(plan)[pc], cpu)
  /\ pc' = pc + 1
  /\ UNCHANGED plan

Next == Step
Spec == Init /\ [][Next]_vars

-----------------------------------------------------------------------------
TypeOK ==
  /\ plan \in Plan
  /\ pc \in 1..(Len(Code(plan)) + 1)
  /\ cpu.rsp \in (EntryRsp - EntryRspOffset(plan))..(EntryRsp + 8) /\ cpu.rsp % 8 = 0
  /\ DOMAIN cpu.reg = Nonvolatile

About(op) == pc <= Len(Code(plan)) /\ Code(plan)[pc].op = op

\* Every call leaves the thunk with rsp on a 16-byte boundary, and what the thunk
\* takes for the caller's argument area begins right above the return address.
CallsAreAligned ==
  About("call") => cpu.rsp % 16 = 0 /\ cpu.rsp + EntryRspOffset(plan) = EntryRsp + 8

\* The thunk returns to its caller with rsp and every nonvolatile register as it
\* found them, although its body overwrites the registers and all its local space.
ReturnsToCaller ==
  pc = Len(Code(plan)) + 1 =>
    /\ cpu.rsp = EntryRsp + 8
    /\ cpu.reg = [r \in Nonvolatile |-> Caller(r)]
    /\ Read(cpu, EntryRsp) = ReturnAddress

\* At every instruction but the one between pushing and popping the flags, the
\* unwinder finds the caller's frame, registers and return address.
UnwindsTo(c) ==
  /\ c.rsp = EntryRsp
  /\ c.reg = [r \in Nonvolatile |-> Caller(r)]
  /\ Read(c, c.rsp) = ReturnAddress
Unwinds ==
  pc <= Len(Code(plan)) /\ ~About("popf") => UnwindsTo(Unwind(plan, pc, cpu))

\* README, "Unwind data is generated according to Microsoft's documentation", and
\* debuggers rely on it: the same at every instruction.
UnwindsEverywhere == pc <= Len(Code(plan)) => UnwindsTo(Unwind(plan, pc, cpu))
=============================================================================
