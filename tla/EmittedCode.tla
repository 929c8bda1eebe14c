----------------------------- MODULE EmittedCode -----------------------------
(***************************************************************************)
(* The instructions the thunk generators emit, as lists of moves, and what *)
(* running such a list does to the machine of one thread.                  *)
(*                                                                         *)
(* An operand is <<space, name, base>>: a space of the machine, a name in  *)
(* it, and the register the address is computed from.  An address through  *)
(* rsp is always right here (ThunkFrame checks the frames); through any    *)
(* other register it is right as long as that register holds the pointer.  *)
(***************************************************************************)
EXTENDS Machine, SequencesExt

CONSTANTS
  GpById, VecById,  \* the registers of each class by increasing id, without rsp
  Orders            \* in which order RegisterContextOffsets may be iterated

ASSUME RegisterOrderAssumption ==
  Range(GpById) \cup Range(VecById) = Registers \ {"rflags"}
ASSUME IterationAssumption ==
  \A order \in Orders : IsInjective(order) /\ Range(order) = Captured \ {"rflags"}

-----------------------------------------------------------------------------
(* Platform registers *)

GetPlatformNonVolatileGpRegs == SelectSeq(GpById, LAMBDA r : r \in Preserved)
GetPlatformNonVolatileVecRegs == SelectSeq(VecById, LAMBDA r : r \in Preserved)

ScratchIgnoringPreserved ==   \* mutant: the first register that passes no argument
  SelectSeq(GpById, LAMBDA r : r \notin Range(GpArgs) \cup {"rax"})[1]

\* The first register neither preserved nor passed; rax returns values.
GetPlatformGpScratchReg ==
  SelectSeq(GpById, LAMBDA r : r \notin Preserved \cup Range(GpArgs) \cup {"rax"})[1]
GetPlatformXmmScratchReg ==
  SelectSeq(VecById, LAMBDA r : r \notin Preserved \cup Range(VecArgs))[1]

GetArgumentIntegralRegisters(sig) == SelectSeq(GpById, LAMBDA r : r \in Arguments(sig))
GetArgumentFloatingRegisters(sig) == SelectSeq(VecById, LAMBDA r : r \in Arguments(sig))

-----------------------------------------------------------------------------
(* Instructions *)

Imm(value) == <<"imm", value, "rsp">>
Reg(r) == <<"cpu", r, "rsp">>
Out(slot) == <<"cpu", slot, "rsp">>       \* the thunk's own outgoing argument area
In(slot) == <<"in", slot, "rsp">>         \* the argument area of the thunk's caller
Cell(r) == <<"cell", r, "rsp">>           \* where the thunk's frame keeps register r

Move(to, from) == [to |-> to, from |-> from]
Through(scratch, to, from) == <<Move(Reg(scratch), from), Move(to, Reg(scratch))>>

Reaches(m, o) == o[3] = "rsp" \/ m.cpu[o[3]] = m.pointer
Loaded(m, o) ==
  IF o[1] = "imm" THEN o[2] ELSE IF Reaches(m, o) THEN m[o[1]][o[2]] ELSE Junk
Execute(m, i) ==
  IF Reaches(m, i.to) THEN [m EXCEPT ![i.to[1]][i.to[2]] = Loaded(m, i.from)] ELSE m
Run(m, code) ==
  LET after[n \in 0..Len(code)] == IF n = 0 THEN m ELSE Execute(after[n - 1], code[n])
  IN  after[Len(code)]

\* EmitManualThunkProlog and EmitManualThunkEpilog, for all nonvolatiles or none;
\* sub and add leave flags nobody asked for.
PrologCode(saving) ==
  LET saved == GetPlatformNonVolatileGpRegs \o GetPlatformNonVolatileVecRegs
  IN  (IF saving THEN [i \in DOMAIN saved |-> Move(Cell(saved[i]), Reg(saved[i]))] ELSE <<>>)
      \o <<Move(Reg("rflags"), Imm(Junk))>>
EpilogCode(saving) ==
  LET saved == GetPlatformNonVolatileGpRegs \o GetPlatformNonVolatileVecRegs
  IN  <<Move(Reg("rflags"), Imm(Junk))>>
      \o (IF saving THEN Reverse([i \in DOMAIN saved |-> Move(Reg(saved[i]), Cell(saved[i]))])
          ELSE <<>>)

SaveFlagsFirst(order, space) ==   \* mutant: the scratch register is used before it is captured
  LET to(r) == <<space, r, "rsp">>
  IN  Through(GetPlatformGpScratchReg, to("rflags"), Reg("rflags"))
      \o [i \in DOMAIN order |-> Move(to(order[i]), Reg(order[i]))]

\* SaveRegisterContext, into a space of the frame; pushfq and pop are one move.
SaveRegisterContextCode(order, space) ==
  LET to(r) == <<space, r, "rsp">>
  IN  [i \in DOMAIN order |-> Move(to(order[i]), Reg(order[i]))]
      \o Through(GetPlatformGpScratchReg, to("rflags"), Reg("rflags"))

\* What both restore thunks do with the captured registers: flags first, then every
\* register in hash order but the arguments and the one the context is read through.
RestoringCode(sig, order, space, base) ==
  LET from(r) == <<space, r, base>>
      restored == SelectSeq(order, LAMBDA r : r \notin Arguments(sig) \cup {base})
  IN  Through(GetPlatformGpScratchReg, Reg("rflags"), from("rflags"))
      \o [i \in DOMAIN restored |-> Move(Reg(restored[i]), from(restored[i]))]

\* What a callee, or the caller returned to, may look at; the rest is scratch.
Vouched(file, seen) ==
  [l \in Locations |-> IF l \in Preserved \cup seen THEN file[l] ELSE Junk]
=============================================================================
