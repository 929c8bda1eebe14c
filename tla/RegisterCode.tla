----------------------------- MODULE RegisterCode -----------------------------
(***************************************************************************)
(* RegisterThunks with the thunks' steps replaced by the instructions the  *)
(* generators emit, list by list between the calls they make, in whatever  *)
(* order the process iterates RegisterContextOffsets.                      *)
(***************************************************************************)
EXTENDS RegisterThunks, EmittedCode

\* The machine of a thread inside the thunk that serves frame f: ctx is the context
\* that pointer leads to.
MachineOf(f, file, cells, pointer, ctx) ==
  [cpu |-> file, in |-> f.entry, cell |-> cells, pointer |-> pointer, ctx |-> ctx]
NoPointer == <<"context", 0, "rax">>
Pointer(p) == <<"context", p, "rax">>

-----------------------------------------------------------------------------
(* GenerateShiftWithRegisterContext *)

ShiftMoveLive(sig, i) ==   \* mutant: register arguments are read in the registers
  LET dest == ShiftSignature(sig)
      source == Argument(sig, i)
      target == Argument(dest, i + 1)
      scratch == IF sig[i] = "Integral" THEN GetPlatformGpScratchReg ELSE GetPlatformXmmScratchReg
  IN  IF IsReg(sig, i) THEN Through(scratch, Reg(target), Reg(source))
      ELSE Through(GetPlatformGpScratchReg, Out(target), In(source))

ShiftMove(sig, i) ==
  LET dest == ShiftSignature(sig)
      source == Argument(sig, i)
      target == Argument(dest, i + 1)
      scratch == IF sig[i] = "Integral" THEN GetPlatformGpScratchReg ELSE GetPlatformXmmScratchReg
  IN  CASE IsStack(dest, i + 1) /\ IsStack(sig, i) ->
             Through(GetPlatformGpScratchReg, Out(target), In(source))
        [] IsStack(dest, i + 1) /\ IsReg(sig, i) -> Through(scratch, Out(target), Cell(source))
        [] IsReg(dest, i + 1) /\ IsReg(sig, i) -> <<Move(Reg(target), Cell(source))>>
        [] OTHER -> <<>>

ShiftCode(sig) ==
  FlattenSeq(Reverse([i \in DOMAIN sig |-> ShiftMove(sig, i)]))
  \o <<Move(Reg(Argument(ShiftSignature(sig), 1)), Imm(BindParam))>>

BindEnterCode(t, order) ==
  LET f == Current(t)
      captured == Run(MachineOf(f, cpu[t], NoMemory, NoPointer, NoMemory),
                      PrologCode(FALSE) \o SaveRegisterContextCode(order, "cell"))
      pushed == [captured EXCEPT !.cpu = AfterCall(@)]
      shifted == Run(pushed, ShiftCode(f.sig))
      file == Vouched(shifted.cpu, Arguments(ShiftSignature(f.sig)))
  IN  /\ At(t, "bind", "entry")
      /\ Stack!Push(t, Len(frames[t]))
      /\ IF Stack!Full(t) THEN UNCHANGED <<frames, cpu>>
         ELSE /\ frames' = [frames EXCEPT ![t] =
                   Calling(t, [f EXCEPT !.pc = "call", !.saved = shifted.cell], file)]
              /\ cpu' = [cpu EXCEPT ![t] = file]
      /\ UNCHANGED calls

ReturnCode(ret, storing) ==
  LET registers == SetToSeq(ReturnRegisters(ret))
  IN  [i \in DOMAIN registers |->
         IF storing THEN Move(Cell(registers[i]), Reg(registers[i]))
         ELSE Move(Reg(registers[i]), Cell(registers[i]))]

BindLeaveCode(t) ==
  LET f == Current(t)
      stored == Run(MachineOf(f, cpu[t], f.saved, NoPointer, NoMemory), ReturnCode(f.ret, TRUE))
      popped == [stored EXCEPT !.cpu = AfterCall(@)]
      left == Run(popped, ReturnCode(f.ret, FALSE) \o EpilogCode(FALSE))
  IN  /\ At(t, "bind", "call")
      /\ Stack!Pop(t)
      /\ IF Stack!Empty(t) THEN UNCHANGED <<frames, cpu>>
         ELSE /\ frames' = [frames EXCEPT ![t] = Returning(t)]
              /\ cpu' = [cpu EXCEPT ![t] = Vouched(left.cpu, ReturnRegisters(f.ret))]
      /\ UNCHANGED calls

-----------------------------------------------------------------------------
(* GenerateRestoreThunkForRegisterContext *)

\* The live argument registers, to the frame and back.
SpillCode(sig, storing) ==
  LET registers == GetArgumentIntegralRegisters(sig) \o GetArgumentFloatingRegisters(sig)
  IN  [i \in DOMAIN registers |->
         IF storing THEN Move(Cell(registers[i]), Reg(registers[i]))
         ELSE Move(Reg(registers[i]), Cell(registers[i]))]

StackCopyCode(sig) ==
  FlattenSeq([i \in DOMAIN sig |->
    IF IsReg(sig, i) THEN <<>>
    ELSE Through(GetPlatformGpScratchReg, Out(Argument(sig, i)), In(Argument(sig, i)))])

RebuildRaxInTurn(sig, order) ==   \* mutant: rax is restored with the others
  StackCopyCode(sig)
  \o Through(GetPlatformGpScratchReg, Reg("rflags"), <<"ctx", "rflags", "rax">>)
  \o LET restored == SelectSeq(order, LAMBDA r : r \notin Arguments(sig))
     IN  [i \in DOMAIN restored |-> Move(Reg(restored[i]), <<"ctx", restored[i], "rax">>)]
  \o SpillCode(sig, FALSE)

\* Stack arguments, flags, captured registers, rax after the last use of the
\* pointer it holds, argument registers.
RebuildCode(sig, order) ==
  StackCopyCode(sig)
  \o RestoringCode(sig, order, "ctx", "rax")
  \o <<Move(Reg("rax"), <<"ctx", "rax", "rax">>)>>
  \o SpillCode(sig, FALSE)

RestoreEnterCode(t, order) ==
  LET f == Current(t)
      top == Stack!TopEntry(t)
      spilled == Run(MachineOf(f, cpu[t], NoMemory, Pointer(top), ContextAt(t, top)),
                     PrologCode(TRUE) \o SpillCode(f.sig, TRUE))
      topped == [spilled EXCEPT !.cpu = [AfterCall(@) EXCEPT !["rax"] = Pointer(top)]]
      rebuilt == Run(topped, RebuildCode(f.sig, order))
  IN  /\ At(t, "restore", "entry")
      /\ Stack!Top(t)
      /\ IF Stack!Empty(t) THEN UNCHANGED <<frames, cpu>>
         ELSE /\ frames' = [frames EXCEPT ![t] =
                   Calling(t, [f EXCEPT !.pc = "call", !.saved = rebuilt.cell], rebuilt.cpu)]
              /\ cpu' = [cpu EXCEPT ![t] = rebuilt.cpu]
      /\ UNCHANGED calls

RestoreLeaveCode(t) ==
  LET f == Current(t)
      left == Run(MachineOf(f, cpu[t], f.saved, NoPointer, NoMemory), EpilogCode(TRUE))
  IN  /\ At(t, "restore", "call")
      /\ cpu' = [cpu EXCEPT ![t] = Vouched(left.cpu, ReturnRegisters(f.ret))]
      /\ frames' = [frames EXCEPT ![t] = Returning(t)]
      /\ UNCHANGED <<calls, stackVars>>

-----------------------------------------------------------------------------
CodeNext == \E t \in Threads :
  \/ \E order \in Orders : BindEnterCode(t, order) \/ RestoreEnterCode(t, order)
  \/ BindLeaveCode(t) \/ RestoreLeaveCode(t)
  \/ Native(t)
CodeSpec == Init /\ [][CodeNext]_vars

CodeNextWithExceptions ==
  CodeNext \/ \E t \in Threads : NativeThrow(t)
CodeSpecWithExceptions == Init /\ [][CodeNextWithExceptions]_vars

\* Run instruction by instruction the thunks do what RegisterThunks says of them,
\* in whatever order the captured registers are saved and restored: no move reads
\* a register, a frame cell or the pointer in rax after something overwrote it.
ImplementsThunks == Spec
=============================================================================
