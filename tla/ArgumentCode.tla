----------------------------- MODULE ArgumentCode -----------------------------
(***************************************************************************)
(* ArgumentThunks with the thunks' steps replaced by the instructions the  *)
(* generators emit, in whatever order the process iterates                 *)
(* RegisterContextOffsets.                                                 *)
(***************************************************************************)
EXTENDS ArgumentThunks, EmittedCode

\* The machine of a thread inside the thunk that serves frame f, working on the
\* ArgumentContext ctx at pointer; own.context is SavedContextPtr.  Its own argument
\* area holds nothing yet, or what the callee left there.
MachineOf(f, file, cells, pointer, ctx) ==
  [cpu |-> [l \in Locations |-> IF l \in Slots THEN Junk ELSE file[l]], in |-> f.entry, cell |-> cells, pointer |-> pointer,
   own |-> [context |-> pointer],
   data |-> ctx.data, ret |-> [value |-> ctx.returnValue], regs |-> ctx.registers]

Data(i, base) == <<"data", i, base>>
ReturnValue(base) == <<"ret", "value", base>>
SavedContextPtr == <<"own", "context", "rsp">>

ScratchFor(type) ==
  IF type = "Integral" THEN GetPlatformGpScratchReg ELSE GetPlatformXmmScratchReg
ReturnRegister(ret) == Reg(CHOOSE r \in ReturnRegisters(ret) : TRUE)

-----------------------------------------------------------------------------
(* GenerateBindingThunkForArgumentContext *)

BlankOneShort(sig) ==   \* mutant: room for one argument too few
  [data |-> [i \in 1..(Len(sig) - 1) |-> Junk], returnValue |-> Junk, registers |-> NoMemory]

\* The bytes set aside for the context, before anything is stored in them.
Blank(sig) == [data |-> [i \in DOMAIN sig |-> Junk], returnValue |-> Junk, registers |-> NoMemory]

PackMoveOwnFrame(sig, i) ==   \* mutant: stack arguments are read in the thunk's own frame
  IF IsReg(sig, i) THEN <<Move(Data(i, "rsp"), Reg(Argument(sig, i)))>>
  ELSE Through(ScratchFor(sig[i]), Data(i, "rsp"), Out(Argument(sig, i)))

PackMove(sig, i) ==
  IF IsReg(sig, i) THEN <<Move(Data(i, "rsp"), Reg(Argument(sig, i)))>>
  ELSE Through(ScratchFor(sig[i]), Data(i, "rsp"), In(Argument(sig, i)))

BindCode(f, order) ==
  PrologCode(FALSE)
  \o (IF f.safe THEN SaveRegisterContextCode(order, "regs") ELSE <<>>)
  \o Through(GetPlatformGpScratchReg, ReturnValue("rsp"), Imm(Zero))
  \o FlattenSeq([i \in DOMAIN f.sig |-> PackMove(f.sig, i)])
  \o <<Move(Reg(Argument(CallbackSignature, 1)), Imm(BindParam)),
       Move(Reg(Argument(CallbackSignature, 2)), Imm(Context(f.id)))>>

BindEnterCode(t, order) ==
  LET f == Current(t)
      m == Run(MachineOf(f, cpu[t], NoMemory, Context(0), Blank(f.sig)), BindCode(f, order))
      file == Vouched(m.cpu, Arguments(CallbackSignature))
  IN  /\ At(t, "bind", "entry")
      /\ contexts' = [c \in DOMAIN contexts \cup {f.id} |->
           IF c = f.id THEN [data |-> m.data, returnValue |-> m.ret.value, registers |-> m.regs]
           ELSE contexts[c]]
      /\ frames' = [frames EXCEPT ![t] = Calling(t, [f EXCEPT !.pc = "call"], file)]
      /\ cpu' = [cpu EXCEPT ![t] = file]
      /\ UNCHANGED calls

BindLeaveCode(t) ==
  LET f == Current(t)
      m == Run(MachineOf(f, cpu[t], NoMemory, Context(f.id), contexts[f.id]),
               (IF f.ret = "Void" THEN <<>> ELSE <<Move(ReturnRegister(f.ret), ReturnValue("rsp"))>>)
               \o EpilogCode(FALSE))
  IN  /\ At(t, "bind", "call")
      /\ cpu' = [cpu EXCEPT ![t] = Vouched(m.cpu, ReturnRegisters(f.ret))]
      /\ frames' = [frames EXCEPT ![t] = Returning(t)]
      /\ contexts' = [c \in DOMAIN contexts \ {f.id} |-> contexts[c]]
      /\ UNCHANGED calls

-----------------------------------------------------------------------------
(* GenerateRestoreThunkForArgumentContext *)

LoadMoveEagerly(sig, i) ==   \* mutant: the context register is loaded in its turn
  IF IsStack(sig, i)
  THEN Through(ScratchFor(sig[i]), Out(Argument(sig, i)), Data(i, ContextReg))
  ELSE <<Move(Reg(Argument(sig, i)), Data(i, ContextReg))>>

\* One argument, read through the context pointer; the register that holds the
\* pointer is left for later.
LoadMove(sig, i) ==
  IF IsStack(sig, i)
  THEN Through(ScratchFor(sig[i]), Out(Argument(sig, i)), Data(i, ContextReg))
  ELSE IF Argument(sig, i) = ContextReg THEN <<>>
  ELSE <<Move(Reg(Argument(sig, i)), Data(i, ContextReg))>>

Deferred(sig) == {i \in DOMAIN sig : Argument(sig, i) = ContextReg}

RestoreCodeUnsaved(f, order) ==   \* mutant: the prolog saves no register
  PrologCode(FALSE)
  \o <<Move(SavedContextPtr, Reg(ContextReg))>>
  \o FlattenSeq([i \in DOMAIN f.sig |-> LoadMove(f.sig, i)])
  \o (IF f.safe THEN RestoringCode(f.sig, order, "regs", ContextReg) ELSE <<>>)
  \o [k \in 1..Cardinality(Deferred(f.sig)) |->
        Move(Reg(ContextReg), Data(Max(Deferred(f.sig)), ContextReg))]

RestoreCode(f, order) ==
  PrologCode(f.safe)
  \o <<Move(SavedContextPtr, Reg(ContextReg))>>
  \o FlattenSeq([i \in DOMAIN f.sig |-> LoadMove(f.sig, i)])
  \o (IF f.safe THEN RestoringCode(f.sig, order, "regs", ContextReg) ELSE <<>>)
  \o [k \in 1..Cardinality(Deferred(f.sig)) |->
        Move(Reg(ContextReg), Data(Max(Deferred(f.sig)), ContextReg))]

RestoreEnterCode(t, order) ==
  LET f == Current(t)
      m == Run(MachineOf(f, cpu[t], NoMemory, Context(f.context), contexts[f.context]),
               RestoreCode(f, order))
      file == Vouched(m.cpu, Arguments(f.sig) \cup {ContextReg}
                               \cup (IF f.safe THEN Captured ELSE {}))
      kept == [f EXCEPT !.pc = "call", !.saved = m.cell, !.context = m.own.context[2]]
  IN  /\ At(t, "restore", "entry")
      /\ frames' = [frames EXCEPT ![t] = Calling(t, kept, file)]
      /\ cpu' = [cpu EXCEPT ![t] = file]
      /\ UNCHANGED <<calls, contexts>>

StoreReturnStale(ret) ==   \* mutant: the pointer is expected to be where it came in
  IF ret = "Void" THEN <<>> ELSE <<Move(ReturnValue(ContextReg), ReturnRegister(ret))>>

\* The target's return value goes to the context, found through the saved pointer.
StoreReturn(ret) ==
  IF ret = "Void" THEN <<>>
  ELSE <<Move(Reg(GetPlatformGpScratchReg), SavedContextPtr),
         Move(ReturnValue(GetPlatformGpScratchReg), ReturnRegister(ret))>>

\* Another thread may store in the same context: the store is the step, and the
\* epilog behind it touches nothing others can see.
RestoreLeaveCode(t) ==
  LET f == Current(t)
      m == Run(MachineOf(f, cpu[t], f.saved, Context(f.context), contexts[f.context]),
               StoreReturn(f.ret) \o EpilogCode(f.safe))
  IN  /\ At(t, "restore", "call")
      /\ contexts' = [contexts EXCEPT ![f.context].returnValue = m.ret.value]
      /\ cpu' = [cpu EXCEPT ![t] = Vouched(m.cpu, ReturnRegisters(f.ret))]
      /\ frames' = [frames EXCEPT ![t] = Returning(t)]
      /\ UNCHANGED calls

-----------------------------------------------------------------------------
\* Only a thunk with the Register flag is generated by iterating.
Iterations(f) == IF f.safe THEN Orders ELSE {<<>>}

CodeNext == \E t \in Threads :
  \/ \E order \in Iterations(Current(t)) : BindEnterCode(t, order) \/ RestoreEnterCode(t, order)
  \/ BindLeaveCode(t) \/ RestoreLeaveCode(t)
  \/ Native(t)
CodeSpec == Init /\ [][CodeNext]_vars

\* Run instruction by instruction the thunks do what ArgumentThunks says of them:
\* no argument or captured register is read through a pointer already overwritten,
\* and no scratch register holds anything still needed.
ImplementsThunks == Spec
=============================================================================
