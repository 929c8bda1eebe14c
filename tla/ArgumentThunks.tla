--------------------------- MODULE ArgumentThunks ---------------------------
(***************************************************************************)
(* Argument binding thunks and argument restore thunks at run time, with   *)
(* or without the Register flag: the machine code of                       *)
(* GenerateBindingThunkForArgumentContext and                              *)
(* GenerateRestoreThunkForArgumentContext, and the ArgumentContext through *)
(* which they, the callback and the target hand values to each other.      *)
(*                                                                         *)
(* A context lives in the frame of its binding thunk and is named by the   *)
(* call that thunk serves.  The callback may hand the reference it gets to *)
(* other threads, but no one uses it after the callback has ended.         *)
(***************************************************************************)
EXTENDS Machine, FiniteSetsExt

CONSTANTS
  Threads,
  Signatures,  \* the signatures thunks are generated for
  MaxCalls     \* bound: thunk calls native code makes in a behaviour

ASSUME SignatureAssumption ==
  \A sig \in Signatures : sig \in Seq(ArgumentType) /\ Representable(sig)
ASSUME BoundAssumption == MaxCalls \in Nat
ASSUME IntegerArguments == Len(GpArgs) >= 2

VARIABLES
  frames,   \* frames[t]: the call stack of thread t, innermost frame last
  cpu,      \* cpu[t]: registers, and the stack-argument slots of a call under way
  calls,    \* thunk calls made so far; numbers the calls
  contexts  \* contexts[c]: the ArgumentContext in the frame of binding call c

vars == <<frames, cpu, calls, contexts>>

-----------------------------------------------------------------------------
Context(c) == <<"context", c, "rax">>
Zero == <<"zero", 0, "rax">>

\* void(void*, ArgumentContext&) and void(ArgumentContext&)
CallbackSignature == <<"Integral", "Integral">>
ContextReg == Argument(<<"Integral">>, 1)

Frame == [kind : {"native", "bind", "restore"},
          pc : {"entry", "call"},        \* of a thunk: before or after it called on
          id : Nat,                      \* the call it serves
          sig : Signatures \cup {<<>>}, ret : ReturnType,
          safe : BOOLEAN,                \* generated with the Register flag
          context : Nat,                 \* a restore thunk's saved context pointer
          entry : [Locations -> Value],  \* the machine at entry, incoming slots included
          saved : [Registers -> Value]]  \* the nonvolatiles the prolog saves

\* _Data, _ReturnValue and the appended RegisterContext; the call fixes the rest.
ArgumentContext(sig) ==
  [data : [DOMAIN sig -> Value], returnValue : Value, registers : [Registers -> Value]]

NativeFrame(id, file) ==
  [kind |-> "native", pc |-> "call", id |-> id, sig |-> <<>>, ret |-> "Void",
   safe |-> FALSE, context |-> 0, entry |-> file, saved |-> NoMemory]

Current(t) == frames[t][Len(frames[t])]
At(t, kind, pc) == Current(t).kind = kind /\ Current(t).pc = pc
Calling(t, f, file) ==
  Append([frames[t] EXCEPT ![Len(frames[t])] = f], NativeFrame(f.id, file))
Returning(t) == SubSeq(frames[t], 1, Len(frames[t]) - 1)

\* The contexts restore thunks are working on, and those that lie in a call stack.
InUse(stacks) ==
  UNION {{stacks[t][n].context : n \in {m \in DOMAIN stacks[t] : stacks[t][m].kind = "restore"}}
         : t \in Threads}
Held(stack) == {stack[n].id : n \in {m \in DOMAIN stack : stack[m].kind = "bind"}}

Init ==
  /\ cpu = [t \in Threads |-> [l \in Locations |-> Junk]]
  /\ frames = [t \in Threads |-> <<NativeFrame(0, [l \in Locations |-> Junk])>>]
  /\ calls = 0
  /\ contexts = [c \in {} |-> {}]

-----------------------------------------------------------------------------
(* Native code *)

NativeCall(t, kind, sig, ret, safe, c, file) ==
  /\ At(t, "native", "call")
  /\ calls < MaxCalls
  /\ calls' = calls + 1
  /\ cpu' = [cpu EXCEPT ![t] = file]
  /\ frames' = [frames EXCEPT ![t] = Append(@,
       [kind |-> kind, pc |-> "entry", id |-> calls + 1, sig |-> sig, ret |-> ret,
        safe |-> safe, context |-> c, entry |-> file, saved |-> NoMemory])]
  /\ UNCHANGED contexts

NewFile == [l \in Locations |-> <<"in", calls + 1, l>>]

\* Native code calls a binding thunk, with every register and slot holding a new value.
CallBinding(t, sig, ret, safe) == NativeCall(t, "bind", sig, ret, safe, 0, NewFile)

\* The binding thunks of thread t whose callback is running.
InCallback(t) == {n \in 1..(Len(frames[t]) - 1) : frames[t][n].kind = "bind"}

\* Native code that holds the context of binding frame f passes it to a restore
\* thunk generated for the same signature and a flag the context satisfies.
CallRestore(t, f, safe) ==
  /\ safe => f.safe
  /\ NativeCall(t, "restore", f.sig, f.ret, safe, f.id,
       [NewFile EXCEPT ![ContextReg] = Context(f.id)])

\* ArgumentContext::SetReturnValue, called by native code.
SetReturnValue(t, c) ==
  /\ At(t, "native", "call")
  /\ contexts' = [contexts EXCEPT ![c].returnValue = <<"set", c, "rax">>]
  /\ UNCHANGED <<frames, cpu, calls>>

\* Native code returns to the thunk that called it, as the ABI requires; a
\* callback only when no restore thunk is working for it on another thread.
NativeReturn(t) ==
  /\ At(t, "native", "call")
  /\ Len(frames[t]) > 1
  /\ Current(t).id \notin InUse(frames)
  /\ cpu' = [cpu EXCEPT ![t] =
       [l \in Locations |-> IF l \in Preserved THEN Current(t).entry[l]
                            ELSE <<"out", Current(t).id, l>>]]
  /\ frames' = [frames EXCEPT ![t] = Returning(t)]
  /\ UNCHANGED <<calls, contexts>>

\* A C++ exception leaves native code and is caught by native code further out.
\* No thunk has a handler: unwinding drops its frame and runs none of its code.
NativeThrow(t) ==
  /\ At(t, "native", "call")
  /\ \E n \in 1..(Len(frames[t]) - 1) :
       LET dropped == Held(SubSeq(frames[t], n + 1, Len(frames[t])))
       IN  /\ frames[t][n].kind = "native"
           /\ frames' = [frames EXCEPT ![t] = SubSeq(@, 1, n)]
           /\ InUse(frames') \cap dropped = {}
           /\ contexts' = [c \in DOMAIN contexts \ dropped |-> contexts[c]]
  /\ cpu' = [cpu EXCEPT ![t] = [l \in Locations |-> Junk]]
  /\ UNCHANGED calls

-----------------------------------------------------------------------------
(* Argument binding thunk *)

\* The context the thunk builds before it calls on: the arguments in order, a
\* return value of zero, and the register file if the Register flag asks for it.
Packed(f, file) ==
  [data |-> [i \in DOMAIN f.sig |->
     IF IsReg(f.sig, i) THEN file[Argument(f.sig, i)] ELSE f.entry[Argument(f.sig, i)]],
   returnValue |-> Zero,
   registers |-> IF f.safe THEN SaveRegisterContext(file) ELSE NoMemory]

\* Prolog, capture, pack, load both arguments of the callback, call ToFn.
BindEnter(t) ==
  LET f == Current(t)
      file == [AfterCall(cpu[t]) EXCEPT ![Argument(CallbackSignature, 1)] = BindParam,
                                        ![Argument(CallbackSignature, 2)] = Context(f.id)]
  IN  /\ At(t, "bind", "entry")
      /\ contexts' = [c \in DOMAIN contexts \cup {f.id} |->
                        IF c = f.id THEN Packed(f, cpu[t]) ELSE contexts[c]]
      /\ frames' = [frames EXCEPT ![t] = Calling(t, [f EXCEPT !.pc = "call"], file)]
      /\ cpu' = [cpu EXCEPT ![t] = file]
      /\ UNCHANGED calls

\* Load the return value the flags announce, epilog, ret.  The context is gone
\* with the frame.
BindLeave(t) ==
  LET f == Current(t)
  IN  /\ At(t, "bind", "call")
      /\ cpu' = [cpu EXCEPT ![t] = [l \in Locations |->
           IF l \in ReturnRegisters(f.ret) THEN contexts[f.id].returnValue ELSE AfterCall(@)[l]]]
      /\ frames' = [frames EXCEPT ![t] = Returning(t)]
      /\ contexts' = [c \in DOMAIN contexts \ {f.id} |-> contexts[c]]
      /\ UNCHANGED calls

-----------------------------------------------------------------------------
(* Argument restore thunk *)

\* The machine the target is called with.  The register that holds the context
\* pointer is loaded last, and only if an argument travels in it: what the
\* snapshot has for it is never put back.
Rebuilt(f, ctx, file) ==
  [l \in Locations |->
     IF l \in Arguments(f.sig)
     THEN ctx.data[CHOOSE i \in DOMAIN f.sig : Argument(f.sig, i) = l]
     ELSE IF l = ContextReg THEN file[l]
     ELSE IF f.safe /\ l \in Captured THEN ctx.registers[l]
     ELSE AfterCall(file)[l]]

\* Only a safe restore thunk overwrites nonvolatiles, and only it saves them.
Saved(f, file) ==
  [r \in Registers |-> IF f.safe /\ r \in Preserved THEN file[r] ELSE Junk]

\* Prolog, save the context pointer, rebuild, call CallTo.
RestoreEnter(t) ==
  LET f == Current(t)
      file == Rebuilt(f, contexts[f.context], cpu[t])
  IN  /\ At(t, "restore", "entry")
      /\ frames' = [frames EXCEPT ![t] =
           Calling(t, [f EXCEPT !.pc = "call", !.saved = Saved(f, cpu[t])], file)]
      /\ cpu' = [cpu EXCEPT ![t] = file]
      /\ UNCHANGED <<calls, contexts>>

\* Store the target's return value in the context, epilog, ret.
RestoreLeave(t) ==
  LET f == Current(t)
  IN  /\ At(t, "restore", "call")
      /\ contexts' = [contexts EXCEPT ![f.context].returnValue =
           IF f.ret = "Void" THEN @ ELSE cpu[t][CHOOSE r \in ReturnRegisters(f.ret) : TRUE]]
      /\ cpu' = [cpu EXCEPT ![t] =
           [l \in Locations |-> IF l \in Preserved THEN IF f.safe THEN f.saved[l] ELSE @[l]
                                ELSE IF l \in ReturnRegisters(f.ret) THEN @[l] ELSE Junk]]
      /\ frames' = [frames EXCEPT ![t] = Returning(t)]
      /\ UNCHANGED calls

-----------------------------------------------------------------------------
Thunk(t) == BindEnter(t) \/ BindLeave(t) \/ RestoreEnter(t) \/ RestoreLeave(t)

Native(t) ==
  \/ NativeReturn(t) \/ NativeThrow(t)
  \/ \E sig \in Signatures, ret \in ReturnType, safe \in BOOLEAN : CallBinding(t, sig, ret, safe)
  \/ \E s \in Threads : \E n \in InCallback(s) :
       \/ SetReturnValue(t, frames[s][n].id)
       \/ \E safe \in BOOLEAN : CallRestore(t, frames[s][n], safe)

Next == \E t \in Threads : Thunk(t) \/ Native(t)
Spec == Init /\ [][Next]_vars

-----------------------------------------------------------------------------
\* The frame of the binding thunk in which context c lies.
Opens(f, c) == f.kind = "bind" /\ f.pc = "call" /\ f.id = c
Binding(c) ==
  LET home == CHOOSE p \in Threads \X (1..(2 * MaxCalls + 1)) :
                p[2] \in DOMAIN frames[p[1]] /\ Opens(frames[p[1]][p[2]], c)
  IN  frames[home[1]][home[2]]

TypeOK ==
  /\ frames \in [Threads -> Seq(Frame)]
  /\ \A t \in Threads : frames[t] # <<>> /\ frames[t][1].kind = "native"
  /\ cpu \in [Threads -> [Locations -> Value]]
  /\ calls \in 0..MaxCalls
  /\ DOMAIN contexts \subseteq 1..MaxCalls
  /\ \A c \in DOMAIN contexts : contexts[c] \in ArgumentContext(Binding(c).sig)

\* A callback is called with the bound parameter and its own context, and what it
\* reads there stays what its thunk was called with until the thunk returns,
\* whatever restore thunks and other threads do meanwhile: every argument in order
\* and, with the Register flag, the registers.  No context outlives its thunk.
CallbackSeesArguments ==
  /\ DOMAIN contexts = {c \in 1..calls : \E t \in Threads : \E n \in DOMAIN frames[t] :
                          Opens(frames[t][n], c)}
  /\ \A c \in DOMAIN contexts :
       LET f == Binding(c)
       IN  /\ contexts[c].data = [i \in DOMAIN f.sig |-> f.entry[Argument(f.sig, i)]]
           /\ f.safe => \A r \in Captured \ {"rflags"} : contexts[c].registers[r] = f.entry[r]
  /\ \A t \in Threads : \A n \in InCallback(t) :
       LET callee == frames[t][n + 1].entry
       IN  /\ callee[Argument(CallbackSignature, 1)] = BindParam
           /\ callee[Argument(CallbackSignature, 2)] = Context(frames[t][n].id)

\* Every time a restore thunk calls the target, be it the second time for the
\* same context or on another thread, the target finds the arguments the binding
\* thunk was called with, each where its signature puts it, and, from a safe
\* thunk, every other captured register but the context register and rflags.
TargetSeesBinding ==
  \A t \in Threads : \A n \in 1..(Len(frames[t]) - 1) :
    frames[t][n].kind = "restore" =>
      LET f == frames[t][n]
          callee == frames[t][n + 1].entry
          source == Binding(f.context).entry
      IN  /\ \A i \in DOMAIN f.sig :
               callee[Argument(f.sig, i)] = source[Argument(f.sig, i)]
          /\ f.safe => \A r \in Captured \ (ArgumentRegisters(f.sig) \cup {ContextReg, "rflags"}) :
                         callee[r] = source[r]

\* Whoever called a thunk finds its nonvolatile registers as they were at the call,
\* although a safe restore thunk overwrites them all.
PreservesRegisters ==
  [][\A t \in Threads :
       Current(t).kind # "native" /\ Len(frames'[t]) < Len(frames[t]) =>
         \A r \in Preserved : cpu'[t][r] = Current(t).entry[r]]_vars

\* The value a context returns is zero until the callback sets it or a target
\* returns one, which a restore thunk never loses; when the binding thunk returns,
\* it is in the caller's return register.
ReturnValueIsHandedOn ==
  [][/\ \A c \in DOMAIN contexts \cap DOMAIN contexts' :
          contexts'[c].returnValue # contexts[c].returnValue =>
            \/ contexts'[c].returnValue = <<"set", c, "rax">>
            \/ \E t \in Threads :
                 /\ Current(t).kind = "restore" /\ Current(t).context = c
                 /\ \E r \in ReturnRegisters(Current(t).ret) :
                      contexts'[c].returnValue = <<"out", Current(t).id, r>>
     /\ \A t \in Threads : \A r \in ReturnRegisters(Current(t).ret) :
          Len(frames'[t]) < Len(frames[t]) =>
            /\ At(t, "restore", "call") => contexts'[Current(t).context].returnValue = cpu[t][r]
            /\ At(t, "bind", "call") => cpu'[t][r] = contexts[Current(t).id].returnValue]_vars

\* README, restore thunks "restore the arguments and registers to their original
\* values": so also the register that carries the context pointer.
RestoresContextRegister ==
  \A t \in Threads : \A n \in 1..(Len(frames[t]) - 1) :
    LET f == frames[t][n]
    IN  f.kind = "restore" /\ f.safe /\ ContextReg \notin Arguments(f.sig) =>
          frames[t][n + 1].entry[ContextReg] = Binding(f.context).entry[ContextReg]
=============================================================================
