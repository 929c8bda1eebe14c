--------------------------- MODULE RegisterThunks ---------------------------
(***************************************************************************)
(* Register binding thunks and register restore thunks at run time: the    *)
(* machine code of GenerateShiftWithRegisterContext and                    *)
(* GenerateRestoreThunkForRegisterContext, the native code that calls them *)
(* and is called by them, and the thread-local RegisterContextStack the    *)
(* two kinds of thunk share.                                               *)
(*                                                                         *)
(* A thread is a call stack of frames and one register file.  A step runs  *)
(* from one call or return to the next: between them a thunk touches only  *)
(* its own frame, its own registers and its own thread's context stack.    *)
(* A RegisterContext lives in the frame of its binding thunk, so its       *)
(* address is that frame's position in the call stack.                     *)
(***************************************************************************)
EXTENDS Machine, FiniteSetsExt

CONSTANTS
  Threads,
  Capacity,    \* entries of RegisterContextArray
  Signatures,  \* the signatures thunks are generated for
  MaxCalls     \* bound: thunk calls native code makes in a behaviour

ASSUME SignatureAssumption ==
  \A sig \in Signatures : sig \in Seq(ArgumentType) /\ Representable(sig)
ASSUME BoundAssumption == MaxCalls \in Nat
ASSUME CapacityBound == Capacity \in Nat \ {0}

VARIABLES
  frames,  \* frames[t]: the call stack of thread t, innermost frame last
  cpu,     \* cpu[t]: registers, and the stack-argument slots of a call under way
  calls,   \* thunk calls made so far; numbers the calls
  array, index, result, message, alive  \* RegisterContextStack

Stack == INSTANCE RegisterContextStack WITH
  Contexts <- Nat, NullContext <- 0, handler <- "default"

stackVars == <<array, index, result, message, alive>>
vars == <<frames, cpu, calls, stackVars>>

-----------------------------------------------------------------------------
Frame == [kind : {"native", "bind", "restore"},
          pc : {"entry", "call"},        \* of a thunk: before or after it called on
          id : Nat,                      \* the call it serves
          sig : Signatures \cup {<<>>}, ret : ReturnType,
          entry : [Locations -> Value],  \* the machine at entry, incoming slots included
          saved : [Registers -> Value]]  \* what the thunk keeps in its own frame

NativeFrame(id, file) ==
  [kind |-> "native", pc |-> "call", id |-> id, sig |-> <<>>, ret |-> "Void",
   entry |-> file, saved |-> NoMemory]

Current(t) == frames[t][Len(frames[t])]
At(t, kind, pc) == alive /\ Current(t).kind = kind /\ Current(t).pc = pc

\* Binding thunks of thread t that captured a context and have not returned.
IsOpen(f) == f.kind = "bind" /\ f.pc = "call"
OpenBindings(t) == {n \in DOMAIN frames[t] : IsOpen(frames[t][n])}

\* The call stack when the thunk on top, left as f, calls native code with file.
Calling(t, f, file) ==
  Append([frames[t] EXCEPT ![Len(frames[t])] = f], NativeFrame(f.id, file))
Returning(t) == SubSeq(frames[t], 1, Len(frames[t]) - 1)

Init ==
  /\ cpu = [t \in Threads |-> [l \in Locations |-> Junk]]
  /\ frames = [t \in Threads |-> <<NativeFrame(0, [l \in Locations |-> Junk])>>]
  /\ calls = 0
  /\ Stack!Init

-----------------------------------------------------------------------------
(* Native code *)

\* Native code calls a thunk, with every register and slot holding a new value.
NativeCall(t, kind, sig, ret) ==
  LET file == [l \in Locations |-> <<"in", calls + 1, l>>]
  IN  /\ At(t, "native", "call")
      /\ calls < MaxCalls
      /\ calls' = calls + 1
      /\ cpu' = [cpu EXCEPT ![t] = file]
      /\ frames' = [frames EXCEPT ![t] = Append(@,
           [kind |-> kind, pc |-> "entry", id |-> calls + 1, sig |-> sig, ret |-> ret,
            entry |-> file, saved |-> NoMemory])]
      /\ UNCHANGED stackVars

\* Native code returns to the thunk that called it, as the ABI requires.
NativeReturn(t) ==
  /\ At(t, "native", "call")
  /\ Len(frames[t]) > 1
  /\ cpu' = [cpu EXCEPT ![t] =
       [l \in Locations |-> IF l \in Preserved THEN Current(t).entry[l]
                            ELSE <<"out", Current(t).id, l>>]]
  /\ frames' = [frames EXCEPT ![t] = Returning(t)]
  /\ UNCHANGED <<calls, stackVars>>

\* A C++ exception leaves native code and is caught by native code further out.
\* No thunk has a handler: unwinding drops its frame and runs none of its code.
NativeThrow(t) ==
  /\ At(t, "native", "call")
  /\ \E n \in 1..(Len(frames[t]) - 1) :
       /\ frames[t][n].kind = "native"
       /\ frames' = [frames EXCEPT ![t] = SubSeq(@, 1, n)]
  /\ cpu' = [cpu EXCEPT ![t] = [l \in Locations |-> Junk]]
  /\ UNCHANGED <<calls, stackVars>>

-----------------------------------------------------------------------------
(* Register binding thunk *)

\* The value the backward walk leaves in location l: arguments in registers are
\* read from the captured context, those on the stack from the caller's frame.
\* Nothing is emitted for a stack argument whose destination is a register.
ShiftedRegistersOnly(f, ctx, l, otherwise) ==   \* mutant: no stack-to-stack moves
  LET dest == ShiftSignature(f.sig)
      movedTo == {i \in DOMAIN f.sig : IsReg(f.sig, i) /\ Argument(dest, i + 1) = l}
  IN  IF l = Argument(dest, 1) THEN BindParam
      ELSE IF movedTo = {} THEN otherwise
      ELSE ctx[Argument(f.sig, CHOOSE i \in movedTo : TRUE)]

Shifted(f, ctx, l, otherwise) ==
  LET dest == ShiftSignature(f.sig)
      movedTo == {i \in DOMAIN f.sig : /\ Argument(dest, i + 1) = l
                                       /\ IsReg(f.sig, i) \/ IsStack(dest, i + 1)}
      source == Argument(f.sig, CHOOSE i \in movedTo : TRUE)
  IN  IF l = Argument(dest, 1) THEN BindParam
      ELSE IF movedTo = {} THEN otherwise
      ELSE IF source \in Registers THEN ctx[source] ELSE f.entry[source]

\* Prolog, capture, Push, argument shift, call ToFn.
BindEnter(t) ==
  LET f == Current(t)
      ctx == SaveRegisterContext(cpu[t])
      file == [l \in Locations |-> Shifted(f, ctx, l, AfterCall(cpu[t])[l])]
  IN  /\ At(t, "bind", "entry")
      /\ Stack!Push(t, Len(frames[t]))
      /\ IF Stack!Full(t) THEN UNCHANGED <<frames, cpu>>
         ELSE /\ frames' = [frames EXCEPT ![t] =
                   Calling(t, [f EXCEPT !.pc = "call", !.saved = ctx], file)]
              /\ cpu' = [cpu EXCEPT ![t] = file]
      /\ UNCHANGED calls

\* Save the return value in the context, Pop, reload it, epilog, ret.
BindLeaveUnpopped(t) ==   \* mutant: Pop is only called when a value is returned
  /\ At(t, "bind", "call")
  /\ IF Current(t).ret = "Void" THEN UNCHANGED stackVars ELSE Stack!Pop(t)
  /\ frames' = [frames EXCEPT ![t] = Returning(t)]
  /\ UNCHANGED <<calls, cpu>>

BindLeave(t) ==
  LET f == Current(t)
      returned == ReturnRegisters(f.ret)
      ctx == [r \in Registers |-> IF r \in returned THEN cpu[t][r] ELSE f.saved[r]]
  IN  /\ At(t, "bind", "call")
      /\ Stack!Pop(t)
      /\ IF Stack!Empty(t) THEN UNCHANGED <<frames, cpu>>
         ELSE /\ frames' = [frames EXCEPT ![t] = Returning(t)]
              /\ cpu' = [cpu EXCEPT ![t] =
                   [l \in Locations |-> IF l \in returned THEN ctx[l]
                                        ELSE AfterCall(cpu[t])[l]]]
      /\ UNCHANGED calls

-----------------------------------------------------------------------------
(* Register restore thunk *)

\* What the context pointer p of thread t leads to now.
ContextAt(t, p) ==
  IF p \in OpenBindings(t) THEN frames[t][p].saved ELSE NoMemory

\* The prolog saves the nonvolatiles; the live argument registers are spilled
\* because Top is an ordinary call.
SpilledNonvolatiles(f, file) ==   \* mutant: arguments do not survive Top
  [r \in Registers |-> IF r \in Preserved THEN file[r] ELSE Junk]

Spilled(f, file) ==
  [r \in Registers |-> IF r \in Preserved \cup ArgumentRegisters(f.sig) THEN file[r] ELSE Junk]

\* Stack arguments are copied down, captured registers restored except those
\* that carry arguments, which come back from the spill slots.
Rebuilt(f, ctx, spill, file) ==
  [l \in Locations |->
     IF l \in Arguments(f.sig) \cap Slots THEN f.entry[l]
     ELSE IF l \in ArgumentRegisters(f.sig) THEN spill[l]
     ELSE IF l \in Captured THEN ctx[l]
     ELSE AfterCall(file)[l]]

\* Prolog, spill, Top, rebuild, call CallTo.
RestoreEnter(t) ==
  LET f == Current(t)
      spill == Spilled(f, cpu[t])
      file == Rebuilt(f, ContextAt(t, Stack!TopEntry(t)), spill, cpu[t])
  IN  /\ At(t, "restore", "entry")
      /\ Stack!Top(t)
      /\ IF Stack!Empty(t) THEN UNCHANGED <<frames, cpu>>
         ELSE /\ frames' = [frames EXCEPT ![t] =
                   Calling(t, [f EXCEPT !.pc = "call", !.saved = spill], file)]
              /\ cpu' = [cpu EXCEPT ![t] = file]
      /\ UNCHANGED calls

\* Epilog, ret.
RestoreLeaveBare(t) ==   \* mutant: the nonvolatiles are not restored
  /\ At(t, "restore", "call")
  /\ frames' = [frames EXCEPT ![t] = Returning(t)]
  /\ UNCHANGED <<cpu, calls, stackVars>>

RestoreLeave(t) ==
  /\ At(t, "restore", "call")
  /\ cpu' = [cpu EXCEPT ![t] =
       [l \in Locations |-> IF l \in Preserved THEN Current(t).saved[l]
                            ELSE IF l \in ReturnRegisters(Current(t).ret) THEN @[l] ELSE Junk]]
  /\ frames' = [frames EXCEPT ![t] = Returning(t)]
  /\ UNCHANGED <<calls, stackVars>>

-----------------------------------------------------------------------------
Thunk(t) == BindEnter(t) \/ BindLeave(t) \/ RestoreEnter(t) \/ RestoreLeave(t)

Native(t) ==
  \/ NativeReturn(t)
  \/ \E kind \in {"bind", "restore"}, sig \in Signatures, ret \in ReturnType :
       NativeCall(t, kind, sig, ret)

Next == \E t \in Threads : Thunk(t) \/ Native(t)
Spec == Init /\ [][Next]_vars

\* With exceptions, which the Windows unwind data lets pass through thunks.
NextWithExceptions == Next \/ \E t \in Threads : NativeThrow(t)
SpecWithExceptions == Init /\ [][NextWithExceptions]_vars
-----------------------------------------------------------------------------
TypeOK ==
  /\ frames \in [Threads -> Seq(Frame)]
  /\ \A t \in Threads : frames[t] # <<>> /\ frames[t][1].kind = "native"
  /\ cpu \in [Threads -> [Locations -> Value]]
  /\ calls \in 0..MaxCalls
  /\ Stack!TypeOK

\* The context stack of a thread is its call stack seen through the binding
\* thunks alone: exactly the addresses of the open ones, innermost on top.
StackMirrorsCalls ==
  \A t \in Threads :
    LET live == 0..index[t]
    IN  /\ {array[t][s] : s \in live} = OpenBindings(t)
        /\ \A r, s \in live : r < s => array[t][r] < array[t][s]

\* A restore thunk reached from inside a binding is given the context of the
\* innermost binding of its own thread that has not returned.
TopIsInnermost ==
  \A t \in Threads :
    At(t, "restore", "entry") /\ OpenBindings(t) # {} =>
      ~Stack!Empty(t) /\ Stack!TopEntry(t) = Max(OpenBindings(t))

\* The bound function receives the bound parameter first and then, each in the
\* place its own signature gives it, the arguments the thunk was called with.
CallbackSeesArguments ==
  \A t \in Threads : \A n \in OpenBindings(t) \ {Len(frames[t])} :
    LET f == frames[t][n]
        dest == ShiftSignature(f.sig)
        callee == frames[t][n + 1].entry
    IN  /\ callee[Argument(dest, 1)] = BindParam
        /\ \A i \in DOMAIN f.sig :
             callee[Argument(dest, i + 1)] = f.entry[Argument(f.sig, i)]

\* The target of a restore thunk receives the arguments the restore thunk was
\* called with and, in every other register a RegisterContext holds, what the
\* innermost binding thunk was entered with (rflags excepted, see the README).
TargetSeesCapture ==
  \A t \in Threads : \A n \in 1..(Len(frames[t]) - 1) :
    frames[t][n].kind = "restore" =>
      LET f == frames[t][n]
          callee == frames[t][n + 1].entry
          source == frames[t][Max({m \in OpenBindings(t) : m < n})].entry
      IN  /\ \A i \in DOMAIN f.sig :
               callee[Argument(f.sig, i)] = f.entry[Argument(f.sig, i)]
          /\ \A r \in Captured \ (ArgumentRegisters(f.sig) \cup {"rflags"}) :
               callee[r] = source[r]

\* When a thunk returns, its caller finds the value the called function returned
\* and every nonvolatile register as it was at the call, although a restore
\* thunk overwrites them all and Pop runs after the called function.
ReturnsFaithfully ==
  [][\A t \in Threads :
       Len(frames'[t]) < Len(frames[t]) /\ Current(t).kind # "native" =>
         /\ \A r \in ReturnRegisters(Current(t).ret) : cpu'[t][r] = cpu[t][r]
         /\ \A r \in Preserved : cpu'[t][r] = Current(t).entry[r]]_vars

\* The process is only terminated by a binding nested Capacity deep or by a
\* restore thunk called outside every binding; Pop never underflows.
OnlyMisuseTerminates ==
  [][alive /\ ~alive' =>
       \E t \in Threads :
         \/ At(t, "bind", "entry") /\ Cardinality(OpenBindings(t)) = Capacity
         \/ At(t, "restore", "entry") /\ OpenBindings(t) = {}]_vars
=============================================================================
