----------------------------- MODULE PlainThunks -----------------------------
(***************************************************************************)
(* From an ABISignature to a thunk: the builder a caller fills slot by     *)
(* slot, the choice of a generator, and the code of default binding thunks *)
(* (GenerateSimpleShift and GenerateComplexShift) up to their target.      *)
(*                                                                         *)
(* Error results that change nothing are left out; those that say why no   *)
(* thunk was generated take its place.                                     *)
(***************************************************************************)
EXTENDS Machine

CONSTANTS
  MaxFuncArgs,    \* AsmJit's kMaxFuncArgs, 32
  Indices,        \* bound: the argument slots a caller assigns
  Signatures,     \* raw signatures passed to Internal::GenerateBindingThunk
  RedZoneSize,    \* 0 (Win64) or 128 (System V) bytes
  SpillZoneSize   \* 32 (Win64) or 0 bytes

ASSUME IndicesAssumption ==
  MaxFuncArgs \in Nat \ {0} /\ Indices \subseteq 0..(MaxFuncArgs - 1)
ASSUME SignatureAssumption ==
  \A sig \in Signatures : sig \in Seq(ArgumentType) /\ Len(sig) <= MaxFuncArgs
ASSUME SlotsAssumption == MaxFuncArgs <= Len(StackSlots)  \* the stack has room for all
ASSUME ZoneAssumption == RedZoneSize \in Nat /\ SpillZoneSize \in Nat

VARIABLES
  args,        \* _Args
  largest,     \* _LargestSetArgIndex
  returnSlot,  \* _ReturnType
  thunk,       \* the generator that was chosen, or the error, and its signature
  target       \* the machine at the target's entry once the thunk was called

vars == <<args, largest, returnSlot, thunk, target>>

-----------------------------------------------------------------------------
(* ABISignature *)

\* Bound: a signature is filled, used for one thunk, and the thunk called once.
NoThunk == [generator |-> "none", sig |-> <<>>, ret |-> "Void"]
NotCalled == <<>>
Building == thunk = NoThunk

SetArgumentSlotLast(i, type) ==   \* mutant: the last index counts, not the largest
  /\ Building
  /\ args' = [args EXCEPT ![i] = type]
  /\ largest' = i
  /\ UNCHANGED <<returnSlot, thunk, target>>

SetArgumentSlotCount(i, type) ==   \* mutant: a count where an index is expected
  /\ Building
  /\ args' = [args EXCEPT ![i] = type]
  /\ largest' = IF i + 1 > largest THEN i + 1 ELSE largest
  /\ UNCHANGED <<returnSlot, thunk, target>>

\* Unknown is accepted: it clears a slot but never lowers the index.
SetArgumentSlot(i, type) ==
  /\ Building
  /\ args' = [args EXCEPT ![i] = type]
  /\ largest' = IF i > largest THEN i ELSE largest
  /\ UNCHANGED <<returnSlot, thunk, target>>

SetReturnSlot(type) ==
  /\ Building
  /\ returnSlot' = type
  /\ UNCHANGED <<args, largest, thunk, target>>

\* The error of Finalize, "none" if it succeeds, and its signature.
FinalizeError ==
  IF returnSlot = "Unknown" THEN "ABISignatureMissingReturnValue"
  ELSE IF \E i \in 0..largest : args[i] = "Unknown" THEN "ABISignatureMissingArgumentValue"
  ELSE "none"
Finalized == [i \in 1..(largest + 1) |-> args[i - 1]]

-----------------------------------------------------------------------------
(* GenerateBindingThunk and GenerateRestoreThunk *)

\* The bits of an EBindingThunkType; "other" is any the library does not know.
EBindingThunkType == SUBSET {"Argument", "Register", "other"}
IsValidBindingThunkType(flags) == "other" \notin flags

ArgStackSize(sig) == SpillZoneSize + 8 * StackArguments(sig)

\* StackAllocSize > 0.  The sizes are unsigned: what is less than the two zones
\* wraps around, so only the difference zero is not positive.
NeedsStack(dest) == ArgStackSize(dest) # RedZoneSize + SpillZoneSize

\* With every place in a FuncSignature taken, add_arg writes behind its array.
BindingGenerator(sig, flags) ==
  IF ~IsValidBindingThunkType(flags) THEN "InvalidBindingType"
  ELSE IF "Argument" \in flags
       THEN IF "Register" \in flags THEN "argument with registers" ELSE "argument"
  ELSE IF Len(sig) = MaxFuncArgs THEN "undefined"
  ELSE IF "Register" \in flags THEN "register"
  ELSE IF NeedsStack(ShiftSignature(sig)) THEN "complex" ELSE "simple"

RestoreGenerator(flags) ==
  IF ~IsValidBindingThunkType(flags) \/ flags = {} THEN "InvalidBindingType"
  ELSE IF "Argument" \in flags
       THEN IF "Register" \in flags THEN "safe argument restore" ELSE "argument restore"
  ELSE "register restore"

Generate(generator, sig, ret) ==
  /\ Building
  /\ thunk' = [generator |-> generator, sig |-> sig, ret |-> ret]
  /\ UNCHANGED <<args, largest, returnSlot, target>>

\* Both functions finalize the ABISignature they are given first.
GenerateBindingThunk(flags) ==
  IF FinalizeError # "none" THEN Generate(FinalizeError, <<>>, "Void")
  ELSE Generate(BindingGenerator(Finalized, flags), Finalized, returnSlot)

GenerateRestoreThunk(flags) ==
  IF FinalizeError # "none" THEN Generate(FinalizeError, <<>>, "Void")
  ELSE Generate(RestoreGenerator(flags), Finalized, returnSlot)

InternalGenerateBindingThunk(sig, ret, flags) ==
  Generate(BindingGenerator(sig, flags), sig, ret)

-----------------------------------------------------------------------------
(* The code of default binding thunks *)

GpById == <<"rax", "rcx", "rdx", "rbx", "rsp", "rbp", "rsi", "rdi">>

\* The register FuncValue::reg_id names: for an argument on the stack, where
\* other bits of its offset are taken for a register number.
RegId(sig, i, bank) ==
  IF IsReg(sig, i) THEN Argument(sig, i)
  ELSE bank[((SpillZoneSize + 8 * (StackOrdinal(sig, i) - 1)) \div 16) + 1]

\* One mov or movaps of GenerateSimpleShift.
Move(sig, i, file) ==
  LET bank == IF IsReg(sig, i) /\ sig[i] = "Integral" THEN GpById ELSE VecArgs
      to == RegId(ShiftSignature(sig), i + 1, bank)
  IN  [l \in Locations |-> IF l = to THEN file[RegId(sig, i, bank)] ELSE file[l]]

SimpleShiftForward(sig, file) ==   \* mutant: the walk starts at the first argument
  LET moved[n \in 0..Len(sig)] ==
        IF n = 0 THEN file ELSE Move(sig, n, moved[n - 1])
  IN  [moved[Len(sig)] EXCEPT ![Argument(ShiftSignature(sig), 1)] = BindParam]

\* Move the arguments, last one first, load the bound parameter, jmp ToFn.
\* moved[n] is what n moves leave.
SimpleShift(sig, file) ==
  LET moved[n \in 0..Len(sig)] ==
        IF n = 0 THEN file ELSE Move(sig, Len(sig) + 1 - n, moved[n - 1])
  IN  [moved[Len(sig)] EXCEPT ![Argument(ShiftSignature(sig), 1)] = BindParam]

\* AsmJit's compiler moves the arguments at once and calls ToFn.
ComplexShift(sig, file) ==
  LET dest == ShiftSignature(sig)
  IN  [l \in Locations |->
         IF l \notin Arguments(dest) THEN Junk
         ELSE LET i == CHOOSE j \in DOMAIN dest : Argument(dest, j) = l
              IN  IF i = 1 THEN BindParam ELSE file[Argument(sig, i - 1)]]

\* Native code calls the thunk, with every register and slot holding a new value.
CallThunk ==
  LET file == [l \in Locations |-> <<"in", 1, l>>]
  IN  /\ thunk.generator \in {"simple", "complex"}
      /\ target = NotCalled
      /\ target' = IF thunk.generator = "simple" THEN SimpleShift(thunk.sig, file)
                   ELSE ComplexShift(thunk.sig, file)
      /\ UNCHANGED <<args, largest, returnSlot, thunk>>

-----------------------------------------------------------------------------
Init ==
  /\ args = [i \in 0..(MaxFuncArgs - 1) |-> "Unknown"]
  /\ largest = -1
  /\ returnSlot = "Unknown"
  /\ thunk = NoThunk
  /\ target = NotCalled

Next ==
  \/ \E i \in Indices, type \in ArgumentType \cup {"Unknown"} : SetArgumentSlot(i, type)
  \/ \E type \in ReturnType \cup {"Unknown"} : SetReturnSlot(type)
  \/ \E flags \in EBindingThunkType :
       \/ GenerateBindingThunk(flags) \/ GenerateRestoreThunk(flags)
       \/ \E sig \in Signatures, ret \in ReturnType : InternalGenerateBindingThunk(sig, ret, flags)
  \/ CallThunk

Spec == Init /\ [][Next]_vars

-----------------------------------------------------------------------------
TypeOK ==
  /\ args \in [0..(MaxFuncArgs - 1) -> ArgumentType \cup {"Unknown"}]
  /\ largest \in -1..(MaxFuncArgs - 1)
  /\ returnSlot \in ReturnType \cup {"Unknown"}
  /\ thunk.sig \in Seq(ArgumentType) /\ Len(thunk.sig) <= MaxFuncArgs
  /\ thunk.ret \in ReturnType
  /\ target = NotCalled \/ target \in [Locations -> Value]

\* Whatever order slots were assigned, cleared and assigned again in, a signature
\* that Finalize accepts has every assigned slot in it, in order: none is dropped.
FinalizeDropsNothing ==
  FinalizeError = "none" =>
    {i \in DOMAIN args : args[i] # "Unknown"} = {i - 1 : i \in DOMAIN Finalized}

\* README, calling a default binding thunk "will call Fn as if with" the bound
\* parameter first and then the caller's arguments: for every signature.
TargetSeesArguments ==
  target # NotCalled =>
    LET dest == ShiftSignature(thunk.sig)
    IN  /\ target[Argument(dest, 1)] = BindParam
        /\ \A i \in DOMAIN thunk.sig :
             target[Argument(dest, i + 1)] = <<"in", 1, Argument(thunk.sig, i)>>
=============================================================================
