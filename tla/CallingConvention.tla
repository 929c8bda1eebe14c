-------------------------- MODULE CallingConvention --------------------------
(***************************************************************************)
(* Where an ABI places the arguments and the return value of a signature,  *)
(* as the generators see it through FuncArgInfo.  The placement itself is  *)
(* AsmJit's FuncDetail; the library only reorders signatures and asks.     *)
(*                                                                         *)
(* A location is a register or a stack-argument slot; both are strings.    *)
(***************************************************************************)
EXTENDS Integers, Sequences, FiniteSets, Functions

CONSTANTS
  GpArgs,      \* integer argument registers, in order
  VecArgs,     \* floating-point argument registers, in order
  StackSlots,  \* stack-argument slots, by increasing stack_offset
  Positional,  \* TRUE: argument i may only use the i-th register (Win64)
  Preserved,   \* registers a callee must preserve, rsp excluded
  Volatile     \* every other register that is not an argument register

ArgRegisters == Range(GpArgs) \cup Range(VecArgs)
Registers == ArgRegisters \cup Preserved \cup Volatile
Slots == Range(StackSlots)
Locations == Registers \cup Slots

ASSUME ConventionAssumption ==
  /\ GpArgs \in Seq(STRING) /\ VecArgs \in Seq(STRING) /\ StackSlots \in Seq(STRING)
  /\ Preserved \subseteq STRING /\ Volatile \subseteq STRING
  /\ IsInjective(GpArgs) /\ IsInjective(VecArgs) /\ IsInjective(StackSlots)
  /\ Range(GpArgs) \cap Range(VecArgs) = {}
  /\ ArgRegisters \cap (Preserved \cup Volatile) = {}
  /\ Preserved \cap Volatile = {}
  /\ Registers \cap Slots = {}
  /\ Positional \in BOOLEAN
  /\ Positional => Len(GpArgs) = Len(VecArgs)
  /\ "rax" \in Volatile /\ "rflags" \in Volatile /\ "xmm0" \in ArgRegisters
  /\ "rbp" \notin ArgRegisters

\* ABISignature::ArgumentType and ABISignature::ReturnType, Unknown excluded.
ArgumentType == {"Integral", "Floating"}
ReturnType == {"Void", "Integral", "Floating"}

RegisterBank(type) == IF type = "Integral" THEN GpArgs ELSE VecArgs

\* Which register of its bank argument i asks for.
Ordinal(sig, i) ==
  IF Positional THEN i ELSE Cardinality({j \in 1..i : sig[j] = sig[i]})

IsReg(sig, i) == Ordinal(sig, i) <= Len(RegisterBank(sig[i]))
IsStack(sig, i) == ~IsReg(sig, i)
StackOrdinal(sig, i) == Cardinality({j \in 1..i : IsStack(sig, j)})

\* FuncArgInfo::GetArguments()[i - 1]
Argument(sig, i) ==
  IF IsReg(sig, i) THEN RegisterBank(sig[i])[Ordinal(sig, i)]
  ELSE StackSlots[StackOrdinal(sig, i)]

Arguments(sig) == {Argument(sig, i) : i \in DOMAIN sig}

\* GetArgumentIntegralRegisters and GetArgumentFloatingRegisters together
ArgumentRegisters(sig) == Arguments(sig) \cap ArgRegisters

\* FuncArgInfo::GetReturnValues
ReturnRegisters(ret) ==
  CASE ret = "Void" -> {}
    [] ret = "Integral" -> {"rax"}
    [] ret = "Floating" -> {"xmm0"}

ShiftSignature(sig) == <<"Integral">> \o sig

\* The stack slots a signature needs, and whether the model has them all.
StackArguments(sig) == Cardinality({i \in DOMAIN sig : IsStack(sig, i)})
Representable(sig) ==
  \A s \in {sig, ShiftSignature(sig)} : StackArguments(s) <= Len(StackSlots)
=============================================================================
