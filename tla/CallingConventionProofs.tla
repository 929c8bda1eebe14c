----------------------- MODULE CallingConventionProofs -----------------------
(***************************************************************************)
(* What the generators take for granted about the places FuncArgInfo       *)
(* reports: every argument has one, no two share one, and an argument that *)
(* is on the stack stays there when the bound parameter is put in front.   *)
(***************************************************************************)
EXTENDS CallingConvention, FiniteSetTheorems, SequenceTheorems, InductionProofs

-----------------------------------------------------------------------------
(* Places *)

Signature == Seq(ArgumentType)
InBank(sig, i) == {j \in 1..i : sig[j] = sig[i]}
OnStack(sig, i) == {j \in 1..i : IsStack(sig, j)}

\* Part of an interval of naturals is finite and has at most as many members.
LEMMA PartOfInterval ==
  ASSUME NEW n \in Nat, NEW S, S \subseteq 1..n
  PROVE  IsFiniteSet(S) /\ Cardinality(S) \in Nat
<1>1. IsFiniteSet(1..n) /\ S \in SUBSET (1..n)
  BY FS_Interval
<1> QED
  BY <1>1, FS_Subset, FS_CardinalityType

\* Counting up to a later member of the same kind counts at least one more.
LEMMA CountGrows ==
  ASSUME NEW n \in Nat, NEW S, NEW T, S \subseteq T, T \subseteq 1..n,
         NEW x \in T, x \notin S
  PROVE  Cardinality(S) < Cardinality(T)
<1>1. IsFiniteSet(T) /\ Cardinality(T) \in Nat /\ Cardinality(S) \in Nat
  BY PartOfInterval
<1>2. Cardinality(S) <= Cardinality(T) /\ (Cardinality(S) = Cardinality(T) => S = T)
  BY <1>1, FS_Subset
<1> QED
  BY <1>1, <1>2

\* The register or slot an argument asks for is at least the first.
LEMMA OrdinalType ==
  ASSUME NEW sig \in Signature, NEW i \in DOMAIN sig
  PROVE  /\ Ordinal(sig, i) \in Nat \ {0}
         /\ IsStack(sig, i) => StackOrdinal(sig, i) \in 1..StackArguments(sig)
<1> DEFINE n == Len(sig)
<1>0. n \in Nat /\ DOMAIN sig = 1..n /\ i \in 1..n
  BY LenProperties DEF Signature
<1>1. Ordinal(sig, i) \in Nat \ {0}
  <2>1. Cardinality({}) < Cardinality(InBank(sig, i)) /\ Cardinality(InBank(sig, i)) \in Nat
    <3>1. {} \subseteq InBank(sig, i) /\ InBank(sig, i) \subseteq 1..i /\ i \in InBank(sig, i)
      BY <1>0 DEF InBank
    <3> QED
      BY <1>0, <3>1, CountGrows, PartOfInterval
  <2> QED
    BY <1>0, <2>1, FS_EmptySet DEF Ordinal, InBank
<1>2. ASSUME IsStack(sig, i) PROVE StackOrdinal(sig, i) \in 1..StackArguments(sig)
  <2>1. Cardinality({}) < Cardinality(OnStack(sig, i)) /\ Cardinality(OnStack(sig, i)) \in Nat
    <3>1. {} \subseteq OnStack(sig, i) /\ OnStack(sig, i) \subseteq 1..i /\ i \in OnStack(sig, i)
      BY <1>0, <1>2 DEF OnStack
    <3> QED
      BY <1>0, <3>1, CountGrows, PartOfInterval
  <2>2. OnStack(sig, i) \subseteq OnStack(sig, n)
    BY <1>0 DEF OnStack
  <2>3. /\ Cardinality(OnStack(sig, i)) <= Cardinality(OnStack(sig, n))
        /\ Cardinality(OnStack(sig, n)) \in Nat
    <3>1. IsFiniteSet(OnStack(sig, n)) /\ Cardinality(OnStack(sig, n)) \in Nat
      BY <1>0, PartOfInterval DEF OnStack
    <3> QED
      BY <2>2, <3>1, FS_Subset
  <2> QED
    BY <1>0, <2>1, <2>3, FS_EmptySet DEF StackOrdinal, StackArguments, OnStack
<1> QED
  BY <1>1, <1>2

\* FuncArgInfo has a register or a slot for every argument.
THEOREM ArgumentHasAPlace ==
  ASSUME NEW sig \in Signature, StackArguments(sig) <= Len(StackSlots),
         NEW i \in DOMAIN sig
  PROVE  /\ IsReg(sig, i) => Argument(sig, i) \in Range(RegisterBank(sig[i]))
         /\ IsStack(sig, i) => Argument(sig, i) \in Slots
         /\ Argument(sig, i) \in Locations
<1>1. RegisterBank(sig[i]) \in Seq(STRING) /\ Range(RegisterBank(sig[i])) \subseteq ArgRegisters
  BY ConventionAssumption DEF RegisterBank, ArgRegisters
<1>2. ASSUME IsReg(sig, i) PROVE Argument(sig, i) \in Range(RegisterBank(sig[i]))
  <2>1. Ordinal(sig, i) \in DOMAIN RegisterBank(sig[i])
    BY <1>1, <1>2, OrdinalType, LenProperties DEF IsReg
  <2> QED
    BY <1>2, <2>1 DEF Argument, Range
<1>3. ASSUME IsStack(sig, i) PROVE Argument(sig, i) \in Slots
  <2>1. StackOrdinal(sig, i) \in 1..StackArguments(sig)
    BY <1>3, OrdinalType
  <2>2. StackArguments(sig) \in Nat
    BY LenProperties, PartOfInterval DEF StackArguments, Signature
  <2>3. Len(StackSlots) \in Nat /\ DOMAIN StackSlots = 1..Len(StackSlots)
    BY ConventionAssumption, LenProperties
  <2>4. StackOrdinal(sig, i) \in DOMAIN StackSlots
    BY <2>1, <2>2, <2>3
  <2> QED
    BY <1>3, <2>4 DEF Argument, Slots, Range, IsStack
<1> QED
  BY <1>1, <1>2, <1>3 DEF IsStack, Locations, Registers

\* Of two arguments of a kind the later one asks for a later register.
LEMMA OrdinalsGrow ==
  ASSUME NEW sig \in Signature, NEW i \in DOMAIN sig, NEW j \in DOMAIN sig,
         i < j, sig[i] = sig[j]
  PROVE  Ordinal(sig, i) < Ordinal(sig, j)
<1>0. Len(sig) \in Nat /\ DOMAIN sig = 1..Len(sig) /\ i \in 1..Len(sig) /\ j \in 1..Len(sig)
  BY LenProperties DEF Signature
<1>1. Cardinality(InBank(sig, i)) < Cardinality(InBank(sig, j))
  <2>1. InBank(sig, i) \subseteq InBank(sig, j)
    BY <1>0 DEF InBank
  <2>2. InBank(sig, j) \subseteq 1..Len(sig) /\ j \in InBank(sig, j) /\ j \notin InBank(sig, i)
    BY <1>0 DEF InBank
  <2> QED
    BY <1>0, <2>1, <2>2, CountGrows
<1> QED
  BY <1>0, <1>1 DEF Ordinal, InBank

\* No two arguments share a register or a slot.
THEOREM ArgumentPlacesAreDistinct ==
  ASSUME NEW sig \in Signature, StackArguments(sig) <= Len(StackSlots),
         NEW i \in DOMAIN sig, NEW j \in DOMAIN sig, i # j
  PROVE  Argument(sig, i) # Argument(sig, j)
<1> DEFINE n == Len(sig)
<1>0. n \in Nat /\ DOMAIN sig = 1..n /\ i \in 1..n /\ j \in 1..n
  BY LenProperties DEF Signature
<1>1. SUFFICES ASSUME NEW a \in 1..n, NEW b \in 1..n, a < b
               PROVE  Argument(sig, a) # Argument(sig, b)
  BY <1>0
<1>2. a \in DOMAIN sig /\ b \in DOMAIN sig
  BY <1>0
<1>3. CASE IsReg(sig, a) /\ IsReg(sig, b)
  <2>1. CASE sig[a] = sig[b]
    <3>1. Ordinal(sig, a) # Ordinal(sig, b)
      BY <1>1, <1>2, <2>1, OrdinalsGrow, OrdinalType
    <3>2. /\ Ordinal(sig, a) \in DOMAIN RegisterBank(sig[a])
          /\ Ordinal(sig, b) \in DOMAIN RegisterBank(sig[a])
      BY <1>2, <1>3, <2>1, OrdinalType, ConventionAssumption, LenProperties
         DEF IsReg, RegisterBank
    <3>3. IsInjective(RegisterBank(sig[a]))
      BY ConventionAssumption DEF RegisterBank
    <3> QED
      BY <1>3, <2>1, <3>1, <3>2, <3>3 DEF Argument, IsInjective
  <2>2. CASE sig[a] # sig[b]
    <3>1. Range(RegisterBank(sig[a])) \cap Range(RegisterBank(sig[b])) = {}
      <4>1. sig[a] \in ArgumentType /\ sig[b] \in ArgumentType
        BY <1>2, <1>0, ElementOfSeq DEF Signature
      <4> QED
        BY <2>2, <4>1, ConventionAssumption DEF RegisterBank, ArgumentType
    <3> QED
      BY <1>2, <1>3, <3>1, ArgumentHasAPlace
  <2> QED
    BY <2>1, <2>2
<1>4. CASE IsStack(sig, a) /\ IsStack(sig, b)
  <2>1. StackOrdinal(sig, a) < StackOrdinal(sig, b)
    <3>1. OnStack(sig, a) \subseteq OnStack(sig, b)
      BY <1>0, <1>1 DEF OnStack
    <3>2. OnStack(sig, b) \subseteq 1..n /\ b \in OnStack(sig, b) /\ b \notin OnStack(sig, a)
      BY <1>0, <1>1, <1>4 DEF OnStack
    <3>3. Cardinality(OnStack(sig, a)) < Cardinality(OnStack(sig, b))
      BY <1>0, <3>1, <3>2, CountGrows
    <3> QED
      BY <3>3 DEF StackOrdinal, OnStack
  <2>2. /\ StackOrdinal(sig, a) \in 1..StackArguments(sig)
        /\ StackOrdinal(sig, b) \in 1..StackArguments(sig)
    BY <1>2, <1>4, OrdinalType
  <2>3. StackArguments(sig) \in Nat /\ DOMAIN StackSlots = 1..Len(StackSlots)
        /\ Len(StackSlots) \in Nat
    BY <1>0, PartOfInterval, ConventionAssumption, LenProperties DEF StackArguments
  <2>4. StackOrdinal(sig, a) \in DOMAIN StackSlots /\ StackOrdinal(sig, b) \in DOMAIN StackSlots
    BY <2>2, <2>3
  <2>5. IsInjective(StackSlots)
    BY ConventionAssumption
  <2>6. StackOrdinal(sig, a) # StackOrdinal(sig, b)
    BY <2>1, <2>2, <2>3
  <2> QED
    BY <1>4, <2>4, <2>5, <2>6 DEF Argument, IsStack, IsInjective
<1>5. CASE IsReg(sig, a) # IsReg(sig, b)
  <2>1. \A k : Range(RegisterBank(sig[k])) \cap Slots = {}
    BY ConventionAssumption DEF RegisterBank, Registers, ArgRegisters
  <2>2. CASE IsReg(sig, a) /\ IsStack(sig, b)
    BY <1>2, <2>1, <2>2, ArgumentHasAPlace
  <2>3. CASE IsStack(sig, a) /\ IsReg(sig, b)
    BY <1>2, <2>1, <2>3, ArgumentHasAPlace
  <2> QED
    BY <1>5, <2>2, <2>3 DEF IsStack, IsReg
<1> QED
  BY <1>3, <1>4, <1>5 DEF IsStack, IsReg

\* ShiftSignature puts one integer in front.
LEMMA ShiftedSignature ==
  ASSUME NEW sig \in Signature
  PROVE  LET dest == ShiftSignature(sig)
         IN  /\ dest \in Signature /\ Len(dest) = Len(sig) + 1
             /\ Len(sig) \in Nat /\ DOMAIN sig = 1..Len(sig) /\ DOMAIN dest = 1..(Len(sig) + 1)
             /\ dest[1] = "Integral"
             /\ \A j \in 1..Len(sig) : dest[j + 1] = sig[j]
<1> DEFINE dest == ShiftSignature(sig)
<1>1. Len(sig) \in Nat /\ DOMAIN sig = 1..Len(sig)
  BY LenProperties DEF Signature
<1>2. <<"Integral">> \in Seq(ArgumentType) /\ Len(<<"Integral">>) = 1 /\ <<"Integral">>[1] = "Integral"
  BY DEF ArgumentType
<1>3. /\ dest \in Seq(ArgumentType) /\ Len(dest) = 1 + Len(sig)
      /\ \A j \in 1..(1 + Len(sig)) : dest[j] = IF j <= 1 THEN <<"Integral">>[j] ELSE sig[j - 1]
  BY <1>2, ConcatProperties DEF ShiftSignature, Signature
<1>4. DOMAIN dest = 1..(1 + Len(sig))
  BY <1>3, LenProperties
<1> HIDE DEF dest
<1>5. dest[1] = "Integral" /\ \A j \in 1..Len(sig) : dest[j + 1] = sig[j]
  BY <1>1, <1>2, <1>3
<1>6. Len(dest) = Len(sig) + 1 /\ 1 + Len(sig) = Len(sig) + 1
  BY <1>1, <1>3
<1> QED
  BY <1>1, <1>3, <1>4, <1>5, <1>6 DEF dest, Signature

\* Behind the integer every argument asks for the same register or a later one.
LEMMA OrdinalsShiftUp ==
  ASSUME NEW sig \in Signature, NEW i \in DOMAIN sig
  PROVE  /\ Ordinal(sig, i) \in Nat /\ Ordinal(ShiftSignature(sig), i + 1) \in Nat
         /\ Ordinal(sig, i) <= Ordinal(ShiftSignature(sig), i + 1)
<1> DEFINE dest == ShiftSignature(sig)
           A == InBank(sig, i)
           B == {j + 1 : j \in A}
           C == InBank(dest, i + 1)
<1>0. /\ Len(sig) \in Nat /\ i \in 1..Len(sig) /\ DOMAIN sig = 1..Len(sig)
      /\ \A j \in 1..Len(sig) : dest[j + 1] = sig[j]
  BY ShiftedSignature
<1> HIDE DEF dest
<1>1. Cardinality(A) <= Cardinality(C) /\ Cardinality(A) \in Nat /\ Cardinality(C) \in Nat
  <2>1. IsFiniteSet(A) /\ Cardinality(A) \in Nat /\ IsFiniteSet(C) /\ Cardinality(C) \in Nat
    BY <1>0, PartOfInterval DEF InBank
  <2>2. [j \in A |-> j + 1] \in Bijection(A, B)
    BY <1>0 DEF InBank, Bijection, Injection, Surjection, IsInjective
  <2>3. Cardinality(B) = Cardinality(A)
    BY <2>1, <2>2, FS_Bijection DEF ExistsBijection
  <2>4. B \subseteq C
    BY <1>0 DEF InBank
  <2> QED
    BY <2>1, <2>3, <2>4, FS_Subset
<1> QED
  BY <1>0, <1>1 DEF Ordinal, InBank, dest

\* ShiftSignature moves registers to the stack, never the stack to registers: the
\* backward walk has nothing to emit for the case it skips.
THEOREM StackStaysOnStack ==
  ASSUME NEW sig \in Signature, NEW i \in DOMAIN sig, IsStack(sig, i)
  PROVE  IsStack(ShiftSignature(sig), i + 1)
<1>1. ShiftSignature(sig)[i + 1] = sig[i]
  BY ShiftedSignature
<1>2. Len(RegisterBank(sig[i])) \in Nat
  BY ConventionAssumption, LenProperties DEF RegisterBank
<1> QED
  BY <1>1, <1>2, OrdinalsShiftUp DEF IsStack, IsReg

\* Moving the last argument first overwrites no argument that has yet to be moved.
LEMMA LaterPlacesDiffer ==
  ASSUME NEW sig \in Signature, NEW i \in DOMAIN sig, NEW j \in DOMAIN sig, i < j,
         IsReg(sig, i), IsReg(ShiftSignature(sig), j + 1)
  PROVE  Argument(sig, i) # Argument(ShiftSignature(sig), j + 1)
<1> DEFINE dest == ShiftSignature(sig)
<1>0. /\ dest[j + 1] = sig[j] /\ dest \in Signature /\ j + 1 \in DOMAIN dest
      /\ sig[i] \in ArgumentType /\ sig[j] \in ArgumentType
  <2>1. dest[j + 1] = sig[j] /\ dest \in Signature /\ j + 1 \in DOMAIN dest
    BY ShiftedSignature
  <2>2. sig[i] \in ArgumentType /\ sig[j] \in ArgumentType
    BY ShiftedSignature, ElementOfSeq DEF Signature
  <2> QED
    BY <2>1, <2>2
<1>1. /\ Ordinal(sig, i) \in Nat \ {0} /\ Ordinal(dest, j + 1) \in Nat \ {0}
      /\ Ordinal(sig, j) \in Nat /\ Ordinal(sig, j) <= Ordinal(dest, j + 1)
  BY <1>0, OrdinalType, OrdinalsShiftUp
<1> HIDE DEF dest
<1>2. \A type : RegisterBank(type) \in Seq(STRING) /\ IsInjective(RegisterBank(type))
  BY ConventionAssumption DEF RegisterBank
<1>3. /\ Ordinal(sig, i) \in DOMAIN RegisterBank(sig[i])
      /\ Ordinal(dest, j + 1) \in DOMAIN RegisterBank(sig[j])
  BY <1>0, <1>1, <1>2, LenProperties DEF IsReg, dest
<1>4. /\ Argument(sig, i) = RegisterBank(sig[i])[Ordinal(sig, i)]
      /\ Argument(dest, j + 1) = RegisterBank(sig[j])[Ordinal(dest, j + 1)]
  BY <1>0 DEF Argument, dest
<1>5. CASE sig[i] = sig[j]
  <2>1. Ordinal(sig, i) # Ordinal(dest, j + 1)
    BY <1>1, <1>5, OrdinalsGrow
  <2> QED
    BY <1>2, <1>3, <1>4, <1>5, <2>1 DEF IsInjective, dest
<1>6. CASE sig[i] # sig[j]
  <2>1. Range(RegisterBank(sig[i])) \cap Range(RegisterBank(sig[j])) = {}
    BY <1>0, <1>6, ConventionAssumption DEF RegisterBank, ArgumentType
  <2>2. /\ Argument(sig, i) \in Range(RegisterBank(sig[i]))
        /\ Argument(dest, j + 1) \in Range(RegisterBank(sig[j]))
    BY <1>3, <1>4 DEF Range
  <2> QED
    BY <2>1, <2>2 DEF dest
<1> QED
  BY <1>5, <1>6
=============================================================================
