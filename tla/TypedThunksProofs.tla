-------------------------- MODULE TypedThunksProofs --------------------------
(***************************************************************************)
(* From C++ types to bytes: the lowering of Types.hpp places arguments and *)
(* results where the compilers of caller and callee do, and the accessors  *)
(* of ArgumentContext read them back, for every function type it accepts   *)
(* but those that return a class ReturnedByValue misjudges.                *)
(*                                                                         *)
(* And the two shifts of default binding thunks: for every signature their *)
(* targets find the bound parameter and every argument.                    *)
(***************************************************************************)
EXTENDS TypedThunks, CallingConventionProofs

-----------------------------------------------------------------------------
(* ABISignature *)

BuilderInv ==
  /\ args \in [0..(MaxFuncArgs - 1) -> ArgumentType \cup {"Unknown"}]
  /\ largest \in -1..(MaxFuncArgs - 1)
  /\ \A i \in 0..(MaxFuncArgs - 1) : i > largest => args[i] = "Unknown"

\* An empty builder, and every operation on it.
LEMMA BuilderInit == TypedInit => BuilderInv
BY IndicesAssumption DEF TypedInit, Init, BuilderInv

\* No setter leaves a slot behind the largest assigned one.
LEMMA BuilderNext == BuilderInv /\ [TypedNext]_allVars => BuilderInv'
<1> SUFFICES ASSUME BuilderInv, [TypedNext]_allVars PROVE BuilderInv'
  OBVIOUS
<1>1. ASSUME NEW i \in Indices, NEW type \in ArgumentType \cup {"Unknown"},
             SetArgumentSlot(i, type)
      PROVE  BuilderInv'
  <2>1. i \in 0..(MaxFuncArgs - 1) /\ MaxFuncArgs \in Nat \ {0}
    BY IndicesAssumption
  <2>2. args' = [args EXCEPT ![i] = type] /\ largest' = IF i > largest THEN i ELSE largest
    BY <1>1 DEF SetArgumentSlot
  <2> QED
    BY <2>1, <2>2 DEF BuilderInv
<1>2. CASE UNCHANGED <<args, largest>>
  BY <1>2 DEF BuilderInv
<1>3. Next => \/ UNCHANGED <<args, largest>>
              \/ \E i \in Indices, type \in ArgumentType \cup {"Unknown"} : SetArgumentSlot(i, type)
  BY DEF Next, SetReturnSlot, GenerateBindingThunk, GenerateRestoreThunk,
     InternalGenerateBindingThunk, Generate, CallThunk
<1>4. ASSUME NEW f, NEW flags,
             TypedBindingThunk(f, flags) \/ TypedArgumentThunk(f, flags) \/ TypedRestoreThunk(f, flags)
      PROVE  UNCHANGED <<args, largest>>
  BY <1>4 DEF TypedBindingThunk, TypedArgumentThunk, TypedRestoreThunk, TypedGenerate, Generate
<1>5. CallArgumentThunk \/ CallbackReturns \/ (\E filler : SetReturnValue(filler))
        => UNCHANGED <<args, largest>>
  BY DEF CallArgumentThunk, CallbackReturns, SetReturnValue, vars
<1>6. UNCHANGED allVars => UNCHANGED <<args, largest>>
  BY DEF allVars, vars
<1> QED
  BY <1>1, <1>2, <1>3, <1>4, <1>5, <1>6 DEF TypedNext

\* Finalize keeps every slot that was assigned, whatever the order of assignments and
\* clearings, for any number of slots.
THEOREM FinalizeKeepsEverySlot == TypedSpec => []FinalizeDropsNothing
<1>1. BuilderInv => FinalizeDropsNothing
  <2> SUFFICES ASSUME BuilderInv, FinalizeError = "none"
               PROVE  {i \in DOMAIN args : args[i] # "Unknown"} = {i - 1 : i \in DOMAIN Finalized}
    BY DEF FinalizeDropsNothing
  <2>1. MaxFuncArgs \in Nat \ {0} /\ largest \in Int /\ largest >= -1 /\ largest < MaxFuncArgs
        /\ DOMAIN args = 0..(MaxFuncArgs - 1)
    BY IndicesAssumption DEF BuilderInv
  <2>2. \A i \in 0..largest : args[i] # "Unknown"
    BY DEF FinalizeError
  <2>3. \A i \in DOMAIN args : args[i] # "Unknown" <=> i \in 0..largest
    BY <2>1, <2>2 DEF BuilderInv
  <2>4. {i \in DOMAIN args : args[i] # "Unknown"} = 0..largest
    BY <2>1, <2>3
  <2>5. DOMAIN Finalized = 1..(largest + 1)
    BY DEF Finalized
  <2>6. {i - 1 : i \in 1..(largest + 1)} = 0..largest
    <3>1. \A k \in 0..largest : k + 1 \in 1..(largest + 1) /\ k = (k + 1) - 1
      BY <2>1
    <3>2. \A i \in 1..(largest + 1) : i - 1 \in 0..largest
      BY <2>1
    <3> QED
      BY <3>1, <3>2
  <2> QED
    BY <2>4, <2>5, <2>6
<1> QED
  BY <1>1, BuilderInit, BuilderNext, PTL DEF TypedSpec

-----------------------------------------------------------------------------
(* Types *)

\* What the assumptions say of one function type that compiles.
LEMMA FunctionTypeFacts ==
  ASSUME NEW f \in FunctionTypes
  PROVE  /\ f.params \in Seq(CppType) /\ DOMAIN f.params = 1..Len(f.params)
         /\ Len(f.params) \in Nat /\ f.ret \in CppType
         /\ \A i \in DOMAIN f.params :
              LET type == f.params[i]
              IN  /\ type \in CppType /\ type.form # "void"
                  /\ type.form # "class" => type.has = {}
                  /\ type.form = "reference" => type.size = 8
                  /\ type.form = "floating" => type.size \in {4, 8}
                  /\ type.form = "scalar" => type.size \in {1, 2, 4, 8, 12, 16, 24}
         /\ f.ret.form # "class" => f.ret.has = {}
         /\ f.ret.form = "reference" => f.ret.size = 8
         /\ f.ret.form = "floating" => f.ret.size \in {4, 8}
         /\ f.ret.form = "scalar" => f.ret.size \in {1, 2, 4, 8, 12, 16, 24}
<1>1. f \in [ret : CppType, params : Seq(CppType)]
  BY FunctionTypeAssumption
<1>2. f.params \in Seq(CppType) /\ f.ret \in CppType
  BY <1>1
<1>3. DOMAIN f.params = 1..Len(f.params) /\ Len(f.params) \in Nat
  BY <1>2, LenProperties
<1>4. \A i \in DOMAIN f.params : f.params[i] \in Range(f.params) /\ f.params[i] \in CppType
  BY <1>2, <1>3, ElementOfSeq DEF Range
<1> QED
  BY <1>2, <1>3, <1>4, FunctionTypeAssumption

\* The traits and the compilers, each by its own rule: a type ReturnedByValue accepts is
\* returned in a register unless it is misjudged, and never if it is.
LEMMA AcceptedReturn ==
  ASSUME NEW f \in FunctionTypes, Compiles(f)
  PROVE  ReturnedInPlace(f.ret) <=> ~Misjudged(f.ret)
<1>1. f.ret.form = "void" \/ ReturnedByValue(f.ret)
  BY DEF Compiles, AsmJitCompatRet
<1>2. /\ f.ret.form \in Forms /\ f.ret.size \in 0..32 /\ f.ret.has \subseteq Features
      /\ f.ret.form # "class" => f.ret.has = {}
  BY FunctionTypeFacts DEF CppType
<1>3. IsSizeOfTPowerOfTwo(f.ret) => f.ret.size \in {1, 2, 4, 8}
  BY <1>2 DEF IsSizeOfTPowerOfTwo
<1>4. CASE f.ret.form # "class"
  <2>1. f.ret.has = {} /\ ~Misjudged(f.ret)
    BY <1>2, <1>4 DEF Misjudged
  <2>2. f.ret.form # "void" => f.ret.size \in {1, 2, 4, 8}
    BY <1>1, <1>2, <1>4, FunctionTypeFacts DEF ReturnedByValue, ScalarOrReference, ClassOrUnion
  <2> QED
    BY <2>1, <2>2 DEF ReturnedInPlace
<1>5. CASE f.ret.form = "class"
  <2>1. /\ f.ret.size \in {1, 2, 4, 8}
        /\ TriviallyCopyable(f.ret) /\ IsAggregate(f.ret)
    BY <1>1, <1>3, <1>5 DEF ReturnedByValue, ScalarOrReference, IsTrivial
  <2>2. f.ret.has \subseteq {"base class", "deleted assignment"}
    BY <1>2, <2>1 DEF TriviallyCopyable, IsAggregate, Features
  <2>3. f.ret.has = {} <=> ~Misjudged(f.ret)
    BY <2>2 DEF Misjudged
  <2> QED
    BY <1>5, <2>1, <2>3 DEF ReturnedInPlace
<1> QED
  BY <1>4, <1>5

\* For every function type the traits accept, the slots of the ABISignature are those
\* the compilers use, behind a hidden pointer exactly if the class that is returned is
\* misjudged; otherwise the return slot names the register the caller looks in.
THEOREM LoweringAgrees ==
  ASSUME NEW f \in FunctionTypes, Compiles(f)
  PROVE  /\ NativeSignature(f) =
              IF Misjudged(f.ret) THEN <<"Integral">> \o BuildABISignature(f)
              ELSE BuildABISignature(f)
         /\ Hidden(f) = IF Misjudged(f.ret) THEN <<"Integral">> ELSE <<>>
         /\ f.ret.form # "void" /\ ~Misjudged(f.ret) =>
              /\ ReturnedInPlace(f.ret)
              /\ ReturnRegisters(ReturnSlotOf(f.ret)) = ReturnPlaces(f)
<1>1. Hidden(f) = IF Misjudged(f.ret) THEN <<"Integral">> ELSE <<>>
  BY AcceptedReturn DEF Hidden
<1>2. \A i \in DOMAIN f.params :
        ArgumentSlotOf(f.params[i]) =
          IF f.params[i].form = "floating" THEN "Floating" ELSE "Integral"
  BY DEF ArgumentSlotOf, AsmJitCompatArgV, AsmJitCompatArg, AsmJitCompatArgNotSpecialized,
     ScalarOrReference
<1>3. NativeSignature(f) = Hidden(f) \o BuildABISignature(f)
  <2>1. BuildABISignature(f) = [i \in DOMAIN f.params |->
                     IF f.params[i].form = "floating" THEN "Floating" ELSE "Integral"]
    BY <1>2 DEF BuildABISignature
  <2> QED
    BY <2>1 DEF NativeSignature
<1>4. <<>> \o BuildABISignature(f) = BuildABISignature(f)
  <2>1. BuildABISignature(f) \in [1..Len(f.params) -> ArgumentType]
    BY FunctionTypeFacts DEF BuildABISignature, ArgumentSlotOf, ArgumentType
  <2>2. BuildABISignature(f) \in Seq(ArgumentType)
    BY <2>1, FunctionTypeFacts, SeqDef
  <2> QED
    BY <2>2
<1>5. ReturnRegisters(ReturnSlotOf(f.ret)) = ReturnPlaces(f) \/ f.ret.form = "void"
  BY DEF ReturnSlotOf, ReturnPlaces
<1> QED
  BY <1>1, <1>3, <1>4, <1>5, AcceptedReturn

-----------------------------------------------------------------------------
(* Bytes *)

Byte == {"arg", "pointer", "result", "garbage", "zero"} \X Nat \X Nat

\* A function on 1..n is a sequence of length n.
LEMMA TupleIsSequence ==
  ASSUME NEW S, NEW n \in Nat, NEW p \in [1..n -> S]
  PROVE  p \in Seq(S) /\ Len(p) = n
BY SeqDef, LenProperties

\* The lowest bytes of a padded slot are the value it was filled with.
LEMMA PadRead ==
  ASSUME NEW bytes \in Seq(Byte), Len(bytes) <= 8, NEW filler \in Byte
  PROVE  /\ Pad(bytes, filler) \in Seq(Byte) /\ Len(Pad(bytes, filler)) = 8
         /\ SubSeq(Pad(bytes, filler), 1, Len(bytes)) = bytes
<1> DEFINE p == Pad(bytes, filler)
           q == SubSeq(p, 1, Len(bytes))
<1>1. Len(bytes) \in Nat /\ \A b \in 1..Len(bytes) : bytes[b] \in Byte
  BY LenProperties, ElementOfSeq
<1>2. p \in [1..8 -> Byte] /\ \A b \in 1..8 : p[b] = IF b <= Len(bytes) THEN bytes[b] ELSE filler
  BY <1>1 DEF Pad
<1> HIDE DEF p
<1>3. p \in Seq(Byte) /\ Len(p) = 8
  <2>1. 8 \in Nat /\ p \in [1..8 -> Byte]
    BY <1>2
  <2> QED
    BY <2>1, TupleIsSequence
<1>4. /\ q \in Seq(Byte) /\ Len(q) = Len(bytes)
      /\ \A b \in 1..Len(bytes) : q[b] = p[b]
  <2>1. \A b \in 1..Len(bytes) : p[b] \in Byte
    BY <1>1, <1>2
  <2>2. /\ q \in Seq(Byte)
        /\ Len(q) = IF 1 <= Len(bytes) THEN Len(bytes) - 1 + 1 ELSE 0
        /\ \A b \in 1..(Len(bytes) - 1 + 1) : q[b] = p[1 + b - 1]
    BY <1>1, <1>3, <2>1, SubSeqProperties
  <2> QED
    BY <1>1, <2>2
<1> HIDE DEF q
<1>5. q = bytes
  <2>1. \A b \in 1..Len(bytes) : q[b] = bytes[b]
    BY <1>1, <1>2, <1>4
  <2> QED
    BY <1>4, <2>1, SeqEqual
<1> QED
  BY <1>3, <1>5 DEF p, q

\* A slot of zeros reads as zeros.
LEMMA ZeroRead ==
  ASSUME NEW n \in 0..8
  PROVE  SubSeq(Pad(<<>>, ZeroByte), 1, n) = [b \in 1..n |-> ZeroByte]
<1> DEFINE z == [b \in 1..n |-> ZeroByte]
<1>1. z \in [1..n -> Byte] /\ ZeroByte \in Byte
  BY DEF ZeroByte, Byte
<1>2. z \in Seq(Byte) /\ Len(z) = n
  BY <1>1, SeqDef, LenProperties
<1>3. Pad(<<>>, ZeroByte) = Pad(z, ZeroByte)
  BY <1>2 DEF Pad
<1>4. Len(z) <= 8
  BY <1>2
<1> HIDE DEF z
<1>5. SubSeq(Pad(z, ZeroByte), 1, n) = z
  BY <1>1, <1>2, <1>4, PadRead
<1> QED
  BY <1>3, <1>5 DEF z

\* Values and addresses are bytes.
LEMMA ByteFacts ==
  ASSUME NEW i \in Nat, NEW type, type.size \in Nat
  PROVE  /\ ValueOf(i, type) \in Seq(Byte) /\ Len(ValueOf(i, type)) = type.size
         /\ ResultOf(type) \in Seq(Byte) /\ Len(ResultOf(type)) = type.size
         /\ Garbage \in Byte /\ ZeroByte \in Byte
<1>1. ValueOf(i, type) \in [1..type.size -> Byte] /\ ResultOf(type) \in [1..type.size -> Byte]
  BY DEF ValueOf, ResultOf, Byte
<1>2. Garbage \in Byte /\ ZeroByte \in Byte
  BY DEF Garbage, ZeroByte, Byte
<1> QED
  BY <1>1, <1>2, SeqDef, LenProperties

\* Different arguments have different addresses, and an address is no value that was
\* passed in place.
LEMMA AddressFacts ==
  ASSUME NEW i, NEW j, AddressOf(i) = AddressOf(j)
  PROVE  i = j
<1>1. AddressOf(i)[1] = <<"pointer", i, 1>> /\ AddressOf(j)[1] = <<"pointer", j, 1>>
  BY DEF AddressOf
<1> QED
  BY <1>1

\* A place names one argument, so what is found there is what was passed as that one.
LEMMA BytesPassed ==
  ASSUME NEW f \in FunctionTypes, Compiles(f), ~Misjudged(f.ret), NEW i \in DOMAIN f.params
  PROVE  Bytes(f, <<"in", 1, Argument(BuildABISignature(f), i)>>) = Passed(i, f.params[i])
<1> DEFINE value == <<"in", 1, Argument(BuildABISignature(f), i)>>
<1>1. DOMAIN f.params = 1..Len(f.params) /\ Len(f.params) \in Nat
  BY FunctionTypeFacts
<1>2. /\ BuildABISignature(f) \in Signature
      /\ DOMAIN BuildABISignature(f) = DOMAIN f.params
      /\ StackArguments(BuildABISignature(f)) <= Len(StackSlots)
  <2>1. BuildABISignature(f) \in [1..Len(f.params) -> ArgumentType]
    BY <1>1 DEF BuildABISignature, ArgumentSlotOf, ArgumentType
  <2> QED
    BY <1>1, <2>1, SeqDef, PlacesAssumption DEF Signature, Representable
<1>3. \A j \in DOMAIN f.params : Place(f, j) = Argument(BuildABISignature(f), j)
  <2> SUFFICES ASSUME NEW j \in DOMAIN f.params
               PROVE  Place(f, j) = Argument(BuildABISignature(f), j)
    OBVIOUS
  <2>1. Len(Hidden(f)) = 0 /\ NativeSignature(f) = BuildABISignature(f)
    BY LoweringAgrees
  <2>2. 0 + j = j
    BY <1>1
  <2> QED
    BY <2>1, <2>2 DEF Place
<1>4. \A j \in DOMAIN f.params : value = <<"in", 1, Place(f, j)>> <=> j = i
  BY <1>2, <1>3, ArgumentPlacesAreDistinct
<1> HIDE DEF value
<1>5. (CHOOSE j \in DOMAIN f.params : value = <<"in", 1, Place(f, j)>>) = i
  BY <1>4
<1> QED
  BY <1>4, <1>5 DEF Bytes, value

-----------------------------------------------------------------------------
(* The accessors *)

\* The type of one parameter.
LEMMA ParameterFacts ==
  ASSUME NEW f \in FunctionTypes, NEW i \in DOMAIN f.params, NEW given, given = f.params[i]
  PROVE  /\ i \in Nat /\ given.form \in Forms \ {"void"} /\ given.size \in Nat
         /\ given.form # "class" => given.has = {}
         /\ given.form = "reference" => given.size = 8
         /\ given.form = "floating" => given.size \in {4, 8}
         /\ given.form = "scalar" => given.size \in {1, 2, 4, 8, 12, 16, 24}
<1>1. /\ given \in CppType /\ given.form # "void"
      /\ given.form # "class" => given.has = {}
      /\ given.form = "reference" => given.size = 8
      /\ given.form = "floating" => given.size \in {4, 8}
      /\ given.form = "scalar" => given.size \in {1, 2, 4, 8, 12, 16, 24}
  BY FunctionTypeFacts
<1>2. i \in Nat
  <2> DEFINE n == Len(f.params)
  <2>1. n \in Nat /\ i \in 1..n
    BY FunctionTypeFacts
  <2> HIDE DEF n
  <2> QED
    BY <2>1
<1>3. given.form \in Forms /\ given.size \in 0..32
  BY <1>1 DEF CppType
<1>4. given.form \in Forms \ {"void"}
  BY <1>1, <1>3
<1>5. given.size \in Nat
  BY <1>3
<1> QED
  BY <1>1, <1>2, <1>4, <1>5

\* What a callback reads of an argument that travels in its slot.
LEMMA ReadsValue ==
  ASSUME NEW f \in FunctionTypes, NEW i \in DOMAIN f.params,
         NEW type, type = AsPointer(f.params[i]),
         AsmJitCompatArgV(type).form # "reference", CanReadPackedValue(type)
  PROVE  ReadPackedValue(type, Passed(i, f.params[i])) = ValueOf(i, type)
<1> DEFINE given == f.params[i]
<1>1. /\ i \in Nat /\ given.form \in Forms \ {"void"} /\ given.size \in Nat
      /\ given.form # "class" => given.has = {}
      /\ given.form = "reference" => given.size = 8
      /\ given.form = "floating" => given.size \in {4, 8}
      /\ given.form = "scalar" => given.size \in {1, 2, 4, 8, 12, 16, 24}
  BY ParameterFacts
<1>2. type.size = given.size /\ type.size <= 8
  BY <1>1 DEF AsPointer, Pointer, CanReadPackedValue
<1>3. PassedInPlace(given)
  <2>1. CASE given.form # "class"
    <3>1. TriviallyCopyable(given)
      BY <1>1, <2>1 DEF TriviallyCopyable
    <3> QED
      BY <1>1, <1>2, <2>1, <3>1 DEF PassedInPlace, Forms
  <2>2. CASE given.form = "class"
    <3>1. type = given /\ TriviallyCopyable(given)
      BY <2>2 DEF AsPointer, CanReadPackedValue
    <3>2. IsSizeOfTPowerOfTwo(given)
      BY <2>2, <3>1 DEF AsmJitCompatArgV, AsmJitCompatArg, AsmJitCompatArgNotSpecialized,
         ScalarOrReference, ClassOrUnionValueActuallyPassedByValue
    <3>3. given.size \in {1, 2, 4, 8}
      BY <1>1, <3>2 DEF IsSizeOfTPowerOfTwo
    <3> QED
      BY <3>1, <3>3 DEF PassedInPlace
  <2> QED
    BY <2>1, <2>2
<1>4. Passed(i, given) = Pad(ValueOf(i, given), Garbage) /\ ValueOf(i, given) = ValueOf(i, type)
  BY <1>2, <1>3 DEF Passed, ValueOf
<1> HIDE DEF given
<1>5. SubSeq(Pad(ValueOf(i, given), Garbage), 1, given.size) = ValueOf(i, given)
  BY <1>1, <1>2, ByteFacts, PadRead
<1> QED
  BY <1>2, <1>4, <1>5 DEF ReadPackedValue, given

\* A class that does not fit a slot is passed as the address of a copy.
LEMMA ReadsCopy ==
  ASSUME NEW f \in FunctionTypes, NEW i \in DOMAIN f.params,
         AsmJitCompatArgV(AsPointer(f.params[i])).form = "reference"
  PROVE  Passed(i, f.params[i]) = AddressOf(i) /\ AsPointer(f.params[i]) = f.params[i]
<1> DEFINE given == f.params[i]
<1>1. given.form \in Forms \ {"void"} /\ given.size \in Nat
  BY ParameterFacts
<1>2. given.form \notin {"reference", "scalar", "floating"}
  BY DEF AsPointer, Pointer, AsmJitCompatArgV, AsmJitCompatArg, AsmJitCompatArgNotSpecialized,
     ScalarOrReference
<1>3. AsPointer(given) = given /\ ClassOrUnion(given)
  BY <1>1, <1>2 DEF AsPointer, ClassOrUnion, Forms
<1>4. ~IsSizeOfTPowerOfTwo(given)
  BY <1>2, <1>3 DEF AsmJitCompatArgV, AsmJitCompatArg, AsmJitCompatArgNotSpecialized,
     ScalarOrReference, ClassOrUnionValueActuallyPassedByValue
<1>5. given.size \notin {1, 2, 4, 8}
  BY <1>4 DEF IsSizeOfTPowerOfTwo
<1> QED
  BY <1>3, <1>5 DEF Passed, PassedInPlace

-----------------------------------------------------------------------------
(* The call of an argument thunk *)

\* The slots a thunk of type f finds where its ABISignature has them.
FoundBy(f) == [i \in DOMAIN f.params |->
                 Bytes(f, <<"in", 1, Argument(BuildABISignature(f), i)>>)]
IsArgumentThunk == fn # NoFunction /\ thunk.generator \in {"argument", "argument with registers"}
IsTypedThunk == fn # NoFunction /\ thunk.generator # "ABISignatureArgumentIndexOutOfBounds"

\* A thunk is generated once, and its signature is the one of its function type.
GeneratedFor ==
  /\ fn # NoFunction => thunk # NoThunk
  /\ IsTypedThunk => /\ fn \in FunctionTypes /\ Compiles(fn)
                     /\ thunk.sig = BuildABISignature(fn)
                     /\ thunk.ret = ReturnSlotOf(fn.ret)

\* A callback's context holds the slots the thunk found, and zero or the result.
ContextHolds ==
  context # NoContext =>
    /\ IsArgumentThunk
    /\ context = [data |-> FoundBy(fn), ret |-> context.ret]
    /\ \/ context.ret = Pad(<<>>, ZeroByte)
       \/ /\ fn.ret.form # "void"
          /\ \E filler \in {ZeroByte, Garbage} : context.ret = Pad(ResultOf(fn.ret), filler)

ReceivedFromContext ==
  received # Nothing =>
    /\ context # NoContext
    /\ ~Misjudged(fn.ret) => received = SubSeq(context.ret, 1, fn.ret.size)

CallInv == GeneratedFor /\ ContextHolds /\ ReceivedFromContext

\* Nothing is generated before the first step.
LEMMA CallInit == TypedInit => CallInv
BY DEF TypedInit, CallInv, GeneratedFor, ContextHolds, ReceivedFromContext,
   IsArgumentThunk, IsTypedThunk

\* Generating a thunk.
LEMMA TypedGenerateStep ==
  ASSUME CallInv, NEW f \in FunctionTypes, NEW generator, generator # "none",
         TypedGenerate(f, generator)
  PROVE  CallInv'
<1>1. thunk = NoThunk /\ fn = NoFunction /\ context = NoContext /\ received = Nothing
  BY DEF TypedGenerate, Generate, Building, CallInv, GeneratedFor, ContextHolds,
     ReceivedFromContext, IsArgumentThunk, IsTypedThunk
<1>2. fn' = f /\ context' = NoContext /\ received' = Nothing /\ Compiles(f)
  BY <1>1 DEF TypedGenerate
<1>3. \/ thunk' = [generator |-> "ABISignatureArgumentIndexOutOfBounds", sig |-> <<>>, ret |-> "Void"]
      \/ thunk' = [generator |-> generator, sig |-> BuildABISignature(f), ret |-> ReturnSlotOf(f.ret)]
  BY DEF TypedGenerate, Generate
<1>4. thunk'.generator # "none" /\ thunk' # NoThunk
  BY <1>3 DEF NoThunk
<1>5. IsTypedThunk' => thunk'.sig = BuildABISignature(f) /\ thunk'.ret = ReturnSlotOf(f.ret)
  <2>1. CASE thunk' = [generator |-> "ABISignatureArgumentIndexOutOfBounds",
                       sig |-> <<>>, ret |-> "Void"]
    <3>1. thunk'.generator = "ABISignatureArgumentIndexOutOfBounds"
      BY <2>1
    <3> QED
      BY <3>1 DEF IsTypedThunk
  <2>2. CASE thunk' = [generator |-> generator, sig |-> BuildABISignature(f),
                       ret |-> ReturnSlotOf(f.ret)]
    <3>1. thunk'.sig = BuildABISignature(f) /\ thunk'.ret = ReturnSlotOf(f.ret)
      BY <2>2
    <3> QED
      BY <3>1
  <2> QED
    BY <1>3, <2>1, <2>2
<1> QED
  BY <1>2, <1>4, <1>5 DEF CallInv, GeneratedFor, ContextHolds, ReceivedFromContext, IsTypedThunk

\* A step of the untyped interface leaves a typed thunk alone.
LEMMA UntypedStep ==
  ASSUME CallInv, Next, UNCHANGED typedVars
  PROVE  CallInv'
<1>1. fn' = fn /\ context' = context /\ received' = received
  BY DEF typedVars
<1>2. CASE fn = NoFunction
  BY <1>1, <1>2 DEF CallInv, GeneratedFor, ContextHolds, ReceivedFromContext,
     IsArgumentThunk, IsTypedThunk
<1>3. CASE fn # NoFunction
  <2>1. thunk # NoThunk
    BY <1>3 DEF CallInv, GeneratedFor
  <2>2. thunk' = thunk
    BY <2>1 DEF Next, SetArgumentSlot, SetReturnSlot, GenerateBindingThunk, GenerateRestoreThunk,
       InternalGenerateBindingThunk, Generate, CallThunk, Building
  <2> QED
    BY <1>1, <2>2 DEF CallInv, GeneratedFor, ContextHolds, ReceivedFromContext,
       IsArgumentThunk, IsTypedThunk
<1> QED
  BY <1>2, <1>3

\* The thunk writes the slots its caller filled to the context.
LEMMA CallArgumentThunkStep ==
  ASSUME CallInv, CallArgumentThunk
  PROVE  CallInv'
<1>1. /\ thunk' = thunk /\ fn' = fn /\ received' = received
      /\ context = NoContext
      /\ context' = [data |-> [i \in DOMAIN thunk.sig |->
                                 Bytes(fn, <<"in", 1, Argument(thunk.sig, i)>>)],
                     ret |-> Pad(<<>>, ZeroByte)]
  BY DEF CallArgumentThunk, vars
<1>2. /\ IsArgumentThunk /\ fn \in FunctionTypes /\ Compiles(fn)
      /\ thunk.sig = BuildABISignature(fn)
  BY DEF CallArgumentThunk, IsArgumentThunk, CallInv, GeneratedFor, IsTypedThunk
<1>3. received = Nothing
  BY <1>1 DEF CallInv, ReceivedFromContext
<1>4. [i \in DOMAIN thunk.sig |-> Bytes(fn, <<"in", 1, Argument(thunk.sig, i)>>)] = FoundBy(fn)
  <2>1. DOMAIN thunk.sig = DOMAIN fn.params
    BY <1>2 DEF BuildABISignature
  <2> QED
    BY <1>2, <2>1 DEF FoundBy
<1>5. context' = [data |-> FoundBy(fn), ret |-> Pad(<<>>, ZeroByte)]
  BY <1>1, <1>4
<1>6. GeneratedFor'
  BY <1>1 DEF CallInv, GeneratedFor, IsArgumentThunk, IsTypedThunk
<1>7. ContextHolds'
  <2>1. IsArgumentThunk'
    BY <1>1, <1>2 DEF IsArgumentThunk
  <2>2. FoundBy(fn)' = FoundBy(fn)
    BY <1>1
  <2>3. /\ context' = [data |-> FoundBy(fn)', ret |-> context'.ret]
        /\ context'.ret = Pad(<<>>, ZeroByte)
    BY <1>5, <2>2
  <2> QED
    BY <2>1, <2>3 DEF ContextHolds
<1>8. ReceivedFromContext'
  BY <1>1, <1>3 DEF ReceivedFromContext
<1> QED
  BY <1>6, <1>7, <1>8 DEF CallInv

\* A callback, or the restore thunk it calls, stores a return value.
LEMMA SetReturnValueStep ==
  ASSUME CallInv, NEW filler \in {ZeroByte, Garbage}, SetReturnValue(filler)
  PROVE  CallInv'
<1> DEFINE slot == Pad(ResultOf(fn.ret), filler)
<1>1. /\ thunk' = thunk /\ fn' = fn /\ received' = received /\ received = Nothing
      /\ context # NoContext /\ fn.ret.form # "void"
      /\ context' = [context EXCEPT !.ret = slot]
  BY DEF SetReturnValue, vars, InCallback
<1>2. IsArgumentThunk /\ context = [data |-> FoundBy(fn), ret |-> context.ret]
  BY <1>1 DEF CallInv, ContextHolds
<1> HIDE DEF slot
<1>3. context' = [data |-> FoundBy(fn), ret |-> slot]
  BY <1>1, <1>2
<1>4. GeneratedFor'
  BY <1>1 DEF CallInv, GeneratedFor, IsArgumentThunk, IsTypedThunk
<1>5. ContextHolds'
  <2>1. IsArgumentThunk'
    BY <1>1, <1>2 DEF IsArgumentThunk
  <2>2. FoundBy(fn)' = FoundBy(fn) /\ Pad(ResultOf(fn.ret), filler)' = slot
    BY <1>1 DEF slot
  <2>3. context' = [data |-> FoundBy(fn)', ret |-> context'.ret] /\ context'.ret = slot
    BY <1>3, <2>2
  <2>4. fn'.ret.form # "void"
        /\ \E other \in {ZeroByte, Garbage} : context'.ret = Pad(ResultOf(fn'.ret), other)
    BY <1>1, <2>3 DEF slot
  <2> QED
    BY <2>1, <2>3, <2>4 DEF ContextHolds
<1>6. ReceivedFromContext'
  BY <1>1 DEF ReceivedFromContext
<1> QED
  BY <1>4, <1>5, <1>6 DEF CallInv

\* The caller takes its result from the register the thunk loaded.
LEMMA CallbackReturnsStep ==
  ASSUME CallInv, CallbackReturns
  PROVE  CallInv'
<1>1. /\ thunk' = thunk /\ fn' = fn /\ context' = context /\ context # NoContext
      /\ fn.ret.form # "void"
  BY DEF CallbackReturns, vars, InCallback
<1>2. ~Misjudged(fn.ret) =>
        ReturnedInPlace(fn.ret) /\ ReturnPlaces(fn) = ReturnRegisters(thunk.ret)
  <2>1. fn \in FunctionTypes /\ Compiles(fn) /\ thunk.ret = ReturnSlotOf(fn.ret)
    BY <1>1 DEF CallInv, GeneratedFor, ContextHolds, IsArgumentThunk, IsTypedThunk
  <2> SUFFICES ASSUME NEW g \in FunctionTypes, Compiles(g), g.ret.form # "void",
                      ~Misjudged(g.ret)
               PROVE  /\ ReturnedInPlace(g.ret)
                      /\ ReturnPlaces(g) = ReturnRegisters(ReturnSlotOf(g.ret))
    BY <1>1, <2>1
  <2> QED
    BY LoweringAgrees
<1>3. ~Misjudged(fn.ret) => received' = SubSeq(context.ret, 1, fn.ret.size)
  BY <1>2 DEF CallbackReturns
<1> QED
  BY <1>1, <1>3 DEF CallInv, GeneratedFor, ContextHolds, ReceivedFromContext,
     IsArgumentThunk, IsTypedThunk

\* Every step keeps context and function type together.
LEMMA CallNext == CallInv /\ [TypedNext]_allVars => CallInv'
<1> SUFFICES ASSUME CallInv, [TypedNext]_allVars PROVE CallInv'
  OBVIOUS
<1>1. CASE UNCHANGED allVars
  BY <1>1 DEF allVars, vars, typedVars, CallInv, GeneratedFor, ContextHolds,
     ReceivedFromContext, IsArgumentThunk, IsTypedThunk
<1>2. CASE Next /\ UNCHANGED typedVars
  BY <1>2, UntypedStep
<1>3. ASSUME NEW f \in FunctionTypes, NEW flags,
             TypedBindingThunk(f, flags) \/ TypedArgumentThunk(f, flags) \/ TypedRestoreThunk(f, flags)
      PROVE  CallInv'
  <2>1. CASE TypedBindingThunk(f, flags)
    <3>1. BindingGenerator(BuildABISignature(f), flags) # "none"
      BY DEF BindingGenerator
    <3> QED
      BY <2>1, <3>1, TypedGenerateStep DEF TypedBindingThunk
  <2>2. CASE TypedArgumentThunk(f, flags)
    <3>1. BindingGenerator(BuildABISignature(f), flags \cup {"Argument"}) # "none"
      BY DEF BindingGenerator
    <3> QED
      BY <2>2, <3>1, TypedGenerateStep DEF TypedArgumentThunk
  <2>3. CASE TypedRestoreThunk(f, flags)
    <3>1. RestoreGenerator(flags) # "none"
      BY DEF RestoreGenerator
    <3> QED
      BY <2>3, <3>1, TypedGenerateStep DEF TypedRestoreThunk
  <2> QED
    BY <1>3, <2>1, <2>2, <2>3
<1>4. CASE CallArgumentThunk
  BY <1>4, CallArgumentThunkStep
<1>5. CASE \E filler \in {ZeroByte, Garbage} : SetReturnValue(filler)
  BY <1>5, SetReturnValueStep
<1>6. CASE CallbackReturns
  BY <1>6, CallbackReturnsStep
<1> QED
  BY <1>1, <1>2, <1>3, <1>4, <1>5, <1>6 DEF TypedNext

\* GetArgumentAs, from a slot or from the copy a slot leads to.
LEMMA ReadsArgument ==
  ASSUME NEW f \in FunctionTypes, fn = f, NEW i \in DOMAIN f.params,
         NEW type, type = AsPointer(f.params[i]), CanGetArgumentAs(type),
         NEW raw, raw = Passed(i, f.params[i])
  PROVE  (IF AsmJitCompatArgV(type).form = "reference" THEN Dereferenced(raw, type)
          ELSE ReadPackedValue(type, raw)) = ValueOf(i, type)
<1>1. CASE AsmJitCompatArgV(type).form = "reference"
  <2>1. raw = AddressOf(i)
    BY <1>1, ReadsCopy
  <2>2. \A j \in DOMAIN f.params : raw = AddressOf(j) <=> j = i
    BY <2>1, AddressFacts
  <2>3. (CHOOSE j \in DOMAIN f.params : raw = AddressOf(j)) = i
    BY <2>2
  <2> QED
    BY <1>1, <2>2, <2>3 DEF Dereferenced
<1>2. CASE AsmJitCompatArgV(type).form # "reference"
  <2>1. CanReadPackedValue(type)
    BY <1>2 DEF CanGetArgumentAs
  <2> QED
    BY <1>2, <2>1, ReadsValue
<1> QED
  BY <1>1, <1>2

\* Whatever a function type's parameters, and unless its return type is misjudged, a
\* callback reads through its ArgumentContext the bytes native code passed.
THEOREM CallbacksReadArguments == TypedSpec => []CallbackReadsArguments
<1>1. CallInv => CallbackReadsArguments
  <2> SUFFICES ASSUME CallInv, context # NoContext
               PROVE  /\ ~Misjudged(fn.ret) => \A i \in DOMAIN fn.params :
                           /\ CanGetArgumentAs(AsPointer(fn.params[i])) =>
                                GetArgumentAs(i - 1, AsPointer(fn.params[i]))
                                  = ValueOf(i, AsPointer(fn.params[i]))
                           /\ GetArgumentRaw(i - 1) = Passed(i, fn.params[i])
                      /\ GetArgumentAs(Len(fn.params), Pointer)
                           = "ArgumentContextOutOfBoundsArgumentIndex"
    BY DEF CallbackReadsArguments
  <2>1. fn \in FunctionTypes /\ Compiles(fn) /\ context.data = FoundBy(fn)
    <3>1. context = [data |-> FoundBy(fn), ret |-> context.ret]
      BY DEF CallInv, ContextHolds
    <3>2. fn \in FunctionTypes /\ Compiles(fn)
      BY DEF CallInv, GeneratedFor, ContextHolds, IsArgumentThunk, IsTypedThunk
    <3> HIDE DEF FoundBy
    <3> QED
      BY <3>1, <3>2
  <2>2. DOMAIN fn.params = 1..Len(fn.params) /\ Len(fn.params) \in Nat
    BY <2>1, FunctionTypeFacts
  <2>3. Len(context.data) = Len(fn.params)
    BY <2>1, <2>2 DEF FoundBy
  <2>4. ASSUME NEW g \in FunctionTypes, Compiles(g), ~Misjudged(g.ret), NEW i \in DOMAIN g.params
        PROVE  FoundBy(g)[i] = Passed(i, g.params[i])
    BY <2>4, BytesPassed DEF FoundBy
  <2>5. ~Misjudged(fn.ret) => \A i \in DOMAIN fn.params :
          /\ ~(i - 1 >= Len(context.data))
          /\ context.data[(i - 1) + 1] = Passed(i, fn.params[i])
    BY <2>1, <2>2, <2>3, <2>4
  <2>6. ASSUME ~Misjudged(fn.ret), NEW i \in DOMAIN fn.params,
               CanGetArgumentAs(AsPointer(fn.params[i]))
        PROVE  GetArgumentAs(i - 1, AsPointer(fn.params[i])) = ValueOf(i, AsPointer(fn.params[i]))
    BY <2>1, <2>5, <2>6, ReadsArgument DEF GetArgumentAs
  <2>7. ~Misjudged(fn.ret) =>
          \A i \in DOMAIN fn.params : GetArgumentRaw(i - 1) = Passed(i, fn.params[i])
    BY <2>5 DEF GetArgumentRaw
  <2>8. GetArgumentAs(Len(fn.params), Pointer) = "ArgumentContextOutOfBoundsArgumentIndex"
    BY <2>2, <2>3 DEF GetArgumentAs
  <2> QED
    BY <2>6, <2>7, <2>8
<1> QED
  BY <1>1, CallInit, CallNext, PTL DEF TypedSpec

\* GetReturnValue shows the bytes that were set, or zeros, and the caller takes them,
\* whatever is returned but a misjudged class.
THEOREM CallersReceiveResults == TypedSpec => []CallerReceivesResult
<1>1. CallInv => CallerReceivesResult
  <2> SUFFICES ASSUME CallInv, context # NoContext, fn.ret.form # "void",
                      NEW result,
                      result = IF context.ret = Pad(<<>>, ZeroByte)
                               THEN [b \in 1..fn.ret.size |-> ZeroByte] ELSE ResultOf(fn.ret)
               PROVE  /\ GetReturnValue(AsPointer(fn.ret)) = result
                      /\ ~Misjudged(fn.ret) => received \in {Nothing, result}
    BY DEF CallerReceivesResult
  <2>1. fn \in FunctionTypes /\ Compiles(fn)
    BY DEF CallInv, GeneratedFor, ContextHolds, IsArgumentThunk, IsTypedThunk
  <2>2. fn.ret.size \in 0..8 /\ AsPointer(fn.ret).size = fn.ret.size
    <3>1. fn.ret.size \in 0..32 /\ (fn.ret.form = "reference" => fn.ret.size = 8)
      BY <2>1, FunctionTypeFacts DEF CppType
    <3>2. fn.ret.size <= 8
      <4>1. ReturnedByValue(fn.ret)
        BY <2>1 DEF Compiles, AsmJitCompatRet
      <4>2. \A n \in 0..32 : 8 * n \in {1, 2, 4, 8, 16, 32, 64} => n <= 8
        OBVIOUS
      <4>3. IsSizeOfTPowerOfTwo(fn.ret) => fn.ret.size <= 8
        BY <3>1, <4>2 DEF IsSizeOfTPowerOfTwo
      <4> QED
        BY <4>1, <4>3 DEF ReturnedByValue
    <3>3. AsPointer(fn.ret).size = fn.ret.size
      BY <3>1 DEF AsPointer, Pointer
    <3>4. fn.ret.size \in 0..8
      <4>1. \A n \in 0..32 : n <= 8 => n \in 0..8
        OBVIOUS
      <4> QED
        BY <3>1, <3>2, <4>1
    <3> QED
      BY <3>3, <3>4
  <2>3. SubSeq(context.ret, 1, fn.ret.size) = result
    <3>1. CASE context.ret = Pad(<<>>, ZeroByte)
      BY <2>2, <3>1, ZeroRead
    <3>2. CASE context.ret # Pad(<<>>, ZeroByte)
      <4>1. PICK filler \in {ZeroByte, Garbage} : context.ret = Pad(ResultOf(fn.ret), filler)
        BY <3>2 DEF CallInv, ContextHolds
      <4>2. /\ ResultOf(fn.ret) \in Seq(Byte) /\ Len(ResultOf(fn.ret)) = fn.ret.size
            /\ filler \in Byte
        <5>1. fn.ret.size \in Nat /\ 0 \in Nat
          BY <2>2
        <5> QED
          BY <5>1, ByteFacts
      <4>3. Len(ResultOf(fn.ret)) <= 8
        BY <2>2, <4>2
      <4> QED
        BY <3>2, <4>1, <4>2, <4>3, PadRead
    <3> QED
      BY <3>1, <3>2
  <2>4. GetReturnValue(AsPointer(fn.ret)) = result
    BY <2>2, <2>3 DEF GetReturnValue, ReadPackedValue
  <2>5. ~Misjudged(fn.ret) => received = Nothing \/ received = result
    BY <2>3 DEF CallInv, ReceivedFromContext
  <2> QED
    BY <2>4, <2>5
<1> QED
  BY <1>1, CallInit, CallNext, PTL DEF TypedSpec


-----------------------------------------------------------------------------
(* The code of default binding thunks *)

File == [Locations -> Value]   \* what the registers and slots hold

\* The stack has a slot for every argument of a signature no longer than the stack.
LEMMA SlotsSuffice ==
  ASSUME NEW sig \in Signature, Len(sig) <= Len(StackSlots)
  PROVE  StackArguments(sig) <= Len(StackSlots)
<1> DEFINE S == {i \in DOMAIN sig : IsStack(sig, i)}
           n == Len(sig)
<1>1. n \in Nat /\ DOMAIN sig = 1..n
  BY LenProperties DEF Signature
<1>2. IsFiniteSet(1..n) /\ Cardinality(1..n) = n
  <2>1. 1 \in Int /\ n \in Int /\ ~(1 > n) => n - 1 + 1 = n
    BY <1>1
  <2>2. 1 > n => n = 0
    BY <1>1
  <2> HIDE DEF n
  <2> QED
    BY <1>1, <2>1, <2>2, FS_Interval
<1>3. S \subseteq 1..n
  BY <1>1
<1>4. Cardinality(S) <= n /\ Cardinality(S) \in Nat
  <2>1. S \in SUBSET (1..n)
    BY <1>3
  <2> HIDE DEF S, n
  <2>2. IsFiniteSet(S) /\ Cardinality(S) <= Cardinality(1..n)
    BY <1>2, <2>1, FS_Subset
  <2> QED
    BY <1>2, <2>2, FS_CardinalityType
<1>5. Len(StackSlots) \in Nat
  BY ConventionAssumption, LenProperties
<1> QED
  BY <1>1, <1>4, <1>5 DEF StackArguments

\* A signature without stack arguments has them all in registers, before and after the
\* shift.
LEMMA AllInRegisters ==
  ASSUME NEW sig \in Signature, StackArguments(ShiftSignature(sig)) = 0
  PROVE  /\ \A i \in DOMAIN ShiftSignature(sig) : IsReg(ShiftSignature(sig), i)
         /\ \A i \in DOMAIN sig : IsReg(sig, i)
<1> DEFINE dest == ShiftSignature(sig)
           S == {i \in DOMAIN dest : IsStack(dest, i)}
<1>1. dest \in Signature /\ Len(dest) \in Nat /\ DOMAIN dest = 1..Len(dest)
      /\ DOMAIN sig = 1..Len(sig) /\ Len(sig) \in Nat /\ Len(dest) = Len(sig) + 1
  BY ShiftedSignature
<1>2. IsFiniteSet(S) /\ Cardinality(S) = 0
  BY <1>1, PartOfInterval DEF StackArguments
<1>3. S = {}
  <2> HIDE DEF S
  <2> QED
    BY <1>2, FS_EmptySet
<1>4. \A i \in DOMAIN dest : IsReg(dest, i)
  BY <1>3 DEF IsStack
<1>5. \A i \in DOMAIN sig : i + 1 \in DOMAIN dest
  BY <1>1
<1> HIDE DEF dest
<1>6. ASSUME NEW i \in DOMAIN sig PROVE IsReg(sig, i)
  <2>1. IsReg(dest, i + 1)
    BY <1>4, <1>5
  <2> QED
    BY <2>1, StackStaysOnStack DEF IsStack, dest
<1> QED
  BY <1>4, <1>6 DEF dest

\* The target gets the bound parameter, and every argument in its shifted place.
Sees(sig, file, result) ==
  /\ result[Argument(ShiftSignature(sig), 1)] = BindParam
  /\ \A i \in DOMAIN sig : result[Argument(ShiftSignature(sig), i + 1)] = file[Argument(sig, i)]

\* The values the shifts bring in.
LEMMA ValueFacts == "rax" \in Locations /\ Junk \in Value /\ BindParam \in Value
BY ConventionAssumption DEF Locations, Registers, Junk, BindParam, Value

\* Moving registers to registers, the last argument first, loses none.
LEMMA SimpleShiftMoves ==
  ASSUME NEW sig \in Signature, NEW file \in File,
         Len(sig) < MaxFuncArgs, StackArguments(ShiftSignature(sig)) = 0
  PROVE  SimpleShift(sig, file) \in File /\ Sees(sig, file, SimpleShift(sig, file))
<1> DEFINE N == Len(sig)
           dest == ShiftSignature(sig)
           from(i) == Argument(sig, i)
           to(i) == Argument(dest, i + 1)
           moved[n \in 0..N] == IF n = 0 THEN file ELSE Move(sig, N + 1 - n, moved[n - 1])
<1>1. N \in Nat /\ DOMAIN sig = 1..N /\ dest \in Signature /\ DOMAIN dest = 1..(N + 1)
      /\ Len(dest) = N + 1
  BY ShiftedSignature
<1>2. MaxFuncArgs \in Nat /\ Len(StackSlots) \in Nat /\ MaxFuncArgs <= Len(StackSlots)
  BY IndicesAssumption, SlotsAssumption, ConventionAssumption, LenProperties
<1>3. (\A i \in 1..(N + 1) : IsReg(dest, i)) /\ \A i \in 1..N : IsReg(sig, i)
  BY <1>1, AllInRegisters
<1>4. StackArguments(sig) <= Len(StackSlots) /\ StackArguments(dest) <= Len(StackSlots)
  <2>1. Len(sig) <= Len(StackSlots) /\ Len(dest) <= Len(StackSlots)
    BY <1>1, <1>2
  <2> QED
    BY <1>1, <2>1, SlotsSuffice
<1>5. \A i \in 1..N : i + 1 \in DOMAIN dest /\ i + 1 # 1 /\ 1 \in DOMAIN dest
  BY <1>1
<1>6. /\ \A i \in 1..N : from(i) \in Locations /\ to(i) \in Locations
      /\ \A i, j \in 1..N : i # j => to(i) # to(j)
      /\ \A i \in 1..N : to(i) # Argument(dest, 1)
      /\ \A i, j \in 1..N : i < j => from(i) # to(j)
  <2>1. ASSUME NEW i \in 1..N
        PROVE  from(i) \in Locations /\ to(i) \in Locations /\ to(i) # Argument(dest, 1)
    BY <1>1, <1>4, <1>5, ArgumentHasAPlace, ArgumentPlacesAreDistinct
  <2>2. ASSUME NEW i \in 1..N, NEW j \in 1..N, i # j PROVE to(i) # to(j)
    <3>1. i + 1 \in DOMAIN dest /\ j + 1 \in DOMAIN dest /\ i + 1 # j + 1
      BY <1>5, <2>2
    <3> HIDE DEF dest
    <3> QED
      BY <3>1, <1>1, <1>4, ArgumentPlacesAreDistinct
  <2>3. ASSUME NEW i \in 1..N, NEW j \in 1..N, i < j PROVE from(i) # to(j)
    <3>1. IsReg(sig, i) /\ IsReg(dest, j + 1)
      BY <1>1, <1>3, <1>5
    <3> QED
      BY <1>1, <2>3, <3>1, LaterPlacesDiffer
  <2> QED
    BY <2>1, <2>2, <2>3
<1>7. \A i \in 1..N : \A f :
        Move(sig, i, f) = [l \in Locations |-> IF l = to(i) THEN f[from(i)] ELSE f[l]]
  BY <1>3, <1>5, <1>1 DEF Move, RegId
<1> DEFINE step == [p \in Nat \X File |-> IF p[1] < N THEN Move(sig, N - p[1], p[2]) ELSE p[2]]
<1>8. step \in [Nat \X File -> File]
  <2>1. ASSUME NEW p \in Nat \X File, p[1] < N PROVE Move(sig, N - p[1], p[2]) \in File
    <3>1. N - p[1] \in 1..N /\ p[2] \in File
      BY <1>1, <2>1
    <3> HIDE DEF from, to, N
    <3>2. from(N - p[1]) \in Locations
      BY <3>1, <1>6
    <3> QED
      BY <3>1, <3>2, <1>7 DEF File
  <2> QED
    BY <2>1
<1> HIDE DEF step
<1>9. PICK g : IsRun(g, File, file, step, N)
  BY <1>1, <1>8, RepeatedStep
<1>10. \A n \in 1..N : g[n] = Move(sig, N + 1 - n, g[n - 1])
  <2> SUFFICES ASSUME NEW n \in 1..N PROVE g[n] = Move(sig, N + 1 - n, g[n - 1])
    OBVIOUS
  <2>1. n - 1 \in 0..(N - 1) /\ (n - 1) + 1 = n /\ n - 1 < N /\ N - (n - 1) = N + 1 - n
        /\ n - 1 \in 0..N /\ n - 1 \in Nat
    BY <1>1
  <2>2. g[n] = step[<<n - 1, g[n - 1]>>] /\ g[n - 1] \in File
    BY <1>9, <2>1 DEF IsRun
  <2> QED
    BY <2>1, <2>2 DEF step
<1>11. g = [n \in 0..N |-> IF n = 0 THEN file ELSE Move(sig, N + 1 - n, g[n - 1])]
  BY <1>1, <1>9, <1>10 DEF IsRun
<1>12. moved = [n \in 0..N |-> IF n = 0 THEN file ELSE Move(sig, N + 1 - n, moved[n - 1])]
  BY <1>11
<1> HIDE DEF moved
<1> DEFINE Done(n) ==
      /\ moved[n] \in File
      /\ \A i \in 1..N : i > N - n => moved[n][to(i)] = file[from(i)]
      /\ \A l \in Locations : (\A i \in 1..N : i > N - n => l # to(i)) => moved[n][l] = file[l]
           S == {n \in Nat : n <= N => Done(n)}
<1>13. 0 \in S
  <2>1. moved[0] = file
    BY <1>1, <1>12
  <2> QED
    BY <1>1, <2>1
<1>14. ASSUME NEW n \in Nat, n \in S PROVE n + 1 \in S
  <2> SUFFICES ASSUME n + 1 <= N PROVE Done(n + 1)
    OBVIOUS
  <2> DEFINE k == N - n
  <2>1. k \in 1..N /\ n + 1 \in 0..N /\ n + 1 # 0 /\ (n + 1) - 1 = n /\ N + 1 - (n + 1) = k
        /\ \A i \in 1..N : i > N - (n + 1) <=> i = k \/ i > k
    <3> HIDE DEF N
    <3>1. N \in Nat
      BY <1>1
    <3> QED
      BY <3>1
  <2>2. Done(n)
    BY <1>1, <1>14
  <2> HIDE DEF to, from, N
  <2>3. moved[n + 1] = Move(sig, k, moved[n])
    <3> HIDE DEF k
    <3> QED
      BY <2>1, <1>12
  <2>4. moved[n + 1] = [l \in Locations |-> IF l = to(k) THEN moved[n][from(k)] ELSE moved[n][l]]
    BY <2>1, <2>3, <1>7
  <2>5. moved[n][from(k)] = file[from(k)]
    <3>1. \A i \in 1..N : i > k => from(k) # to(i)
      BY <1>6, <2>1
    <3> QED
      BY <1>6, <2>1, <2>2, <3>1
  <2> HIDE DEF k
  <2>6. moved[n + 1] \in File
    BY <1>6, <2>1, <2>2, <2>4 DEF File
  <2>7. ASSUME NEW i \in 1..N, i > N - (n + 1) PROVE moved[n + 1][to(i)] = file[from(i)]
    <3>1. i = k \/ (i > k /\ i # k /\ to(i) # to(k))
      BY <1>6, <2>1, <2>7
    <3> QED
      BY <1>6, <2>1, <2>2, <2>4, <2>5, <3>1 DEF k
  <2>8. ASSUME NEW l \in Locations, \A i \in 1..N : i > N - (n + 1) => l # to(i)
        PROVE  moved[n + 1][l] = file[l]
    <3>1. l # to(k) /\ \A i \in 1..N : i > k => l # to(i)
      BY <2>1, <2>8
    <3> QED
      BY <2>2, <2>4, <3>1 DEF k
  <2> QED
    BY <2>6, <2>7, <2>8
<1> HIDE DEF S
<1>15. Done(N)
  <2>1. N \in S
    BY <1>1, <1>13, <1>14, InductionOverNat
  <2> QED
    BY <2>1, <1>1 DEF S
<1>16. SimpleShift(sig, file) = [moved[N] EXCEPT ![Argument(dest, 1)] = BindParam]
  BY DEF SimpleShift, moved
<1>17. Argument(dest, 1) \in Locations
  BY <1>1, <1>4, ArgumentHasAPlace
<1> HIDE DEF to, from, N, dest
<1>18. SimpleShift(sig, file) \in File
  BY <1>15, <1>16, <1>17, ValueFacts DEF File
<1>19. \A i \in 1..N : moved[N][to(i)] = file[from(i)]
  BY <1>15, <1>1
<1>20. SimpleShift(sig, file)[Argument(dest, 1)] = BindParam
       /\ \A i \in 1..N : SimpleShift(sig, file)[to(i)] = file[from(i)]
  BY <1>6, <1>15, <1>16, <1>17, <1>19 DEF File
<1> QED
  BY <1>1, <1>18, <1>20 DEF Sees, to, from, dest

\* The compiler's moves need no order.
LEMMA ComplexShiftMoves ==
  ASSUME NEW sig \in Signature, NEW file \in File, Len(sig) < MaxFuncArgs
  PROVE  ComplexShift(sig, file) \in File /\ Sees(sig, file, ComplexShift(sig, file))
<1> DEFINE N == Len(sig)
           dest == ShiftSignature(sig)
           at(l) == CHOOSE j \in DOMAIN dest : Argument(dest, j) = l
<1>1. N \in Nat /\ DOMAIN sig = 1..N /\ dest \in Signature /\ DOMAIN dest = 1..(N + 1)
      /\ Len(dest) = N + 1
  BY ShiftedSignature
<1>2. MaxFuncArgs \in Nat /\ Len(StackSlots) \in Nat /\ MaxFuncArgs <= Len(StackSlots)
  BY IndicesAssumption, SlotsAssumption, ConventionAssumption, LenProperties
<1>3. StackArguments(sig) <= Len(StackSlots) /\ StackArguments(dest) <= Len(StackSlots)
  <2>1. Len(sig) <= Len(StackSlots) /\ Len(dest) <= Len(StackSlots)
    BY <1>1, <1>2
  <2> QED
    BY <1>1, <2>1, SlotsSuffice
<1>4. ComplexShift(sig, file) =
        [l \in Locations |-> IF l \notin Arguments(dest) THEN Junk
                             ELSE IF at(l) = 1 THEN BindParam ELSE file[Argument(sig, at(l) - 1)]]
  BY DEF ComplexShift
<1> HIDE DEF dest, at
<1>5. ASSUME NEW j \in DOMAIN dest
      PROVE  Argument(dest, j) \in Locations /\ Argument(dest, j) \in Arguments(dest)
             /\ at(Argument(dest, j)) = j
  <2>1. \A i \in DOMAIN dest : Argument(dest, i) = Argument(dest, j) => i = j
    BY <1>1, <1>3, ArgumentPlacesAreDistinct
  <2> QED
    BY <1>1, <1>3, <2>1, ArgumentHasAPlace DEF Arguments, at
<1>6. \A i \in DOMAIN sig : file[Argument(sig, i)] \in Value
  BY <1>3, ArgumentHasAPlace DEF File
<1>7. ComplexShift(sig, file) \in File
  <2> SUFFICES ASSUME NEW l \in Locations, l \in Arguments(dest), at(l) # 1
               PROVE  file[Argument(sig, at(l) - 1)] \in Value
    BY <1>4, ValueFacts DEF File
  <2>1. PICK j \in DOMAIN dest : l = Argument(dest, j)
    BY DEF Arguments
  <2>2. at(l) = j /\ j # 1
    BY <1>5, <2>1
  <2>3. j - 1 \in DOMAIN sig
    BY <1>1, <2>2
  <2> QED
    BY <1>6, <2>2, <2>3
<1>8. ComplexShift(sig, file)[Argument(dest, 1)] = BindParam
  <2>1. 1 \in DOMAIN dest
    BY <1>1
  <2> QED
    BY <1>4, <1>5, <2>1
<1>9. ASSUME NEW i \in DOMAIN sig
      PROVE  ComplexShift(sig, file)[Argument(dest, i + 1)] = file[Argument(sig, i)]
  <2>1. i + 1 \in DOMAIN dest /\ i + 1 # 1 /\ (i + 1) - 1 = i
    BY <1>1
  <2> QED
    BY <1>4, <1>5, <2>1
<1> QED
  BY <1>7, <1>8, <1>9 DEF Sees, dest

-----------------------------------------------------------------------------
(* What was generated, and what its target found *)

Direct == {"simple", "complex"}   \* the generators of default binding thunks
Incoming == [l \in Locations |-> <<"in", 1, l>>]

ThunkInv ==
  /\ thunk.sig \in Signature /\ Len(thunk.sig) <= MaxFuncArgs
  /\ thunk.ret \in ReturnType
  /\ thunk.generator \in Direct => Len(thunk.sig) < MaxFuncArgs
  /\ thunk.generator = "simple" => ~NeedsStack(ShiftSignature(thunk.sig))

TargetInv ==
  target # NotCalled =>
    /\ thunk.generator \in Direct
    /\ target = IF thunk.generator = "simple" THEN SimpleShift(thunk.sig, Incoming)
                ELSE ComplexShift(thunk.sig, Incoming)

PlainInv ==
  /\ BuilderInv /\ returnSlot \in ReturnType \cup {"Unknown"}
  /\ ThunkInv /\ TargetInv

\* The choice between the two shifts.
LEMMA GeneratorFacts ==
  ASSUME NEW sig \in Signature, Len(sig) <= MaxFuncArgs, NEW flags
  PROVE  /\ BindingGenerator(sig, flags) \in Direct => Len(sig) < MaxFuncArgs
         /\ BindingGenerator(sig, flags) = "simple" => ~NeedsStack(ShiftSignature(sig))
         /\ RestoreGenerator(flags) \notin Direct
<1>1. Len(sig) \in Nat /\ MaxFuncArgs \in Nat
  BY LenProperties, IndicesAssumption DEF Signature
<1>2. Len(sig) # MaxFuncArgs => Len(sig) < MaxFuncArgs
  BY <1>1
<1> QED
  BY <1>2 DEF BindingGenerator, RestoreGenerator, Direct

\* A thunk is generated, once, from a signature no longer than AsmJit takes.
LEMMA GenerateStep ==
  ASSUME PlainInv, NEW generator, NEW sig \in Signature, NEW ret \in ReturnType,
         Len(sig) <= MaxFuncArgs,
         generator \in Direct => Len(sig) < MaxFuncArgs,
         generator = "simple" => ~NeedsStack(ShiftSignature(sig)),
         Generate(generator, sig, ret)
  PROVE  PlainInv'
<1>1. thunk' = [generator |-> generator, sig |-> sig, ret |-> ret]
      /\ UNCHANGED <<args, largest, returnSlot, target>> /\ thunk = NoThunk
  BY DEF Generate, Building
<1>2. thunk'.generator = generator /\ thunk'.sig = sig /\ thunk'.ret = ret
  BY <1>1
<1>3. target = NotCalled
  BY <1>1 DEF PlainInv, TargetInv, NoThunk, Direct
<1> QED
  BY <1>1, <1>2, <1>3 DEF PlainInv, BuilderInv, ThunkInv, TargetInv

\* The signature of no thunk.
LEMMA NoSignature == <<>> \in Signature /\ Len(<<>>) = 0 /\ MaxFuncArgs \in Nat \ {0}
BY IndicesAssumption DEF Signature

\* What Finalize returns is a signature.
LEMMA FinalizedFacts ==
  ASSUME PlainInv, FinalizeError = "none"
  PROVE  Finalized \in Signature /\ Len(Finalized) <= MaxFuncArgs /\ returnSlot \in ReturnType
<1>1. MaxFuncArgs \in Nat \ {0} /\ largest \in -1..(MaxFuncArgs - 1)
  BY IndicesAssumption DEF PlainInv, BuilderInv
<1>2. returnSlot \in ReturnType /\ \A i \in 0..largest : args[i] # "Unknown"
  BY DEF FinalizeError, PlainInv
<1>3. \A i \in 1..(largest + 1) : i - 1 \in 0..largest /\ i - 1 \in 0..(MaxFuncArgs - 1)
  BY <1>1
<1>4. \A i \in 1..(largest + 1) : args[i - 1] \in ArgumentType
  BY <1>2, <1>3 DEF PlainInv, BuilderInv
<1>5. largest + 1 \in Nat /\ largest + 1 <= MaxFuncArgs
  BY <1>1
<1>6. Finalized \in [1..(largest + 1) -> ArgumentType]
  BY <1>4 DEF Finalized
<1> QED
  BY <1>2, <1>5, <1>6, TupleIsSequence DEF Signature

\* Before any thunk.
LEMMA PlainInit == TypedInit => PlainInv
<1> SUFFICES ASSUME TypedInit PROVE PlainInv
  OBVIOUS
<1>1. thunk = NoThunk /\ target = NotCalled /\ returnSlot = "Unknown"
  BY DEF TypedInit, Init
<1>2. thunk.sig = <<>> /\ thunk.ret = "Void" /\ thunk.generator = "none"
  BY <1>1 DEF NoThunk
<1> QED
  BY <1>1, <1>2, BuilderInit, NoSignature DEF PlainInv, ThunkInv, TargetInv, ReturnType, Direct

\* The untyped interface.
LEMMA PlainStep ==
  ASSUME PlainInv, BuilderInv', Next
  PROVE  PlainInv'
<1>1. ASSUME NEW i \in Indices, NEW type \in ArgumentType \cup {"Unknown"},
             SetArgumentSlot(i, type)
      PROVE  PlainInv'
  BY <1>1 DEF SetArgumentSlot, PlainInv, ThunkInv, TargetInv
<1>2. ASSUME NEW type \in ReturnType \cup {"Unknown"}, SetReturnSlot(type) PROVE PlainInv'
  BY <1>2 DEF SetReturnSlot, PlainInv, ThunkInv, TargetInv
<1>3. FinalizeError \notin Direct
  BY DEF FinalizeError, Direct
<1>4. ASSUME NEW error, error \notin Direct, Generate(error, <<>>, "Void") PROVE PlainInv'
  <2>1. "Void" \in ReturnType /\ 0 <= MaxFuncArgs /\ error # "simple"
    BY <1>4, NoSignature DEF ReturnType, Direct
  <2> QED
    BY <1>4, <2>1, NoSignature, GenerateStep
<1>5. ASSUME NEW flags \in EBindingThunkType, GenerateBindingThunk(flags) PROVE PlainInv'
  BY <1>3, <1>4, <1>5, FinalizedFacts, GeneratorFacts, GenerateStep DEF GenerateBindingThunk
<1>6. ASSUME NEW flags \in EBindingThunkType, GenerateRestoreThunk(flags) PROVE PlainInv'
  <2>1. RestoreGenerator(flags) \notin Direct /\ RestoreGenerator(flags) # "simple"
    BY NoSignature, GeneratorFacts DEF Direct
  <2> QED
    BY <1>3, <1>4, <1>6, <2>1, FinalizedFacts, GenerateStep DEF GenerateRestoreThunk
<1>7. ASSUME NEW flags \in EBindingThunkType, NEW sig \in Signatures, NEW ret \in ReturnType,
             InternalGenerateBindingThunk(sig, ret, flags)
      PROVE  PlainInv'
  <2>1. sig \in Signature /\ Len(sig) <= MaxFuncArgs
    BY SignatureAssumption DEF Signature
  <2> QED
    BY <1>7, <2>1, GeneratorFacts, GenerateStep DEF InternalGenerateBindingThunk
<1>8. CASE CallThunk
  BY <1>8 DEF CallThunk, PlainInv, ThunkInv, TargetInv, Direct, Incoming
<1> QED
  BY <1>1, <1>2, <1>5, <1>6, <1>7, <1>8 DEF Next

\* Every step of the typed interface.
LEMMA PlainNext == PlainInv /\ [TypedNext]_allVars => PlainInv'
<1> SUFFICES ASSUME PlainInv, [TypedNext]_allVars PROVE PlainInv'
  OBVIOUS
<1>0. BuilderInv'
  BY BuilderNext DEF PlainInv
<1>1. CASE UNCHANGED vars
  BY <1>0, <1>1 DEF vars, PlainInv, ThunkInv, TargetInv
<1>2. ASSUME NEW f \in FunctionTypes, NEW flags,
             TypedBindingThunk(f, flags) \/ TypedArgumentThunk(f, flags) \/ TypedRestoreThunk(f, flags)
      PROVE  PlainInv'
  <2> DEFINE sig == BuildABISignature(f)
  <2>1. Len(f.params) \in Nat /\ sig \in [1..Len(f.params) -> ArgumentType]
    BY FunctionTypeFacts DEF BuildABISignature, ArgumentSlotOf, ArgumentType
  <2>2. sig \in Signature /\ Len(sig) = Len(f.params)
    BY <2>1, TupleIsSequence DEF Signature
  <2>3. ReturnSlotOf(f.ret) \in ReturnType
    BY DEF ReturnSlotOf, ReturnType
  <2>4. MaxFuncArgs \in Nat /\ "Void" \in ReturnType
    BY NoSignature DEF ReturnType
  <2> HIDE DEF sig
  <2>5. ASSUME NEW generator, TypedGenerate(f, generator),
               Len(sig) <= MaxFuncArgs =>
                 /\ generator \in Direct => Len(sig) < MaxFuncArgs
                 /\ generator = "simple" => ~NeedsStack(ShiftSignature(sig))
        PROVE  PlainInv'
    <3>1. CASE Len(f.params) > MaxFuncArgs
      <4>1. Generate("ABISignatureArgumentIndexOutOfBounds", <<>>, "Void")
        BY <2>5, <3>1 DEF TypedGenerate
      <4>2. "ABISignatureArgumentIndexOutOfBounds" \notin Direct
        BY DEF Direct
      <4> QED
        BY <2>4, <4>1, <4>2, NoSignature, GenerateStep
    <3>2. CASE ~(Len(f.params) > MaxFuncArgs)
      <4>1. Len(sig) <= MaxFuncArgs
        BY <2>1, <2>2, <2>4, <3>2
      <4>2. Generate(generator, sig, ReturnSlotOf(f.ret))
        BY <2>5, <3>2 DEF TypedGenerate, sig
      <4> QED
        BY <2>2, <2>3, <2>5, <4>1, <4>2, GenerateStep
    <3> QED
      BY <3>1, <3>2
  <2>6. CASE TypedBindingThunk(f, flags)
    BY <2>2, <2>5, <2>6, GeneratorFacts DEF TypedBindingThunk, sig
  <2>7. CASE TypedArgumentThunk(f, flags)
    BY <2>2, <2>5, <2>7, GeneratorFacts DEF TypedArgumentThunk, sig
  <2>8. CASE TypedRestoreThunk(f, flags)
    <3>1. RestoreGenerator(flags) \notin Direct /\ RestoreGenerator(flags) # "simple"
      BY NoSignature, GeneratorFacts DEF Direct
    <3> QED
      BY <2>5, <2>8, <3>1 DEF TypedRestoreThunk
  <2> QED
    BY <1>2, <2>6, <2>7, <2>8
<1>3. CASE Next
  BY <1>0, <1>3, PlainStep
<1>4. CallArgumentThunk \/ CallbackReturns \/ (\E filler : SetReturnValue(filler)) \/ UNCHANGED allVars
        => UNCHANGED vars
  BY DEF CallArgumentThunk, CallbackReturns, SetReturnValue, allVars
<1> QED
  BY <1>1, <1>2, <1>3, <1>4 DEF TypedNext

\* The one kind of signature GenerateSimpleShift is chosen for although an argument is
\* on the stack: its stack arguments are as large as the red zone.
InRedZone == RedZoneSize # 0 /\ 8 * StackArguments(ShiftSignature(thunk.sig)) = RedZoneSize

\* Whichever shift was chosen, the target got the bound parameter and the arguments.
LEMMA TargetFacts ==
  ASSUME PlainInv, ~InRedZone, target # NotCalled
  PROVE  target \in File /\ Sees(thunk.sig, Incoming, target)
<1> DEFINE sig == thunk.sig
<1>1. Incoming \in File
  BY DEF Incoming, File, Value
<1>2. sig \in Signature /\ Len(sig) < MaxFuncArgs
  BY DEF PlainInv, ThunkInv, TargetInv
<1>3. CASE thunk.generator = "simple"
  <2>1. StackArguments(ShiftSignature(sig)) \in Nat
    BY <1>2, ShiftedSignature, PartOfInterval DEF StackArguments
  <2>2. ~NeedsStack(ShiftSignature(sig))
    BY <1>3 DEF PlainInv, ThunkInv
  <2>3. StackArguments(ShiftSignature(sig)) = 0
    BY <2>1, <2>2, ZoneAssumption DEF NeedsStack, ArgStackSize, InRedZone
  <2>4. target = SimpleShift(sig, Incoming)
    BY <1>3 DEF PlainInv, TargetInv
  <2> QED
    BY <1>1, <1>2, <2>3, <2>4, SimpleShiftMoves
<1>4. CASE thunk.generator # "simple"
  <2>1. target = ComplexShift(sig, Incoming)
    BY <1>4 DEF PlainInv, TargetInv
  <2> QED
    BY <1>1, <1>2, <2>1, ComplexShiftMoves
<1> QED
  BY <1>3, <1>4

\* The arguments a caller passed are in Incoming.
LEMMA IncomingArguments ==
  ASSUME NEW sig \in Signature, Len(sig) <= MaxFuncArgs, NEW i \in DOMAIN sig
  PROVE  Incoming[Argument(sig, i)] = <<"in", 1, Argument(sig, i)>>
<1>1. Len(sig) \in Nat /\ MaxFuncArgs \in Nat /\ Len(StackSlots) \in Nat
      /\ MaxFuncArgs <= Len(StackSlots)
  BY IndicesAssumption, SlotsAssumption, ConventionAssumption, LenProperties DEF Signature
<1>2. Len(sig) <= Len(StackSlots)
  BY <1>1
<1>3. Argument(sig, i) \in Locations
  BY <1>2, SlotsSuffice, ArgumentHasAPlace
<1> QED
  BY <1>3 DEF Incoming

\* On both ABIs, for every signature but those whose stack arguments are as large as
\* the red zone, a default binding thunk calls its target with the bound parameter
\* and the caller's arguments.
THEOREM TargetsOutsideRedZone == TypedSpec => [](~InRedZone => TargetSeesArguments)
<1>1. PlainInv => (~InRedZone => TargetSeesArguments)
  <2> SUFFICES ASSUME PlainInv, ~InRedZone, target # NotCalled
               PROVE  /\ target[Argument(ShiftSignature(thunk.sig), 1)] = BindParam
                      /\ \A i \in DOMAIN thunk.sig :
                           target[Argument(ShiftSignature(thunk.sig), i + 1)]
                             = <<"in", 1, Argument(thunk.sig, i)>>
    BY DEF TargetSeesArguments
  <2>1. Sees(thunk.sig, Incoming, target)
    BY TargetFacts
  <2>2. thunk.sig \in Signature /\ Len(thunk.sig) <= MaxFuncArgs
    BY DEF PlainInv, ThunkInv
  <2>3. \A i \in DOMAIN thunk.sig : Incoming[Argument(thunk.sig, i)] = <<"in", 1, Argument(thunk.sig, i)>>
    BY <2>2, IncomingArguments
  <2> QED
    BY <2>1, <2>3 DEF Sees
<1> QED
  BY <1>1, PlainInit, PlainNext, PTL DEF TypedSpec

\* Where there is no red zone, on Win64, that is every signature.
THEOREM TargetsSeeArguments ==
  ASSUME RedZoneSize = 0
  PROVE  TypedSpec => []TargetSeesArguments
<1>1. ~InRedZone
  BY DEF InRedZone
<1> QED
  BY <1>1, TargetsOutsideRedZone, PTL

\* Everything the builder, the generators and a default thunk leave has its type.  In a
\* red zone the simple shift takes stack arguments for registers the convention need not have.
THEOREM PlainTypes ==
  ASSUME RedZoneSize = 0
  PROVE  TypedSpec => []TypeOK
<1>1. PlainInv => TypeOK
  <2> SUFFICES ASSUME PlainInv PROVE TypeOK
    OBVIOUS
  <2>1. ~InRedZone
    BY DEF InRedZone
  <2>2. target = NotCalled \/ target \in [Locations -> Value]
    BY <2>1, TargetFacts DEF File
  <2> QED
    BY <2>2 DEF PlainInv, BuilderInv, ThunkInv, TypeOK, Signature
<1> QED
  BY <1>1, PlainInit, PlainNext, PTL DEF TypedSpec

-----------------------------------------------------------------------------
(* Typed targets *)

\* The target of a typed binding thunk takes a pointer and then the same parameters:
\* to its compiler, the shifted signature, unless it returns a misjudged class.
LEMMA StaticInvokerPlaces ==
  ASSUME NEW f \in FunctionTypes, Compiles(f), ~Misjudged(f.ret)
  PROVE  \A k : Place(StaticInvoker(f), k) = Argument(ShiftSignature(BuildABISignature(f)), 0 + k)
<1> DEFINE callee == StaticInvoker(f)
           slot(type) == IF type.form = "floating" THEN "Floating" ELSE "Integral"
           native == [i \in DOMAIN callee.params |-> slot(callee.params[i])]
           sig == BuildABISignature(f)
           n == Len(f.params)
<1>1. f.params \in Seq(CppType) /\ n \in Nat /\ DOMAIN f.params = 1..n
  BY FunctionTypeFacts
<1>2. f \in [ret : CppType, params : Seq(CppType)]
  BY FunctionTypeAssumption
<1>3. callee.ret = f.ret /\ callee.params = <<Pointer>> \o f.params
  BY <1>2 DEF StaticInvoker
<1>4. Hidden(callee) = <<>> /\ Len(Hidden(callee)) = 0
  <2>1. Hidden(callee) = Hidden(f)
    BY <1>3 DEF Hidden
  <2> QED
    BY <2>1, LoweringAgrees
<1>5. /\ sig = [i \in DOMAIN f.params |-> slot(f.params[i])]
      /\ sig \in Signature /\ Len(sig) = n /\ DOMAIN sig = 1..n
  <2>1. <<>> \o [i \in DOMAIN f.params |-> slot(f.params[i])] = sig
    <3>1. Hidden(f) = <<>> /\ NativeSignature(f) = sig
      BY LoweringAgrees
    <3> QED
      BY <3>1 DEF NativeSignature
  <2>2. [i \in DOMAIN f.params |-> slot(f.params[i])] \in Seq(ArgumentType)
    BY <1>1 DEF ArgumentType
  <2>3. sig = [i \in DOMAIN f.params |-> slot(f.params[i])]
    BY <2>1, <2>2
  <2>4. sig \in [1..n -> ArgumentType]
    BY <1>1, <2>3 DEF ArgumentType
  <2> QED
    BY <1>1, <2>3, <2>4, TupleIsSequence DEF Signature
<1>6. Pointer \in CppType /\ slot(Pointer) = "Integral"
  BY DEF Pointer, CppType, Forms
<1>7. /\ DOMAIN callee.params = 1..(n + 1)
      /\ callee.params[1] = Pointer
      /\ \A i \in 1..n : callee.params[i + 1] = f.params[i]
  BY <1>1, <1>3, <1>6
<1>8. /\ ShiftSignature(sig) \in Signature
      /\ DOMAIN ShiftSignature(sig) = 1..(n + 1) /\ Len(ShiftSignature(sig)) = n + 1
      /\ ShiftSignature(sig)[1] = "Integral"
      /\ \A i \in 1..n : ShiftSignature(sig)[i + 1] = sig[i]
  BY <1>5, ShiftedSignature DEF ShiftSignature, Signature
<1>9. native \in Seq(ArgumentType) /\ Len(native) = n + 1 /\ DOMAIN native = 1..(n + 1)
  <2>1. native \in [1..(n + 1) -> ArgumentType] /\ n + 1 \in Nat
    BY <1>1, <1>7 DEF ArgumentType
  <2> QED
    BY <2>1, TupleIsSequence
<1>10. native = ShiftSignature(sig)
  <2>1. \A i \in 1..(n + 1) : i = 1 \/ (i - 1 \in 1..n /\ i = (i - 1) + 1)
    BY <1>1
  <2>2. ASSUME NEW i \in 1..(n + 1) PROVE native[i] = ShiftSignature(sig)[i]
    <3>1. CASE i = 1
      BY <1>6, <1>7, <1>8, <3>1
    <3>2. CASE i # 1
      <4>1. PICK j \in 1..n : i = j + 1
        BY <2>1, <3>2
      <4> HIDE DEF slot, n
      <4>2. native[j + 1] = slot(f.params[j]) /\ sig[j] = slot(f.params[j])
        BY <1>1, <1>5, <1>7, <2>2, <4>1
      <4> QED
        BY <1>8, <4>1, <4>2
    <3> QED
      BY <3>1, <3>2
  <2> HIDE DEF native, sig
  <2> QED
    BY <1>8, <1>9, <2>2, SeqEqual DEF Signature
<1>11. NativeSignature(callee) = ShiftSignature(sig)
  <2>1. <<>> \o native = native
    BY <1>9
  <2> QED
    BY <1>4, <1>10, <2>1 DEF NativeSignature
<1> QED
  BY <1>4, <1>11 DEF Place

\* Whatever the types of its parameters, and whatever it returns but a misjudged class,
\* a typed target finds each argument as the caller's compiler passed it.
THEOREM TypedTargetsSeeArguments ==
  ASSUME RedZoneSize = 0
  PROVE  TypedSpec => []TypedTargetSeesArguments
<1>1. PlainInv /\ CallInv => TypedTargetSeesArguments
  <2> SUFFICES ASSUME PlainInv, CallInv, target # NotCalled, fn # NoFunction,
                      ~Misjudged(fn.ret)
               PROVE  /\ target[Place(StaticInvoker(fn), 1)] = BindParam
                      /\ \A i \in DOMAIN fn.params :
                           Bytes(fn, target[Place(StaticInvoker(fn), i + 1)])
                             = Passed(i, fn.params[i])
    BY DEF TypedTargetSeesArguments, TargetFindsArguments
  <2> DEFINE sig == BuildABISignature(fn)
  <2>1. fn \in FunctionTypes /\ Compiles(fn) /\ thunk.sig = sig
    <3>1. thunk.generator # "ABISignatureArgumentIndexOutOfBounds"
      BY DEF PlainInv, TargetInv, Direct
    <3> QED
      BY <3>1 DEF CallInv, GeneratedFor, IsTypedThunk
  <2>2. sig \in Signature /\ Len(sig) <= MaxFuncArgs /\ DOMAIN sig = DOMAIN fn.params
    BY <2>1 DEF PlainInv, ThunkInv, BuildABISignature
  <2>3. Sees(sig, Incoming, target)
    BY <2>1, TargetFacts DEF InRedZone
  <2>4. \A k : Place(StaticInvoker(fn), k) = Argument(ShiftSignature(sig), 0 + k)
    BY <2>1, StaticInvokerPlaces
  <2>5. target[Place(StaticInvoker(fn), 1)] = BindParam
    <3>1. Place(StaticInvoker(fn), 1) = Argument(ShiftSignature(sig), 1)
      BY <2>4
    <3> QED
      BY <2>3, <3>1 DEF Sees
  <2>6. ASSUME NEW i \in DOMAIN fn.params
        PROVE  Bytes(fn, target[Place(StaticInvoker(fn), i + 1)]) = Passed(i, fn.params[i])
    <3>1. i \in Nat
      BY <2>1, ParameterFacts
    <3>2. Place(StaticInvoker(fn), i + 1) = Argument(ShiftSignature(sig), i + 1)
      BY <2>4, <3>1
    <3> HIDE DEF sig
    <3>3. target[Place(StaticInvoker(fn), i + 1)] = <<"in", 1, Argument(sig, i)>>
      BY <2>2, <2>3, <2>6, <3>2, IncomingArguments DEF Sees
    <3> QED
      BY <2>1, <2>6, <3>3, BytesPassed DEF sig
  <2> QED
    BY <2>5, <2>6
<1> QED
  BY <1>1, PlainInit, PlainNext, CallInit, CallNext, PTL DEF TypedSpec
=============================================================================
