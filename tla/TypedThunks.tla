----------------------------- MODULE TypedThunks -----------------------------
(***************************************************************************)
(* The typed layer over PlainThunks on Win64: the templates that lower a   *)
(* C++ function type to an ABISignature, the typed generators, and the     *)
(* accessors of ArgumentContext.                                           *)
(*                                                                         *)
(* A type is what the templates and the compilers ask of it: its form, its *)
(* size and, of a class, the features that make it other than a C struct.  *)
(* The templates and the compilers each have their own rule about those.   *)
(* What the templates refuse does not compile: the action is not enabled.  *)
(*                                                                         *)
(* A slot is its eight bytes.  Byte b of argument i is <<"arg", i, b>>, of *)
(* the address of the caller's copy of it <<"pointer", i, b>>, of what the *)
(* function returns <<"result", 0, b>>.                                    *)
(***************************************************************************)
EXTENDS PlainThunks

CONSTANT FunctionTypes   \* the C++ function types thunks are generated for

\* "constructor": of its own, beside a default one that is trivial.  "copying": copying
\* or destroying it runs code.  A base class or a deleted assignment counts where a
\* member has it as well; the base is public, and one class holds all the data.
Features == {"constructor", "private data", "base class", "deleted assignment",
             "copying", "virtual function"}
Forms == {"void", "reference", "scalar", "floating", "class"}
CppType == [form : Forms, size : 0..32, has : SUBSET Features]

ASSUME FunctionTypeAssumption ==
  /\ FunctionTypes \subseteq [ret : CppType, params : Seq(CppType)]
  /\ \A f \in FunctionTypes :
       /\ \A i \in DOMAIN f.params : f.params[i].form # "void"
       /\ \A type \in {f.ret} \cup Range(f.params) :
            /\ type.form # "class" => type.has = {}
            /\ type.form = "reference" => type.size = 8
            /\ type.form = "floating" => type.size \in {4, 8}
            /\ type.form = "scalar" => type.size \in {1, 2, 4, 8, 12, 16, 24}

VARIABLES
  fn,        \* the function type the thunk was generated from
  context,   \* the ArgumentContext its callback is working on
  received   \* the bytes the thunk's caller took for the return value

typedVars == <<fn, context, received>>
allVars == <<vars, typedVars>>

NoFunction == [ret |-> [form |-> "void", size |-> 0, has |-> {}], params |-> <<>>]
NoContext == [data |-> <<>>, ret |-> <<>>]
Nothing == <<>>

-----------------------------------------------------------------------------
(* Slots *)

Garbage == <<"garbage", 0, 0>>
ZeroByte == <<"zero", 0, 0>>
Pad(bytes, filler) == [b \in 1..8 |-> IF b <= Len(bytes) THEN bytes[b] ELSE filler]

ValueOf(i, type) == [b \in 1..type.size |-> <<"arg", i, b>>]
AddressOf(i) == [b \in 1..8 |-> <<"pointer", i, b>>]
ResultOf(type) == [b \in 1..type.size |-> <<"result", 0, b>>]

-----------------------------------------------------------------------------
(* What the compiler of the thunk's caller and of its target does on Win64 *)

\* Copying and destroying it is copying its bytes.
TriviallyCopyable(type) == type.has \cap {"copying", "virtual function"} = {}

\* A class is passed like an integer of its size if its bytes may be copied; to be
\* returned like one it must be a class that C++03 calls plain old data.
PassedInPlace(type) == TriviallyCopyable(type) /\ type.size \in {1, 2, 4, 8}
ReturnedInPlace(type) ==
  \/ type.form = "void"
  \/ type.has = {} /\ type.size \in {1, 2, 4, 8}

\* What is not returned in a register is written through a hidden first parameter.
Hidden(f) == IF ReturnedInPlace(f.ret) THEN <<>> ELSE <<"Integral">>
NativeSignature(f) ==
  Hidden(f) \o [i \in DOMAIN f.params |->
    IF f.params[i].form = "floating" THEN "Floating" ELSE "Integral"]
Place(f, i) == Argument(NativeSignature(f), Len(Hidden(f)) + i)
ReturnPlaces(f) == ReturnRegisters(IF f.ret.form = "floating" THEN "Floating" ELSE "Integral")

Passed(i, type) == IF PassedInPlace(type) THEN Pad(ValueOf(i, type), Garbage) ELSE AddressOf(i)

\* The bytes behind a value of PlainThunks, when the caller calls a function of type f.
Bytes(f, value) ==
  IF \E i \in DOMAIN f.params : value = <<"in", 1, Place(f, i)>>
  THEN LET i == CHOOSE i \in DOMAIN f.params : value = <<"in", 1, Place(f, i)>>
       IN  Passed(i, f.params[i])
  ELSE Pad(<<>>, Garbage)

-----------------------------------------------------------------------------
(* Types.hpp *)

ClassOrUnion(type) == type.form = "class"
ScalarOrReference(type) == type.form \in {"reference", "scalar", "floating"}

\* A size in bits of at most 64 with one bit set.
IsSizeOfTPowerOfTwo(type) == 8 * type.size \in {1, 2, 4, 8, 16, 32, 64}

ByValueUpToASlot(type) ==   \* mutant: odd sizes count too
  ClassOrUnion(type) /\ type.size <= 8
ClassOrUnionValueActuallyPassedByValue(type) ==
  ClassOrUnion(type) /\ IsSizeOfTPowerOfTwo(type)

\* The standard's traits.  Since C++17 an aggregate may have a public base class.
IsStandardLayout(type) == "virtual function" \notin type.has
IsTrivial(type) == TriviallyCopyable(type)
IsAggregate(type) == type.has \cap {"constructor", "private data", "virtual function"} = {}
IsPolymorphic(type) == "virtual function" \in type.has

ReturnedIfTrivial(type) ==   \* mutant: classes that are no aggregates count too
  \/ ScalarOrReference(type) /\ type.size <= 8
  \/ /\ ClassOrUnion(type) /\ IsStandardLayout(type) /\ IsTrivial(type)
     /\ ~IsPolymorphic(type) /\ IsSizeOfTPowerOfTwo(type)
ReturnedByValue(type) ==
  \/ ScalarOrReference(type) /\ type.size <= 8
  \/ /\ ClassOrUnion(type) /\ IsStandardLayout(type) /\ IsTrivial(type) /\ IsAggregate(type)
     /\ ~IsPolymorphic(type) /\ IsSizeOfTPowerOfTwo(type)

\* What is not passed by value becomes a reference to a copy.  The public trait, which
\* users may specialize, is lowered once more by the private one.
AsmJitCompatArgNotSpecialized(type) ==
  IF ScalarOrReference(type) \/ ClassOrUnionValueActuallyPassedByValue(type) THEN type
  ELSE [form |-> "reference", size |-> 8, has |-> {}]
AsmJitCompatArg(type) == AsmJitCompatArgNotSpecialized(type)
AsmJitCompatArgV(type) == AsmJitCompatArgNotSpecialized(AsmJitCompatArg(type))

\* Both return traits are static assertions; neither lowers anything.
AsmJitCompatRet(type) == type.form = "void" \/ ReturnedByValue(type)

-----------------------------------------------------------------------------
(* ABISignature, typed *)

ArgumentSlotOf(type) ==
  IF AsmJitCompatArgV(type).form = "floating" THEN "Floating" ELSE "Integral"

ReturnSlotDoubleOnly(type) ==   \* mutant: only double is recognised
  IF type.form = "void" THEN "Void"
  ELSE IF type.form = "floating" /\ type.size = 8 THEN "Floating" ELSE "Integral"
ReturnSlotOf(type) ==
  IF type.form = "void" THEN "Void"
  ELSE IF type.form = "floating" THEN "Floating" ELSE "Integral"

\* Only Win64 has the traits at all.
Compiles(f) == Positional /\ AsmJitCompatRet(f.ret)
BuildABISignature(f) == [i \in DOMAIN f.params |-> ArgumentSlotOf(f.params[i])]

ASSUME PlacesAssumption == \A f \in FunctionTypes : Representable(BuildABISignature(f))

TypedGenerate(f, generator) ==
  /\ Compiles(f)
  /\ IF Len(f.params) > MaxFuncArgs
     THEN Generate("ABISignatureArgumentIndexOutOfBounds", <<>>, "Void")
     ELSE Generate(generator, BuildABISignature(f), ReturnSlotOf(f.ret))
  /\ fn' = f
  /\ UNCHANGED <<context, received>>

Pointer == [form |-> "scalar", size |-> 8, has |-> {}]

\* The function a thunk of type f binds, or the StaticInvoker of a member function:
\* a pointer, then the same parameters.
StaticInvoker(f) == [f EXCEPT !.params = <<Pointer>> \o @]

\* For a function, and through StaticInvoker for a member function.
TypedBindingThunk(f, flags) ==
  /\ IsValidBindingThunkType(flags) /\ "Argument" \notin flags
  /\ TypedGenerate(f, BindingGenerator(BuildABISignature(f), flags))

\* For a callback, free or a member, that takes an ArgumentContext.
TypedArgumentThunk(f, flags) ==
  /\ IsValidBindingThunkType(flags)
  /\ TypedGenerate(f, BindingGenerator(BuildABISignature(f), flags \cup {"Argument"}))

TypedRestoreThunk(f, flags) == TypedGenerate(f, RestoreGenerator(flags))

-----------------------------------------------------------------------------
(* ArgumentContext *)

\* Native code calls an argument thunk, which calls the callback (ArgumentThunks).
CallArgumentThunk ==
  /\ thunk.generator \in {"argument", "argument with registers"}
  /\ fn # NoFunction
  /\ context = NoContext
  /\ context' = [data |-> [i \in DOMAIN thunk.sig |->
                             Bytes(fn, <<"in", 1, Argument(thunk.sig, i)>>)],
                 ret |-> Pad(<<>>, ZeroByte)]
  /\ UNCHANGED <<vars, fn, received>>

InCallback == context # NoContext /\ received = Nothing

\* std::bit_cast or memcpy of the lowest bytes.
ReadPackedValue(type, raw) == SubSeq(raw, 1, type.size)
CanReadPackedValue(type) == type.size <= 8 /\ TriviallyCopyable(type)

\* A reference is asked for as a pointer.
AsPointer(type) == IF type.form = "reference" THEN Pointer ELSE type

\* The copy an address leads to.
Dereferenced(raw, type) ==
  IF \E i \in DOMAIN fn.params : raw = AddressOf(i)
  THEN ValueOf(CHOOSE i \in DOMAIN fn.params : raw = AddressOf(i), type)
  ELSE [b \in 1..type.size |-> Garbage]

\* Index counts from zero.
CanGetArgumentAs(type) == AsmJitCompatArgV(type).form = "reference" \/ CanReadPackedValue(type)
GetArgumentAs(index, type) ==
  IF index >= Len(context.data) THEN "ArgumentContextOutOfBoundsArgumentIndex"
  ELSE IF AsmJitCompatArgV(type).form = "reference"
       THEN Dereferenced(context.data[index + 1], type)
  ELSE ReadPackedValue(type, context.data[index + 1])

GetArgumentRaw(index) ==
  IF index >= Len(context.data) THEN "ArgumentContextOutOfBoundsArgumentIndex"
  ELSE context.data[index + 1]

GetReturnValue(type) == ReadPackedValue(type, context.ret)

\* A typed SetReturnValue widens with zeros; what a restore thunk stores is the
\* return register, whose upper bytes are anything.
SetReturnValue(filler) ==
  /\ InCallback /\ fn.ret.form # "void"
  /\ context' = [context EXCEPT !.ret = Pad(ResultOf(fn.ret), filler)]
  /\ UNCHANGED <<vars, fn, received>>

\* The callback returns: the thunk loads the return register its signature names, and
\* writes nothing through a hidden pointer.
CallbackReturns ==
  /\ InCallback /\ fn.ret.form # "void"
  /\ LET arrives == /\ ReturnedInPlace(fn.ret)
                    /\ ReturnPlaces(fn) = ReturnRegisters(thunk.ret)
     IN  received' = SubSeq(IF arrives THEN context.ret ELSE Pad(<<>>, Garbage), 1, fn.ret.size)
  /\ UNCHANGED <<vars, fn, context>>

-----------------------------------------------------------------------------
TypedInit == Init /\ fn = NoFunction /\ context = NoContext /\ received = Nothing

\* Bound: the typed generators, whose ABISignature is their own, are called only
\* where no other has been filled or used.
Untouched == Building /\ largest = -1 /\ returnSlot = "Unknown"

TypedNext ==
  \/ Next /\ UNCHANGED typedVars
  \/ /\ Untouched
     /\ \E f \in FunctionTypes, flags \in EBindingThunkType :
          TypedBindingThunk(f, flags) \/ TypedArgumentThunk(f, flags) \/ TypedRestoreThunk(f, flags)
  \/ CallArgumentThunk
  \/ \E filler \in {ZeroByte, Garbage} : SetReturnValue(filler)
  \/ CallbackReturns

TypedSpec == TypedInit /\ [][TypedNext]_allVars

-----------------------------------------------------------------------------
\* The classes whose return value ReturnedByValue misjudges: it has no test for these
\* two features, which make the compiler return a class through a hidden pointer.
Misjudged(type) == type.has \cap {"base class", "deleted assignment"} # {}

\* The target, as its compiler sees it, finds the bound pointer and every argument
\* as the caller's compiler passed it.
TargetFindsArguments ==
  LET callee == StaticInvoker(fn)
  IN  /\ target[Place(callee, 1)] = BindParam
      /\ \A i \in DOMAIN fn.params :
           Bytes(fn, target[Place(callee, i + 1)]) = Passed(i, fn.params[i])

\* The typed target of a default binding thunk finds its arguments, whatever the types
\* of its parameters, and whatever it returns but a misjudged class: no other type the
\* traits accept is returned through a hidden pointer.
TypedTargetSeesArguments ==
  target # NotCalled /\ fn # NoFunction /\ ~Misjudged(fn.ret) => TargetFindsArguments

\* README.md:74, "if a return type passes those type trait checks, then it's safe to
\* assume it's returned by value": a target finds its arguments whatever it returns.
\* False of a misjudged class, whose hidden pointer no ABISignature has a slot for.
AcceptedReturnIsByValue ==
  target # NotCalled /\ fn # NoFunction => TargetFindsArguments

\* GetArgumentAs gives a callback the bytes of the argument the caller passed, from
\* its slot or from the copy the slot points to, never an upper byte nobody wrote;
\* a reference is the address the caller passed.  An index too large is an error,
\* even where the return value is misjudged and the arguments are mislaid.
CallbackReadsArguments ==
  context # NoContext =>
    /\ ~Misjudged(fn.ret) => \A i \in DOMAIN fn.params :
         LET type == AsPointer(fn.params[i])
         IN  /\ CanGetArgumentAs(type) => GetArgumentAs(i - 1, type) = ValueOf(i, type)
             /\ GetArgumentRaw(i - 1) = Passed(i, fn.params[i])
    /\ GetArgumentAs(Len(fn.params), Pointer) = "ArgumentContextOutOfBoundsArgumentIndex"

\* GetReturnValue shows a callback what was set, by the callback or by a restored
\* target, or else zero; and the caller of the thunk takes that from where its
\* compiler expects it, unless that is behind the hidden pointer of a misjudged class.
CallerReceivesResult ==
  context # NoContext /\ fn.ret.form # "void" =>
    LET result == IF context.ret = Pad(<<>>, ZeroByte) THEN [b \in 1..fn.ret.size |-> ZeroByte]
                  ELSE ResultOf(fn.ret)
    IN  /\ GetReturnValue(AsPointer(fn.ret)) = result
        /\ ~Misjudged(fn.ret) => received \in {Nothing, result}
=============================================================================
