# Formal model of BindingThunk

TLA+ modules, TLC configurations and TLAPS proofs for the thunk generator in
`src/`. A model of a code generator has two subjects: what the *library* does
(choose a generator, lay out a frame, register unwind data) and what the
*machine code it emits* does when native code calls it. Both are modelled; the
emitted code is the larger part.

## 1. The system

| component | source | state | operations |
|---|---|---|---|
| `RegisterContextStack` | `src/Context.cpp` | per thread an array of 256 context pointers and an index; a global fatal handler | `Push`, `Pop`, `Top`, test hooks for the handler |
| register binding thunk | `src/BindingThunk.cpp` `GenerateShiftWithRegisterContext` | its stack frame, which holds a `RegisterContext`; the registers | entry to call, call to return |
| register restore thunk | `src/RestoreThunk.cpp` `GenerateRestoreThunkForRegisterContext` | its frame: saved nonvolatiles, argument spills | entry to call, call to return |
| argument binding thunk | `GenerateBindingThunkForArgumentContext` | its frame, which holds an `ArgumentContext` | entry to call, call to return |
| argument restore thunk | `GenerateRestoreThunkForArgumentContext` | its frame: saved context pointer, with the Register flag also nonvolatiles | entry to call, call to return |
| `ArgumentContext` | `include/.../Context.hpp` | packed 64-bit arguments, return value, optional register snapshot | `SetReturnValue`, typed getters |
| default binding thunk, dispatch | `BindingThunk.cpp:48-195`, `RestoreThunk.cpp:22-46` | none | choose a generator, shift the arguments |
| `ABISignature` | `Common.cpp:400-472` | slots, largest assigned index, return slot | `SetArgumentSlot`, `SetReturnSlot`, `Finalize` |
| `FuncArgInfo` | `Common.cpp:474-600` | lazily filled register lists | places of arguments and return values |
| manual frames, unwind data | `Common.cpp:34-37, 111-215, 271-311, 607-863` | frame layout, unwind codes | prolog, epilog, encoding of `UNWIND_INFO` |
| unwind registration, `FThunkPtr` | `Common.cpp:219-269, 375-398, 872-892` | JIT memory, a mutex, a linked list, the system's function table | `AddThunkToRuntime`, `RegisterThunkWindowsUnwind`, `FThunkDeleter` |
| type lowering, typed generators | `Types.hpp`, `BindingThunk.hpp`, `RestoreThunk.hpp` | none | from a C++ function type to an `ABISignature`, or a refusal to compile |
| logging, error bridging, hashes | `Common.cpp`, `Hashes.hpp` | loggers | formatting, hashing of registers |

How they interact. A caller fills an `ABISignature`, the dispatcher finalizes it
and calls one generator. The generator asks `FuncArgInfo` where AsmJit places each
argument, emits a prolog, body and epilog, and hands the code to
`AddThunkToRuntime`, which on Windows also registers unwind data under a mutex.
At run time native code calls the thunk, the thunk calls native code, and that
code may call restore thunks and more binding thunks, on any thread. Register
thunks hand their captured context to restore thunks through the thread-local
stack; argument thunks hand a reference to the context in their frame to the
callback, which reads it through typed accessors. The holder of an `FThunkPtr` may destroy it on any thread.

What is hard about it:

* **nesting.** A context pushed by a binding thunk must be popped by the same call, and
  a restore thunk must find the innermost one; native code in between nests both
  kinds at will.
* **register traffic.** Capturing, shifting and restoring run with live values in
  the very registers they move, around calls (`Push`, `Pop`, `Top`) that clobber the
  volatile ones.
* **exceptions** unwind through thunks and run none of their code.
* **concurrency.** Generation and destruction race on JIT memory, the function table
  and the list; only the list is under the mutex, and addresses are reused at once.
* **encodings.** Unwind codes have limits at 128 bytes and must hold at every instruction.
* **unsigned sizes** decide which generator is used.
* **instruction order.** The generators emit moves one at a time through a scratch
  register; the order of the captures and restores is that of a hash table.
* **types.** Caller, callee and library must agree, size by size, on what is passed in a
  slot, by address, or through a hidden pointer.

`PROJECT.json` lists these hazards at their lines with the properties that cover them.

## 2. Modules

| module | models | abstracts |
|---|---|---|
| `BoundedStack` | what the context stack promises: one LIFO per thread | |
| `RegisterContextStack` | `Context.cpp`, operation by operation | the message text |
| `CallingConvention` | placement of arguments and return values | AsmJit's `FuncDetail` (external), parameterised for Win64 and System V |
| `Machine` | values of registers, what a call leaves, `SaveRegisterContext` | contents of values |
| `RegisterThunks` | both register thunks, native code, composed with `RegisterContextStack` by `INSTANCE` | frame offsets (see `ThunkFrame`) |
| `ArgumentThunks` | both argument thunks, with and without the Register flag, and shared contexts | the same; width of arguments |
| `EmittedCode` | moves, their operands, and what running a list of them does; scratch and nonvolatile registers, `FuncArgInfo`'s register lists | addresses through rsp (see `ThunkFrame`) |
| `RegisterCode`, `ArgumentCode` | `RegisterThunks` and `ArgumentThunks` with each thunk step replaced by the instructions its generator emits | the prolog's own pushes |
| `PlainThunks` | `ABISignature`, dispatch, default binding thunks | types other than the two ABI classes |
| `TypedThunks` | `PlainThunks` from C++ function types: the traits, the typed generators, `ArgumentContext`'s accessors, what the compilers of caller and callee do | a type is its form, its size and a class's features |
| `ThunkFrame` | prolog, epilog and unwind codes of every Windows frame | instructions that do not touch the frame |
| `ThunkLifetime` | what an `FThunkPtr` promises its holder | |
| `ThunkRegistry` | `AddThunkToRuntime`, `RegisterThunkWindowsUnwind`, `FThunkDeleter` | pointers of the list: a set of registrations |
| `ThunkList` | the same with the list itself: the head pointer, `Next`, linking in two assignments, the walk of the deleter | |
| `*Proofs` | theorems about the module they extend; `InductionProofs`: induction over the naturals and functions defined by recursion | |
| `MC*` | small instances for TLC | |

**Values.** A register or slot holds a tag: `<<"in", n, l>>` is what the caller of
call `n` put in location `l`, `<<"out", n, l>>` what the function that
served call `n` returned there, `Junk` anything nobody vouches for. All tags differ, so a
value that ends up in the wrong place, or survives a call it should not have
survived, is visible.

**Steps of thunks.** In `RegisterThunks` and `ArgumentThunks` a step runs from one call
or return to the next. That is sound because in between a thunk touches only
its own frame, its own registers and its own thread's `thread_local` stack. A
thunk's frame carries `entry` (the machine it was entered with, incoming stack
slots included) and `saved`. `BindEnter` is prolog, capture, `Push`, shift and call;
`BindLeave` is saving the return value, `Pop`, epilog and ret; `RestoreEnter` and
`RestoreLeave` likewise. Calls of `Push`, `Pop` and `Top` leave only
`Preserved` registers intact (`AfterCall`), and the fatal path of the context stack
terminates the process. A `RegisterContext` lives in the frame of its binding thunk and is named by
that frame's position in the call stack, so a pointer into a
dropped frame is a position that no open binding has.

**Instructions.** `RegisterCode` and `ArgumentCode` run the thunk's steps as lists of
moves between registers, incoming and outgoing stack slots, the frame and the context.
A move through a register other than rsp reads or writes what the context pointer leads to only
as long as that register still holds the pointer, and nothing otherwise, so a
restore that loads the base register too early is visible. `Orders` is the set of orders in which
`RegisterContextOffsets` may be iterated. `ImplementsThunks` states that the result is
one step of the abstract module, which is where the properties and most of the
proofs are.

**Types.** `TypedThunks` keeps of a C++ type its form (reference, scalar, floating or class),
its size, and of a class the features that make it other than a C struct: a constructor, private
data, a base class, a deleted assignment, copying that runs code, virtual functions. The standard's traits
that `ReturnedByValue` asks for and the Microsoft compiler's rules are written down separately over
those features (`IsAggregate` and its neighbours; `PassedInPlace`, `ReturnedInPlace`), so whether they agree is a
question and not a premise. They do not: a base class or a deleted assignment passes the traits,
while the compiler returns such a class through a hidden pointer (`Misjudged`, section 5). A slot is its eight bytes, each tagged with the argument or result it
belongs to; what nobody wrote is garbage. What the traits refuse does not compile and
is no action.

**Native code** does anything the ABI allows: it calls any thunk with new values
in every register, returns with nonvolatiles preserved and everything else changed,
and in `ArgumentThunks` passes the context it received to restore thunks on
either thread, sets return values, and throws. Its obligations are those of C++: it uses a context only
while the callback that received it runs, and it passes a restore thunk a context captured for the same signature and flags.
`RegisterThunks` has exceptions in `SpecWithExceptions` only, because they break its main
invariant (section 5).

**Steps of the registry.** One action per call or mutex operation another thread can observe:
the function table is changed before the lock is taken and the code released after
it is dropped. Both allocators may reuse a place at once. `Init` leaves the fields
a thread has not written yet arbitrary.

`ThunkList` replaces the set `registered` by what is reachable from the head pointer.
Linking is two assignments, removal is a walk whose `current` is the address of the pointer it last
followed; the walk never reads a registration that was freed (`WalkIsSafe`), and every
step is a step of `ThunkRegistry` (`ImplementsRegistry`). `Ahead(next, p)` is what a walk at
`p` still has before it, the least set closed under following the pointers; `Linked` is that from the head.

**Steps of frames.** `ThunkFrame` executes one instruction per step on a
model of rsp, the nonvolatile registers and the written stack cells, and at each
instruction asks what the system's unwinder would recover. Body instructions appear as their worst case: every
register the prolog saved and all local space are overwritten, and the callee uses
its home area.

## 3. Runs

| run | instance | shows |
|---|---|---|
| `context_stack` | 2 threads, capacity 2, null and two contexts | the array and index implement `BoundedStack` through overflow, underflow, stale entries and surviving handlers |
| `register_win64` | 1 thread, every signature of at most 4 arguments, 2 argument registers per class, two iteration orders | the emitted moves implement `RegisterThunks`; register-to-register, register-to-stack and stack-to-stack moves arrive; captures and nonvolatiles survive |
| `register_sysv` | 2 threads, 4 calls, capacity 2, a signature that spills | the context stack mirrors the call stacks, restores pair with the innermost binding, only misuse terminates |
| `argument_thunks` | 2 threads (symmetric), 3 calls, two signatures, two iteration orders | the emitted moves implement `ArgumentThunks`; contexts keep their arguments, targets see them on every restore, the last return value written arrives, no context outlives its frame |
| `plain_thunks` | Win64 registers and six stack slots, 6 arguments in every order, all flags; 14 types in every pair of parameters, some fifth parameters, one signature too long; those, `void` and a class with each single feature returned | no slot is dropped; the chosen generator delivers every argument; typed target and callback read the bytes the caller passed, the caller receives the result, unless the class returned is misjudged |
| `thunk_frame` | all frames for 12 argument counts, all 18 nonvolatiles | aligned calls, exact epilogs, correct unwinding |
| `registry` | 3 threads, 2 code places, 2 registrations | ownership, soundness of the function table, no leaks, a safe walk, the lock is released, refinement of `ThunkRegistry` by the list and of `ThunkLifetime` |
| `exceptions`, `red_zone`, `context_register`, `flags_window`, `return_traits` | see section 5 | disagreements between the code and its documentation |

**Bounds.** Placement treats argument registers alike, so two per class already give
a first, a last and a spilled argument of each; four
arguments reach every kind of move, and two moves of the same kind in one shift. Of any two captured registers each comes first in one
of the two iteration orders; a restore depends on nothing else of the order, since every move has
its own source and target but for the context pointer's register. Three calls on one thread nest a restore in a binding in
a binding; four on two threads overflow a stack of two. `MaxCalls` numbers calls and
bounds the behaviours; nothing else in the thunk modules is bounded. In
`ThunkFrame` the argument counts lie on both sides of each limit of the
encodings: the 127-byte displacement, the 128-byte small allocation, odd and even
stack, and 32, AsmJit's maximum. Three registry threads are one that reuses an address, one
that still removes the old registration, and one that walks the list.
`plain_thunks` fills a signature, generates one thunk from it and calls it once. Its types have
the sizes on both sides of every test in the traits: 1, 3, 4, 8, 16 and 24 bytes.

`CHECK_DEADLOCK FALSE` appears where the system may stop: after
`std::terminate`, at `MaxCalls`, or after a thunk's `ret`. The registry may never
deadlock and is checked for it.

**Fairness.** Only `ThunkRegistry!FairSpec` assumes any: weak fairness of
`Continue(t)` for each thread, that is, the operating system runs a thread that is
inside the library and can run. Nothing obliges anyone to generate or destroy a thunk. The mutex itself is not assumed fair:
`LockIsReleased` says only that no one keeps it.

## 4. Proofs

| theorem | module | statement |
|---|---|---|
| `TypeCorrect`, `StackRefinement` | `RegisterContextStackProofs` | types, and the refinement of `BoundedStack`, for every capacity, thread set and context set |
| `ArgumentHasAPlace`, `ArgumentPlacesAreDistinct`, `StackStaysOnStack` | `CallingConventionProofs` | placement is total and injective; the shift never moves an argument from the stack to a register (the case the generator emits nothing for) |
| `ThunkTypes`, `StackMirrors`, `TopOfStackIsInnermost`, `TerminationIsMisuse` | `RegisterThunksProofs` | the pairing of binding and restore thunks, for any threads, signatures, nesting and capacity |
| `Registry`, `TableIsSound`, `OwnedThunksUnwind`, `NothingLeaks`, `LifetimeRefinement` | `ThunkRegistryProofs` | ownership of code, registrations and table entries for any number of threads and places |
| `ListIsSound`, `WalksAreSafe`, `ListRefinement` | `ThunkRegistryProofs` | the chain of pointers is the set of registrations, no walk touches a freed one, and the list implements the set, for any list and any number of threads |
| `ArgumentsArrive`, `CapturesComeBack`, `ReturnsAreFaithful` | `RegisterThunksProofs` | what target, restored target and caller of register thunks find in their registers and slots, for any convention, signatures, nesting and threads |
| `TypeCorrect`, `CallbacksSeeArguments`, `TargetsSeeBinding`, `RegistersArePreserved`, `ReturnValuesAreHandedOn` | `ArgumentThunksProofs` | contexts live exactly as long as their binding thunk's call, and what callbacks, restored targets and callers find, for any convention, signatures, number of calls and threads that share contexts |
| `FinalizeKeepsEverySlot` | `TypedThunksProofs` | the builder, for any number of slots and any order of assignments |
| `TargetsOutsideRedZone`, `TargetsSeeArguments`, `PlainTypes` | `TypedThunksProofs` | both shifts deliver the bound parameter and every argument, for every signature; with a red zone, for every signature but those of the `red_zone` run |
| `LoweringAgrees`, `TypedTargetsSeeArguments`, `CallbacksReadArguments`, `CallersReceiveResults` | `TypedThunksProofs` | lowering, shifts, accessors and return values agree with the compilers, for every function type the traits accept, exactly unless it returns a misjudged class |
| `FramesAreAligned`, `FrameInvHolds`, `FrameTypes`, `ThunkCallsAreAligned`, `ThunkReturnsToCaller`, `ThunksUnwind` | `ThunkFrameProofs` | alignment, epilogs and unwind data of every Windows frame, for every number of arguments and any nonvolatile registers |

*Assumptions* are the named `ASSUME`s beside the constants: registers and slots are
distinct names, both argument banks are equally long on Win64, the capacity is
positive, the modelled stack has a slot for each argument of the largest signature
(`SlotsAssumption`), there are at most sixteen nonvolatile registers of each class
(`SavedAssumption`; x86-64 has no more). TLC evaluates them in every run. `TargetsSeeArguments`,
`PlainTypes` and `TypedTargetsSeeArguments` have `RedZoneSize = 0` as a hypothesis of their own, which is
Win64; on System V the first is false, as the run `red_zone` shows, and
`TargetsOutsideRedZone` says that nothing else is wrong there.

*Induction.* The library's induction theorems take a predicate as a parameter. `InductionProofs` derives
what is needed from the well-foundedness of `<` instead: a nonempty set of naturals has a least element, hence
a set that holds 0 and with each number the next holds all, hence a step can be
repeated any number of times and a function defined by recursion on `0..n` exists. That is how
`SimpleShift`, the sums of instruction sizes and the unwinder's two loops, all
recursive functions, are reasoned about.

*Register thunks.* The inductive invariant is `TypeOK /\ StackMirrorsCalls`: the live
part of a thread's array is exactly the set of positions of its open binding
thunks, in increasing order. It is inductive as it stands because `Push` adds the
position of the frame on top, which exceeds every open one, and because a thunk only
leaves when it is the top frame, so that what `Pop` removes is the
largest open position. `TopIsInnermost` and `OnlyMisuseTerminates` follow from
it: the stack is empty, or full, exactly when the number of open bindings says so.
Type correctness alone would not do: that `Pop` never underflows already needs the mirror.

*Values of register thunks.* What a target sees depends on steps taken long before: `DataInv`
therefore says of *every* pair of neighbouring frames what the lower one did to the machine the upper
one was entered with. A binding frame that has called shifted its `entry`; a restore frame
that has called was given the context of the innermost binding then open, which is still
open and still innermost below it; a thunk frame that has not called is on top and the
thread's registers are its `entry`; a thunk that has called has saved the nonvolatiles
of its `entry`. Because neighbours never change while they are below the top, a
step has to be checked at the top only (`DataNativeCall`, `DataReturn`, `DataCalling`). That
places are distinct, and that the shift puts nothing from the stack into a
register, comes from `CallingConventionProofs`.

*Argument thunks.* A context is shared between threads, so what one thread's stack says is not
enough. `Inv` has one part about a single call stack (`Stacks`: what each frame did to the machine of the next,
and that every call put at most two frames on some stack) and three about all of them: thunk frames are
numbered apart (`Numbered`), a context exists exactly for each binding thunk in its call and holds
what that frame was entered with (`ContextsLive`), and every restore thunk, on whatever thread, serves a
binding thunk of the same signature whose callback has not returned (`RestoresServe`). The last is
where the obligations of native code enter: a callback returns, and an exception passes it, only when
no restore thunk works for it (`NativeReturnStep`, `NativeThrowStep`). The steps that drop frames share
`CutStep`, those that call on `CallingStep`. `Binding(c)` is a `CHOOSE` over positions up to
`2 * MaxCalls + 1`: the bound on stack lengths makes it find the frame, `Numbered` makes it unique.

*Types.* `LoweringAgrees` compares the library's lowering with the compilers' rules. The traits leave a class
no feature but a base class and a deleted assignment (`AcceptedReturn`), so the compilers
use the slots of the `ABISignature`, behind one for a hidden pointer exactly where one of those two is present.
The theorems about targets, callbacks and callers exempt such a return type and nothing else; that they
must is what the run `return_traits` shows.
`CallInv` then carries it through a call: a thunk keeps the signature of its
function type, its context holds the bytes found where the `ABISignature` has the arguments, which are those the
caller's compiler passed unless a hidden pointer displaced them, and the return slot zero or the result. Reading back is `PadRead` (the lowest bytes of a padded slot) for what travels in the
slot, and injectivity of addresses for what does not. `PlacesAssumption` excludes
signatures longer than the stack the model provides, `FunctionTypeAssumption` states the sizes of C++ types.

*Registry.* `NoLeak` and `OwnedUnwinds` are not inductive, since they say nothing of a
thread in mid-operation. `RegistryInv` strengthens them: the mutex belongs to the
thread whose `pc` is in the locked region; every piece of code that nobody owns is
worked on by exactly one thread; every registration is in the list or in one
thread's hands; an entry is in the function table exactly from
`RtlAddFunctionTable` to `RtlDeleteFunctionTable`. Each step is shown to preserve the five
parts, and each to map to a step of `ThunkLifetime` or to none.

*The list.* `Linked` is a least closed set, so what is in it is shown by exhibiting closed sets:
linking a node adds it, unlinking removes exactly the node that was
followed. `ListIsSound` adds to `RegistryInv` that no two pointers of the chain lead to the same registration
(`ChainInv`), and that a thread with an address in hand owns the mutex and has its own registration
ahead of that address (`CurrentInv`), which is why a walk finds what it looks for and unlinks nothing else.

*Default thunks.* The generator chooses the simple shift when no argument is on the stack and
the red zone does not wrap the difference around. After `n` moves of the simple shift, the last
`n` arguments are in place and the others untouched: `SimpleShiftMoves`, by induction on
`n`, because the register an argument moves to is the one of its class that the argument after it
has already left. The complex shift moves all at once.

*Frames.* `FrameAt(p, n, c)` says for each position of the code what the frame holds: where rsp is, how
many registers are pushed and saved, that their cells and the return address still hold the
caller's values, and which registers may be dirty. `CodeByPosition` gives the instruction at each position from the pieces the
generator joins, `FrameStep` moves from one position to the next. `CallsAreAligned` and
`ReturnsToCaller` are what it says of the call and of the end. For `Unwinds` it is only the start of another computation: from an
epilog the unwinder executes the rest (`EpilogUnwinds`), from anywhere else it undoes the codes
whose offset is behind (`BodyUnwinds`). That needs the offsets of
instructions to be ordered (`OffsetOrder`), to fit into a byte (`OffsetsFit`) and, in compiled frames, to be
what the library predicts (`PrologOffsets`), and every operand to fit its slot (`OperandsOccur`). Then undoing code by code goes
back through frames of which the first `j` instructions are left (`UndoFrame`, `UndoStep`), and that is
where the order of codes in the `UNWIND_INFO` enters.

*Context stack.* The refinement mapping reads the array up to the index as a
sequence; `Pop`, which only moves the index, is then removal of the last element.

**Only model-checked.** `LockIsReleased` (liveness under fairness is
outside the prover), and the refinements of `RegisterThunks` and `ArgumentThunks` by the emitted lists of moves
(`ImplementsThunks` in both runs). The latter concern running a
list of moves for every signature and every order of the captures; they are the next
proofs to do (section 7).

## 5. Disagreements the runs exhibit

* **`exceptions`** (`BindingThunk.cpp:282`). Unwind data lets an exception pass through a
  register binding thunk, but nothing runs its `Pop`. The dead frame's context
  stays on the thread's stack, and a later restore thunk reads it.
* **`red_zone`** (`BindingThunk.cpp:77`). The size that decides between the simple and
  the complex shift is an unsigned difference that includes System V's red zone.
  Every smaller stack wraps around and is, by luck, treated as needing the stack; exactly 16 stack
  slots give zero, and the register-only generator is used on a signature with stack arguments.
* **`context_register`** (`RestoreThunk.cpp:261`). A safe argument restore thunk leaves
  the address of the context in the first integer register when no argument travels there.
* **`flags_window`** (`BindingThunk.cpp:36`, `RestoreThunk.cpp:120,251`). `pushfq` moves rsp
  outside the prolog, so at the next instruction the unwind codes are eight
  bytes off.
* **`return_traits`** (`Types.hpp:61`). The README takes what passes the traits to be
  returned by value. A trivial aggregate with a base class, or with a deleted assignment, passes and is
  returned through a hidden first pointer, which the `ABISignature` has no slot for. The thunk loads the
  bound parameter into that pointer's register, treats the pointer as the first argument and so leaves the last
  one unmoved; an `ArgumentContext` holds every argument one index late. This is the rule of
  the Microsoft compiler, which the README cites; one that returns such a class in a register has no such disagreement.

Seen while modelling and not given a run: `README.md:47` has a restore thunk restore all non-argument
registers, but `RegisterContext` (`Context.hpp:18`) has no field for `rbp`, which is not in
`Captured` either, so the target runs with the `rbp` of the restore thunk's caller; captured flags are those of the
prolog's `sub rsp`, because `pushfq` follows it (hence `rflags` is exempt in the
properties about captures); the README has the combined Argument and Register mode use
the thread-local stack, while the code keeps that snapshot in the frame; a signature
of 32 arguments is accepted although the bound parameter makes it 33
(`PlainThunks` calls the outcome `undefined`); two error codes of
`Common.hpp:112-113` are never returned; the README's typed example
`GenerateBindingThunk<EBindingThunkType::Argument, int*, int, double, bool, int>(Fn, Arg)` passes
`int*` where the template (`BindingThunk.hpp:72`) takes the return type, so it
generates a thunk for `int*(int, double, bool, int)`.

## 6. Not modelled

* Logging, error text and the conversion of AsmJit's error handler into log lines.
* AsmJit itself, whose placement, encoder and compiler are external definitions.
* User specialisations of the lowering traits, classes the traits refuse for reasons other than the
  features above (data in two classes of a hierarchy, default member initialisers), and types whose size differs from the Microsoft compiler's
  (a 16-byte `long double`).
* The frame-pointer branch and the far encodings of unwind data. No frame the library builds
  reaches them: it never asks AsmJit for a preserved frame pointer, and 32 arguments are AsmJit's
  limit. Read on its own, that branch measures `lea` without its REX prefix and takes
  `FrameOffset` for a distance AsmJit's `mov rbp, rsp` does not keep.
* Destruction of thunks with static storage after the runtime, whose order the program decides.

The register and argument thunks assume the frame that `ThunkFrame` checks; the two are not
joined into one state machine.

## 7. Plan

Done, in this order: context stack and its refinement, calling convention, register
thunks, registry and lifetime, argument thunks, frames, default thunks, their proofs; then the
registration list, the emitted code of all four thunks, the typed layer, and the proofs about values and
types; then induction, the list, the default thunks and the frames with their unwind data, proved.
What is left:

1. `ImplementsThunks` as theorems: the invariant of a run of moves, for any signature
   and order, first for register thunks, then for argument thunks.
2. The frame-pointer branch and far encodings of `BuildWindowsUnwindInfoForFuncFrame`, over
   arbitrary frames rather than those the library builds today.
