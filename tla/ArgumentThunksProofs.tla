------------------------- MODULE ArgumentThunksProofs -------------------------
(***************************************************************************)
(* Argument thunks are correct for every calling convention, every set of  *)
(* signatures and any number of threads that share contexts.               *)
(*                                                                         *)
(* Part of the invariant speaks of one thread: what each frame of its call *)
(* stack did to the next (Stack).  The rest speaks of all: calls are       *)
(* numbered apart, a context exists exactly while its binding thunk is in  *)
(* its call, and a restore thunk works for a callback that has not         *)
(* returned.                                                               *)
(***************************************************************************)
EXTENDS ArgumentThunks, CallingConventionProofs

Top1(s) == s[Len(s)]
Keeps(a, b) == \A r \in Preserved : a[r] = b[r]
IsOpen(f) == f.kind = "bind" /\ f.pc = "call"

\* What the nonvolatile registers must still be, while the function frame f called
\* has the register file.
Keeping(f, file) ==
  /\ f.kind = "bind" => Keeps(file, f.entry)
  /\ f.kind = "restore" => Keeps(IF f.safe THEN f.saved ELSE file, f.entry)

\* Frame f has called the function of frame g.
Called(f, g) ==
  /\ f.pc = "call"
  /\ f.kind # "native" => g.kind = "native" /\ g.id = f.id
  /\ Keeping(f, g.entry)
  /\ f.kind = "bind" =>
       /\ g.entry[Argument(CallbackSignature, 1)] = BindParam
       /\ g.entry[Argument(CallbackSignature, 2)] = Context(f.id)

\* The registers when the innermost frame f runs.
Running(f, file) ==
  /\ f.kind = "native" => f.pc = "call"
  /\ f.pc = "entry" => file = f.entry
  /\ f.pc = "call" => Keeping(f, file)
  /\ f.kind = "restore" /\ f.pc = "call" =>
       \A l \in Locations \ Preserved : file[l] = <<"out", f.id, l>>

CallStack(s) == s \in Seq(Frame) /\ s # <<>> /\ s[1].kind = "native"

Stack(s, file) ==
  /\ CallStack(s)
  /\ \A n \in 1..Len(s) : s[n].kind # "native" => s[n].sig \in Signatures
  /\ \A n \in 1..(Len(s) - 1) : Called(s[n], s[n + 1])
  /\ Running(Top1(s), file)

-----------------------------------------------------------------------------
(* Registers *)

\* What the code writes by itself are values, and registers are locations.
LEMMA ValueFacts ==
  /\ Junk \in Value /\ BindParam \in Value /\ Zero \in Value
  /\ \A c \in Nat : Context(c) \in Value /\ <<"set", c, "rax">> \in Value
  /\ \A c \in Nat : \A l \in Locations : <<"in", c, l>> \in Value /\ <<"out", c, l>> \in Value
  /\ Registers \subseteq Locations /\ Preserved \subseteq Registers
  /\ Registers \cap Slots = {} /\ ArgRegisters \cap Preserved = {}
  /\ NoMemory \in [Registers -> Value]
<1>1. "rax" \in Locations
  BY ConventionAssumption DEF Locations, Registers
<1>2. Junk \in Value /\ BindParam \in Value /\ Zero \in Value
  BY <1>1 DEF Junk, BindParam, Zero, Value
<1>3. \A c \in Nat : Context(c) \in Value /\ <<"set", c, "rax">> \in Value
  BY <1>1 DEF Context, Value
<1>4. \A c \in Nat : \A l \in Locations : <<"in", c, l>> \in Value /\ <<"out", c, l>> \in Value
  BY DEF Value
<1>5. /\ Registers \subseteq Locations /\ Preserved \subseteq Registers
      /\ Registers \cap Slots = {} /\ ArgRegisters \cap Preserved = {}
  BY ConventionAssumption DEF Locations, Registers
<1>6. NoMemory \in [Registers -> Value]
  BY <1>2 DEF NoMemory
<1> QED
  BY <1>2, <1>3, <1>4, <1>5, <1>6

\* Places of arguments are locations, each its own, and no nonvolatile register.
LEMMA PlaceFacts ==
  ASSUME NEW sig \in Signature, StackArguments(sig) <= Len(StackSlots)
  PROVE  /\ \A i \in DOMAIN sig : /\ Argument(sig, i) \in Locations
                                  /\ Argument(sig, i) \notin Preserved
                                  /\ Argument(sig, i) \in Slots \cup ArgRegisters
                                  /\ IsReg(sig, i) => Argument(sig, i) \in ArgRegisters
                                  /\ ~IsReg(sig, i) => Argument(sig, i) \in Slots
         /\ \A i, j \in DOMAIN sig : Argument(sig, i) = Argument(sig, j) => i = j
<1>1. ASSUME NEW i \in DOMAIN sig
      PROVE  /\ Argument(sig, i) \in Locations
             /\ IsReg(sig, i) => Argument(sig, i) \in ArgRegisters
             /\ ~IsReg(sig, i) => Argument(sig, i) \in Slots
  <2>1. Range(RegisterBank(sig[i])) \subseteq ArgRegisters
    BY DEF RegisterBank, ArgRegisters
  <2> QED
    BY <2>1, ArgumentHasAPlace DEF IsStack
<1>2. \A l \in Slots \cup ArgRegisters : l \notin Preserved
  BY ValueFacts
<1>3. \A i, j \in DOMAIN sig : Argument(sig, i) = Argument(sig, j) => i = j
  BY ArgumentPlacesAreDistinct
<1> QED
  BY <1>1, <1>2, <1>3

\* A thunk's signature fits the model's stack.
LEMMA SignatureFacts ==
  ASSUME NEW sig \in Signatures
  PROVE  /\ sig \in Signature /\ StackArguments(sig) <= Len(StackSlots)
         /\ DOMAIN sig = 1..Len(sig) /\ Len(sig) \in Nat
<1>1. sig \in Seq(ArgumentType) /\ Representable(sig)
  BY SignatureAssumption
<1> QED
  BY <1>1, LenProperties DEF Representable, Signature

\* Both parameters of a callback travel in argument registers.
LEMMA CallbackPlaces ==
  /\ \A i \in {1, 2} : /\ Argument(CallbackSignature, i) \in Locations
                       /\ Argument(CallbackSignature, i) \notin Preserved
  /\ Argument(CallbackSignature, 1) # Argument(CallbackSignature, 2)
<1> DEFINE sig == CallbackSignature
<1>1. sig \in Signature /\ DOMAIN sig = 1..2 /\ \A i \in 1..2 : sig[i] = "Integral"
  BY DEF CallbackSignature, Signature, ArgumentType
<1>2. \A i \in 1..2 : IsReg(sig, i)
  <2> SUFFICES ASSUME NEW i \in 1..2 PROVE Ordinal(sig, i) <= Len(GpArgs)
    BY <1>1 DEF IsReg, RegisterBank
  <2>1. Len(GpArgs) >= 2 /\ Len(GpArgs) \in Nat
    BY IntegerArguments, ConventionAssumption, LenProperties
  <2>2. Cardinality({j \in 1..i : sig[j] = sig[i]}) <= i
    <3>1. IsFiniteSet(1..i) /\ Cardinality(1..i) = i
      BY FS_Interval
    <3>2. {j \in 1..i : sig[j] = sig[i]} \in SUBSET (1..i)
      OBVIOUS
    <3> QED
      BY <3>1, <3>2, FS_Subset
  <2>3. Ordinal(sig, i) \in Nat
    BY <1>1, OrdinalType
  <2>4. Ordinal(sig, i) <= i
    BY <2>2 DEF Ordinal
  <2> QED
    BY <2>1, <2>3, <2>4
<1>3. StackArguments(sig) = 0
  <2>1. {i \in DOMAIN sig : IsStack(sig, i)} = {}
    BY <1>1, <1>2 DEF IsStack
  <2> QED
    BY <2>1, FS_EmptySet DEF StackArguments
<1>4. StackArguments(sig) <= Len(StackSlots)
  BY <1>3, ConventionAssumption, LenProperties
<1> HIDE DEF sig
<1>5. \A i \in 1..2 : Argument(sig, i) \in Locations /\ Argument(sig, i) \notin Preserved
  BY <1>1, <1>4, PlaceFacts
<1>6. Argument(sig, 1) # Argument(sig, 2)
  BY <1>1, <1>4, PlaceFacts
<1> QED
  BY <1>5, <1>6 DEF sig

-----------------------------------------------------------------------------
(* Call stacks *)

\* A call stack is not empty, and a thunk is never its first frame.
LEMMA CallStackFacts ==
  ASSUME NEW s, CallStack(s)
  PROVE  /\ Len(s) \in Nat \ {0} /\ DOMAIN s = 1..Len(s)
         /\ \A n \in 1..Len(s) : s[n] \in Frame
         /\ Top1(s) \in Frame
         /\ Top1(s).kind # "native" => Len(s) > 1
<1>1. s \in Seq(Frame) /\ s # <<>> /\ s[1].kind = "native"
  BY DEF CallStack
<1>2. Len(s) \in Nat \ {0} /\ DOMAIN s = 1..Len(s) /\ \A n \in 1..Len(s) : s[n] \in Frame
  BY <1>1, EmptySeq, LenProperties, ElementOfSeq
<1> QED
  BY <1>1, <1>2 DEF Top1

\* A frame is put on top.
LEMMA Appended ==
  ASSUME NEW q \in Seq(Frame), NEW g \in Frame, NEW r, r = Append(q, g)
  PROVE  /\ r \in Seq(Frame) /\ r # <<>> /\ Len(r) = Len(q) + 1 /\ DOMAIN r = 1..Len(r)
         /\ \A n \in 1..Len(q) : r[n] = q[n]
         /\ r[Len(q) + 1] = g
BY AppendProperties, LenProperties

\* A frame below the top has called on, and only it.
LEMMA StackFacts ==
  ASSUME NEW s, NEW file, Stack(s, file)
  PROVE  /\ CallStack(s) /\ Len(s) \in Nat \ {0} /\ DOMAIN s = 1..Len(s)
         /\ \A n \in 1..Len(s) : n # Len(s) => s[n].pc = "call" /\ Called(s[n], s[n + 1])
         /\ Running(Top1(s), file)
<1>1. Len(s) \in Nat \ {0} /\ DOMAIN s = 1..Len(s)
  BY CallStackFacts DEF Stack
<1>2. \A n \in 1..Len(s) : n # Len(s) => n \in 1..(Len(s) - 1)
  <2>1. \A k \in Nat : \A n \in 1..k : n # k => n \in 1..(k - 1)
    OBVIOUS
  <2> QED
    BY <1>1, <2>1
<1> QED
  BY <1>1, <1>2 DEF Stack, Called

\* Native code calls a thunk.
LEMMA StackEntered ==
  ASSUME NEW s, NEW old, Stack(s, old), Top1(s).kind = "native",
         NEW g \in Frame, g.kind # "native", g.pc = "entry", g.sig \in Signatures,
         NEW r, r = Append(s, g)
  PROVE  /\ Stack(r, g.entry)
         /\ Len(r) = Len(s) + 1 /\ DOMAIN r = 1..Len(r)
         /\ \A n \in 1..Len(s) : r[n] = s[n]
         /\ r[Len(s) + 1] = g
<1> DEFINE k == Len(s)
<1>1. /\ s \in Seq(Frame) /\ s # <<>> /\ s[1].kind = "native"
      /\ k \in Nat \ {0}
  BY CallStackFacts DEF Stack, CallStack
<1>2. /\ r \in Seq(Frame) /\ r # <<>> /\ Len(r) = k + 1
      /\ \A n \in 1..k : r[n] = s[n]
      /\ r[k + 1] = g /\ DOMAIN r = 1..Len(r)
  BY <1>1, AppendProperties, LenProperties
<1>3. Top1(s) = s[k]
  BY DEF Top1
<1> HIDE DEF k
<1>4. CallStack(r)
  BY <1>1, <1>2 DEF CallStack
<1>5. \A n \in 1..Len(r) : r[n].kind # "native" => r[n].sig \in Signatures
  <2>1. \A n \in 1..(k + 1) : n = k + 1 \/ n \in 1..k
    BY <1>1
  <2> QED
    BY <1>2, <2>1 DEF Stack, k
<1>6. ASSUME NEW n \in 1..k PROVE Called(r[n], r[n + 1])
  <2>1. CASE n = k
    BY <1>1, <1>2, <1>3, <2>1 DEF Called, Stack, Running, Keeping
  <2>2. CASE n # k
    <3>1. n \in 1..(k - 1) /\ n + 1 \in 1..k
      BY <1>1, <2>2
    <3> QED
      BY <1>2, <3>1 DEF Stack, k
  <2> QED
    BY <2>1, <2>2
<1>7. Running(Top1(r), g.entry)
  BY <1>2 DEF Running, Top1
<1>8. (k + 1) - 1 = k
  BY <1>1
<1> QED
  BY <1>2, <1>4, <1>5, <1>6, <1>7, <1>8 DEF Stack, k

\* Functions return, or an exception drops them, down to frame k.
LEMMA StackCut ==
  ASSUME NEW s, NEW old, Stack(s, old), NEW k \in 1..(Len(s) - 1),
         NEW file, Running(s[k], file), NEW r, r = SubSeq(s, 1, k)
  PROVE  /\ Stack(r, file)
         /\ Len(r) = k /\ DOMAIN r = 1..k
         /\ \A n \in 1..k : r[n] = s[n]
<1>1. /\ Len(s) \in Nat \ {0} /\ s[1].kind = "native" /\ \A n \in 1..Len(s) : s[n] \in Frame
  BY CallStackFacts DEF Stack, CallStack
<1>2. k \in Nat /\ k >= 1 /\ k < Len(s)
  BY <1>1
<1>3. \A n \in 1..k : n \in 1..Len(s)
  BY <1>1, <1>2
<1>4. r \in Seq(Frame) /\ Len(r) = k /\ \A n \in 1..k : r[n] = s[n]
  <2>1. \A n \in 1..k : s[n] \in Frame
    BY <1>1, <1>3
  <2>2. /\ r \in Seq(Frame)
        /\ Len(r) = IF 1 <= k THEN k - 1 + 1 ELSE 0
        /\ \A n \in 1..(k - 1 + 1) : r[n] = s[1 + n - 1]
    BY <1>2, <2>1, SubSeqProperties
  <2>3. k - 1 + 1 = k /\ \A n \in 1..k : 1 + n - 1 = n
    BY <1>2
  <2> QED
    BY <1>2, <2>2, <2>3
<1>5. DOMAIN r = 1..k
  BY <1>4, LenProperties
<1>6. CallStack(r)
  <2>1. 1 \in 1..k
    BY <1>2
  <2> QED
    BY <1>1, <1>2, <1>4, <2>1, EmptySeq DEF CallStack
<1>7. \A n \in 1..(k - 1) : n \in 1..k /\ n + 1 \in 1..k /\ n \in 1..(Len(s) - 1)
  BY <1>1, <1>2
<1>8. \A n \in 1..(k - 1) : Called(r[n], r[n + 1])
  BY <1>4, <1>7 DEF Stack
<1>9. Running(Top1(r), file)
  BY <1>2, <1>4 DEF Top1
<1> QED
  BY <1>3, <1>4, <1>5, <1>6, <1>8, <1>9 DEF Stack

\* A thunk calls on: its frame becomes f, native code runs above it.
LEMMA StackCalling ==
  ASSUME NEW s, NEW old, Stack(s, old), Top1(s).kind # "native",
         NEW f \in Frame, f.kind = Top1(s).kind, f.sig = Top1(s).sig,
         f.entry = Top1(s).entry, f.id = Top1(s).id,
         NEW g \in Frame, g.kind = "native", g.pc = "call", Called(f, g),
         NEW r, r = Append([s EXCEPT ![Len(s)] = f], g)
  PROVE  /\ Stack(r, g.entry)
         /\ Len(r) = Len(s) + 1 /\ DOMAIN r = 1..Len(r)
         /\ \A n \in 1..Len(s) : r[n] = IF n = Len(s) THEN f ELSE s[n]
         /\ r[Len(s) + 1] = g
<1> DEFINE k == Len(s)
           q == [s EXCEPT ![Len(s)] = f]
<1>1. /\ s \in Seq(Frame) /\ s # <<>> /\ s[1].kind = "native"
      /\ k \in Nat \ {0} /\ k > 1 /\ Top1(s) = s[k]
  BY CallStackFacts DEF Stack, CallStack, Top1
<1>2. q \in Seq(Frame) /\ Len(q) = k /\ \A n \in 1..k : q[n] = IF n = k THEN f ELSE s[n]
  BY <1>1, ExceptSeq
<1>3. /\ r \in Seq(Frame) /\ r # <<>> /\ Len(r) = k + 1
      /\ \A n \in 1..k : r[n] = q[n]
      /\ r[k + 1] = g /\ DOMAIN r = 1..Len(r)
  <2>1. r = Append(q, g)
    OBVIOUS
  <2> HIDE DEF q, k
  <2>2. q \in Seq(Frame)
    BY <1>2
  <2>3. /\ r \in Seq(Frame) /\ r # <<>> /\ Len(r) = Len(q) + 1 /\ DOMAIN r = 1..Len(r)
        /\ \A n \in 1..Len(q) : r[n] = q[n]
        /\ r[Len(q) + 1] = g
    BY <2>1, <2>2, Appended
  <2> QED
    BY <1>2, <2>3
<1> HIDE DEF q
<1> HIDE DEF k
<1>4. r[k] = f /\ \A n \in 1..k : r[n] = IF n = k THEN f ELSE s[n]
  BY <1>1, <1>2, <1>3
<1>5. CallStack(r)
  <2>1. 1 \in 1..k /\ 1 # k
    BY <1>1
  <2> QED
    BY <1>1, <1>3, <1>4, <2>1 DEF CallStack
<1>6. \A n \in 1..Len(r) : r[n].kind # "native" => r[n].sig \in Signatures
  <2>1. \A n \in 1..(k + 1) : n = k + 1 \/ n \in 1..k
    BY <1>1
  <2>2. k \in 1..k
    BY <1>1
  <2>3. \A n \in 1..k : s[n].kind # "native" => s[n].sig \in Signatures
    BY DEF Stack, k
  <2> QED
    BY <1>1, <1>3, <1>4, <2>1, <2>2, <2>3
<1>7. ASSUME NEW n \in 1..k PROVE Called(r[n], r[n + 1])
  <2>1. CASE n = k
    BY <1>3, <1>4, <2>1
  <2>2. CASE n # k
    <3>1. n \in 1..(k - 1) /\ n + 1 \in 1..k
      BY <1>1, <2>2
    <3>2. Called(s[n], s[n + 1]) /\ r[n] = s[n]
      BY <1>4, <2>2, <3>1 DEF Stack, k
    <3>3. CASE n + 1 = k
      <4>1. s[n + 1] = Top1(s) /\ r[n + 1] = f
        BY <1>1, <1>4, <3>3
      <4> QED
        BY <3>2, <4>1 DEF Called, Keeping
    <3>4. CASE n + 1 # k
      BY <1>4, <3>1, <3>2, <3>4
    <3> QED
      BY <3>3, <3>4
  <2> QED
    BY <2>1, <2>2
<1>8. Running(Top1(r), g.entry)
  BY <1>3 DEF Running, Top1, Keeping
<1>9. (k + 1) - 1 = k
  BY <1>1
<1> QED
  BY <1>3, <1>4, <1>5, <1>6, <1>7, <1>8, <1>9 DEF Stack, k

-----------------------------------------------------------------------------
(* The invariant *)

Types ==
  /\ frames \in [Threads -> Seq(Frame)]
  /\ cpu \in [Threads -> [Locations -> Value]]
  /\ calls \in 0..MaxCalls

\* Every call put a thunk and a function on a stack, the last one perhaps not yet both.
Stacks ==
  \A t \in Threads :
    /\ Stack(frames[t], cpu[t])
    /\ Len(frames[t]) <= 2 * calls + (IF Top1(frames[t]).pc = "entry" THEN 0 ELSE 1)

\* No two thunk frames serve the same call.
Numbered ==
  \A t \in Threads : \A n \in DOMAIN frames[t] :
    frames[t][n].kind # "native" =>
      /\ frames[t][n].id \in 1..calls
      /\ \A u \in Threads : \A m \in DOMAIN frames[u] :
           frames[u][m].kind # "native" /\ frames[u][m].id = frames[t][n].id => u = t /\ m = n

\* What the context of binding frame f holds while f is in its call.
Holds(ctx, f) ==
  /\ ctx \in ArgumentContext(f.sig)
  /\ ctx.data = [i \in DOMAIN f.sig |-> f.entry[Argument(f.sig, i)]]
  /\ f.safe => \A r \in Captured \ {"rflags"} : ctx.registers[r] = f.entry[r]

OpenCalls ==
  {c \in 1..calls : \E t \in Threads : \E n \in DOMAIN frames[t] : Opens(frames[t][n], c)}

ContextsLive ==
  /\ contexts = [c \in OpenCalls |-> contexts[c]]
  /\ \A t \in Threads : \A n \in DOMAIN frames[t] :
       IsOpen(frames[t][n]) => Holds(contexts[frames[t][n].id], frames[t][n])

\* Restore frame f works for binding frame b, and gave the function of frame g its machine.
Serves(b, f) == b.kind = "bind" /\ b.id = f.context /\ b.sig = f.sig /\ (f.safe => b.safe)
Gives(b, f, g) ==
  /\ \A i \in DOMAIN f.sig : g.entry[Argument(f.sig, i)] = b.entry[Argument(f.sig, i)]
  /\ f.safe => \A r \in Captured \ (ArgumentRegisters(f.sig) \cup {ContextReg, "rflags"}) :
                 g.entry[r] = b.entry[r]

RestoresServe ==
  \A t \in Threads : \A n \in DOMAIN frames[t] :
    frames[t][n].kind = "restore" =>
      \E u \in Threads : \E m \in 1..(Len(frames[u]) - 1) :
        /\ Serves(frames[u][m], frames[t][n])
        /\ n < Len(frames[t]) => Gives(frames[u][m], frames[t][n], frames[t][n + 1])

Inv == Types /\ Stacks /\ Numbered /\ ContextsLive /\ RestoresServe

\* What the invariant says of one thread.
LEMMA ThreadFacts ==
  ASSUME Inv, NEW t \in Threads
  PROVE  /\ Stack(frames[t], cpu[t]) /\ CallStack(frames[t])
         /\ Current(t) = Top1(frames[t]) /\ Current(t) \in Frame
         /\ Len(frames[t]) \in Nat \ {0} /\ DOMAIN frames[t] = 1..Len(frames[t])
         /\ Len(frames[t]) \in DOMAIN frames[t] /\ Current(t) = frames[t][Len(frames[t])]
         /\ Running(Current(t), cpu[t])
         /\ Current(t).kind # "native" => Len(frames[t]) > 1 /\ Current(t).sig \in Signatures
         /\ cpu[t] \in [Locations -> Value]
         /\ calls \in Nat
<1>1. Stack(frames[t], cpu[t])
  BY DEF Inv, Stacks
<1>2. Current(t) = Top1(frames[t]) /\ Current(t) = frames[t][Len(frames[t])]
  BY DEF Current, Top1
<1>3. /\ Len(frames[t]) \in Nat \ {0} /\ DOMAIN frames[t] = 1..Len(frames[t])
      /\ CallStack(frames[t]) /\ Running(Top1(frames[t]), cpu[t])
  BY <1>1, StackFacts
<1>4. Len(frames[t]) \in DOMAIN frames[t]
  BY <1>3
<1>5. Current(t) \in Frame /\ (Current(t).kind # "native" => Len(frames[t]) > 1)
  BY <1>2, <1>3, CallStackFacts
<1>6. Current(t).kind # "native" => Current(t).sig \in Signatures
  BY <1>1, <1>2, <1>3, <1>4 DEF Stack
<1>7. cpu[t] \in [Locations -> Value] /\ calls \in Nat
  BY BoundAssumption DEF Inv, Types
<1> QED
  BY <1>1, <1>2, <1>3, <1>4, <1>5, <1>6, <1>7

\* A frame below the top of any thread.
LEMMA BelowFacts ==
  ASSUME Inv, NEW t \in Threads, NEW n \in 1..(Len(frames[t]) - 1)
  PROVE  /\ n \in DOMAIN frames[t] /\ n + 1 \in DOMAIN frames[t] /\ n \in Nat
         /\ n # Len(frames[t]) /\ n < Len(frames[t])
         /\ frames[t][n] \in Frame /\ frames[t][n].pc = "call"
         /\ Called(frames[t][n], frames[t][n + 1])
         /\ frames[t][n].kind # "native" => frames[t][n].sig \in Signatures
<1> DEFINE k == Len(frames[t])
<1>1. k \in Nat \ {0} /\ DOMAIN frames[t] = 1..k /\ Stack(frames[t], cpu[t]) /\ CallStack(frames[t])
  BY ThreadFacts
<1>2. n \in 1..k /\ n + 1 \in 1..k /\ n \in Nat /\ n # k /\ n < k
  <2> HIDE DEF k
  <2>1. n \in 1..(k - 1)
    BY DEF k
  <2> QED
    BY <1>1, <2>1
<1>3. frames[t][n] \in Frame
  BY <1>1, <1>2, CallStackFacts
<1>4. Called(frames[t][n], frames[t][n + 1]) /\ frames[t][n].pc = "call"
  BY <1>1 DEF Stack, Called
<1>5. frames[t][n].kind # "native" => frames[t][n].sig \in Signatures
  BY <1>1, <1>2 DEF Stack
<1> QED
  BY <1>1, <1>2, <1>3, <1>4, <1>5

\* A step of thread t gives it call stack s and registers file.
LEMMA ThreadStep ==
  ASSUME Inv, NEW t \in Threads, NEW s, NEW file \in [Locations -> Value], Stack(s, file),
         calls' \in calls..MaxCalls,
         Len(s) <= 2 * calls' + (IF Top1(s).pc = "entry" THEN 0 ELSE 1),
         frames' = [frames EXCEPT ![t] = s], cpu' = [cpu EXCEPT ![t] = file]
  PROVE  /\ Types' /\ Stacks'
         /\ \A u \in Threads : frames'[u] = IF u = t THEN s ELSE frames[u]
<1>1. s \in Seq(Frame)
  BY DEF Stack, CallStack
<1>2. calls \in 0..MaxCalls /\ MaxCalls \in Nat
  BY BoundAssumption DEF Inv, Types
<1>3. Types'
  <2>1. frames' \in [Threads -> Seq(Frame)] /\ cpu' \in [Threads -> [Locations -> Value]]
    BY <1>1 DEF Inv, Types
  <2>2. calls' \in 0..MaxCalls
    BY <1>2
  <2> QED
    BY <2>1, <2>2 DEF Types
<1>4. \A u \in Threads : /\ frames'[u] = IF u = t THEN s ELSE frames[u]
                         /\ cpu'[u] = IF u = t THEN file ELSE cpu[u]
  BY DEF Inv, Types
<1>5. Stacks'
  <2> SUFFICES ASSUME NEW u \in Threads
               PROVE  /\ Stack(frames'[u], cpu'[u])
                      /\ Len(frames'[u]) <=
                           2 * calls' + (IF Top1(frames'[u]).pc = "entry" THEN 0 ELSE 1)
    BY DEF Stacks
  <2>1. CASE u = t
    BY <1>4, <2>1
  <2>2. CASE u # t
    <3>1. frames'[u] = frames[u] /\ cpu'[u] = cpu[u]
      BY <1>4, <2>2
    <3>2. /\ Stack(frames[u], cpu[u])
          /\ Len(frames[u]) <= 2 * calls + (IF Top1(frames[u]).pc = "entry" THEN 0 ELSE 1)
      BY DEF Inv, Stacks
    <3>3. Len(frames[u]) <= 2 * calls' + (IF Top1(frames[u]).pc = "entry" THEN 0 ELSE 1)
      <4>1. Len(frames[u]) \in Nat /\ calls' \in Nat /\ calls \in Nat /\ calls <= calls'
        BY <1>2, ThreadFacts
      <4> QED
        BY <3>2, <4>1
    <3> QED
      BY <3>1, <3>2, <3>3
  <2> QED
    BY <2>1, <2>2
<1> QED
  BY <1>3, <1>4, <1>5

\* A step that numbers at most the frame it puts on top of thread t.
LEMMA NumberedStep ==
  ASSUME Inv, NEW t \in Threads, calls' \in {calls, calls + 1}, NEW new,
         \A u \in Threads : u # t => frames'[u] = frames[u],
         \A n \in DOMAIN frames'[t] :
           \/ frames'[t][n].kind = "native"
           \/ /\ n \in DOMAIN frames[t] /\ frames[t][n].kind # "native"
              /\ frames'[t][n].id = frames[t][n].id
           \/ n = new /\ calls' = calls + 1 /\ frames'[t][n].id = calls + 1
  PROVE  Numbered'
<1> DEFINE Fresh(u, n) == u = t /\ n = new /\ calls' = calls + 1 /\ frames'[u][n].id = calls + 1
           Kept(u, n) == /\ n \in DOMAIN frames[u] /\ frames[u][n].kind # "native"
                         /\ frames'[u][n].id = frames[u][n].id
<1>1. \A u \in Threads : \A n \in DOMAIN frames'[u] :
        frames'[u][n].kind # "native" => Fresh(u, n) \/ Kept(u, n)
  OBVIOUS
<1>2. calls \in Nat
  BY ThreadFacts
<1>3. \A u \in Threads : \A n \in DOMAIN frames[u] :
        frames[u][n].kind # "native" =>
          /\ frames[u][n].id \in 1..calls
          /\ \A v \in Threads : \A m \in DOMAIN frames[v] :
               frames[v][m].kind # "native" /\ frames[v][m].id = frames[u][n].id => v = u /\ m = n
  BY DEF Inv, Numbered
<1>4. \A u \in Threads : \A n : Kept(u, n) => frames'[u][n].id \in 1..calls
  BY <1>3
<1> SUFFICES ASSUME NEW u \in Threads, NEW n \in DOMAIN frames'[u], frames'[u][n].kind # "native"
             PROVE  /\ frames'[u][n].id \in 1..calls'
                    /\ \A v \in Threads : \A m \in DOMAIN frames'[v] :
                         frames'[v][m].kind # "native" /\ frames'[v][m].id = frames'[u][n].id
                           => v = u /\ m = n
  BY DEF Numbered
<1>5. frames'[u][n].id \in 1..calls'
  <2>1. CASE Fresh(u, n)
    BY <1>2, <2>1
  <2>2. CASE Kept(u, n)
    BY <1>2, <1>4, <2>2
  <2> QED
    BY <1>1, <2>1, <2>2
<1>6. ASSUME NEW v \in Threads, NEW m \in DOMAIN frames'[v],
             frames'[v][m].kind # "native", frames'[v][m].id = frames'[u][n].id
      PROVE  v = u /\ m = n
  <2>1. /\ Fresh(u, n) \/ Kept(u, n)
        /\ Fresh(v, m) \/ Kept(v, m)
    BY <1>1, <1>6
  <2>2. CASE Fresh(u, n) /\ Fresh(v, m)
    BY <2>2
  <2>3. CASE Kept(u, n) /\ Kept(v, m)
    BY <1>3, <1>6, <2>3
  <2>4. calls + 1 \notin 1..calls
    BY <1>2
  <2>5. ~(Fresh(u, n) /\ Kept(v, m)) /\ ~(Kept(u, n) /\ Fresh(v, m))
    BY <1>4, <1>6, <2>4
  <2> QED
    BY <2>1, <2>2, <2>3, <2>5
<1> QED
  BY <1>5, <1>6

-----------------------------------------------------------------------------
(* Contexts and restore thunks *)

\* A restore thunk keeps what it works for if that callback stays.
LEMMA RestoresStep ==
  ASSUME Inv, NEW t \in Threads, \A u \in Threads : u # t => frames'[u] = frames[u],
         \A u, v \in Threads : \A m \in 1..(Len(frames[u]) - 1) : \A n \in DOMAIN frames'[v] :
           frames'[v][n].kind = "restore" /\ Serves(frames[u][m], frames'[v][n]) =>
             m \in 1..(Len(frames'[u]) - 1) /\ frames'[u][m] = frames[u][m],
         \A n \in DOMAIN frames'[t] : frames'[t][n].kind = "restore" =>
           \E u \in Threads : \E m \in 1..(Len(frames[u]) - 1) :
             /\ Serves(frames[u][m], frames'[t][n])
             /\ n < Len(frames'[t]) => Gives(frames[u][m], frames'[t][n], frames'[t][n + 1])
  PROVE  RestoresServe'
<1> SUFFICES ASSUME NEW v \in Threads, NEW n \in DOMAIN frames'[v], frames'[v][n].kind = "restore"
             PROVE  \E u \in Threads : \E m \in 1..(Len(frames'[u]) - 1) :
                      /\ Serves(frames'[u][m], frames'[v][n])
                      /\ n < Len(frames'[v]) => Gives(frames'[u][m], frames'[v][n], frames'[v][n + 1])
  BY DEF RestoresServe
<1>1. \E u \in Threads : \E m \in 1..(Len(frames[u]) - 1) :
        /\ Serves(frames[u][m], frames'[v][n])
        /\ n < Len(frames'[v]) => Gives(frames[u][m], frames'[v][n], frames'[v][n + 1])
  <2>1. CASE v = t
    BY <2>1
  <2>2. CASE v # t
    <3>1. frames'[v] = frames[v]
      BY <2>2
    <3> QED
      BY <3>1 DEF Inv, RestoresServe
  <2> QED
    BY <2>1, <2>2
<1>2. PICK u \in Threads : \E m \in 1..(Len(frames[u]) - 1) :
        /\ Serves(frames[u][m], frames'[v][n])
        /\ n < Len(frames'[v]) => Gives(frames[u][m], frames'[v][n], frames'[v][n + 1])
  BY <1>1
<1>3. PICK m \in 1..(Len(frames[u]) - 1) :
        /\ Serves(frames[u][m], frames'[v][n])
        /\ n < Len(frames'[v]) => Gives(frames[u][m], frames'[v][n], frames'[v][n + 1])
  BY <1>2
<1>4. m \in 1..(Len(frames'[u]) - 1) /\ frames'[u][m] = frames[u][m]
  BY <1>3
<1> QED
  BY <1>3, <1>4

\* The restore frames of t that a step leaves as they were.
LEMMA RestoresKept ==
  ASSUME Inv, NEW t \in Threads, NEW n \in DOMAIN frames[t], frames[t][n].kind = "restore",
         n \in DOMAIN frames'[t], frames'[t][n] = frames[t][n],
         n < Len(frames'[t]) => n < Len(frames[t]) /\ frames'[t][n + 1].entry = frames[t][n + 1].entry
  PROVE  \E u \in Threads : \E m \in 1..(Len(frames[u]) - 1) :
           /\ Serves(frames[u][m], frames'[t][n])
           /\ n < Len(frames'[t]) => Gives(frames[u][m], frames'[t][n], frames'[t][n + 1])
<1>1. PICK u \in Threads : \E m \in 1..(Len(frames[u]) - 1) :
        /\ Serves(frames[u][m], frames[t][n])
        /\ n < Len(frames[t]) => Gives(frames[u][m], frames[t][n], frames[t][n + 1])
  BY DEF Inv, RestoresServe
<1>2. PICK m \in 1..(Len(frames[u]) - 1) :
        /\ Serves(frames[u][m], frames[t][n])
        /\ n < Len(frames[t]) => Gives(frames[u][m], frames[t][n], frames[t][n + 1])
  BY <1>1
<1>3. n < Len(frames'[t]) => Gives(frames[u][m], frames'[t][n], frames'[t][n + 1])
  BY <1>2 DEF Gives
<1> QED
  BY <1>2, <1>3

\* The calls whose contexts live are those of the open frames.
LEMMA OpenFacts ==
  ASSUME Inv
  PROVE  /\ \A u \in Threads : \A n \in DOMAIN frames[u] :
              IsOpen(frames[u][n]) => frames[u][n].id \in OpenCalls
         /\ \A c \in OpenCalls : \E u \in Threads : \E n \in DOMAIN frames[u] :
              IsOpen(frames[u][n]) /\ frames[u][n].id = c
         /\ DOMAIN contexts = OpenCalls
<1>1. \A u \in Threads : \A n \in DOMAIN frames[u] :
        IsOpen(frames[u][n]) => frames[u][n].id \in 1..calls
  BY DEF Inv, Numbered, IsOpen
<1>2. \A f, c : Opens(f, c) <=> IsOpen(f) /\ f.id = c
  BY DEF Opens, IsOpen
<1>3. DOMAIN contexts = OpenCalls
  BY DEF Inv, ContextsLive
<1> QED
  BY <1>1, <1>2, <1>3 DEF OpenCalls

\* Which calls are open after a step of thread t.
LEMMA OpenStep ==
  ASSUME Inv, NEW t \in Threads, Numbered',
         \A u \in Threads : u # t => frames'[u] = frames[u],
         NEW gone, NEW added,
         \A n \in DOMAIN frames[t] : IsOpen(frames[t][n]) =>
           \/ n \in DOMAIN frames'[t] /\ IsOpen(frames'[t][n]) /\ frames'[t][n] = frames[t][n]
           \/ frames[t][n].id \in gone,
         \A n \in DOMAIN frames'[t] : IsOpen(frames'[t][n]) =>
           \/ n \in DOMAIN frames[t] /\ IsOpen(frames[t][n]) /\ frames'[t][n] = frames[t][n]
           \/ frames'[t][n].id \in added,
         \A c \in added : \E n \in DOMAIN frames'[t] : IsOpen(frames'[t][n]) /\ frames'[t][n].id = c,
         \A u \in Threads : \A n \in DOMAIN frames'[u] :
           IsOpen(frames'[u][n]) => frames'[u][n].id \notin gone
  PROVE  OpenCalls' = (OpenCalls \ gone) \cup added
<1> DEFINE OpenAt(u, n, c) == n \in DOMAIN frames[u] /\ IsOpen(frames[u][n]) /\ frames[u][n].id = c
           OpenNext(u, n, c) == n \in DOMAIN frames'[u] /\ IsOpen(frames'[u][n]) /\ frames'[u][n].id = c
<1>1. \A c : c \in OpenCalls <=> \E u \in Threads : \E n : OpenAt(u, n, c)
  BY OpenFacts
<1>2. \A c : c \in OpenCalls' <=> \E u \in Threads : \E n : OpenNext(u, n, c)
  <2>1. \A u \in Threads : \A n \in DOMAIN frames'[u] :
          IsOpen(frames'[u][n]) => frames'[u][n].id \in 1..calls'
    BY DEF Numbered, IsOpen
  <2>2. \A f, c : Opens(f, c) <=> IsOpen(f) /\ f.id = c
    BY DEF Opens, IsOpen
  <2> QED
    BY <2>1, <2>2 DEF OpenCalls
<1>3. \A u \in Threads : \A n, c : OpenAt(u, n, c) => OpenNext(u, n, c) \/ c \in gone
  OBVIOUS
<1>4. \A u \in Threads : \A n, c : OpenNext(u, n, c) => (OpenAt(u, n, c) \/ c \in added) /\ c \notin gone
  OBVIOUS
<1>5. \A c \in added : \E n : OpenNext(t, n, c)
  OBVIOUS
<1> HIDE DEF OpenAt, OpenNext
<1> QED
  BY <1>1, <1>2, <1>3, <1>4, <1>5

\* A step that opens and closes no call.
LEMMA OpenSame ==
  ASSUME Inv, NEW t \in Threads, Numbered',
         \A u \in Threads : u # t => frames'[u] = frames[u],
         \A n \in DOMAIN frames[t] : IsOpen(frames[t][n]) =>
           n \in DOMAIN frames'[t] /\ frames'[t][n] = frames[t][n],
         \A n \in DOMAIN frames'[t] : IsOpen(frames'[t][n]) =>
           n \in DOMAIN frames[t] /\ frames'[t][n] = frames[t][n]
  PROVE  OpenCalls' = OpenCalls
<1> DEFINE none == {}
<1>1. \A n \in DOMAIN frames[t] : IsOpen(frames[t][n]) =>
        \/ n \in DOMAIN frames'[t] /\ IsOpen(frames'[t][n]) /\ frames'[t][n] = frames[t][n]
        \/ frames[t][n].id \in none
  OBVIOUS
<1>2. \A n \in DOMAIN frames'[t] : IsOpen(frames'[t][n]) =>
        \/ n \in DOMAIN frames[t] /\ IsOpen(frames[t][n]) /\ frames'[t][n] = frames[t][n]
        \/ frames'[t][n].id \in none
  OBVIOUS
<1>3. \A c \in none : \E n \in DOMAIN frames'[t] : IsOpen(frames'[t][n]) /\ frames'[t][n].id = c
  OBVIOUS
<1>4. \A u \in Threads : \A n \in DOMAIN frames'[u] :
        IsOpen(frames'[u][n]) => frames'[u][n].id \notin none
  OBVIOUS
<1>5. none = {}
  OBVIOUS
<1> HIDE DEF none
<1>6. OpenCalls' = (OpenCalls \ none) \cup none
  BY <1>1, <1>2, <1>3, <1>4, OpenStep
<1> QED
  BY <1>5, <1>6

\* A step that drops frames closes their calls.
LEMMA OpenCut ==
  ASSUME Inv, NEW t \in Threads, Numbered', NEW gone,
         \A u \in Threads : u # t => frames'[u] = frames[u],
         \A n \in DOMAIN frames[t] : IsOpen(frames[t][n]) =>
           \/ n \in DOMAIN frames'[t] /\ IsOpen(frames'[t][n]) /\ frames'[t][n] = frames[t][n]
           \/ frames[t][n].id \in gone,
         \A n \in DOMAIN frames'[t] : n \in DOMAIN frames[t] /\ frames'[t][n] = frames[t][n],
         \A u \in Threads : \A n \in DOMAIN frames'[u] :
           IsOpen(frames'[u][n]) => frames'[u][n].id \notin gone
  PROVE  OpenCalls' = OpenCalls \ gone
<1> DEFINE none == {}
<1>1. \A n \in DOMAIN frames'[t] : IsOpen(frames'[t][n]) =>
        \/ n \in DOMAIN frames[t] /\ IsOpen(frames[t][n]) /\ frames'[t][n] = frames[t][n]
        \/ frames'[t][n].id \in none
  OBVIOUS
<1>2. \A c \in none : \E n \in DOMAIN frames'[t] : IsOpen(frames'[t][n]) /\ frames'[t][n].id = c
  OBVIOUS
<1>3. none = {}
  OBVIOUS
<1> HIDE DEF none
<1>4. OpenCalls' = (OpenCalls \ gone) \cup none
  BY <1>1, <1>2, OpenStep
<1> QED
  BY <1>3, <1>4

\* The calls closed are those of the frames dropped.
LEMMA OpenDropped ==
  ASSUME Inv, NEW t \in Threads, Numbered', NEW k \in 1..(Len(frames[t]) - 1),
         DOMAIN frames'[t] = 1..k,
         \A u \in Threads : u # t => frames'[u] = frames[u],
         \A n \in DOMAIN frames'[t] : n \in DOMAIN frames[t] /\ frames'[t][n] = frames[t][n],
         NEW gone,
         gone = {frames[t][n].id : n \in {m \in (k + 1)..Len(frames[t]) : IsOpen(frames[t][m])}}
  PROVE  OpenCalls' = OpenCalls \ gone
<1> DEFINE len == Len(frames[t])
<1>1. k \in Nat /\ k < len /\ len \in Nat /\ DOMAIN frames[t] = 1..len
  <2>1. len \in Nat /\ DOMAIN frames[t] = 1..len /\ k \in 1..(len - 1)
    BY ThreadFacts
  <2> HIDE DEF len
  <2> QED
    BY <2>1
<1>2. \A n \in DOMAIN frames[t] : IsOpen(frames[t][n]) =>
        \/ n \in DOMAIN frames'[t] /\ IsOpen(frames'[t][n]) /\ frames'[t][n] = frames[t][n]
        \/ frames[t][n].id \in gone
  <2>1. \A n \in 1..len : n \in 1..k \/ n \in (k + 1)..len
    BY <1>1
  <2> QED
    BY <1>1, <2>1
<1>3. \A u \in Threads : \A n \in DOMAIN frames'[u] :
        IsOpen(frames'[u][n]) => frames'[u][n].id \notin gone
  <2> SUFFICES ASSUME NEW u \in Threads, NEW n \in DOMAIN frames'[u], IsOpen(frames'[u][n]),
                      NEW m \in (k + 1)..Len(frames[t]), IsOpen(frames[t][m]),
                      frames[t][m].id = frames'[u][n].id
               PROVE  FALSE
    OBVIOUS
  <2>1. m \in DOMAIN frames[t] /\ m \notin 1..k
    BY <1>1
  <2>2. n \in DOMAIN frames[u] /\ frames[u][n] = frames'[u][n]
    OBVIOUS
  <2>3. u = t /\ m = n
    BY <2>1, <2>2 DEF Inv, Numbered, IsOpen
  <2> QED
    BY <2>1, <2>3
<1> QED
  BY <1>2, <1>3, OpenCut

\* Contexts whose frame stays keep their contents.
LEMMA ContextsStep ==
  ASSUME Inv, NEW t \in Threads,
         \A u \in Threads : u # t => frames'[u] = frames[u],
         contexts' = [c \in OpenCalls' |-> contexts'[c]],
         \A n \in DOMAIN frames'[t] : IsOpen(frames'[t][n]) =>
           \/ n \in DOMAIN frames[t] /\ frames'[t][n] = frames[t][n]
           \/ Holds(contexts'[frames'[t][n].id], frames'[t][n]),
         \A u \in Threads : \A n \in DOMAIN frames[u] :
           IsOpen(frames[u][n]) /\ n \in DOMAIN frames'[u] /\ frames'[u][n] = frames[u][n] =>
             Holds(contexts'[frames[u][n].id], frames[u][n])
  PROVE  ContextsLive'
<1> SUFFICES ASSUME NEW u \in Threads, NEW n \in DOMAIN frames'[u], IsOpen(frames'[u][n])
             PROVE  Holds(contexts'[frames'[u][n].id], frames'[u][n])
  BY DEF ContextsLive
<1>1. CASE u = t
  BY <1>1
<1>2. CASE u # t
  BY <1>2
<1> QED
  BY <1>1, <1>2

-----------------------------------------------------------------------------
(* Steps of native code *)

\* At first every thread runs native code and there is no context.
LEMMA InvInit == Init => Inv
<1> SUFFICES ASSUME Init PROVE Inv
  OBVIOUS
<1> DEFINE file == [l \in Locations |-> Junk]
           f == NativeFrame(0, file)
<1>1. file \in [Locations -> Value]
  BY ValueFacts
<1> HIDE DEF file
<1>2. f \in Frame /\ f.kind = "native" /\ f.pc = "call"
  BY <1>1, ValueFacts DEF NativeFrame, Frame, ReturnType
<1> HIDE DEF f
<1>3. /\ frames = [t \in Threads |-> <<f>>] /\ cpu = [t \in Threads |-> file]
      /\ calls = 0 /\ contexts = [c \in {} |-> {}]
  BY DEF Init, f, file
<1>4. /\ <<f>> \in Seq(Frame) /\ <<f>> # <<>> /\ Len(<<f>>) = 1 /\ <<f>>[1] = f
      /\ DOMAIN <<f>> = 1..1
  BY <1>2
<1>5. Types
  BY <1>1, <1>3, <1>4, BoundAssumption DEF Types
<1>6. Stacks
  <2>1. CallStack(<<f>>) /\ Top1(<<f>>) = f
    BY <1>2, <1>4 DEF CallStack, Top1
  <2>2. Running(f, file)
    BY <1>2 DEF Running, Keeping
  <2>3. \A n \in 1..1 : <<f>>[n].kind = "native"
    BY <1>2, <1>4
  <2>4. Stack(<<f>>, file)
    BY <1>4, <2>1, <2>2, <2>3 DEF Stack
  <2> QED
    BY <1>2, <1>3, <1>4, <2>1, <2>4 DEF Stacks
<1>7. \A t \in Threads : \A n \in DOMAIN frames[t] : frames[t][n].kind = "native"
  BY <1>2, <1>3, <1>4
<1>8. OpenCalls = {}
  BY <1>3 DEF OpenCalls
<1>9. ContextsLive
  BY <1>3, <1>7, <1>8 DEF ContextsLive, IsOpen
<1>10. Numbered /\ RestoresServe
  BY <1>7 DEF Numbered, RestoresServe
<1> QED
  BY <1>5, <1>6, <1>9, <1>10 DEF Inv

\* Native code calls a thunk; a restore thunk, for a callback that runs.
LEMMA CallStep ==
  ASSUME Inv, NEW t \in Threads, NEW kind \in {"bind", "restore"}, NEW sig \in Signatures,
         NEW ret \in ReturnType, NEW safe \in BOOLEAN, NEW c \in Nat,
         NEW file \in [Locations -> Value], NativeCall(t, kind, sig, ret, safe, c, file),
         kind = "restore" =>
           \E u \in Threads : \E m \in 1..(Len(frames[u]) - 1) :
             /\ frames[u][m].kind = "bind" /\ frames[u][m].id = c
             /\ frames[u][m].sig = sig /\ (safe => frames[u][m].safe)
  PROVE  Inv'
<1> DEFINE g == [kind |-> kind, pc |-> "entry", id |-> calls + 1, sig |-> sig, ret |-> ret,
                 safe |-> safe, context |-> c, entry |-> file, saved |-> NoMemory]
           s == frames[t]
           r == Append(s, g)
           k == Len(s)
<1>1. /\ frames' = [frames EXCEPT ![t] = r] /\ cpu' = [cpu EXCEPT ![t] = file]
      /\ calls' = calls + 1 /\ calls < MaxCalls /\ contexts' = contexts
      /\ Current(t).kind = "native"
  BY DEF NativeCall, At
<1>2. calls \in Nat /\ MaxCalls \in Nat /\ calls + 1 \in calls..MaxCalls
  BY <1>1, BoundAssumption, ThreadFacts
<1>3. /\ g \in Frame /\ g.kind = kind /\ g.kind # "native" /\ g.pc = "entry" /\ g.sig = sig
      /\ g.id = calls + 1 /\ g.entry = file /\ g.context = c /\ g.safe = safe
  BY <1>2, ValueFacts DEF Frame
<1> HIDE DEF g
<1>4. /\ Stack(s, cpu[t]) /\ Top1(s).kind = "native" /\ k \in Nat \ {0} /\ DOMAIN s = 1..k
      /\ Top1(s) = s[k] /\ Current(t) = Top1(s)
  BY <1>1, ThreadFacts
<1>5. /\ Stack(r, file) /\ Len(r) = k + 1 /\ DOMAIN r = 1..(k + 1)
      /\ \A n \in 1..k : r[n] = s[n]
      /\ r[k + 1] = g
  <2>1. r = Append(s, g)
    OBVIOUS
  <2> HIDE DEF r, s
  <2>2. /\ Stack(r, g.entry) /\ Len(r) = Len(s) + 1 /\ DOMAIN r = 1..Len(r)
        /\ \A n \in 1..Len(s) : r[n] = s[n]
        /\ r[Len(s) + 1] = g
    <3>1. Stack(s, cpu[t]) /\ Top1(s).kind = "native"
      BY <1>4
    <3>2. g \in Frame /\ g.kind # "native" /\ g.pc = "entry" /\ g.sig \in Signatures
      BY <1>3
    <3> HIDE DEF k
    <3>3. Stack(r, g.entry)
      BY <2>1, <3>1, <3>2, StackEntered
    <3>4. Len(r) = Len(s) + 1 /\ DOMAIN r = 1..Len(r)
      BY <2>1, <3>1, <3>2, StackEntered
    <3>5. \A n \in 1..Len(s) : r[n] = s[n]
      BY <2>1, <3>1, <3>2, StackEntered
    <3>6. r[Len(s) + 1] = g
      BY <2>1, <3>1, <3>2, StackEntered
    <3> QED
      BY <3>3, <3>4, <3>5, <3>6
  <2> QED
    BY <1>3, <2>2
<1>6. Len(r) <= 2 * calls' + (IF Top1(r).pc = "entry" THEN 0 ELSE 1)
  <2>1. s[k].pc = "call"
    BY <1>4 DEF Stack, Running
  <2>2. k <= 2 * calls + 1
    BY <1>4, <2>1 DEF Inv, Stacks
  <2>3. Top1(r) = g
    BY <1>5 DEF Top1
  <2> HIDE DEF r, k
  <2> QED
    BY <1>1, <1>2, <1>3, <1>4, <1>5, <2>2, <2>3
<1> HIDE DEF r
<1>7. Types' /\ Stacks' /\ \A u \in Threads : frames'[u] = IF u = t THEN r ELSE frames[u]
  <2>1. calls' \in calls..MaxCalls
    BY <1>1, <1>2
  <2>2. Types' /\ Stacks'
    BY <1>1, <1>5, <1>6, <2>1, ThreadStep
  <2>3. \A u \in Threads : frames'[u] = IF u = t THEN r ELSE frames[u]
    BY <1>1 DEF Inv, Types
  <2> QED
    BY <2>2, <2>3
<1>8. /\ frames'[t] = r /\ \A u \in Threads : u # t => frames'[u] = frames[u]
  BY <1>7
<1> HIDE DEF s, k
<1>9. \A n \in 1..(k + 1) : n = k + 1 \/ n \in 1..k
  BY <1>4
<1>10. Numbered'
  <2>1. \A n \in DOMAIN r : \/ r[n].kind = "native"
                            \/ /\ n \in DOMAIN frames[t] /\ frames[t][n].kind # "native"
                               /\ r[n].id = frames[t][n].id
                            \/ n = k + 1 /\ calls' = calls + 1 /\ r[n].id = calls + 1
    BY <1>1, <1>3, <1>4, <1>5, <1>9 DEF s
  <2>2. calls' \in {calls, calls + 1}
    BY <1>1
  <2>3. \A n \in DOMAIN frames'[t] :
          \/ frames'[t][n].kind = "native"
          \/ /\ n \in DOMAIN frames[t] /\ frames[t][n].kind # "native"
             /\ frames'[t][n].id = frames[t][n].id
          \/ n = k + 1 /\ calls' = calls + 1 /\ frames'[t][n].id = calls + 1
    BY <1>8, <2>1
  <2> QED
    BY <1>8, <2>2, <2>3, NumberedStep
<1>11. \A n : /\ n \in DOMAIN r /\ IsOpen(r[n]) <=> n \in DOMAIN s /\ IsOpen(s[n])
              /\ n \in DOMAIN s => n \in DOMAIN r /\ r[n] = s[n]
  <2>1. ~IsOpen(g)
    BY <1>3 DEF IsOpen
  <2>2. 1..k \subseteq 1..(k + 1)
    BY <1>4
  <2> QED
    BY <1>4, <1>5, <1>9, <2>1, <2>2
<1>12. OpenCalls' = OpenCalls
  <2>1. \A n : /\ n \in DOMAIN frames'[t] /\ IsOpen(frames'[t][n])
                    <=> n \in DOMAIN frames[t] /\ IsOpen(frames[t][n])
               /\ n \in DOMAIN frames[t] => n \in DOMAIN frames'[t] /\ frames'[t][n] = frames[t][n]
    BY <1>8, <1>11 DEF s
  <2>2. \A n \in DOMAIN frames[t] : IsOpen(frames[t][n]) =>
          n \in DOMAIN frames'[t] /\ frames'[t][n] = frames[t][n]
    BY <2>1
  <2>3. \A n \in DOMAIN frames'[t] : IsOpen(frames'[t][n]) =>
          n \in DOMAIN frames[t] /\ frames'[t][n] = frames[t][n]
    BY <2>1
  <2> QED
    BY <1>8, <1>10, <2>2, <2>3, OpenSame
<1>13. ContextsLive'
  <2>1. contexts' = [d \in OpenCalls' |-> contexts'[d]]
    BY <1>1, <1>12 DEF Inv, ContextsLive
  <2>2. \A u \in Threads : \A n \in DOMAIN frames[u] :
          IsOpen(frames[u][n]) => Holds(contexts'[frames[u][n].id], frames[u][n])
    BY <1>1 DEF Inv, ContextsLive
  <2> QED
    BY <1>8, <1>11, <2>1, <2>2, ContextsStep DEF s
<1>14. RestoresServe'
  <2>1. ASSUME NEW u \in Threads, NEW m \in 1..(Len(frames[u]) - 1)
        PROVE  m \in 1..(Len(frames'[u]) - 1) /\ frames'[u][m] = frames[u][m]
    <3>1. CASE u # t
      BY <1>8, <3>1
    <3>2. CASE u = t
      <4>1. m \in 1..(k - 1)
        BY <3>2 DEF s, k
      <4>2. m \in 1..k /\ m \in 1..((k + 1) - 1)
        BY <1>4, <4>1
      <4> QED
        BY <1>5, <1>8, <3>2, <4>2 DEF s
    <3> QED
      BY <3>1, <3>2
  <2>2. ASSUME NEW n \in DOMAIN frames'[t], frames'[t][n].kind = "restore"
        PROVE  \E u \in Threads : \E m \in 1..(Len(frames[u]) - 1) :
                 /\ Serves(frames[u][m], frames'[t][n])
                 /\ n < Len(frames'[t]) => Gives(frames[u][m], frames'[t][n], frames'[t][n + 1])
    <3>1. CASE n = k + 1
      <4>1. frames'[t][n] = g /\ ~(n < Len(frames'[t])) /\ kind = "restore"
        BY <1>3, <1>4, <1>5, <1>8, <2>2, <3>1
      <4> QED
        BY <1>3, <4>1 DEF Serves
    <3>2. CASE n \in 1..k
      <4>1. n \in DOMAIN frames[t] /\ frames'[t][n] = frames[t][n] /\ n # k
        BY <1>4, <1>5, <1>8, <2>2, <3>2 DEF s
      <4>2. n < Len(frames[t]) /\ n + 1 \in 1..k
        BY <1>4, <3>2, <4>1 DEF s, k
      <4>3. frames'[t][n + 1].entry = frames[t][n + 1].entry
        BY <1>5, <1>8, <4>2 DEF s
      <4> QED
        BY <2>2, <4>1, <4>2, <4>3, RestoresKept
    <3> QED
      BY <1>5, <1>8, <1>9, <2>2, <3>1, <3>2
  <2> QED
    BY <1>8, <2>1, <2>2, RestoresStep
<1> QED
  BY <1>7, <1>10, <1>13, <1>14 DEF Inv

\* A context whose return value is stored still holds what it held.
LEMMA HoldsKept ==
  ASSUME NEW sig \in Signatures, NEW f, f.sig = sig, NEW ctx, Holds(ctx, f), NEW v \in Value
  PROVE  Holds([ctx EXCEPT !.returnValue = v], f)
<1>1. ctx \in ArgumentContext(sig)
  BY DEF Holds
<1> DEFINE new == [ctx EXCEPT !.returnValue = v]
<1>2. new \in ArgumentContext(sig) /\ new.data = ctx.data /\ new.registers = ctx.registers
  BY <1>1 DEF ArgumentContext
<1> HIDE DEF new
<1>3. Holds(new, f)
  BY <1>2 DEF Holds
<1> QED
  BY <1>3 DEF new

\* A step of thread t that puts no frame on its stack and stores at most return values.
LEMMA ContextsCut ==
  ASSUME Inv, NEW t \in Threads, Numbered',
         \A u \in Threads : u # t => frames'[u] = frames[u],
         \A n \in DOMAIN frames'[t] : n \in DOMAIN frames[t] /\ frames'[t][n] = frames[t][n],
         contexts' = [c \in OpenCalls' |-> contexts'[c]],
         \A c \in OpenCalls' : \/ contexts'[c] = contexts[c]
                               \/ \E v \in Value : contexts'[c] = [contexts[c] EXCEPT !.returnValue = v]
  PROVE  ContextsLive'
<1>1. \A u \in Threads : \A n \in DOMAIN frames'[u] :
        IsOpen(frames'[u][n]) => frames'[u][n].id \in OpenCalls'
  <2>1. \A u \in Threads : \A n \in DOMAIN frames'[u] :
          IsOpen(frames'[u][n]) => frames'[u][n].id \in 1..calls'
    BY DEF Numbered, IsOpen
  <2>2. \A f : IsOpen(f) => Opens(f, f.id)
    BY DEF Opens, IsOpen
  <2> QED
    BY <2>1, <2>2 DEF OpenCalls
<1> SUFFICES ASSUME NEW u \in Threads, NEW n \in DOMAIN frames'[u], IsOpen(frames'[u][n])
             PROVE  Holds(contexts'[frames'[u][n].id], frames'[u][n])
  BY DEF ContextsLive
<1>2. n \in DOMAIN frames[u] /\ frames'[u][n] = frames[u][n]
  BY DEF Inv
<1>3. Holds(contexts[frames[u][n].id], frames[u][n]) /\ frames[u][n].sig \in Signatures
  <2>1. Holds(contexts[frames[u][n].id], frames[u][n])
    BY <1>2 DEF Inv, ContextsLive
  <2>2. DOMAIN frames[u] = 1..Len(frames[u]) /\ Stack(frames[u], cpu[u])
    BY ThreadFacts
  <2>3. frames[u][n].kind # "native"
    BY <1>2 DEF IsOpen
  <2> QED
    BY <1>2, <2>1, <2>2, <2>3 DEF Stack
<1>4. frames[u][n].id \in OpenCalls'
  BY <1>1, <1>2
<1>5. CASE contexts'[frames[u][n].id] = contexts[frames[u][n].id]
  BY <1>2, <1>3, <1>5
<1>6. ASSUME NEW v \in Value,
             contexts'[frames[u][n].id] = [contexts[frames[u][n].id] EXCEPT !.returnValue = v]
      PROVE  Holds(contexts'[frames'[u][n].id], frames'[u][n])
  BY <1>2, <1>3, <1>6, HoldsKept
<1> QED
  BY <1>4, <1>5, <1>6

\* Functions return, or an exception drops them: frame k of thread t runs again.
LEMMA CutStep ==
  ASSUME Inv, NEW t \in Threads, NEW k \in 1..(Len(frames[t]) - 1),
         NEW file \in [Locations -> Value], Running(frames[t][k], file),
         frames' = [frames EXCEPT ![t] = SubSeq(frames[t], 1, k)],
         cpu' = [cpu EXCEPT ![t] = file], calls' = calls,
         \A m \in k..(Len(frames[t]) - 1) : \A u \in Threads : \A n \in DOMAIN frames'[u] :
           frames'[u][n].kind = "restore" => ~Serves(frames[t][m], frames'[u][n]),
         NEW gone,
         gone = {frames[t][n].id : n \in {m \in (k + 1)..Len(frames[t]) : IsOpen(frames[t][m])}}
  PROVE  /\ Types' /\ Stacks' /\ Numbered' /\ RestoresServe'
         /\ OpenCalls' = OpenCalls \ gone
         /\ \A u \in Threads : u # t => frames'[u] = frames[u]
         /\ \A n \in DOMAIN frames'[t] : n \in DOMAIN frames[t] /\ frames'[t][n] = frames[t][n]
<1> DEFINE s == frames[t]
           r == SubSeq(s, 1, k)
           len == Len(s)
<1>1. /\ Stack(s, cpu[t]) /\ len \in Nat \ {0} /\ DOMAIN s = 1..len /\ calls \in Nat
      /\ s[k].pc = "call"
  BY ThreadFacts, BelowFacts
<1>2. /\ Stack(r, file) /\ Len(r) = k /\ DOMAIN r = 1..k
      /\ \A n \in 1..k : r[n] = s[n]
  <2>1. r = SubSeq(s, 1, k) /\ k \in 1..(Len(s) - 1) /\ Running(s[k], file) /\ Stack(s, cpu[t])
    BY <1>1
  <2> HIDE DEF r, s
  <2>2. Stack(r, file)
    BY <2>1, StackCut
  <2>3. Len(r) = k /\ DOMAIN r = 1..k
    BY <2>1, StackCut
  <2>4. \A n \in 1..k : r[n] = s[n]
    BY <2>1, StackCut
  <2> QED
    BY <2>2, <2>3, <2>4
<1>3. k \in Nat /\ 1 <= k /\ k < len /\ k \in 1..k /\ 1..k \subseteq 1..len
  <2>1. k \in 1..(len - 1)
    OBVIOUS
  <2> HIDE DEF len
  <2> QED
    BY <1>1, <2>1
<1>4. Len(r) <= 2 * calls' + (IF Top1(r).pc = "entry" THEN 0 ELSE 1)
  <2>1. len <= 2 * calls + 1
    <3>1. len <= 2 * calls + (IF Top1(s).pc = "entry" THEN 0 ELSE 1)
      BY DEF Inv, Stacks
    <3> HIDE DEF len
    <3> QED
      BY <1>1, <3>1
  <2>2. Top1(r).pc = "call"
    BY <1>1, <1>2, <1>3 DEF Top1
  <2> HIDE DEF r, len
  <2> QED
    BY <1>1, <1>2, <1>3, <2>1, <2>2
<1> HIDE DEF r
<1>5. Types' /\ Stacks' /\ \A u \in Threads : frames'[u] = IF u = t THEN r ELSE frames[u]
  <2>1. calls' \in calls..MaxCalls
    <3>1. calls \in 0..MaxCalls /\ MaxCalls \in Nat
      BY BoundAssumption DEF Inv, Types
    <3> QED
      BY <3>1
  <2>2. frames' = [frames EXCEPT ![t] = r]
    BY DEF r
  <2>3. Types' /\ Stacks'
    BY <1>2, <1>4, <2>1, <2>2, ThreadStep
  <2>4. \A u \in Threads : frames'[u] = IF u = t THEN r ELSE frames[u]
    BY <2>2 DEF Inv, Types
  <2> QED
    BY <2>3, <2>4
<1>6. frames'[t] = r /\ \A u \in Threads : u # t => frames'[u] = frames[u]
  BY <1>5
<1>7. /\ DOMAIN frames'[t] = 1..k
      /\ \A n \in DOMAIN frames'[t] : n \in DOMAIN frames[t] /\ frames'[t][n] = frames[t][n]
  BY <1>1, <1>2, <1>3, <1>6
<1>8. Numbered'
  <2>1. calls' \in {calls, calls + 1}
    OBVIOUS
  <2>2. \A n \in DOMAIN frames'[t] :
          \/ frames'[t][n].kind = "native"
          \/ /\ n \in DOMAIN frames[t] /\ frames[t][n].kind # "native"
             /\ frames'[t][n].id = frames[t][n].id
          \/ n = 0 /\ calls' = calls + 1 /\ frames'[t][n].id = calls + 1
    BY <1>7
  <2> QED
    BY <1>6, <2>1, <2>2, NumberedStep
<1> HIDE DEF s, len
<1>9. OpenCalls' = OpenCalls \ gone
  <2>1. k \in 1..(Len(frames[t]) - 1) /\ DOMAIN frames'[t] = 1..k
    BY <1>7
  <2>2. \A n \in DOMAIN frames'[t] : n \in DOMAIN frames[t] /\ frames'[t][n] = frames[t][n]
    BY <1>7
  <2> QED
    BY <1>6, <1>8, <2>1, <2>2, OpenDropped
<1>10. RestoresServe'
  <2>1. ASSUME NEW u \in Threads, NEW v \in Threads, NEW m \in 1..(Len(frames[u]) - 1),
               NEW n \in DOMAIN frames'[v],
               frames'[v][n].kind = "restore", Serves(frames[u][m], frames'[v][n])
        PROVE  m \in 1..(Len(frames'[u]) - 1) /\ frames'[u][m] = frames[u][m]
    <3>1. CASE u # t
      BY <1>6, <3>1
    <3>2. CASE u = t
      <4>1. m \in 1..(len - 1) /\ m \notin k..(len - 1)
        BY <2>1, <3>2 DEF s, len
      <4>2. m \in 1..(k - 1) /\ m \in 1..k
        BY <1>1, <1>3, <4>1
      <4> QED
        BY <1>2, <1>6, <3>2, <4>2 DEF s
    <3> QED
      BY <3>1, <3>2
  <2>2. ASSUME NEW n \in DOMAIN frames'[t], frames'[t][n].kind = "restore"
        PROVE  \E u \in Threads : \E m \in 1..(Len(frames[u]) - 1) :
                 /\ Serves(frames[u][m], frames'[t][n])
                 /\ n < Len(frames'[t]) => Gives(frames[u][m], frames'[t][n], frames'[t][n + 1])
    <3>1. n \in DOMAIN frames[t] /\ frames'[t][n] = frames[t][n] /\ frames[t][n].kind = "restore"
      BY <1>7, <2>2
    <3>2. n < Len(frames'[t]) => n < Len(frames[t]) /\ frames'[t][n + 1].entry = frames[t][n + 1].entry
      <4>1. n \in 1..k /\ Len(frames'[t]) = k
        BY <1>2, <1>6, <1>7
      <4>2. n < k => n < len /\ n + 1 \in 1..k
        BY <1>1, <1>3, <4>1
      <4> QED
        BY <1>7, <4>1, <4>2 DEF s, len
    <3> QED
      BY <2>2, <3>1, <3>2, RestoresKept
  <2>3. \A u, v \in Threads : \A m \in 1..(Len(frames[u]) - 1) : \A n \in DOMAIN frames'[v] :
          frames'[v][n].kind = "restore" /\ Serves(frames[u][m], frames'[v][n]) =>
            m \in 1..(Len(frames'[u]) - 1) /\ frames'[u][m] = frames[u][m]
    BY <2>1
  <2>4. \A u \in Threads : u # t => frames'[u] = frames[u]
    BY <1>6
  <2> QED
    BY <2>2, <2>3, <2>4, RestoresStep
<1> QED
  BY <1>5, <1>6, <1>7, <1>8, <1>9, <1>10

\* The frame below the innermost one.
LEMMA CallerFacts ==
  ASSUME Inv, NEW t \in Threads, NEW k, k = Len(frames[t]) - 1, Len(frames[t]) > 1
  PROVE  /\ k \in 1..(Len(frames[t]) - 1) /\ k + 1 = Len(frames[t])
         /\ \A m \in k..(Len(frames[t]) - 1) : m = k
         /\ \A m \in (k + 1)..Len(frames[t]) : m = Len(frames[t])
         /\ Called(frames[t][k], Current(t)) /\ frames[t][k] \in Frame /\ frames[t][k].pc = "call"
         /\ Current(t).kind # "native" => frames[t][k].kind = "native"
<1> DEFINE len == Len(frames[t])
<1>1. len \in Nat /\ len > 1 /\ Current(t) = frames[t][len]
  BY ThreadFacts
<1>2. k \in 1..(len - 1) /\ k + 1 = len /\ \A m \in k..(len - 1) : m = k
  <2> HIDE DEF len
  <2> QED
    BY <1>1 DEF len
<1>3. \A m \in (k + 1)..len : m = len
  <2> HIDE DEF len
  <2> QED
    BY <1>1, <1>2
<1>4. Called(frames[t][k], Current(t)) /\ frames[t][k] \in Frame /\ frames[t][k].pc = "call"
  BY <1>1, <1>2, BelowFacts
<1>5. Current(t).kind # "native" => frames[t][k].kind = "native"
  BY <1>4 DEF Called, Frame
<1> QED
  BY <1>2, <1>3, <1>4, <1>5

\* Native code returns to its thunk, with the nonvolatiles as they were.
LEMMA NativeReturnStep ==
  ASSUME Inv, NEW t \in Threads, NativeReturn(t)
  PROVE  Inv'
<1> DEFINE g == Current(t)
           k == Len(frames[t]) - 1
           f == frames[t][k]
           file == [l \in Locations |-> IF l \in Preserved THEN g.entry[l] ELSE <<"out", g.id, l>>]
           gone == {frames[t][n].id : n \in {m \in (k + 1)..Len(frames[t]) : IsOpen(frames[t][m])}}
<1>1. /\ frames' = [frames EXCEPT ![t] = SubSeq(frames[t], 1, k)] /\ cpu' = [cpu EXCEPT ![t] = file]
      /\ calls' = calls /\ contexts' = contexts
      /\ g.kind = "native" /\ g.id \notin InUse(frames) /\ Len(frames[t]) > 1
  BY DEF NativeReturn, At, Returning
<1>2. /\ k \in 1..(Len(frames[t]) - 1) /\ \A m \in k..(Len(frames[t]) - 1) : m = k
      /\ \A m \in (k + 1)..Len(frames[t]) : m = Len(frames[t])
      /\ Called(f, g) /\ f \in Frame /\ f.pc = "call"
      /\ g = frames[t][Len(frames[t])]
  <2>1. k = Len(frames[t]) - 1
    OBVIOUS
  <2> HIDE DEF k
  <2> QED
    BY <1>1, <2>1, CallerFacts, ThreadFacts
<1>3. file \in [Locations -> Value] /\ g \in Frame
  <2>1. g \in Frame
    BY ThreadFacts
  <2>2. g.id \in Nat /\ g.entry \in [Locations -> Value]
    BY <2>1 DEF Frame
  <2> QED
    BY <2>1, <2>2, ValueFacts
<1>4. /\ \A r \in Preserved : file[r] = g.entry[r]
      /\ \A l \in Locations \ Preserved : file[l] = <<"out", g.id, l>>
  BY ValueFacts
<1> HIDE DEF file
<1>5. Running(f, file)
  BY <1>2, <1>4 DEF Called, Running, Keeping, Keeps, Frame
<1>6. gone = {}
  BY <1>1, <1>2 DEF IsOpen
<1> HIDE DEF g, k, gone
<1>7. \A m \in k..(Len(frames[t]) - 1) : \A u \in Threads : \A n \in DOMAIN frames'[u] :
        frames'[u][n].kind = "restore" => ~Serves(frames[t][m], frames'[u][n])
  <2> SUFFICES ASSUME NEW u \in Threads, NEW n \in DOMAIN frames'[u],
                      frames'[u][n].kind = "restore", Serves(f, frames'[u][n])
               PROVE  FALSE
    BY <1>2
  <2>1. n \in DOMAIN frames[u] /\ frames'[u][n] = frames[u][n]
    <3>1. CASE u # t
      BY <1>1, <3>1 DEF Inv, Types
    <3>2. CASE u = t
      <4>1. frames'[t] = SubSeq(frames[t], 1, k)
        BY <1>1 DEF Inv, Types
      <4>2. Stack(frames[t], cpu[t]) /\ DOMAIN frames[t] = 1..Len(frames[t]) /\ Len(frames[t]) \in Nat
        BY ThreadFacts
      <4>3. DOMAIN frames'[t] = 1..k /\ \A i \in 1..k : frames'[t][i] = frames[t][i]
        BY <1>2, <1>5, <4>1, <4>2, StackCut
      <4>4. 1..k \subseteq 1..Len(frames[t])
        BY <1>2, <4>2
      <4> QED
        BY <3>2, <4>2, <4>3, <4>4
    <3> QED
      BY <3>1, <3>2
  <2>2. frames[u][n].context \in InUse(frames)
    BY <2>1 DEF InUse
  <2>3. frames[u][n].context = g.id
    BY <1>2, <2>1 DEF Serves, Called
  <2> QED
    BY <1>1, <2>2, <2>3
<1>8. /\ Types' /\ Stacks' /\ Numbered' /\ RestoresServe'
      /\ OpenCalls' = OpenCalls \ gone
      /\ \A u \in Threads : u # t => frames'[u] = frames[u]
      /\ \A n \in DOMAIN frames'[t] : n \in DOMAIN frames[t] /\ frames'[t][n] = frames[t][n]
  <2>1. gone = {frames[t][n].id : n \in {m \in (k + 1)..Len(frames[t]) : IsOpen(frames[t][m])}}
    BY DEF gone
  <2> QED
    BY <1>1, <1>2, <1>3, <1>5, <1>7, <2>1, CutStep
<1>9. ContextsLive'
  <2>1. contexts' = [c \in OpenCalls' |-> contexts'[c]]
    BY <1>1, <1>6, <1>8 DEF Inv, ContextsLive
  <2>2. \A c \in OpenCalls' : \/ contexts'[c] = contexts[c]
                              \/ \E v \in Value : contexts'[c] = [contexts[c] EXCEPT !.returnValue = v]
    BY <1>1
  <2> QED
    BY <1>8, <2>1, <2>2, ContextsCut
<1> QED
  BY <1>8, <1>9 DEF Inv

\* What an exception drops when it is caught in frame k.
LEMMA HeldFacts ==
  ASSUME Inv, NEW t \in Threads, NEW k \in 1..(Len(frames[t]) - 1), Current(t).kind = "native"
  PROVE  Held(SubSeq(frames[t], k + 1, Len(frames[t]))) =
           {frames[t][n].id : n \in {m \in (k + 1)..Len(frames[t]) : IsOpen(frames[t][m])}}
<1> DEFINE s == frames[t]
           len == Len(s)
           q == SubSeq(s, k + 1, len)
<1>1. /\ len \in Nat /\ k \in Nat /\ k < len /\ k + 1 \in Nat /\ k + 1 <= len
      /\ len - (k + 1) + 1 = len - k /\ len - k \in Nat
  <2>1. len \in Nat /\ k \in 1..(len - 1)
    BY ThreadFacts
  <2> HIDE DEF len
  <2> QED
    BY <2>1
<1>2. s \in Seq(Frame) /\ \A m \in (k + 1)..len : s[m] \in Frame
  <2>1. s \in Seq(Frame) /\ DOMAIN s = 1..len
    BY ThreadFacts DEF CallStack
  <2>2. (k + 1)..len \subseteq 1..len
    BY <1>1
  <2> QED
    BY <2>1, <2>2, ThreadFacts, CallStackFacts
<1>3. DOMAIN q = 1..(len - k) /\ \A i \in 1..(len - k) : q[i] = s[k + i]
  <2> HIDE DEF s, len
  <2>1. /\ q \in Seq(Frame)
        /\ Len(q) = IF k + 1 <= len THEN len - (k + 1) + 1 ELSE 0
        /\ \A i \in 1..(len - (k + 1) + 1) : q[i] = s[(k + 1) + i - 1]
    BY <1>1, <1>2, SubSeqProperties
  <2>2. \A i \in 1..(len - k) : (k + 1) + i - 1 = k + i
    BY <1>1
  <2> HIDE DEF q
  <2> QED
    BY <1>1, <2>1, <2>2, LenProperties
<1>4. \A m \in (k + 1)..len : s[m].kind = "bind" <=> IsOpen(s[m])
  <2>1. \A m \in (k + 1)..len : m = len \/ m \in 1..(len - 1)
    <3> HIDE DEF len
    <3> QED
      BY <1>1
  <2>2. s[len].kind = "native"
    BY ThreadFacts
  <2>3. \A m \in 1..(len - 1) : s[m].pc = "call"
    BY BelowFacts
  <2> QED
    BY <2>1, <2>2, <2>3 DEF IsOpen
<1>5. (\A i \in 1..(len - k) : k + i \in (k + 1)..len) /\ \A m \in (k + 1)..len : m - k \in 1..(len - k) /\ k + (m - k) = m
  <2> HIDE DEF len
  <2> QED
    BY <1>1
<1>6. Held(q) = {q[i].id : i \in {j \in 1..(len - k) : q[j].kind = "bind"}}
  BY <1>3 DEF Held
<1> HIDE DEF q, s, len
<1>7. Held(q) = {s[n].id : n \in {m \in (k + 1)..len : IsOpen(s[m])}}
  <2>1. ASSUME NEW i \in 1..(len - k), q[i].kind = "bind"
        PROVE  \E n \in {m \in (k + 1)..len : IsOpen(s[m])} : q[i].id = s[n].id
    BY <1>3, <1>4, <1>5, <2>1
  <2>2. ASSUME NEW n \in (k + 1)..len, IsOpen(s[n])
        PROVE  \E i \in {j \in 1..(len - k) : q[j].kind = "bind"} : s[n].id = q[i].id
    <3>1. n - k \in 1..(len - k) /\ q[n - k] = s[n] /\ s[n].kind = "bind"
      BY <1>3, <1>4, <1>5, <2>2
    <3> QED
      BY <3>1
  <2> QED
    BY <1>6, <2>1, <2>2
<1> QED
  BY <1>7 DEF q, s, len

\* An exception drops thunks and native code down to the native code that catches it.
LEMMA NativeThrowStep ==
  ASSUME Inv, NEW t \in Threads, NativeThrow(t)
  PROVE  Inv'
<1>1. PICK k \in 1..(Len(frames[t]) - 1) :
        /\ frames[t][k].kind = "native"
        /\ frames' = [frames EXCEPT ![t] = SubSeq(frames[t], 1, k)]
        /\ InUse(frames') \cap Held(SubSeq(frames[t], k + 1, Len(frames[t]))) = {}
        /\ contexts' = [c \in DOMAIN contexts \ Held(SubSeq(frames[t], k + 1, Len(frames[t]))) |-> contexts[c]]
  BY DEF NativeThrow
<1> DEFINE file == [l \in Locations |-> Junk]
           gone == {frames[t][n].id : n \in {m \in (k + 1)..Len(frames[t]) : IsOpen(frames[t][m])}}
<1>2. Current(t).kind = "native" /\ calls' = calls /\ cpu' = [cpu EXCEPT ![t] = file]
  BY DEF NativeThrow, At
<1>3. file \in [Locations -> Value]
  BY ValueFacts
<1> HIDE DEF file
<1>4. Running(frames[t][k], file)
  BY <1>1, BelowFacts DEF Running, Keeping
<1>5. Held(SubSeq(frames[t], k + 1, Len(frames[t]))) = gone
  BY <1>2, HeldFacts
<1>6. gone = {frames[t][n].id : n \in {m \in (k + 1)..Len(frames[t]) : IsOpen(frames[t][m])}}
  OBVIOUS
<1> HIDE DEF gone
<1>7. \A m \in k..(Len(frames[t]) - 1) : \A u \in Threads : \A n \in DOMAIN frames'[u] :
        frames'[u][n].kind = "restore" => ~Serves(frames[t][m], frames'[u][n])
  <2> SUFFICES ASSUME NEW m \in k..(Len(frames[t]) - 1), NEW u \in Threads,
                      NEW n \in DOMAIN frames'[u],
                      frames'[u][n].kind = "restore", Serves(frames[t][m], frames'[u][n])
               PROVE  FALSE
    OBVIOUS
  <2>1. frames'[u][n].context \in InUse(frames')
    BY DEF InUse
  <2>2. m \in 1..(Len(frames[t]) - 1) /\ m # k /\ m \in (k + 1)..Len(frames[t])
    <3>1. m # k
      BY <1>1 DEF Serves
    <3>2. Len(frames[t]) \in Nat
      BY ThreadFacts
    <3>3. \A len \in Nat : \A j \in 1..(len - 1) : \A i \in j..(len - 1) :
            i # j => i \in 1..(len - 1) /\ i \in (j + 1)..len
      OBVIOUS
    <3> QED
      BY <3>1, <3>2, <3>3
  <2>3. IsOpen(frames[t][m])
    BY <2>2, BelowFacts DEF IsOpen, Serves
  <2>4. frames'[u][n].context \in gone
    BY <1>6, <2>2, <2>3 DEF Serves
  <2> QED
    BY <1>1, <1>5, <2>1, <2>4
<1>8. /\ Types' /\ Stacks' /\ Numbered' /\ RestoresServe'
      /\ OpenCalls' = OpenCalls \ gone
      /\ \A u \in Threads : u # t => frames'[u] = frames[u]
      /\ \A n \in DOMAIN frames'[t] : n \in DOMAIN frames[t] /\ frames'[t][n] = frames[t][n]
  BY <1>1, <1>2, <1>3, <1>4, <1>6, <1>7, CutStep
<1>9. ContextsLive'
  <2>1. DOMAIN contexts = OpenCalls
    BY OpenFacts
  <2>2. contexts' = [c \in OpenCalls' |-> contexts'[c]] /\ \A c \in OpenCalls' : contexts'[c] = contexts[c]
    BY <1>1, <1>5, <1>8, <2>1
  <2>3. \A c \in OpenCalls' : \/ contexts'[c] = contexts[c]
                              \/ \E v \in Value : contexts'[c] = [contexts[c] EXCEPT !.returnValue = v]
    BY <2>2
  <2> QED
    BY <1>8, <2>2, <2>3, ContextsCut
<1> QED
  BY <1>8, <1>9 DEF Inv

\* A callback that runs has its context.
LEMMA CallbackContext ==
  ASSUME Inv, NEW u \in Threads, NEW m \in 1..(Len(frames[u]) - 1), frames[u][m].kind = "bind"
  PROVE  /\ IsOpen(frames[u][m]) /\ frames[u][m].id \in OpenCalls
         /\ frames[u][m].sig \in Signatures
         /\ Holds(contexts[frames[u][m].id], frames[u][m])
<1>1. IsOpen(frames[u][m]) /\ m \in DOMAIN frames[u] /\ frames[u][m].sig \in Signatures
  BY BelowFacts DEF IsOpen
<1>2. frames[u][m].id \in OpenCalls
  BY <1>1, OpenFacts
<1>3. Holds(contexts[frames[u][m].id], frames[u][m])
  BY <1>1 DEF Inv, ContextsLive
<1> QED
  BY <1>1, <1>2, <1>3

\* The registers a value is returned in.
LEMMA ReturnFacts ==
  ASSUME NEW ret \in ReturnType
  PROVE  /\ ReturnRegisters(ret) \subseteq Locations
         /\ ret = "Void" <=> ReturnRegisters(ret) = {}
         /\ \A r, q \in ReturnRegisters(ret) : r = q
         /\ \A r \in ReturnRegisters(ret) : r \notin Preserved
<1>1. "rax" \in Volatile /\ "xmm0" \in ArgRegisters
  BY ConventionAssumption
<1>2. "rax" \notin Preserved /\ "xmm0" \notin Preserved
  BY <1>1, ConventionAssumption
<1>3. "rax" \in Locations /\ "xmm0" \in Locations
  BY <1>1 DEF Locations, Registers
<1>4. CASE ret = "Void"
  BY <1>4 DEF ReturnRegisters
<1>5. CASE ret = "Integral"
  BY <1>2, <1>3, <1>5 DEF ReturnRegisters
<1>6. CASE ret = "Floating"
  BY <1>2, <1>3, <1>6 DEF ReturnRegisters
<1> QED
  BY <1>4, <1>5, <1>6 DEF ReturnType

\* SetReturnValue
LEMMA SetReturnStep ==
  ASSUME Inv, NEW t \in Threads, NEW u \in Threads, NEW m \in InCallback(u),
         SetReturnValue(t, frames[u][m].id)
  PROVE  Inv'
<1> DEFINE c == frames[u][m].id
           v == <<"set", c, "rax">>
<1>1. /\ contexts' = [contexts EXCEPT ![c].returnValue = v]
      /\ frames' = frames /\ cpu' = cpu /\ calls' = calls
  BY DEF SetReturnValue
<1>2. m \in 1..(Len(frames[u]) - 1) /\ frames[u][m].kind = "bind"
  BY DEF InCallback
<1>3. c \in OpenCalls /\ DOMAIN contexts = OpenCalls
  BY <1>2, CallbackContext, OpenFacts
<1>4. v \in Value
  <2>1. c \in Nat
    BY <1>2, BelowFacts DEF Frame
  <2> QED
    BY <2>1, ValueFacts
<1> HIDE DEF v, c
<1>5. Types' /\ Stacks' /\ Numbered' /\ RestoresServe'
  <2>1. Types'
    BY <1>1 DEF Inv, Types
  <2>2. Stacks'
    BY <1>1 DEF Inv, Stacks
  <2>3. Numbered'
    BY <1>1 DEF Inv, Numbered
  <2>4. RestoresServe'
    BY <1>1 DEF Inv, RestoresServe
  <2> QED
    BY <2>1, <2>2, <2>3, <2>4
<1>6. OpenCalls' = OpenCalls
  BY <1>1 DEF OpenCalls
<1>7. ContextsLive'
  <2>1. contexts' = [d \in OpenCalls |-> IF d = c THEN [contexts[c] EXCEPT !.returnValue = v]
                                          ELSE contexts[d]]
    BY <1>1, <1>3 DEF Inv, ContextsLive
  <2>2. contexts' = [d \in OpenCalls' |-> contexts'[d]]
    BY <1>6, <2>1
  <2>3. \A d \in OpenCalls' : \/ contexts'[d] = contexts[d]
                              \/ \E w \in Value : contexts'[d] = [contexts[d] EXCEPT !.returnValue = w]
    BY <1>4, <1>6, <2>1
  <2>4. /\ \A i \in Threads : i # t => frames'[i] = frames[i]
        /\ \A n \in DOMAIN frames'[t] : n \in DOMAIN frames[t] /\ frames'[t][n] = frames[t][n]
    BY <1>1
  <2> QED
    BY <1>5, <2>2, <2>3, <2>4, ContextsCut
<1> QED
  BY <1>5, <1>7 DEF Inv

-----------------------------------------------------------------------------
(* Steps of thunks *)

\* A thunk returns to the native code that called it.
LEMMA ReturnStep ==
  ASSUME Inv, NEW t \in Threads, Current(t).kind # "native",
         NEW file \in [Locations -> Value],
         frames' = [frames EXCEPT ![t] = Returning(t)], cpu' = [cpu EXCEPT ![t] = file],
         calls' = calls,
         NEW gone, gone = IF IsOpen(Current(t)) THEN {Current(t).id} ELSE {}
  PROVE  /\ Types' /\ Stacks' /\ Numbered' /\ RestoresServe'
         /\ OpenCalls' = OpenCalls \ gone
         /\ \A u \in Threads : u # t => frames'[u] = frames[u]
         /\ \A n \in DOMAIN frames'[t] : n \in DOMAIN frames[t] /\ frames'[t][n] = frames[t][n]
<1> DEFINE k == Len(frames[t]) - 1
<1>1. /\ k \in 1..(Len(frames[t]) - 1) /\ \A m \in k..(Len(frames[t]) - 1) : m = k
      /\ \A m \in (k + 1)..Len(frames[t]) : m = Len(frames[t])
      /\ frames[t][k].kind = "native" /\ frames[t][k].pc = "call"
      /\ k + 1 = Len(frames[t]) /\ Current(t) = frames[t][Len(frames[t])]
      /\ Len(frames[t]) \in Nat
  <2>1. Len(frames[t]) > 1 /\ k = Len(frames[t]) - 1
    BY ThreadFacts
  <2> HIDE DEF k
  <2> QED
    BY <2>1, CallerFacts, ThreadFacts
<1>2. frames' = [frames EXCEPT ![t] = SubSeq(frames[t], 1, k)]
  BY DEF Returning
<1> HIDE DEF k
<1>3. Running(frames[t][k], file)
  BY <1>1 DEF Running, Keeping
<1>4. \A m \in k..(Len(frames[t]) - 1) : \A u \in Threads : \A n \in DOMAIN frames'[u] :
        frames'[u][n].kind = "restore" => ~Serves(frames[t][m], frames'[u][n])
  BY <1>1 DEF Serves
<1>5. gone = {frames[t][n].id : n \in {m \in (k + 1)..Len(frames[t]) : IsOpen(frames[t][m])}}
  <2>1. Len(frames[t]) \in (k + 1)..Len(frames[t])
    BY <1>1
  <2> QED
    BY <1>1, <2>1
<1> QED
  BY <1>2, <1>1, <1>3, <1>4, <1>5, CutStep

\* A binding thunk returns and takes its context along.
LEMMA BindLeaveStep ==
  ASSUME Inv, NEW t \in Threads, BindLeave(t)
  PROVE  Inv'
<1> DEFINE f == Current(t)
           file == [l \in Locations |-> IF l \in ReturnRegisters(f.ret) THEN contexts[f.id].returnValue
                                        ELSE AfterCall(cpu[t])[l]]
           gone == {f.id}
<1>1. /\ f.kind = "bind" /\ f.pc = "call" /\ calls' = calls
      /\ frames' = [frames EXCEPT ![t] = Returning(t)]
      /\ contexts' = [c \in DOMAIN contexts \ gone |-> contexts[c]]
      /\ cpu' = [cpu EXCEPT ![t] = file]
  BY DEF BindLeave, At, Inv, Types
<1>2. f \in Frame /\ cpu[t] \in [Locations -> Value] /\ Len(frames[t]) \in DOMAIN frames[t]
      /\ f = frames[t][Len(frames[t])]
  BY ThreadFacts
<1>3. Holds(contexts[f.id], f)
  BY <1>1, <1>2 DEF Inv, ContextsLive, IsOpen
<1>4. contexts[f.id].returnValue \in Value
  BY <1>3 DEF Holds, ArgumentContext
<1>5. file \in [Locations -> Value]
  BY <1>2, <1>4, ValueFacts DEF AfterCall
<1>6. gone = IF IsOpen(f) THEN {f.id} ELSE {}
  BY <1>1 DEF IsOpen
<1> HIDE DEF file, gone
<1>7. /\ Types' /\ Stacks' /\ Numbered' /\ RestoresServe'
      /\ OpenCalls' = OpenCalls \ gone
      /\ \A u \in Threads : u # t => frames'[u] = frames[u]
      /\ \A n \in DOMAIN frames'[t] : n \in DOMAIN frames[t] /\ frames'[t][n] = frames[t][n]
  BY <1>1, <1>5, <1>6, ReturnStep
<1>8. ContextsLive'
  <2>1. DOMAIN contexts = OpenCalls
    BY OpenFacts
  <2>2. contexts' = [c \in OpenCalls' |-> contexts'[c]] /\ \A c \in OpenCalls' : contexts'[c] = contexts[c]
    BY <1>1, <1>7, <2>1
  <2>3. \A c \in OpenCalls' : \/ contexts'[c] = contexts[c]
                              \/ \E v \in Value : contexts'[c] = [contexts[c] EXCEPT !.returnValue = v]
    BY <2>2
  <2> QED
    BY <1>7, <2>2, <2>3, ContextsCut
<1> QED
  BY <1>7, <1>8 DEF Inv

\* A restore thunk works for a callback that runs.
LEMMA RestoreFacts ==
  ASSUME Inv, NEW t \in Threads, Current(t).kind = "restore"
  PROVE  \E u \in Threads : \E m \in 1..(Len(frames[u]) - 1) :
           /\ Serves(frames[u][m], Current(t)) /\ IsOpen(frames[u][m])
           /\ frames[u][m].sig \in Signatures
           /\ Current(t).context \in OpenCalls
           /\ Holds(contexts[Current(t).context], frames[u][m])
<1>1. Len(frames[t]) \in DOMAIN frames[t] /\ Current(t) = frames[t][Len(frames[t])]
  BY ThreadFacts
<1>2. PICK u \in Threads : \E m \in 1..(Len(frames[u]) - 1) : Serves(frames[u][m], Current(t))
  BY <1>1 DEF Inv, RestoresServe
<1>3. PICK m \in 1..(Len(frames[u]) - 1) : Serves(frames[u][m], Current(t))
  BY <1>2
<1>4. frames[u][m].kind = "bind" /\ Current(t).context = frames[u][m].id
  BY <1>3 DEF Serves
<1>5. /\ IsOpen(frames[u][m]) /\ frames[u][m].id \in OpenCalls
      /\ frames[u][m].sig \in Signatures
      /\ Holds(contexts[frames[u][m].id], frames[u][m])
  BY <1>4, CallbackContext
<1> QED
  BY <1>3, <1>4, <1>5

\* A restore thunk stores what the target returned and returns.
LEMMA RestoreLeaveStep ==
  ASSUME Inv, NEW t \in Threads, RestoreLeave(t)
  PROVE  Inv'
<1> DEFINE f == Current(t)
           c == f.context
           v == IF f.ret = "Void" THEN contexts[c].returnValue
                ELSE cpu[t][CHOOSE r \in ReturnRegisters(f.ret) : TRUE]
           file == [l \in Locations |-> IF l \in Preserved THEN IF f.safe THEN f.saved[l] ELSE cpu[t][l]
                                        ELSE IF l \in ReturnRegisters(f.ret) THEN cpu[t][l] ELSE Junk]
           none == {}
<1>1. /\ f.kind = "restore" /\ f.pc = "call" /\ calls' = calls
      /\ frames' = [frames EXCEPT ![t] = Returning(t)]
      /\ cpu' = [cpu EXCEPT ![t] = file]
  BY DEF RestoreLeave, At, Inv, Types
<1>2. f \in Frame /\ cpu[t] \in [Locations -> Value]
  BY ThreadFacts
<1>3. file \in [Locations -> Value]
  BY <1>2, ValueFacts DEF Frame
<1>4. /\ c \in OpenCalls /\ contexts[c].returnValue \in Value
  <2>1. PICK u \in Threads : \E m \in 1..(Len(frames[u]) - 1) :
          c \in OpenCalls /\ Holds(contexts[c], frames[u][m])
    BY <1>1, RestoreFacts
  <2> QED
    BY <2>1 DEF Holds, ArgumentContext
<1>5. v \in Value
  <2>1. CASE f.ret = "Void"
    BY <1>4, <2>1
  <2>2. CASE f.ret # "Void"
    <3>1. f.ret \in ReturnType
      BY <1>2 DEF Frame
    <3>2. ReturnRegisters(f.ret) # {} /\ ReturnRegisters(f.ret) \subseteq Locations
      BY <2>2, <3>1, ReturnFacts
    <3>3. (CHOOSE r \in ReturnRegisters(f.ret) : TRUE) \in ReturnRegisters(f.ret)
      BY <3>2
    <3> QED
      BY <1>2, <2>2, <3>2, <3>3
  <2> QED
    BY <2>1, <2>2
<1>6. contexts' = [d \in OpenCalls |-> IF d = c THEN [contexts[c] EXCEPT !.returnValue = v]
                                       ELSE contexts[d]]
  <2>1. contexts = [d \in OpenCalls |-> contexts[d]]
    BY DEF Inv, ContextsLive
  <2>2. contexts' = [contexts EXCEPT ![c].returnValue =
           IF f.ret = "Void" THEN @ ELSE cpu[t][CHOOSE r \in ReturnRegisters(f.ret) : TRUE]]
    BY DEF RestoreLeave
  <2>3. contexts' = [contexts EXCEPT ![c] = [contexts[c] EXCEPT !.returnValue = v]]
    BY <2>2
  <2> HIDE DEF c, v
  <2> QED
    BY <2>1, <2>3
<1>7. none = IF IsOpen(f) THEN {f.id} ELSE {}
  BY <1>1 DEF IsOpen
<1>8. none = {}
  OBVIOUS
<1> HIDE DEF file, none, c, v
<1>9. /\ Types' /\ Stacks' /\ Numbered' /\ RestoresServe'
      /\ OpenCalls' = OpenCalls \ none
      /\ \A u \in Threads : u # t => frames'[u] = frames[u]
      /\ \A n \in DOMAIN frames'[t] : n \in DOMAIN frames[t] /\ frames'[t][n] = frames[t][n]
  BY <1>1, <1>3, <1>7, ReturnStep
<1>10. ContextsLive'
  <2>1. contexts' = [d \in OpenCalls' |-> contexts'[d]]
    BY <1>6, <1>8, <1>9
  <2>2. \A d \in OpenCalls' : \/ contexts'[d] = contexts[d]
                              \/ \E w \in Value : contexts'[d] = [contexts[d] EXCEPT !.returnValue = w]
    BY <1>5, <1>6, <1>8, <1>9
  <2> QED
    BY <1>9, <2>1, <2>2, ContextsCut
<1> QED
  BY <1>9, <1>10 DEF Inv

\* Call stack r is s after its innermost frame became f and called the function of g.
CallsOn(s, r, f, g) ==
  /\ DOMAIN r = 1..(Len(s) + 1) /\ Len(r) = Len(s) + 1
  /\ \A n \in 1..(Len(s) + 1) :
       r[n] = IF n = Len(s) + 1 THEN g ELSE IF n = Len(s) THEN f ELSE s[n]

\* A thunk has done its work and calls on.
LEMMA CallingStep ==
  ASSUME Inv, NEW t \in Threads, Current(t).kind # "native", Current(t).pc = "entry",
         NEW f \in Frame, f.kind = Current(t).kind, f.pc = "call", f.sig = Current(t).sig,
         f.entry = Current(t).entry, f.id = Current(t).id,
         NEW file \in [Locations -> Value], NEW g, g = NativeFrame(f.id, file), Called(f, g),
         frames' = [frames EXCEPT ![t] = Calling(t, f, file)],
         cpu' = [cpu EXCEPT ![t] = file], calls' = calls
  PROVE  /\ Types' /\ Stacks' /\ Numbered'
         /\ \A u \in Threads : u # t => frames'[u] = frames[u]
         /\ CallsOn(frames[t], frames'[t], f, g)
<1> DEFINE s == frames[t]
           k == Len(s)
           r == Append([s EXCEPT ![k] = f], g)
<1>1. /\ g \in Frame /\ g.kind = "native" /\ g.pc = "call" /\ g.entry = file
  <2>1. f.id \in Nat
    BY DEF Frame
  <2> QED
    BY <2>1, ValueFacts DEF NativeFrame, Frame, ReturnType
<1>2. /\ Stack(s, cpu[t]) /\ k \in Nat \ {0} /\ DOMAIN s = 1..k /\ calls \in Nat
      /\ Top1(s) = s[k] /\ Current(t) = Top1(s)
  BY ThreadFacts
<1>3. frames' = [frames EXCEPT ![t] = r]
  BY DEF Calling
<1>4. /\ Stack(r, file) /\ Len(r) = k + 1 /\ DOMAIN r = 1..(k + 1)
      /\ \A n \in 1..k : r[n] = IF n = k THEN f ELSE s[n]
      /\ r[k + 1] = g /\ r[k] = f
  <2>1. r = Append([s EXCEPT ![Len(s)] = f], g)
    OBVIOUS
  <2>2. /\ Stack(s, cpu[t]) /\ Top1(s).kind # "native"
        /\ f.kind = Top1(s).kind /\ f.sig = Top1(s).sig /\ f.entry = Top1(s).entry
        /\ f.id = Top1(s).id
    BY <1>2
  <2> HIDE DEF r, s
  <2>3. Stack(r, g.entry)
    BY <1>1, <2>1, <2>2, StackCalling
  <2>4. Len(r) = Len(s) + 1 /\ DOMAIN r = 1..Len(r)
    BY <1>1, <2>1, <2>2, StackCalling
  <2>5. \A n \in 1..Len(s) : r[n] = IF n = Len(s) THEN f ELSE s[n]
    BY <1>1, <2>1, <2>2, StackCalling
  <2>6. r[Len(s) + 1] = g
    BY <1>1, <2>1, <2>2, StackCalling
  <2>7. Len(s) \in 1..Len(s)
    BY <1>2
  <2> QED
    BY <1>1, <2>3, <2>4, <2>5, <2>6, <2>7
<1>5. Len(r) <= 2 * calls' + (IF Top1(r).pc = "entry" THEN 0 ELSE 1)
  <2>1. k <= 2 * calls
    <3>1. k <= 2 * calls + 0
      BY <1>2 DEF Inv, Stacks
    <3> HIDE DEF k
    <3> QED
      BY <1>2, <3>1
  <2>2. Top1(r) = g
    BY <1>4 DEF Top1
  <2> HIDE DEF r, k
  <2> QED
    BY <1>1, <1>2, <1>4, <2>1, <2>2
<1> HIDE DEF r
<1>6. Types' /\ Stacks'
  <2>1. calls' \in calls..MaxCalls
    <3>1. calls \in 0..MaxCalls /\ MaxCalls \in Nat
      BY BoundAssumption DEF Inv, Types
    <3> QED
      BY <3>1
  <2> QED
    BY <1>3, <1>4, <1>5, <2>1, ThreadStep
<1>7. frames'[t] = r /\ \A u \in Threads : u # t => frames'[u] = frames[u]
  BY <1>3 DEF Inv, Types
<1>8. Numbered'
  <2>1. \A n \in 1..(k + 1) : n = k + 1 \/ n = k \/ (n \in 1..k /\ n # k)
    <3> HIDE DEF k
    <3> QED
      BY <1>2
  <2>2. k \in DOMAIN s
    BY <1>2
  <2>3. \A n \in DOMAIN r :
          \/ r[n].kind = "native"
          \/ /\ n \in DOMAIN s /\ s[n].kind # "native"
             /\ r[n].id = s[n].id
    <3> SUFFICES ASSUME NEW n \in 1..(k + 1), r[n].kind # "native"
                 PROVE  n \in DOMAIN s /\ s[n].kind # "native" /\ r[n].id = s[n].id
      BY <1>4
    <3>1. CASE n = k
      BY <1>2, <1>4, <2>2, <3>1
    <3>2. CASE n \in 1..k /\ n # k
      BY <1>2, <1>4, <3>2
    <3> QED
      BY <1>1, <1>4, <2>1, <3>1, <3>2
  <2>4. \A n \in DOMAIN frames'[t] :
          \/ frames'[t][n].kind = "native"
          \/ /\ n \in DOMAIN frames[t] /\ frames[t][n].kind # "native"
             /\ frames'[t][n].id = frames[t][n].id
          \/ n = 0 /\ calls' = calls + 1 /\ frames'[t][n].id = calls + 1
    BY <1>7, <2>3
  <2>5. calls' \in {calls, calls + 1} /\ \A u \in Threads : u # t => frames'[u] = frames[u]
    BY <1>7
  <2> QED
    BY <2>4, <2>5, NumberedStep
<1>9. \A n \in 1..(k + 1) : frames'[t][n] = IF n = k + 1 THEN g ELSE IF n = k THEN f ELSE s[n]
  <2>1. \A n \in 1..(k + 1) : n = k + 1 \/ (n \in 1..k /\ n # k + 1)
    <3> HIDE DEF k
    <3> QED
      BY <1>2
  <2> QED
    BY <1>4, <1>7, <2>1
<1> QED
  BY <1>4, <1>6, <1>7, <1>8, <1>9 DEF CallsOn

\* Which calls are open then.
LEMMA CallingOpens ==
  ASSUME Inv, NEW t \in Threads, Numbered', NEW k, k = Len(frames[t]),
         Current(t).pc = "entry",
         \A u \in Threads : u # t => frames'[u] = frames[u],
         DOMAIN frames'[t] = 1..(k + 1),
         \A n \in 1..k : n # k => frames'[t][n] = frames[t][n],
         frames'[t][k].pc = "call", frames'[t][k + 1].kind = "native"
  PROVE  OpenCalls' =
           OpenCalls \cup (IF frames'[t][k].kind = "bind" THEN {frames'[t][k].id} ELSE {})
<1> DEFINE none == {}
           added == IF frames'[t][k].kind = "bind" THEN {frames'[t][k].id} ELSE {}
<1>1. k \in Nat \ {0} /\ DOMAIN frames[t] = 1..k /\ frames[t][k].pc = "entry"
  BY ThreadFacts
<1>2. \A n \in 1..(k + 1) : n = k + 1 \/ n = k \/ (n \in 1..k /\ n # k)
  BY <1>1
<1>3. k \in 1..(k + 1) /\ 1..k \subseteq 1..(k + 1)
  BY <1>1
<1>4. \A n \in DOMAIN frames[t] : IsOpen(frames[t][n]) =>
        \/ n \in DOMAIN frames'[t] /\ IsOpen(frames'[t][n]) /\ frames'[t][n] = frames[t][n]
        \/ frames[t][n].id \in none
  BY <1>1, <1>3 DEF IsOpen
<1>5. \A n \in DOMAIN frames'[t] : IsOpen(frames'[t][n]) =>
        \/ n \in DOMAIN frames[t] /\ IsOpen(frames[t][n]) /\ frames'[t][n] = frames[t][n]
        \/ frames'[t][n].id \in added
  BY <1>1, <1>2 DEF IsOpen
<1>6. \A c \in added : \E n \in DOMAIN frames'[t] : IsOpen(frames'[t][n]) /\ frames'[t][n].id = c
  BY <1>3 DEF IsOpen
<1>7. \A u \in Threads : \A n \in DOMAIN frames'[u] :
        IsOpen(frames'[u][n]) => frames'[u][n].id \notin none
  OBVIOUS
<1>8. none = {}
  OBVIOUS
<1> HIDE DEF none, added
<1>9. OpenCalls' = (OpenCalls \ none) \cup added
  BY <1>4, <1>5, <1>6, <1>7, OpenStep
<1> QED
  BY <1>8, <1>9 DEF added

\* Restore thunks go on working for the callbacks they worked for.
LEMMA CallingRestores ==
  ASSUME Inv, NEW t \in Threads, NEW k, k = Len(frames[t]), NEW f, NEW g,
         f.kind = Current(t).kind, f.sig = Current(t).sig, f.safe = Current(t).safe,
         f.context = Current(t).context, f.entry = Current(t).entry,
         \A u \in Threads : u # t => frames'[u] = frames[u],
         CallsOn(frames[t], frames'[t], f, g), g.kind = "native",
         f.kind = "restore" =>
           \A u \in Threads : \A m \in 1..(Len(frames[u]) - 1) :
             Serves(frames[u][m], Current(t)) => Gives(frames[u][m], f, g)
  PROVE  RestoresServe'
<1>1. k \in Nat \ {0} /\ DOMAIN frames[t] = 1..k /\ Current(t) = frames[t][k]
  BY ThreadFacts
<1>2. /\ DOMAIN frames'[t] = 1..(k + 1) /\ Len(frames'[t]) = k + 1
      /\ \A n \in 1..k : n # k => frames'[t][n] = frames[t][n]
      /\ frames'[t][k] = f /\ frames'[t][k + 1] = g
  <2>1. /\ DOMAIN frames'[t] = 1..(k + 1) /\ Len(frames'[t]) = k + 1
        /\ \A n \in 1..(k + 1) :
             frames'[t][n] = IF n = k + 1 THEN g ELSE IF n = k THEN f ELSE frames[t][n]
    BY DEF CallsOn
  <2>2. k + 1 \in 1..(k + 1) /\ k # k + 1 /\ \A n \in 1..k : n \in 1..(k + 1) /\ n # k + 1
    BY <1>1
  <2> QED
    BY <1>1, <2>1, <2>2
<1>3. ASSUME NEW u \in Threads, NEW m \in 1..(Len(frames[u]) - 1)
      PROVE  m \in 1..(Len(frames'[u]) - 1) /\ frames'[u][m] = frames[u][m]
  <2>1. CASE u # t
    BY <2>1
  <2>2. CASE u = t
    <3>1. m \in 1..(k - 1)
      BY <2>2
    <3>2. m \in 1..k /\ m # k /\ m \in 1..((k + 1) - 1)
      BY <1>1, <3>1
    <3> QED
      BY <1>2, <2>2, <3>2
  <2> QED
    BY <2>1, <2>2
<1>4. ASSUME NEW n \in DOMAIN frames'[t], frames'[t][n].kind = "restore"
      PROVE  \E u \in Threads : \E m \in 1..(Len(frames[u]) - 1) :
               /\ Serves(frames[u][m], frames'[t][n])
               /\ n < Len(frames'[t]) => Gives(frames[u][m], frames'[t][n], frames'[t][n + 1])
  <2>1. n = k + 1 \/ n = k \/ (n \in 1..k /\ n # k)
    <3>1. n \in 1..(k + 1)
      BY <1>2, <1>4
    <3> QED
      BY <1>1, <3>1
  <2>2. CASE n = k
    <3>1. frames'[t][n] = f /\ frames'[t][n + 1] = g /\ f.kind = "restore"
      BY <1>2, <1>4, <2>2
    <3>2. PICK u \in Threads : \E m \in 1..(Len(frames[u]) - 1) : Serves(frames[u][m], Current(t))
      BY <3>1, RestoreFacts
    <3>3. PICK m \in 1..(Len(frames[u]) - 1) : Serves(frames[u][m], Current(t))
      BY <3>2
    <3>4. Serves(frames[u][m], f)
      BY <3>3 DEF Serves
    <3>5. Gives(frames[u][m], f, g)
      BY <3>1, <3>3
    <3> QED
      BY <3>1, <3>4, <3>5
  <2>3. CASE n \in 1..k /\ n # k
    <3>1. n \in DOMAIN frames[t] /\ frames'[t][n] = frames[t][n] /\ frames[t][n].kind = "restore"
      BY <1>1, <1>2, <1>4, <2>3
    <3>2. n < Len(frames[t]) /\ n + 1 \in 1..k
      BY <1>1, <2>3
    <3>3. frames'[t][n + 1].entry = frames[t][n + 1].entry
      BY <1>1, <1>2, <3>2
    <3> QED
      BY <1>4, <3>1, <3>2, <3>3, RestoresKept
  <2> QED
    BY <1>2, <1>4, <2>1, <2>2, <2>3
<1>5. \A u, v \in Threads : \A m \in 1..(Len(frames[u]) - 1) : \A n \in DOMAIN frames'[v] :
        frames'[v][n].kind = "restore" /\ Serves(frames[u][m], frames'[v][n]) =>
          m \in 1..(Len(frames'[u]) - 1) /\ frames'[u][m] = frames[u][m]
  BY <1>3
<1> QED
  BY <1>4, <1>5, RestoresStep

\* What a binding thunk packs is what it was called with.
LEMMA PackedHolds ==
  ASSUME NEW sig \in Signatures, NEW f \in Frame, f.sig = sig, NEW file, file = f.entry
  PROVE  Holds(Packed(f, file), f)
<1> DEFINE ctx == Packed(f, file)
<1>1. f.entry \in [Locations -> Value] /\ f.safe \in BOOLEAN
  BY DEF Frame
<1>2. \A i \in DOMAIN sig : Argument(sig, i) \in Locations
  BY SignatureFacts, PlaceFacts
<1>3. ctx.data = [i \in DOMAIN sig |-> f.entry[Argument(sig, i)]]
  BY DEF Packed
<1>4. ctx.data \in [DOMAIN sig -> Value]
  BY <1>1, <1>2, <1>3
<1>5. /\ ctx.registers \in [Registers -> Value]
      /\ f.safe => \A r \in Captured \ {"rflags"} : ctx.registers[r] = f.entry[r]
  <2>1. Captured \subseteq Registers /\ Registers \subseteq Locations /\ Junk \in Value
    BY ValueFacts DEF Captured
  <2>2. CASE f.safe
    <3>1. ctx.registers = [r \in Registers |-> IF r \in Captured \ {"rflags"} THEN f.entry[r] ELSE Junk]
      BY <2>2 DEF Packed, SaveRegisterContext
    <3> HIDE DEF ctx
    <3> QED
      BY <1>1, <2>1, <3>1
  <2>3. CASE ~f.safe
    <3>1. ctx.registers = NoMemory
      BY <2>3 DEF Packed
    <3> QED
      BY <2>3, <3>1, ValueFacts
  <2> QED
    BY <2>2, <2>3
<1>6. ctx.returnValue = Zero
  BY DEF Packed
<1>7. ctx = [data |-> ctx.data, returnValue |-> ctx.returnValue, registers |-> ctx.registers]
  BY DEF Packed
<1>8. ctx \in ArgumentContext(sig)
  <2> HIDE DEF ctx
  <2> QED
    BY <1>4, <1>5, <1>6, <1>7, ValueFacts DEF ArgumentContext
<1> HIDE DEF ctx
<1>9. Holds(ctx, f)
  BY <1>3, <1>5, <1>8 DEF Holds
<1> QED
  BY <1>9 DEF ctx

\* A binding thunk calls its callback with a context of its own.
LEMMA BindEnterStep ==
  ASSUME Inv, NEW t \in Threads, BindEnter(t)
  PROVE  Inv' /\ Len(frames'[t]) = Len(frames[t]) + 1
<1> DEFINE a == Current(t)
           f == [a EXCEPT !.pc = "call"]
           one == Argument(CallbackSignature, 1)
           two == Argument(CallbackSignature, 2)
           file == [AfterCall(cpu[t]) EXCEPT ![one] = BindParam, ![two] = Context(a.id)]
           g == NativeFrame(f.id, file)
           k == Len(frames[t])
<1>1. /\ a.kind = "bind" /\ a.pc = "entry" /\ calls' = calls
      /\ contexts' = [c \in DOMAIN contexts \cup {a.id} |->
                        IF c = a.id THEN Packed(a, cpu[t]) ELSE contexts[c]]
      /\ frames' = [frames EXCEPT ![t] = Calling(t, f, file)]
      /\ cpu' = [cpu EXCEPT ![t] = file]
  BY DEF BindEnter, At
<1>2. /\ a \in Frame /\ a.sig \in Signatures /\ cpu[t] = a.entry
      /\ a.entry \in [Locations -> Value] /\ a.id \in Nat
      /\ k \in Nat \ {0} /\ DOMAIN frames[t] = 1..k /\ k \in 1..k /\ a = frames[t][k]
  <2>1. /\ a \in Frame /\ a.sig \in Signatures /\ Running(a, cpu[t])
        /\ k \in Nat \ {0} /\ DOMAIN frames[t] = 1..k /\ k \in 1..k /\ a = frames[t][k]
    BY <1>1, ThreadFacts
  <2> QED
    BY <1>1, <2>1 DEF Running, Frame
<1>3. /\ f \in Frame /\ f.kind = "bind" /\ f.pc = "call" /\ f.sig = a.sig /\ f.entry = a.entry
      /\ f.id = a.id /\ f.safe = a.safe /\ f.context = a.context
  BY <1>1, <1>2 DEF Frame
<1>4. /\ file \in [Locations -> Value] /\ file[one] = BindParam /\ file[two] = Context(a.id)
      /\ \A r \in Preserved : file[r] = a.entry[r]
  <2>1. one \in Locations /\ two \in Locations /\ one \notin Preserved /\ two \notin Preserved /\ one # two
    BY CallbackPlaces
  <2>2. BindParam \in Value /\ Context(a.id) \in Value /\ Junk \in Value /\ Preserved \subseteq Locations
    BY <1>2, ValueFacts
  <2>3. AfterCall(cpu[t]) = [l \in Locations |-> IF l \in Preserved THEN a.entry[l] ELSE Junk]
    BY <1>2 DEF AfterCall
  <2> HIDE DEF one, two, a
  <2> QED
    BY <1>2, <2>1, <2>2, <2>3
<1> HIDE DEF file
<1>5. g.kind = "native" /\ g.id = f.id /\ g.entry = file
  BY DEF NativeFrame
<1>6. Called(f, g)
  BY <1>3, <1>4, <1>5 DEF Called, Keeping, Keeps
<1> HIDE DEF g
<1>7. g = NativeFrame(f.id, file)
  BY DEF g
<1> HIDE DEF f
<1>8. /\ Types' /\ Stacks' /\ Numbered'
      /\ \A u \in Threads : u # t => frames'[u] = frames[u]
      /\ DOMAIN frames'[t] = 1..(k + 1) /\ Len(frames'[t]) = k + 1
      /\ \A n \in 1..k : n # k => frames'[t][n] = frames[t][n]
      /\ frames'[t][k] = f /\ frames'[t][k + 1] = g
      /\ CallsOn(frames[t], frames'[t], f, g)
  <2>1. /\ Current(t).kind # "native" /\ Current(t).pc = "entry"
        /\ f.kind = Current(t).kind /\ f.sig = Current(t).sig
        /\ f.entry = Current(t).entry /\ f.id = Current(t).id
    BY <1>1, <1>3 DEF a
  <2>2. f \in Frame /\ f.pc = "call" /\ file \in [Locations -> Value]
    BY <1>3, <1>4
  <2>3. frames' = [frames EXCEPT ![t] = Calling(t, f, file)] /\ cpu' = [cpu EXCEPT ![t] = file]
        /\ calls' = calls
    BY <1>1
  <2>4. Types' /\ Stacks'
    BY <1>6, <1>7, <2>1, <2>2, <2>3, CallingStep
  <2>5. Numbered' /\ \A u \in Threads : u # t => frames'[u] = frames[u]
    BY <1>6, <1>7, <2>1, <2>2, <2>3, CallingStep
  <2>6. CallsOn(frames[t], frames'[t], f, g)
    BY <1>6, <1>7, <2>1, <2>2, <2>3, CallingStep
  <2>7. /\ DOMAIN frames'[t] = 1..(k + 1) /\ Len(frames'[t]) = k + 1
        /\ \A n \in 1..(k + 1) :
             frames'[t][n] = IF n = k + 1 THEN g ELSE IF n = k THEN f ELSE frames[t][n]
    BY <2>6 DEF CallsOn
  <2> HIDE DEF k
  <2>8. k + 1 \in 1..(k + 1) /\ k # k + 1 /\ \A n \in 1..k : n \in 1..(k + 1) /\ n # k + 1
    BY <1>2
  <2> QED
    BY <1>2, <2>4, <2>5, <2>6, <2>7, <2>8
<1> HIDE DEF a, k
<1>9. OpenCalls' = OpenCalls \cup {a.id}
  <2>1. k = Len(frames[t]) /\ Current(t).pc = "entry"
    BY <1>1 DEF a, k
  <2>2. frames'[t][k].pc = "call" /\ frames'[t][k + 1].kind = "native"
    BY <1>3, <1>5, <1>8
  <2>3. OpenCalls' = OpenCalls \cup (IF frames'[t][k].kind = "bind" THEN {frames'[t][k].id} ELSE {})
    BY <1>8, <2>1, <2>2, CallingOpens
  <2> QED
    BY <1>3, <1>8, <2>3
<1>10. ContextsLive'
  <2>1. contexts' = [c \in OpenCalls' |-> contexts'[c]] /\ contexts'[a.id] = Packed(a, cpu[t])
        /\ \A c \in OpenCalls : c # a.id => contexts'[c] = contexts[c]
    BY <1>1, <1>9, OpenFacts
  <2>2. Holds(contexts'[f.id], f)
    <3>1. Holds(Packed(a, cpu[t]), a)
      BY <1>2, PackedHolds
    <3> QED
      BY <1>3, <2>1, <3>1 DEF Holds
  <2>3. \A n \in DOMAIN frames'[t] : IsOpen(frames'[t][n]) =>
          \/ n \in DOMAIN frames[t] /\ frames'[t][n] = frames[t][n]
          \/ Holds(contexts'[frames'[t][n].id], frames'[t][n])
    <3>1. \A n \in 1..(k + 1) : n = k + 1 \/ n = k \/ (n \in 1..k /\ n # k)
      BY <1>2
    <3> QED
      BY <1>2, <1>5, <1>8, <2>2, <3>1 DEF IsOpen
  <2>4. \A u \in Threads : \A n \in DOMAIN frames[u] :
          IsOpen(frames[u][n]) => Holds(contexts'[frames[u][n].id], frames[u][n])
    <3> SUFFICES ASSUME NEW u \in Threads, NEW n \in DOMAIN frames[u], IsOpen(frames[u][n])
                 PROVE  Holds(contexts'[frames[u][n].id], frames[u][n])
      OBVIOUS
    <3>1. Holds(contexts[frames[u][n].id], frames[u][n]) /\ frames[u][n].id \in OpenCalls
      BY OpenFacts DEF Inv, ContextsLive
    <3>2. frames[u][n].id # a.id
      <4>1. frames[u][n] # frames[t][k]
        BY <1>1, <1>2 DEF IsOpen
      <4>2. frames[u][n].kind # "native" /\ frames[t][k].kind # "native" /\ k \in DOMAIN frames[t]
        BY <1>1, <1>2 DEF IsOpen
      <4> QED
        BY <1>2, <4>1, <4>2 DEF Inv, Numbered
    <3> QED
      BY <2>1, <3>1, <3>2
  <2>5. \A u \in Threads : \A n \in DOMAIN frames[u] :
          IsOpen(frames[u][n]) /\ n \in DOMAIN frames'[u] /\ frames'[u][n] = frames[u][n] =>
            Holds(contexts'[frames[u][n].id], frames[u][n])
    BY <2>4
  <2>6. contexts' = [c \in OpenCalls' |-> contexts'[c]] /\ \A u \in Threads : u # t => frames'[u] = frames[u]
    BY <1>8, <2>1
  <2> QED
    BY <2>3, <2>5, <2>6, ContextsStep
<1>11. RestoresServe'
  <2>1. /\ k = Len(frames[t]) /\ f.kind = Current(t).kind /\ f.sig = Current(t).sig
        /\ f.safe = Current(t).safe /\ f.context = Current(t).context /\ f.entry = Current(t).entry
    BY <1>1, <1>3 DEF a, k
  <2>2. g.kind = "native" /\ f.kind # "restore"
    BY <1>3, <1>5
  <2> QED
    BY <1>8, <2>1, <2>2, CallingRestores
<1> QED
  BY <1>8, <1>10, <1>11 DEF Inv, k

\* The machine a restore thunk rebuilds from the context of binding frame b.
LEMMA RebuiltGives ==
  ASSUME NEW sig \in Signatures, NEW a \in Frame, a.sig = sig, NEW b, Serves(b, a),
         NEW ctx, Holds(ctx, b), NEW old \in [Locations -> Value],
         NEW file, file = Rebuilt(a, ctx, old)
  PROVE  /\ file \in [Locations -> Value]
         /\ \A r \in Preserved : ~a.safe => file[r] = old[r]
         /\ \A i \in DOMAIN sig : file[Argument(sig, i)] = b.entry[Argument(sig, i)]
         /\ a.safe => \A r \in Captured \ (ArgumentRegisters(sig) \cup {ContextReg, "rflags"}) :
                        file[r] = b.entry[r]
<1>1. /\ b.sig = sig /\ (a.safe => b.safe)
      /\ ctx \in ArgumentContext(sig)
      /\ ctx.data = [i \in DOMAIN sig |-> b.entry[Argument(sig, i)]]
      /\ b.safe => \A r \in Captured \ {"rflags"} : ctx.registers[r] = b.entry[r]
  BY DEF Serves, Holds
<1>2. ctx.data \in [DOMAIN sig -> Value] /\ ctx.registers \in [Registers -> Value]
  BY <1>1 DEF ArgumentContext
<1>3. file = [l \in Locations |->
        IF l \in Arguments(sig)
        THEN ctx.data[CHOOSE i \in DOMAIN sig : Argument(sig, i) = l]
        ELSE IF l = ContextReg THEN old[l]
        ELSE IF a.safe /\ l \in Captured THEN ctx.registers[l]
        ELSE AfterCall(old)[l]]
  BY DEF Rebuilt
<1>4. /\ \A i \in DOMAIN sig : /\ Argument(sig, i) \in Locations
                               /\ Argument(sig, i) \notin Preserved
                               /\ Argument(sig, i) \in Slots \cup ArgRegisters
      /\ \A i, j \in DOMAIN sig : Argument(sig, i) = Argument(sig, j) => i = j
  <2>1. sig \in Signature /\ StackArguments(sig) <= Len(StackSlots)
    BY SignatureFacts
  <2> QED
    BY <2>1, PlaceFacts
<1>5. \A i \in DOMAIN sig : (CHOOSE j \in DOMAIN sig : Argument(sig, j) = Argument(sig, i)) = i
  BY <1>4
<1>6. Captured \subseteq Registers /\ Registers \subseteq Locations /\ Registers \cap Slots = {}
      /\ Junk \in Value /\ Preserved \subseteq Locations
  BY ValueFacts DEF Captured
<1>7. \A l \in Arguments(sig) : \E i \in DOMAIN sig : l = Argument(sig, i)
  BY DEF Arguments
<1>8. \A i \in DOMAIN sig : Argument(sig, i) \in Arguments(sig)
  BY DEF Arguments
<1>9. AfterCall(old) = [l \in Locations |-> IF l \in Preserved THEN old[l] ELSE Junk]
  BY DEF AfterCall
<1>10. \A i \in DOMAIN sig : /\ file[Argument(sig, i)] = ctx.data[i]
                             /\ ctx.data[i] \in Value /\ ctx.data[i] = b.entry[Argument(sig, i)]
  BY <1>1, <1>2, <1>3, <1>4, <1>5, <1>8
<1>11. file \in [Locations -> Value]
  <2> SUFFICES ASSUME NEW l \in Locations PROVE file[l] \in Value
    BY <1>3
  <2>1. CASE l \in Arguments(sig)
    BY <1>7, <1>10, <2>1
  <2>2. CASE l \notin Arguments(sig)
    BY <1>2, <1>3, <1>6, <1>9, <2>2
  <2> QED
    BY <2>1, <2>2
<1>12. ASSUME NEW r \in Preserved, ~a.safe PROVE file[r] = old[r]
  <2>1. r \notin Arguments(sig)
    BY <1>4, <1>7
  <2> QED
    BY <1>3, <1>6, <1>9, <1>12, <2>1
<1>13. ASSUME a.safe, NEW r \in Captured \ (ArgumentRegisters(sig) \cup {ContextReg, "rflags"})
       PROVE  file[r] = b.entry[r]
  <2>1. r \notin Arguments(sig)
    BY <1>4, <1>6, <1>7 DEF ArgumentRegisters
  <2>2. file[r] = ctx.registers[r]
    BY <1>3, <1>6, <1>13, <2>1
  <2> QED
    BY <1>1, <1>13, <2>2
<1> QED
  BY <1>10, <1>11, <1>12, <1>13

\* A restore thunk calls the target with the machine its context stands for.
LEMMA RestoreEnterStep ==
  ASSUME Inv, NEW t \in Threads, RestoreEnter(t)
  PROVE  Inv' /\ Len(frames'[t]) = Len(frames[t]) + 1
<1> DEFINE a == Current(t)
           file == Rebuilt(a, contexts[a.context], cpu[t])
           f == [a EXCEPT !.pc = "call", !.saved = Saved(a, cpu[t])]
           g == NativeFrame(f.id, file)
           k == Len(frames[t])
<1>1. /\ a.kind = "restore" /\ a.pc = "entry" /\ calls' = calls /\ contexts' = contexts
      /\ frames' = [frames EXCEPT ![t] = Calling(t, f, file)]
      /\ cpu' = [cpu EXCEPT ![t] = file]
  BY DEF RestoreEnter, At
<1>2. /\ a \in Frame /\ a.sig \in Signatures /\ cpu[t] = a.entry
      /\ cpu[t] \in [Locations -> Value]
      /\ k \in Nat \ {0} /\ DOMAIN frames[t] = 1..k /\ k \in 1..k /\ a = frames[t][k]
  <2>1. /\ a \in Frame /\ a.sig \in Signatures /\ Running(a, cpu[t])
        /\ k \in Nat \ {0} /\ DOMAIN frames[t] = 1..k /\ k \in 1..k /\ a = frames[t][k]
        /\ cpu[t] \in [Locations -> Value]
    BY <1>1, ThreadFacts
  <2> QED
    BY <1>1, <2>1 DEF Running
<1>3. /\ Saved(a, cpu[t]) \in [Registers -> Value]
      /\ a.safe => \A r \in Preserved : Saved(a, cpu[t])[r] = a.entry[r]
  <2>1. Junk \in Value /\ Preserved \subseteq Registers /\ Registers \subseteq Locations
    BY ValueFacts
  <2>2. Saved(a, cpu[t]) = [r \in Registers |-> IF a.safe /\ r \in Preserved THEN cpu[t][r] ELSE Junk]
    BY DEF Saved
  <2> HIDE DEF a
  <2> QED
    BY <1>2, <2>1, <2>2
<1>4. /\ f \in Frame /\ f.kind = "restore" /\ f.pc = "call" /\ f.sig = a.sig /\ f.entry = a.entry
      /\ f.id = a.id /\ f.safe = a.safe /\ f.context = a.context /\ f.saved = Saved(a, cpu[t])
  BY <1>1, <1>2, <1>3 DEF Frame
<1>5. \A u \in Threads : \A m \in 1..(Len(frames[u]) - 1) :
        Serves(frames[u][m], a) => Holds(contexts[a.context], frames[u][m])
  BY CallbackContext DEF Serves
<1>6. PICK u \in Threads : \E m \in 1..(Len(frames[u]) - 1) : Serves(frames[u][m], a)
  BY <1>1, RestoreFacts
<1>7. PICK m \in 1..(Len(frames[u]) - 1) : Serves(frames[u][m], a)
  BY <1>6
<1>8. file = Rebuilt(a, contexts[a.context], cpu[t])
  OBVIOUS
<1> HIDE DEF file
<1>9. file \in [Locations -> Value] /\ \A r \in Preserved : ~a.safe => file[r] = a.entry[r]
  <2>1. Holds(contexts[a.context], frames[u][m])
    BY <1>5, <1>7
  <2> QED
    BY <1>2, <1>7, <1>8, <2>1, RebuiltGives
<1>10. g.kind = "native" /\ g.id = f.id /\ g.entry = file
  BY DEF NativeFrame
<1>11. Called(f, g)
  <2>1. Keeps(IF f.safe THEN f.saved ELSE g.entry, f.entry)
    <3>1. f.safe \in BOOLEAN
      BY <1>4 DEF Frame
    <3> HIDE DEF f, g, a
    <3>2. CASE f.safe
      BY <1>3, <1>4, <3>2 DEF Keeps
    <3>3. CASE ~f.safe
      BY <1>4, <1>9, <1>10, <3>3 DEF Keeps
    <3> QED
      BY <3>1, <3>2, <3>3
  <2> HIDE DEF f, g
  <2> QED
    BY <1>4, <1>10, <2>1 DEF Called, Keeping
<1> HIDE DEF g
<1>12. g = NativeFrame(f.id, file)
  BY DEF g
<1> HIDE DEF f
<1>13. \A i \in Threads : \A n \in 1..(Len(frames[i]) - 1) :
         Serves(frames[i][n], a) => Gives(frames[i][n], f, g)
  <2> SUFFICES ASSUME NEW i \in Threads, NEW n \in 1..(Len(frames[i]) - 1), Serves(frames[i][n], a)
               PROVE  Gives(frames[i][n], f, g)
    OBVIOUS
  <2> DEFINE b == frames[i][n]
  <2>1. Holds(contexts[a.context], b) /\ Serves(b, a)
    BY <1>5
  <2> HIDE DEF b, a
  <2>2. \A j \in DOMAIN a.sig : file[Argument(a.sig, j)] = b.entry[Argument(a.sig, j)]
    BY <1>2, <1>8, <2>1, RebuiltGives
  <2>3. a.safe => \A r \in Captured \ (ArgumentRegisters(a.sig) \cup {ContextReg, "rflags"}) :
                    file[r] = b.entry[r]
    BY <1>2, <1>8, <2>1, RebuiltGives
  <2>4. Gives(b, f, g)
    BY <1>4, <1>10, <2>2, <2>3 DEF Gives
  <2> QED
    BY <2>4 DEF b
<1>14. /\ Types' /\ Stacks' /\ Numbered'
       /\ \A i \in Threads : i # t => frames'[i] = frames[i]
       /\ DOMAIN frames'[t] = 1..(k + 1) /\ Len(frames'[t]) = k + 1
       /\ \A n \in 1..k : n # k => frames'[t][n] = frames[t][n]
       /\ frames'[t][k] = f /\ frames'[t][k + 1] = g
       /\ CallsOn(frames[t], frames'[t], f, g)
  <2>1. /\ Current(t).kind # "native" /\ Current(t).pc = "entry"
        /\ f.kind = Current(t).kind /\ f.sig = Current(t).sig
        /\ f.entry = Current(t).entry /\ f.id = Current(t).id
    BY <1>1, <1>4 DEF a
  <2>2. f \in Frame /\ f.pc = "call" /\ file \in [Locations -> Value]
    BY <1>4, <1>9
  <2>3. frames' = [frames EXCEPT ![t] = Calling(t, f, file)] /\ cpu' = [cpu EXCEPT ![t] = file]
        /\ calls' = calls
    BY <1>1
  <2>4. Types' /\ Stacks'
    BY <1>11, <1>12, <2>1, <2>2, <2>3, CallingStep
  <2>5. Numbered' /\ \A i \in Threads : i # t => frames'[i] = frames[i]
    BY <1>11, <1>12, <2>1, <2>2, <2>3, CallingStep
  <2>6. CallsOn(frames[t], frames'[t], f, g)
    BY <1>11, <1>12, <2>1, <2>2, <2>3, CallingStep
  <2>7. /\ DOMAIN frames'[t] = 1..(k + 1) /\ Len(frames'[t]) = k + 1
        /\ \A n \in 1..(k + 1) :
             frames'[t][n] = IF n = k + 1 THEN g ELSE IF n = k THEN f ELSE frames[t][n]
    BY <2>6 DEF CallsOn
  <2> HIDE DEF k
  <2>8. k + 1 \in 1..(k + 1) /\ k # k + 1 /\ \A n \in 1..k : n \in 1..(k + 1) /\ n # k + 1
    BY <1>2
  <2> QED
    BY <1>2, <2>4, <2>5, <2>6, <2>7, <2>8
<1> HIDE DEF a, k
<1>15. OpenCalls' = OpenCalls
  <2>1. k = Len(frames[t]) /\ Current(t).pc = "entry"
    BY <1>1 DEF a, k
  <2>2. frames'[t][k].pc = "call" /\ frames'[t][k + 1].kind = "native"
    BY <1>4, <1>10, <1>14
  <2>3. OpenCalls' = OpenCalls \cup (IF frames'[t][k].kind = "bind" THEN {frames'[t][k].id} ELSE {})
    BY <1>14, <2>1, <2>2, CallingOpens
  <2> QED
    BY <1>4, <1>14, <2>3
<1>16. ContextsLive'
  <2>1. contexts' = [c \in OpenCalls' |-> contexts'[c]]
    BY <1>1, <1>15 DEF Inv, ContextsLive
  <2>2. \A n \in DOMAIN frames'[t] : IsOpen(frames'[t][n]) =>
          \/ n \in DOMAIN frames[t] /\ frames'[t][n] = frames[t][n]
          \/ Holds(contexts'[frames'[t][n].id], frames'[t][n])
    <3>1. \A n \in 1..(k + 1) : n = k + 1 \/ n = k \/ (n \in 1..k /\ n # k)
      BY <1>2
    <3> QED
      BY <1>2, <1>4, <1>10, <1>14, <3>1 DEF IsOpen
  <2>3. \A i \in Threads : \A n \in DOMAIN frames[i] :
          IsOpen(frames[i][n]) /\ n \in DOMAIN frames'[i] /\ frames'[i][n] = frames[i][n] =>
            Holds(contexts'[frames[i][n].id], frames[i][n])
    BY <1>1 DEF Inv, ContextsLive
  <2> QED
    BY <1>14, <2>1, <2>2, <2>3, ContextsStep
<1>17. RestoresServe'
  <2>1. /\ k = Len(frames[t]) /\ f.kind = Current(t).kind /\ f.sig = Current(t).sig
        /\ f.safe = Current(t).safe /\ f.context = Current(t).context /\ f.entry = Current(t).entry
    BY <1>1, <1>4 DEF a, k
  <2>2. \A i \in Threads : \A n \in 1..(Len(frames[i]) - 1) :
          Serves(frames[i][n], Current(t)) => Gives(frames[i][n], f, g)
    BY <1>13 DEF a
  <2>3. f.kind = "restore" =>
          \A i \in Threads : \A n \in 1..(Len(frames[i]) - 1) :
            Serves(frames[i][n], Current(t)) => Gives(frames[i][n], f, g)
    BY <2>2
  <2>4. g.kind = "native"
    BY <1>10
  <2> QED
    BY <1>14, <2>1, <2>3, <2>4, CallingRestores
<1> QED
  BY <1>14, <1>16, <1>17 DEF Inv, k

-----------------------------------------------------------------------------
(* The invariant holds *)

\* Every step of native code keeps the invariant.
LEMMA NativeStep ==
  ASSUME Inv, NEW t \in Threads, Native(t)
  PROVE  Inv'
<1>1. NewFile \in [Locations -> Value]
  <2>1. calls + 1 \in Nat
    BY ThreadFacts
  <2> QED
    BY <2>1, ValueFacts DEF NewFile
<1>2. CASE NativeReturn(t)
  BY <1>2, NativeReturnStep
<1>3. CASE NativeThrow(t)
  BY <1>3, NativeThrowStep
<1>4. ASSUME NEW sig \in Signatures, NEW ret \in ReturnType, NEW safe \in BOOLEAN,
             CallBinding(t, sig, ret, safe)
      PROVE  Inv'
  <2>1. NativeCall(t, "bind", sig, ret, safe, 0, NewFile)
    BY <1>4 DEF CallBinding
  <2>2. "bind" \in {"bind", "restore"} /\ 0 \in Nat /\ "bind" # "restore"
    OBVIOUS
  <2> QED
    BY <1>1, <2>1, <2>2, CallStep
<1>5. ASSUME NEW u \in Threads, NEW m \in InCallback(u), SetReturnValue(t, frames[u][m].id)
      PROVE  Inv'
  BY <1>5, SetReturnStep
<1>6. ASSUME NEW u \in Threads, NEW m \in InCallback(u), NEW safe \in BOOLEAN,
             CallRestore(t, frames[u][m], safe)
      PROVE  Inv'
  <2> DEFINE b == frames[u][m]
             file == [NewFile EXCEPT ![ContextReg] = Context(b.id)]
  <2>1. m \in 1..(Len(frames[u]) - 1) /\ b.kind = "bind"
    BY DEF InCallback
  <2>2. b \in Frame /\ b.sig \in Signatures
    BY <2>1, BelowFacts
  <2>3. b.id \in Nat /\ b.ret \in ReturnType
    BY <2>2 DEF Frame
  <2>4. file \in [Locations -> Value]
    BY <1>1, <2>3, ValueFacts
  <2>5. NativeCall(t, "restore", b.sig, b.ret, safe, b.id, file) /\ (safe => b.safe)
    BY <1>6 DEF CallRestore
  <2>6. "restore" = "restore" =>
          \E v \in Threads : \E n \in 1..(Len(frames[v]) - 1) :
            /\ frames[v][n].kind = "bind" /\ frames[v][n].id = b.id
            /\ frames[v][n].sig = b.sig /\ (safe => frames[v][n].safe)
    BY <2>1, <2>5
  <2> HIDE DEF file, b
  <2>7. "restore" \in {"bind", "restore"}
    OBVIOUS
  <2> QED
    BY <2>2, <2>3, <2>4, <2>5, <2>6, <2>7, CallStep
<1> QED
  BY <1>2, <1>3, <1>4, <1>5, <1>6 DEF Native

\* The invariant is inductive.
LEMMA InvNext == Inv /\ [Next]_vars => Inv'
<1> SUFFICES ASSUME Inv, [Next]_vars PROVE Inv'
  OBVIOUS
<1>1. CASE UNCHANGED vars
  <2>1. frames' = frames /\ cpu' = cpu /\ calls' = calls /\ contexts' = contexts
    BY <1>1 DEF vars
  <2>2. Types' /\ Stacks'
    BY <2>1 DEF Inv, Types, Stacks
  <2>3. Numbered' /\ RestoresServe'
    BY <2>1 DEF Inv, Numbered, RestoresServe
  <2>4. OpenCalls' = OpenCalls
    BY <2>1 DEF OpenCalls
  <2>5. ContextsLive'
    BY <2>1, <2>4 DEF Inv, ContextsLive
  <2> QED
    BY <2>2, <2>3, <2>5 DEF Inv
<1>2. ASSUME NEW t \in Threads, Thunk(t) PROVE Inv'
  BY <1>2, BindEnterStep, BindLeaveStep, RestoreEnterStep, RestoreLeaveStep DEF Thunk
<1>3. ASSUME NEW t \in Threads, Native(t) PROVE Inv'
  BY <1>3, NativeStep
<1> QED
  BY <1>1, <1>2, <1>3 DEF Next

\* So it always holds.
LEMMA InvHolds == Spec => []Inv
BY InvInit, InvNext, PTL DEF Spec

-----------------------------------------------------------------------------
(* What it means *)

\* A context's binding frame is the one that serves its call.
LEMMA BindingFacts ==
  ASSUME Inv, NEW u \in Threads, NEW n \in DOMAIN frames[u], IsOpen(frames[u][n])
  PROVE  Binding(frames[u][n].id) = frames[u][n]
<1> DEFINE c == frames[u][n].id
           Homes == {p \in Threads \X (1..(2 * MaxCalls + 1)) :
                       p[2] \in DOMAIN frames[p[1]] /\ Opens(frames[p[1]][p[2]], c)}
           home == CHOOSE p \in Threads \X (1..(2 * MaxCalls + 1)) :
                     p[2] \in DOMAIN frames[p[1]] /\ Opens(frames[p[1]][p[2]], c)
<1>1. n \in 1..(2 * MaxCalls + 1)
  <2>1. /\ Len(frames[u]) \in Nat /\ DOMAIN frames[u] = 1..Len(frames[u]) /\ calls \in Nat
        /\ n \in 1..Len(frames[u])
    BY ThreadFacts
  <2>2. calls <= MaxCalls /\ MaxCalls \in Nat
    BY BoundAssumption DEF Inv, Types
  <2>3. Len(frames[u]) <= 2 * calls + (IF Top1(frames[u]).pc = "entry" THEN 0 ELSE 1)
    BY DEF Inv, Stacks
  <2>4. Len(frames[u]) <= 2 * calls + 1
    BY <2>1, <2>3
  <2> QED
    BY <2>1, <2>2, <2>4
<1>2. Opens(frames[u][n], c)
  BY DEF Opens, IsOpen
<1>3. <<u, n>> \in Homes
  BY <1>1, <1>2
<1>4. home \in Homes
  BY <1>3
<1>5. \A p \in Homes : p[1] = u /\ p[2] = n
  <2>1. \A p \in Homes : /\ p[1] \in Threads /\ p[2] \in DOMAIN frames[p[1]]
                         /\ frames[p[1]][p[2]].kind # "native" /\ frames[p[1]][p[2]].id = c
    BY DEF Opens
  <2>2. frames[u][n].kind # "native"
    BY DEF IsOpen
  <2> HIDE DEF Homes
  <2> QED
    BY <2>1, <2>2 DEF Inv, Numbered
<1>6. Binding(c) = frames[home[1]][home[2]]
  BY DEF Binding
<1> HIDE DEF home, Homes
<1> QED
  BY <1>4, <1>5, <1>6

\* Every variable keeps its type, whatever the convention, the signatures, the
\* threads and the number of calls.
THEOREM TypeCorrect == Spec => []TypeOK
<1>1. Inv => TypeOK
  <2> SUFFICES ASSUME Inv PROVE TypeOK
    OBVIOUS
  <2>1. /\ frames \in [Threads -> Seq(Frame)] /\ cpu \in [Threads -> [Locations -> Value]]
        /\ calls \in 0..MaxCalls /\ MaxCalls \in Nat
    BY BoundAssumption DEF Inv, Types
  <2>2. \A t \in Threads : frames[t] # <<>> /\ frames[t][1].kind = "native"
    BY ThreadFacts DEF CallStack
  <2>3. DOMAIN contexts \subseteq 1..MaxCalls
    <3>1. DOMAIN contexts \subseteq 1..calls
      BY OpenFacts DEF OpenCalls
    <3> QED
      BY <2>1, <3>1
  <2>4. ASSUME NEW c \in DOMAIN contexts PROVE contexts[c] \in ArgumentContext(Binding(c).sig)
    <3>1. PICK u \in Threads : \E n \in DOMAIN frames[u] : IsOpen(frames[u][n]) /\ frames[u][n].id = c
      BY OpenFacts
    <3>2. PICK n \in DOMAIN frames[u] : IsOpen(frames[u][n]) /\ frames[u][n].id = c
      BY <3>1
    <3>3. Binding(c) = frames[u][n]
      BY <3>2, BindingFacts
    <3>4. Holds(contexts[c], frames[u][n])
      BY <3>2 DEF Inv, ContextsLive
    <3> QED
      BY <3>3, <3>4 DEF Holds
  <2> QED
    BY <2>1, <2>2, <2>3, <2>4 DEF TypeOK
<1> QED
  BY <1>1, InvHolds, PTL

\* A callback sees the arguments its binding thunk was called with, in order and for
\* as long as it runs, and with the Register flag the registers; a context exists
\* exactly while its binding thunk is in its call, whatever other threads do.
THEOREM CallbacksSeeArguments == Spec => []CallbackSeesArguments
<1>1. Inv => CallbackSeesArguments
  <2> SUFFICES ASSUME Inv PROVE CallbackSeesArguments
    OBVIOUS
  <2>1. DOMAIN contexts = {c \in 1..calls : \E t \in Threads : \E n \in DOMAIN frames[t] :
                             Opens(frames[t][n], c)}
    BY OpenFacts DEF OpenCalls
  <2>2. ASSUME NEW c \in DOMAIN contexts, NEW f, f = Binding(c)
        PROVE  /\ contexts[c].data = [i \in DOMAIN f.sig |-> f.entry[Argument(f.sig, i)]]
               /\ f.safe => \A r \in Captured \ {"rflags"} : contexts[c].registers[r] = f.entry[r]
    <3>1. PICK u \in Threads : \E n \in DOMAIN frames[u] : IsOpen(frames[u][n]) /\ frames[u][n].id = c
      BY OpenFacts
    <3>2. PICK n \in DOMAIN frames[u] : IsOpen(frames[u][n]) /\ frames[u][n].id = c
      BY <3>1
    <3>3. f = frames[u][n]
      BY <2>2, <3>2, BindingFacts
    <3>4. Holds(contexts[c], f)
      BY <3>2, <3>3 DEF Inv, ContextsLive
    <3> QED
      BY <3>4 DEF Holds
  <2>3. ASSUME NEW t \in Threads, NEW n \in InCallback(t)
        PROVE  /\ frames[t][n + 1].entry[Argument(CallbackSignature, 1)] = BindParam
               /\ frames[t][n + 1].entry[Argument(CallbackSignature, 2)] = Context(frames[t][n].id)
    <3>1. n \in 1..(Len(frames[t]) - 1) /\ frames[t][n].kind = "bind"
      BY DEF InCallback
    <3>2. Called(frames[t][n], frames[t][n + 1])
      BY <3>1, BelowFacts
    <3> QED
      BY <3>1, <3>2 DEF Called
  <2> QED
    BY <2>1, <2>2, <2>3 DEF CallbackSeesArguments
<1> QED
  BY <1>1, InvHolds, PTL

\* Whoever restores a context, whenever, however often and on whatever thread, calls
\* the target with the arguments the context's binding thunk was called with.
THEOREM TargetsSeeBinding == Spec => []TargetSeesBinding
<1>1. ASSUME Inv, NEW t \in Threads, NEW n \in 1..(Len(frames[t]) - 1),
             frames[t][n].kind = "restore"
      PROVE  LET f == frames[t][n]
                 callee == frames[t][n + 1].entry
                 source == Binding(f.context).entry
             IN  /\ \A i \in DOMAIN f.sig :
                      callee[Argument(f.sig, i)] = source[Argument(f.sig, i)]
                 /\ f.safe => \A r \in Captured \ (ArgumentRegisters(f.sig) \cup {ContextReg, "rflags"}) :
                                callee[r] = source[r]
  <2> DEFINE f == frames[t][n]
             g == frames[t][n + 1]
  <2>1. n \in DOMAIN frames[t] /\ n < Len(frames[t])
    BY <1>1, BelowFacts
  <2>2. PICK u \in Threads : \E m \in 1..(Len(frames[u]) - 1) :
          Serves(frames[u][m], f) /\ Gives(frames[u][m], f, g)
    BY <1>1, <2>1 DEF Inv, RestoresServe
  <2>3. PICK m \in 1..(Len(frames[u]) - 1) : Serves(frames[u][m], f) /\ Gives(frames[u][m], f, g)
    BY <2>2
  <2> DEFINE b == frames[u][m]
  <2>4. m \in DOMAIN frames[u] /\ IsOpen(b) /\ b.id = f.context
    BY <1>1, <2>3, BelowFacts DEF Serves, IsOpen
  <2>5. Binding(f.context) = b
    BY <1>1, <2>4, BindingFacts
  <2>6. Gives(b, f, g)
    BY <2>3
  <2> HIDE DEF b, g
  <2>7. \A i \in DOMAIN f.sig : g.entry[Argument(f.sig, i)] = Binding(f.context).entry[Argument(f.sig, i)]
    BY <2>5, <2>6 DEF Gives
  <2>8. f.safe => \A r \in Captured \ (ArgumentRegisters(f.sig) \cup {ContextReg, "rflags"}) :
                    g.entry[r] = Binding(f.context).entry[r]
    BY <2>5, <2>6 DEF Gives
  <2> QED
    BY <2>7, <2>8 DEF g
<1>2. Inv => TargetSeesBinding
  BY <1>1 DEF TargetSeesBinding
<1> QED
  BY <1>2, InvHolds, PTL

\* A step in which a thunk's frame leaves its stack is the thunk's own return.
LEMMA Shrinks ==
  ASSUME Inv, Next, NEW t \in Threads, Len(frames'[t]) < Len(frames[t]),
         Current(t).kind # "native"
  PROVE  BindLeave(t) \/ RestoreLeave(t)
<1> DEFINE Extends(s) == Len(frames'[s]) = Len(frames[s]) + 1
<1>1. PICK s \in Threads : Thunk(s) \/ Native(s)
  BY DEF Next
<1>2. /\ Len(frames[t]) \in Nat
      /\ frames \in [Threads -> Seq(Frame)]
  BY ThreadFacts DEF Inv, Types
<1>3. CASE s # t
  <2>1. \E new : frames' = [frames EXCEPT ![s] = new] \/ frames' = frames
    BY <1>1 DEF Thunk, Native, BindEnter, BindLeave, RestoreEnter, RestoreLeave, NativeReturn,
                NativeThrow, CallBinding, CallRestore, NativeCall, SetReturnValue
  <2>2. frames'[t] = frames[t]
    BY <1>2, <1>3, <2>1
  <2> QED
    BY <1>2, <2>2
<1>4. CASE s = t
  <2>1. ~Native(t)
    BY DEF Native, NativeReturn, NativeThrow, CallBinding, CallRestore, NativeCall, SetReturnValue, At
  <2>2. BindEnter(t) \/ RestoreEnter(t) => Extends(t)
    BY BindEnterStep, RestoreEnterStep
  <2>3. ~Extends(t)
    BY <1>2
  <2> QED
    BY <1>1, <1>4, <2>1, <2>2, <2>3 DEF Thunk
<1> QED
  BY <1>3, <1>4

\* Whoever called a thunk finds its nonvolatile registers again.
THEOREM RegistersArePreserved == Spec => PreservesRegisters
<1>1. ASSUME Inv, [Next]_vars, NEW t \in Threads, Current(t).kind # "native",
             Len(frames'[t]) < Len(frames[t]), NEW r \in Preserved
      PROVE  cpu'[t][r] = Current(t).entry[r]
  <2> DEFINE f == Current(t)
  <2>1. Next
    <3>1. Len(frames[t]) \in Nat
      BY <1>1, ThreadFacts
    <3>2. frames' # frames
      BY <1>1, <3>1
    <3> QED
      BY <1>1, <3>2 DEF vars
  <2>2. BindLeave(t) \/ RestoreLeave(t)
    BY <1>1, <2>1, Shrinks
  <2>3. /\ f \in Frame /\ Running(f, cpu[t]) /\ cpu \in [Threads -> [Locations -> Value]]
        /\ r \in Locations
    BY <1>1, ThreadFacts, ValueFacts DEF Inv, Types
  <2>4. \A x \in ReturnRegisters(f.ret) : x # r
    <3>1. f.ret \in ReturnType
      BY <2>3 DEF Frame
    <3> QED
      BY <3>1, ReturnFacts
  <2>5. CASE BindLeave(t)
    <3>1. f.kind = "bind" /\ f.pc = "call"
      BY <2>5 DEF BindLeave, At
    <3>2. cpu[t][r] = f.entry[r]
      BY <2>3, <3>1 DEF Running, Keeping, Keeps
    <3>3. cpu'[t][r] = AfterCall(cpu[t])[r]
      BY <2>3, <2>4, <2>5 DEF BindLeave
    <3> QED
      BY <2>3, <3>2, <3>3 DEF AfterCall
  <2>6. CASE RestoreLeave(t)
    <3>1. f.kind = "restore" /\ f.pc = "call" /\ f.safe \in BOOLEAN
      BY <2>3, <2>6 DEF RestoreLeave, At, Frame
    <3>2. (IF f.safe THEN f.saved ELSE cpu[t])[r] = f.entry[r]
      BY <2>3, <3>1 DEF Running, Keeping, Keeps
    <3>3. cpu'[t][r] = IF f.safe THEN f.saved[r] ELSE cpu[t][r]
      BY <2>3, <2>6 DEF RestoreLeave
    <3> QED
      BY <3>1, <3>2, <3>3
  <2> QED
    BY <2>2, <2>5, <2>6
<1>2. Inv /\ [Next]_vars =>
        [\A t \in Threads :
           Current(t).kind # "native" /\ Len(frames'[t]) < Len(frames[t]) =>
             \A r \in Preserved : cpu'[t][r] = Current(t).entry[r]]_vars
  BY <1>1
<1> QED
  BY <1>2, InvHolds, PTL DEF Spec, PreservesRegisters

\* The call of a thunk that has not called on is not open.
LEMMA EntryNotOpen ==
  ASSUME Inv, NEW t \in Threads, Current(t).kind = "bind", Current(t).pc = "entry"
  PROVE  Current(t).id \notin OpenCalls
<1> SUFFICES ASSUME NEW u \in Threads, NEW n \in DOMAIN frames[u], IsOpen(frames[u][n]),
                    frames[u][n].id = Current(t).id
             PROVE  FALSE
  BY OpenFacts
<1>1. Len(frames[t]) \in DOMAIN frames[t] /\ Current(t) = frames[t][Len(frames[t])]
  BY ThreadFacts
<1>2. frames[u][n].kind # "native" /\ frames[u][n] # Current(t)
  BY DEF IsOpen
<1> QED
  BY <1>1, <1>2 DEF Inv, Numbered

\* What a restore thunk finds in the return register is what its target left there.
LEMMA TargetReturned ==
  ASSUME Inv, NEW t \in Threads, At(t, "restore", "call")
  PROVE  /\ Current(t).ret \in ReturnType
         /\ \A r \in ReturnRegisters(Current(t).ret) : cpu[t][r] = <<"out", Current(t).id, r>>
<1>1. /\ Current(t) \in Frame /\ Running(Current(t), cpu[t])
      /\ Current(t).kind = "restore" /\ Current(t).pc = "call"
  BY ThreadFacts DEF At
<1>2. Current(t).ret \in ReturnType
  BY <1>1 DEF Frame
<1>3. \A r \in ReturnRegisters(Current(t).ret) : r \in Locations \ Preserved
  BY <1>2, ReturnFacts
<1> QED
  BY <1>1, <1>2, <1>3 DEF Running

\* What RestoreLeave stores, and where.
LEMMA RestoreStores ==
  ASSUME Inv, NEW t \in Threads, RestoreLeave(t)
  PROVE  /\ \A c \in DOMAIN contexts : c # Current(t).context => contexts'[c] = contexts[c]
         /\ Current(t).ret = "Void" =>
              contexts'[Current(t).context].returnValue = contexts[Current(t).context].returnValue
         /\ \A r \in ReturnRegisters(Current(t).ret) :
              contexts'[Current(t).context].returnValue = cpu[t][r]
<1> DEFINE f == Current(t)
           c == f.context
           v == IF f.ret = "Void" THEN contexts[c].returnValue
                ELSE cpu[t][CHOOSE r \in ReturnRegisters(f.ret) : TRUE]
<1>1. /\ f.kind = "restore" /\ f.ret \in ReturnType
      /\ contexts' = [contexts EXCEPT ![c].returnValue =
           IF f.ret = "Void" THEN @ ELSE cpu[t][CHOOSE r \in ReturnRegisters(f.ret) : TRUE]]
  BY TargetReturned DEF RestoreLeave, At
<1>2. c \in OpenCalls /\ \E sig : contexts[c] \in ArgumentContext(sig)
  <2>1. PICK u \in Threads : \E m \in 1..(Len(frames[u]) - 1) :
          c \in OpenCalls /\ Holds(contexts[c], frames[u][m])
    BY <1>1, RestoreFacts
  <2> QED
    BY <2>1 DEF Holds
<1>3. DOMAIN contexts = OpenCalls /\ contexts = [d \in OpenCalls |-> contexts[d]]
  BY OpenFacts DEF Inv, ContextsLive
<1>4. contexts' = [contexts EXCEPT ![c] = [contexts[c] EXCEPT !.returnValue = v]]
  BY <1>1
<1>5. /\ f.ret = "Void" => v = contexts[c].returnValue /\ ReturnRegisters(f.ret) = {}
      /\ \A r \in ReturnRegisters(f.ret) : v = cpu[t][r]
  <2>1. /\ f.ret = "Void" <=> ReturnRegisters(f.ret) = {}
        /\ \A r, q \in ReturnRegisters(f.ret) : r = q
    BY <1>1, ReturnFacts
  <2>2. \A r \in ReturnRegisters(f.ret) :
          (CHOOSE q \in ReturnRegisters(f.ret) : TRUE) \in ReturnRegisters(f.ret)
    OBVIOUS
  <2> HIDE DEF c, f
  <2> QED
    BY <2>1, <2>2
<1> HIDE DEF v, c
<1>6. contexts'[c].returnValue = v
  BY <1>2, <1>3, <1>4 DEF ArgumentContext
<1>7. \A d \in DOMAIN contexts : d # c => contexts'[d] = contexts[d]
  BY <1>3, <1>4
<1> HIDE DEF f
<1>8. /\ \A d \in DOMAIN contexts : d # f.context => contexts'[d] = contexts[d]
      /\ f.ret = "Void" => contexts'[f.context].returnValue = contexts[f.context].returnValue
      /\ \A r \in ReturnRegisters(f.ret) : contexts'[f.context].returnValue = cpu[t][r]
  BY <1>5, <1>6, <1>7 DEF c
<1> QED
  BY <1>8 DEF f

\* The value a context returns is set by the callback or by a target a restore thunk
\* called, and the binding thunk's caller receives the last one in its return register.
THEOREM ReturnValuesAreHandedOn == Spec => ReturnValueIsHandedOn
<1> DEFINE Stored(c) ==
             \/ contexts'[c].returnValue = <<"set", c, "rax">>
             \/ \E t \in Threads :
                  /\ Current(t).kind = "restore" /\ Current(t).context = c
                  /\ \E r \in ReturnRegisters(Current(t).ret) :
                       contexts'[c].returnValue = <<"out", Current(t).id, r>>
           Kept(c) == contexts'[c].returnValue = contexts[c].returnValue
<1>1. ASSUME Inv, Next, NEW c \in DOMAIN contexts \cap DOMAIN contexts'
      PROVE  Kept(c) \/ Stored(c)
  <2>1. PICK t \in Threads : Thunk(t) \/ Native(t)
    BY <1>1 DEF Next
  <2>2. DOMAIN contexts = OpenCalls /\ contexts = [d \in OpenCalls |-> contexts[d]]
    BY <1>1, OpenFacts DEF Inv, ContextsLive
  <2>3. CASE BindEnter(t)
    <3>1. c # Current(t).id
      BY <1>1, <2>2, <2>3, EntryNotOpen DEF BindEnter, At
    <3>2. contexts'[c] = contexts[c]
      BY <1>1, <2>3, <3>1 DEF BindEnter
    <3> QED
      BY <3>2
  <2>4. CASE BindLeave(t)
    BY <1>1, <2>4 DEF BindLeave
  <2>5. CASE RestoreEnter(t)
    BY <2>5 DEF RestoreEnter
  <2>6. CASE RestoreLeave(t)
    <3>1. CASE c # Current(t).context
      BY <1>1, <2>6, <3>1, RestoreStores
    <3>2. CASE c = Current(t).context /\ Current(t).ret = "Void"
      BY <1>1, <2>6, <3>2, RestoreStores
    <3>3. CASE c = Current(t).context /\ Current(t).ret # "Void"
      <4>1. Current(t).kind = "restore" /\ At(t, "restore", "call")
        BY <2>6 DEF RestoreLeave, At
      <4>2. Current(t).ret \in ReturnType
        BY <1>1, <4>1, TargetReturned
      <4>3. PICK r \in ReturnRegisters(Current(t).ret) : TRUE
        BY <3>3, <4>2, ReturnFacts
      <4>4. cpu[t][r] = <<"out", Current(t).id, r>>
        BY <1>1, <4>1, TargetReturned
      <4>5. contexts'[c].returnValue = cpu[t][r]
        BY <1>1, <2>6, <3>3, RestoreStores
      <4> QED
        BY <3>3, <4>1, <4>4, <4>5
    <3> QED
      BY <3>1, <3>2, <3>3
  <2>7. CASE Native(t)
    <3>1. CASE NativeReturn(t)
      BY <3>1 DEF NativeReturn
    <3>2. CASE NativeThrow(t)
      BY <1>1, <3>2 DEF NativeThrow
    <3>3. ASSUME NEW u \in Threads, NEW m \in InCallback(u), SetReturnValue(t, frames[u][m].id)
          PROVE  Kept(c) \/ Stored(c)
      <4>1. contexts' = [contexts EXCEPT ![frames[u][m].id].returnValue =
                           <<"set", frames[u][m].id, "rax">>]
        BY <3>3 DEF SetReturnValue
      <4>2. m \in 1..(Len(frames[u]) - 1) /\ frames[u][m].kind = "bind"
        BY DEF InCallback
      <4>3. Holds(contexts[frames[u][m].id], frames[u][m])
        BY <1>1, <4>2, CallbackContext
      <4>4. CASE c = frames[u][m].id
        BY <1>1, <2>2, <4>1, <4>3, <4>4 DEF Holds, ArgumentContext
      <4>5. CASE c # frames[u][m].id
        BY <1>1, <2>2, <4>1, <4>5
      <4> QED
        BY <4>4, <4>5
    <3>4. CASE contexts' = contexts
      BY <3>4
    <3>5. \/ contexts' = contexts \/ NativeReturn(t) \/ NativeThrow(t)
          \/ \E u \in Threads : \E m \in InCallback(u) : SetReturnValue(t, frames[u][m].id)
      BY <2>7 DEF Native, CallBinding, CallRestore, NativeCall
    <3> QED
      BY <3>1, <3>2, <3>3, <3>4, <3>5
  <2> QED
    BY <2>1, <2>3, <2>4, <2>5, <2>6, <2>7 DEF Thunk
<1>2. ASSUME Inv, Next, NEW t \in Threads, NEW r \in ReturnRegisters(Current(t).ret),
             Len(frames'[t]) < Len(frames[t])
      PROVE  /\ At(t, "restore", "call") => contexts'[Current(t).context].returnValue = cpu[t][r]
             /\ At(t, "bind", "call") => cpu'[t][r] = contexts[Current(t).id].returnValue
  <2>1. CASE Current(t).kind = "native"
    BY <2>1 DEF At
  <2>2. CASE BindLeave(t)
    <3>1. cpu \in [Threads -> [Locations -> Value]] /\ Current(t) \in Frame /\ Current(t).kind = "bind"
      BY <1>2, <2>2, ThreadFacts DEF Inv, Types, BindLeave, At
    <3>2. r \in Locations
      BY <1>2, <3>1, ReturnFacts DEF Frame
    <3>3. cpu'[t][r] = contexts[Current(t).id].returnValue
      BY <1>2, <2>2, <3>1, <3>2 DEF BindLeave
    <3> QED
      BY <3>1, <3>3 DEF At
  <2>3. CASE RestoreLeave(t)
    <3>1. Current(t).kind = "restore"
      BY <2>3 DEF RestoreLeave, At
    <3>2. contexts'[Current(t).context].returnValue = cpu[t][r]
      BY <1>2, <2>3, RestoreStores
    <3> QED
      BY <3>1, <3>2 DEF At
  <2> QED
    BY <1>2, <2>1, <2>2, <2>3, Shrinks
<1>3. Inv /\ [Next]_vars =>
        [/\ \A c \in DOMAIN contexts \cap DOMAIN contexts' :
              contexts'[c].returnValue # contexts[c].returnValue => Stored(c)
         /\ \A t \in Threads : \A r \in ReturnRegisters(Current(t).ret) :
              Len(frames'[t]) < Len(frames[t]) =>
                /\ At(t, "restore", "call") => contexts'[Current(t).context].returnValue = cpu[t][r]
                /\ At(t, "bind", "call") => cpu'[t][r] = contexts[Current(t).id].returnValue]_vars
  <2> HIDE DEF Stored
  <2> QED
    BY <1>1, <1>2
<1> QED
  BY <1>3, InvHolds, PTL DEF Spec, ReturnValueIsHandedOn
=============================================================================
