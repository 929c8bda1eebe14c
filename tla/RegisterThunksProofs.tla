------------------------ MODULE RegisterThunksProofs ------------------------
(***************************************************************************)
(* Register thunks are correct for every calling convention, every set of  *)
(* signatures, any number of threads and any capacity.  The context stack  *)
(* of a thread mirrors its call stack because a binding thunk pushes its   *)
(* own position, which exceeds every position already there, and is always *)
(* the innermost frame when it pops.                                       *)
(*                                                                         *)
(* And what they do to values: arguments arrive, captured registers come   *)
(* back, nonvolatile registers survive.                                    *)
(***************************************************************************)
EXTENDS RegisterThunks, CallingConventionProofs

-----------------------------------------------------------------------------
(* Call stacks *)

CallStack(s) == s \in Seq(Frame) /\ s # <<>> /\ s[1].kind = "native"
Opens(s) == {n \in DOMAIN s : IsOpen(s[n])}
Top1(s) == s[Len(s)]

\* A thread's call stack is a sequence, so its innermost frame exists when it is
\* not empty.
LEMMA CallStackFacts ==
  ASSUME NEW s, CallStack(s)
  PROVE  /\ Len(s) \in Nat \ {0} /\ DOMAIN s = 1..Len(s)
         /\ \A n \in 1..Len(s) : s[n] \in Frame
         /\ Top1(s) \in Frame
         /\ Top1(s).kind # "native" => Len(s) > 1
         /\ Opens(s) \subseteq 1..Len(s)
<1>1. s \in Seq(Frame) /\ s # <<>> /\ s[1].kind = "native"
  BY DEF CallStack
<1>2. Len(s) \in Nat \ {0} /\ DOMAIN s = 1..Len(s) /\ \A n \in 1..Len(s) : s[n] \in Frame
  BY <1>1, EmptySeq, LenProperties, ElementOfSeq
<1> QED
  BY <1>1, <1>2 DEF Top1, Opens

\* A thunk changes its own frame.
LEMMA CallStackChanged ==
  ASSUME NEW s, CallStack(s), NEW f \in Frame, f.kind = Top1(s).kind
  PROVE  LET q == [s EXCEPT ![Len(s)] = f]
         IN  /\ CallStack(q)
             /\ Len(q) = Len(s)
             /\ \A n \in 1..Len(s) : n # Len(s) => q[n] = s[n]
             /\ q[Len(s)] = f
             /\ Opens(q) = (Opens(s) \ {Len(s)}) \cup (IF IsOpen(f) THEN {Len(s)} ELSE {})
<1> DEFINE q == [s EXCEPT ![Len(s)] = f]
           m == Len(s)
<1>1. s \in Seq(Frame) /\ m \in Nat \ {0} /\ DOMAIN s = 1..m
  BY CallStackFacts DEF CallStack
<1>2. q \in Seq(Frame) /\ Len(q) = m /\ \A n \in 1..m : q[n] = IF n = m THEN f ELSE s[n]
  BY <1>1, ExceptSeq
<1>3. DOMAIN q = 1..m
  BY <1>2, LenProperties
<1>4. f.kind = s[m].kind /\ s[1].kind = "native"
  BY DEF Top1, CallStack
<1> HIDE DEF q, m
<1>5. \A n \in 1..m : n # m => q[n] = s[n]
  BY <1>2
<1>6. q[m] = f
  BY <1>1, <1>2
<1>7. CallStack(q)
  <2>1. q[1].kind = "native"
    BY <1>1, <1>4, <1>5, <1>6
  <2>2. q # <<>>
    BY <1>1, <1>2, EmptySeq
  <2> QED
    BY <1>2, <2>1, <2>2 DEF CallStack
<1>8. Opens(q) = (Opens(s) \ {m}) \cup (IF IsOpen(f) THEN {m} ELSE {})
  <2>1. \A n \in 1..m : n # m => (IsOpen(q[n]) <=> IsOpen(s[n]))
    BY <1>5
  <2>2. IsOpen(q[m]) <=> IsOpen(f)
    BY <1>6
  <2> QED
    BY <1>1, <1>3, <2>1, <2>2 DEF Opens
<1> QED
  BY <1>2, <1>5, <1>6, <1>7, <1>8 DEF q, m

\* A call puts a frame on top, with nothing captured in it yet.
LEMMA CallStackCalled ==
  ASSUME NEW s, CallStack(s), NEW g \in Frame, ~IsOpen(g)
  PROVE  LET r == Append(s, g)
         IN  /\ CallStack(r)
             /\ Len(r) = Len(s) + 1
             /\ \A n \in 1..Len(s) : r[n] = s[n]
             /\ r[Len(s) + 1] = g
             /\ Opens(r) = Opens(s)
<1> DEFINE r == Append(s, g)
<1>1. /\ r \in Seq(Frame) /\ r # <<>> /\ Len(r) = Len(s) + 1
      /\ \A n \in 1..Len(s) : r[n] = s[n]
      /\ r[Len(s) + 1] = g
  BY AppendProperties DEF CallStack
<1>2. Len(s) \in Nat \ {0} /\ DOMAIN s = 1..Len(s) /\ DOMAIN r = 1..(Len(s) + 1)
  BY <1>1, CallStackFacts, LenProperties
<1> HIDE DEF r
<1>3. CallStack(r)
  BY <1>1, <1>2 DEF CallStack
<1>4. Opens(r) = Opens(s)
  BY <1>1, <1>2 DEF Opens
<1> QED
  BY <1>1, <1>3, <1>4 DEF r

\* The innermost frame returns.
LEMMA CallStackReturns ==
  ASSUME NEW s, CallStack(s), Len(s) > 1
  PROVE  LET r == SubSeq(s, 1, Len(s) - 1)
         IN  /\ CallStack(r)
             /\ Len(r) = Len(s) - 1
             /\ \A n \in 1..(Len(s) - 1) : r[n] = s[n]
             /\ Opens(r) = Opens(s) \ {Len(s)}
<1> DEFINE r == SubSeq(s, 1, Len(s) - 1)
<1>1. /\ Len(s) \in Nat \ {0} /\ DOMAIN s = 1..Len(s)
      /\ \A n \in 1..Len(s) : s[n] \in Frame
  BY CallStackFacts
<1>2. /\ r \in Seq(Frame) /\ Len(r) = Len(s) - 1
      /\ \A n \in 1..(Len(s) - 1) : r[n] = s[n]
  <2>1. \A n \in 1..(Len(s) - 1) : s[n] \in Frame
    BY <1>1
  <2>2. /\ r \in Seq(Frame)
        /\ Len(r) = IF 1 <= Len(s) - 1 THEN (Len(s) - 1) - 1 + 1 ELSE 0
        /\ \A n \in 1..((Len(s) - 1) - 1 + 1) : r[n] = s[1 + n - 1]
    BY <1>1, <2>1, SubSeqProperties
  <2> QED
    BY <1>1, <2>2
<1>3. DOMAIN r = 1..(Len(s) - 1)
  BY <1>2, LenProperties
<1> HIDE DEF r
<1>4. CallStack(r)
  BY <1>1, <1>2, EmptySeq DEF CallStack
<1>5. Opens(r) = Opens(s) \ {Len(s)}
  BY <1>1, <1>2, <1>3 DEF Opens, IsOpen
<1> QED
  BY <1>2, <1>4, <1>5 DEF r

-----------------------------------------------------------------------------
(* Context stacks *)

ArraySlots == 0..(Capacity - 1)
Mirror(a, i, opens) ==
  /\ {a[s] : s \in 0..i} = opens
  /\ \A r, s \in 0..i : r < s => a[r] < a[s]

\* Pushing a position beyond all the open ones keeps the mirror.
LEMMA MirrorPush ==
  ASSUME NEW a \in [ArraySlots -> Nat], NEW i \in {-1} \cup ArraySlots, i # Capacity - 1,
         NEW opens, Mirror(a, i, opens), NEW c \in Nat, \A n \in opens : n < c
  PROVE  Mirror([a EXCEPT ![i + 1] = c], i + 1, opens \cup {c})
<1> DEFINE b == [a EXCEPT ![i + 1] = c]
<1>1. i \in Int /\ i + 1 \in ArraySlots
  BY CapacityBound DEF ArraySlots
<1>2. b[i + 1] = c /\ \A s \in 0..i : b[s] = a[s] /\ a[s] \in opens
  BY <1>1, CapacityBound DEF ArraySlots, Mirror
<1> HIDE DEF b
<1>3. \A s \in 0..(i + 1) : s = i + 1 \/ s \in 0..i
  BY <1>1
<1>4. 0..i \subseteq 0..(i + 1) /\ i + 1 \in 0..(i + 1)
  BY <1>1, CapacityBound DEF ArraySlots
<1>5. {b[s] : s \in 0..(i + 1)} = opens \cup {c}
  BY <1>2, <1>3, <1>4 DEF Mirror
<1>6. \A r, s \in 0..(i + 1) : r < s => b[r] < b[s]
  BY <1>1, <1>2, <1>3 DEF Mirror
<1> QED
  BY <1>5, <1>6 DEF Mirror, b

\* If the outermost position is open it is on top, and popping removes it alone.
LEMMA MirrorTop ==
  ASSUME NEW a \in [ArraySlots -> Nat], NEW i \in {-1} \cup ArraySlots,
         NEW opens, Mirror(a, i, opens), opens # {}
  PROVE  /\ i # -1
         /\ a[i] \in opens
         /\ \A n \in opens : n <= a[i]
         /\ Mirror(a, i - 1, opens \ {a[i]})
<1>1. i # -1
  BY DEF Mirror
<1>2. i \in Nat /\ i \in 0..i /\ \A s \in 0..i : s \in ArraySlots /\ a[s] \in Nat
  BY <1>1, CapacityBound DEF ArraySlots
<1>3. \A s \in 0..i : s = i \/ (s \in 0..(i - 1) /\ a[s] < a[i])
  BY <1>2 DEF Mirror
<1>4. \A s \in 0..(i - 1) : s \in 0..i /\ s < i
  BY <1>2
<1>5. {a[s] : s \in 0..(i - 1)} = opens \ {a[i]}
  BY <1>2, <1>3, <1>4 DEF Mirror
<1>6. \A n \in opens : n <= a[i]
  BY <1>2, <1>3 DEF Mirror
<1>7. a[i] \in opens
  BY <1>2 DEF Mirror
<1> QED
  BY <1>1, <1>4, <1>5, <1>6, <1>7 DEF Mirror

\* As many contexts are open as the index says.
LEMMA MirrorCounts ==
  ASSUME NEW a \in [ArraySlots -> Nat], NEW i \in {-1} \cup ArraySlots,
         NEW opens, Mirror(a, i, opens)
  PROVE  Cardinality(opens) = i + 1
<1>1. i \in Int /\ i >= -1 /\ \A s \in 0..i : s \in ArraySlots /\ a[s] \in Nat
  BY CapacityBound DEF ArraySlots
<1> DEFINE f == [s \in 0..i |-> a[s]]
<1>2. f \in Bijection(0..i, opens)
  <2>1. f \in [0..i -> opens]
    BY DEF Mirror
  <2>2. IsInjective(f)
    <3> SUFFICES ASSUME NEW r \in 0..i, NEW s \in 0..i, a[r] = a[s] PROVE r = s
      BY DEF IsInjective
    <3>1. r \in Int /\ s \in Int /\ a[r] \in Nat /\ a[s] \in Nat
      BY <1>1
    <3>2. ~(r < s) /\ ~(s < r)
      BY <3>1 DEF Mirror
    <3> QED
      BY <3>1, <3>2
  <2>3. \A n \in opens : \E s \in 0..i : f[s] = n
    BY DEF Mirror
  <2> QED
    BY <2>1, <2>2, <2>3 DEF Bijection, Injection, Surjection
<1>3. IsFiniteSet(0..i) /\ Cardinality(0..i) = i + 1
  BY <1>1, FS_Interval
<1> QED
  BY <1>2, <1>3, FS_Bijection DEF ExistsBijection

-----------------------------------------------------------------------------
(* Register files *)

\* What the code writes into registers by itself (flags, zeroes, garbage) are values.
LEMMA ValueFacts ==
  /\ Junk \in Value /\ BindParam \in Value
  /\ Registers \subseteq Locations /\ Preserved \subseteq Registers
  /\ "rax" \in Registers
BY ConventionAssumption DEF Junk, BindParam, Value, Locations, Registers

\* A signature of a frame is one that thunks are generated for, or empty.
LEMMA SignatureFacts ==
  ASSUME NEW sig \in Signatures \cup {<<>>}
  PROVE  /\ sig \in Signature
         /\ \A i \in DOMAIN sig : Argument(sig, i) \in Locations
<1>1. CASE sig = <<>>
  BY <1>1, EmptySeq DEF Signature
<1>2. CASE sig \in Signatures
  BY <1>2, SignatureAssumption, ArgumentHasAPlace DEF Signature, Representable
<1> QED
  BY <1>1, <1>2

\* Whatever the generated code does to the registers leaves values in them.
LEMMA FileTypes ==
  ASSUME NEW file \in [Locations -> Value]
  PROVE  /\ AfterCall(file) \in [Locations -> Value]
         /\ SaveRegisterContext(file) \in [Registers -> Value]
         /\ NoMemory \in [Registers -> Value]
         /\ \A f : Spilled(f, file) \in [Registers -> Value]
<1>1. AfterCall(file) \in [Locations -> Value]
  BY ValueFacts DEF AfterCall
<1>2. SaveRegisterContext(file) \in [Registers -> Value]
  BY ValueFacts DEF SaveRegisterContext
<1>3. NoMemory \in [Registers -> Value]
  BY ValueFacts DEF NoMemory
<1>4. ASSUME NEW f PROVE Spilled(f, file) \in [Registers -> Value]
  BY ValueFacts DEF Spilled
<1> QED
  BY <1>1, <1>2, <1>3, <1>4

\* Moving the arguments over for the callback leaves values in every place.
LEMMA ShiftedType ==
  ASSUME NEW f \in Frame, NEW ctx \in [Registers -> Value], NEW l, NEW other \in Value
  PROVE  Shifted(f, ctx, l, other) \in Value
<1> DEFINE movedTo == {i \in DOMAIN f.sig : /\ Argument(ShiftSignature(f.sig), i + 1) = l
                                            /\ \/ IsReg(f.sig, i)
                                               \/ IsStack(ShiftSignature(f.sig), i + 1)}
           j == CHOOSE i \in movedTo : TRUE
           source == Argument(f.sig, j)
<1>1. f.sig \in Signatures \cup {<<>>} /\ f.entry \in [Locations -> Value]
  BY DEF Frame
<1>2. \A i \in DOMAIN f.sig : Argument(f.sig, i) \in Locations
  BY <1>1, SignatureFacts
<1>3. movedTo # {} => source \in Locations
  <2>1. movedTo # {} => j \in movedTo
    OBVIOUS
  <2>2. movedTo \subseteq DOMAIN f.sig
    OBVIOUS
  <2> HIDE DEF movedTo, j
  <2> QED
    BY <1>2, <2>1, <2>2
<1>4. Shifted(f, ctx, l, other) =
        IF l = Argument(ShiftSignature(f.sig), 1) THEN BindParam
        ELSE IF movedTo = {} THEN other
        ELSE IF source \in Registers THEN ctx[source] ELSE f.entry[source]
  BY DEF Shifted
<1> HIDE DEF movedTo, source
<1> QED
  BY <1>1, <1>3, <1>4, ValueFacts

\* Rebuilding the captured arguments in a restore thunk leaves values in every place.
LEMMA RebuiltType ==
  ASSUME NEW f \in Frame, NEW ctx \in [Registers -> Value], NEW spill \in [Registers -> Value],
         NEW file \in [Locations -> Value]
  PROVE  Rebuilt(f, ctx, spill, file) \in [Locations -> Value]
<1>1. f.entry \in [Locations -> Value]
  BY DEF Frame
<1>2. ArgumentRegisters(f.sig) \subseteq Registers /\ Captured \subseteq Registers
  BY DEF ArgumentRegisters, Captured, Registers
<1>3. AfterCall(file) \in [Locations -> Value]
  BY FileTypes
<1> QED
  BY <1>1, <1>2, <1>3 DEF Rebuilt

\* The frame a native caller starts from is well typed.
LEMMA NativeFrameType ==
  ASSUME NEW id \in Nat, NEW file \in [Locations -> Value]
  PROVE  NativeFrame(id, file) \in Frame /\ ~IsOpen(NativeFrame(id, file))
         /\ NativeFrame(id, file).kind = "native"
BY FileTypes DEF NativeFrame, Frame, ReturnType, IsOpen

-----------------------------------------------------------------------------
(* The context stack as the thunks use it *)

\* RegisterContextStack::Push with room left appends the context and moves the index.
LEMMA PushEffect ==
  ASSUME Stack!TypeOK, NEW t \in Threads, NEW c \in Nat, Stack!Push(t, c)
  PROVE  /\ Stack!TypeOK'
         /\ ~Stack!Full(t) => /\ index' = [index EXCEPT ![t] = @ + 1]
                              /\ array' = [array EXCEPT ![t] = [@ EXCEPT ![index[t] + 1] = c]]
                              /\ alive' = alive
         /\ Stack!Full(t) => UNCHANGED <<array, index>>
<1>1. CASE ~Stack!Full(t)
  <2>1. /\ index' = [index EXCEPT ![t] = @ + 1]
        /\ array' = [array EXCEPT ![t] = [@ EXCEPT ![index[t] + 1] = c]]
        /\ UNCHANGED <<result, message, alive>>
    BY <1>1 DEF Stack!Push
  <2>2. index[t] + 1 \in Stack!Slots
    <3>1. index[t] \in {-1} \cup Stack!Slots
      BY DEF Stack!TypeOK
    <3> QED
      BY <1>1, <3>1, CapacityBound DEF Stack!Full, Stack!Slots
  <2>3. array[t] \in [Stack!Slots -> Nat]
    BY DEF Stack!TypeOK
  <2> QED
    BY <1>1, <2>1, <2>2, <2>3 DEF Stack!TypeOK
<1>2. CASE Stack!Full(t)
  <2>1. Stack!HandleRegisterContextStackFatal("overflow")
    BY <1>2 DEF Stack!Push
  <2>2. alive' \in BOOLEAN
    BY <2>1, Zenon DEF Stack!HandleRegisterContextStackFatal
  <2> QED
    BY <1>2, <2>1, <2>2 DEF Stack!HandleRegisterContextStackFatal, Stack!TypeOK
<1> QED
  BY <1>1, <1>2

\* RegisterContextStack::Pop with something pushed moves the index back by one.
LEMMA PopEffect ==
  ASSUME Stack!TypeOK, NEW t \in Threads, Stack!Pop(t)
  PROVE  /\ Stack!TypeOK'
         /\ ~Stack!Empty(t) => index' = [index EXCEPT ![t] = @ - 1] /\ UNCHANGED <<array, alive>>
         /\ Stack!Empty(t) => UNCHANGED <<array, index>>
<1>1. CASE ~Stack!Empty(t)
  <2>1. index' = [index EXCEPT ![t] = @ - 1] /\ UNCHANGED <<array, result, message, alive>>
    BY <1>1 DEF Stack!Pop
  <2>2. index[t] - 1 \in {-1} \cup Stack!Slots
    BY <1>1, CapacityBound DEF Stack!TypeOK, Stack!Empty, Stack!Slots
  <2> QED
    BY <1>1, <2>1, <2>2 DEF Stack!TypeOK
<1>2. CASE Stack!Empty(t)
  <2>1. Stack!HandleRegisterContextStackFatal("underflow")
    BY <1>2 DEF Stack!Pop
  <2>2. alive' \in BOOLEAN
    BY <2>1, Zenon DEF Stack!HandleRegisterContextStackFatal
  <2> QED
    BY <1>2, <2>1, <2>2 DEF Stack!HandleRegisterContextStackFatal, Stack!TypeOK
<1> QED
  BY <1>1, <1>2

\* RegisterContextStack::Top reads the context below the index.
LEMMA TopEffect ==
  ASSUME Stack!TypeOK, NEW t \in Threads, Stack!Top(t)
  PROVE  /\ Stack!TypeOK'
         /\ UNCHANGED <<array, index>>
         /\ ~Stack!Empty(t) => alive' = alive
<1>1. CASE ~Stack!Empty(t)
  <2>1. /\ result' = [result EXCEPT ![t] = array[t][index[t]]]
        /\ UNCHANGED <<array, index, message, alive>>
    BY <1>1 DEF Stack!Top, Stack!TopEntry
  <2>2. array[t][index[t]] \in Nat
    BY <1>1 DEF Stack!TypeOK, Stack!Empty
  <2> QED
    BY <1>1, <2>1, <2>2 DEF Stack!TypeOK
<1>2. CASE Stack!Empty(t)
  <2>1. Stack!HandleRegisterContextStackFatal("empty")
    BY <1>2 DEF Stack!Top
  <2>2. alive' \in BOOLEAN
    BY <2>1, Zenon DEF Stack!HandleRegisterContextStackFatal
  <2> QED
    BY <1>2, <2>1, <2>2 DEF Stack!HandleRegisterContextStackFatal, Stack!TypeOK
<1> QED
  BY <1>1, <1>2

-----------------------------------------------------------------------------
(* The invariant *)

Inv == TypeOK /\ StackMirrorsCalls

\* What the invariant says of one thread.
LEMMA ThreadFacts ==
  ASSUME Inv, NEW t \in Threads
  PROVE  /\ CallStack(frames[t])
         /\ Current(t) = Top1(frames[t]) /\ Current(t) \in Frame
         /\ OpenBindings(t) = Opens(frames[t])
         /\ cpu[t] \in [Locations -> Value]
         /\ array[t] \in [ArraySlots -> Nat]
         /\ index[t] \in {-1} \cup ArraySlots
         /\ Mirror(array[t], index[t], OpenBindings(t))
<1>1. CallStack(frames[t])
  BY DEF Inv, TypeOK, CallStack
<1>2. array[t] \in [ArraySlots -> Nat] /\ index[t] \in {-1} \cup ArraySlots
  BY DEF Inv, TypeOK, Stack!TypeOK, Stack!Slots, ArraySlots
<1>3. Mirror(array[t], index[t], OpenBindings(t))
  BY DEF Inv, StackMirrorsCalls, Mirror
<1>4. cpu[t] \in [Locations -> Value]
  BY DEF Inv, TypeOK
<1>5. Current(t) = Top1(frames[t]) /\ OpenBindings(t) = Opens(frames[t])
  BY DEF Current, Top1, OpenBindings, Opens
<1> QED
  BY <1>1, <1>2, <1>3, <1>4, <1>5, CallStackFacts

\* A step of thread t preserves the invariant if it does for thread t.
LEMMA ThreadStep ==
  ASSUME Inv, NEW t \in Threads, NEW s, CallStack(s),
         frames' = [frames EXCEPT ![t] = s],
         cpu' \in [Threads -> [Locations -> Value]], calls' \in 0..MaxCalls,
         Stack!TypeOK',
         \A u \in Threads : u # t => array'[u] = array[u] /\ index'[u] = index[u],
         Mirror(array'[t], index'[t], Opens(s))
  PROVE  Inv'
<1>1. frames' \in [Threads -> Seq(Frame)] /\ frames'[t] = s
      /\ \A u \in Threads : u # t => frames'[u] = frames[u]
  BY DEF Inv, TypeOK, CallStack
<1>2. TypeOK'
  BY <1>1 DEF Inv, TypeOK, CallStack
<1>3. ASSUME NEW u \in Threads
      PROVE  Mirror(array'[u], index'[u], Opens(frames'[u]))
  <2>1. CASE u = t
    BY <1>1, <2>1
  <2>2. CASE u # t
    BY <1>1, <2>2, ThreadFacts
  <2> QED
    BY <2>1, <2>2
<1>4. StackMirrorsCalls'
  BY <1>3 DEF StackMirrorsCalls, Mirror, Opens, OpenBindings
<1> QED
  BY <1>2, <1>4 DEF Inv

\* A step that touches neither frames nor context arrays preserves it.
LEMMA QuietStep ==
  ASSUME Inv, UNCHANGED <<frames, cpu, array, index>>, calls' \in 0..MaxCalls, Stack!TypeOK'
  PROVE  Inv'
<1>1. TypeOK'
  BY DEF Inv, TypeOK
<1>2. StackMirrorsCalls'
  BY DEF Inv, StackMirrorsCalls, OpenBindings
<1> QED
  BY <1>1, <1>2 DEF Inv

\* The innermost frame of a thread returns and its context stack does not change.
LEMMA ReturnStep ==
  ASSUME Inv, NEW t \in Threads, Len(frames[t]) > 1, ~IsOpen(Current(t)),
         frames' = [frames EXCEPT ![t] = Returning(t)],
         cpu' \in [Threads -> [Locations -> Value]],
         UNCHANGED <<calls, stackVars>>
  PROVE  Inv'
<1> DEFINE s == SubSeq(frames[t], 1, Len(frames[t]) - 1)
<1>1. CallStack(s) /\ Opens(s) = Opens(frames[t]) \ {Len(frames[t])}
  BY ThreadFacts, CallStackReturns
<1>2. Len(frames[t]) \notin Opens(frames[t])
  BY ThreadFacts DEF Opens, Top1
<1>3. Opens(s) = OpenBindings(t)
  BY <1>1, <1>2, ThreadFacts
<1>4. calls' \in 0..MaxCalls /\ Stack!TypeOK' /\ UNCHANGED <<array, index>>
  BY DEF Inv, TypeOK, stackVars, Stack!TypeOK, Stack!Slots
<1>5. Mirror(array'[t], index'[t], Opens(s))
  BY <1>3, <1>4, ThreadFacts
<1>6. frames' = [frames EXCEPT ![t] = s]
  BY DEF Returning
<1> HIDE DEF s
<1> QED
  BY <1>1, <1>4, <1>5, <1>6, ThreadStep

\* Native code calling a thunk or another function preserves the invariant.
LEMMA NativeCallStep ==
  ASSUME Inv, NEW t \in Threads, NEW kind \in {"bind", "restore"}, NEW sig \in Signatures,
         NEW ret \in ReturnType, NativeCall(t, kind, sig, ret)
  PROVE  Inv'
<1> DEFINE file == [l \in Locations |-> <<"in", calls + 1, l>>]
           f == [kind |-> kind, pc |-> "entry", id |-> calls + 1, sig |-> sig, ret |-> ret,
                 entry |-> file, saved |-> NoMemory]
           s == Append(frames[t], f)
<1>1. calls \in Nat /\ calls' = calls + 1 /\ calls' \in 0..MaxCalls
  BY BoundAssumption DEF Inv, TypeOK, NativeCall
<1>2. file \in [Locations -> Value]
  BY <1>1 DEF Value
<1>3. f \in Frame /\ ~IsOpen(f)
  <2>1. NoMemory \in [Registers -> Value]
    BY <1>2, FileTypes
  <2> HIDE DEF file
  <2> QED
    BY <1>1, <1>2, <2>1 DEF Frame, IsOpen
<1>4. /\ frames' = [frames EXCEPT ![t] = s] /\ cpu' = [cpu EXCEPT ![t] = file]
      /\ UNCHANGED stackVars
  BY DEF NativeCall
<1> HIDE DEF f, file
<1>5. CallStack(s) /\ Opens(s) = OpenBindings(t)
  BY <1>3, ThreadFacts, CallStackCalled
<1>6. /\ cpu' \in [Threads -> [Locations -> Value]]
      /\ Stack!TypeOK' /\ UNCHANGED <<array, index>>
  BY <1>2, <1>4 DEF Inv, TypeOK, stackVars, Stack!TypeOK, Stack!Slots
<1>7. Mirror(array'[t], index'[t], Opens(s))
  BY <1>5, <1>6, ThreadFacts
<1> HIDE DEF s
<1> QED
  BY <1>1, <1>4, <1>5, <1>6, <1>7, ThreadStep

\* Native code returning preserves the invariant.
LEMMA NativeReturnStep ==
  ASSUME Inv, NEW t \in Threads, NativeReturn(t)
  PROVE  Inv'
<1>1. ~IsOpen(Current(t)) /\ Current(t).id \in Nat /\ Current(t).entry \in [Locations -> Value]
  BY ThreadFacts DEF NativeReturn, At, IsOpen, Frame
<1>2. [l \in Locations |-> IF l \in Preserved THEN Current(t).entry[l]
                           ELSE <<"out", Current(t).id, l>>] \in [Locations -> Value]
  BY <1>1 DEF Value
<1>3. cpu' \in [Threads -> [Locations -> Value]]
  BY <1>2 DEF NativeReturn, Inv, TypeOK
<1> QED
  BY <1>1, <1>3, ReturnStep DEF NativeReturn

\* The epilog of a restore thunk preserves the invariant.
LEMMA RestoreLeaveStep ==
  ASSUME Inv, NEW t \in Threads, RestoreLeave(t)
  PROVE  Inv'
<1>1. ~IsOpen(Current(t)) /\ Current(t).saved \in [Registers -> Value]
      /\ Len(frames[t]) > 1
  BY ThreadFacts, CallStackFacts DEF RestoreLeave, At, IsOpen, Frame
<1>2. [l \in Locations |->
         IF l \in Preserved THEN Current(t).saved[l]
         ELSE IF l \in ReturnRegisters(Current(t).ret) THEN cpu[t][l] ELSE Junk]
        \in [Locations -> Value]
  BY <1>1, ThreadFacts, ValueFacts
<1>3. cpu' \in [Threads -> [Locations -> Value]]
  BY <1>2 DEF RestoreLeave, Inv, TypeOK
<1> QED
  BY <1>1, <1>3, ReturnStep DEF RestoreLeave

\* A thunk that calls on with file leaves its own frame as f.
LEMMA CallingFacts ==
  ASSUME Inv, NEW t \in Threads, NEW f \in Frame, f.kind = Current(t).kind,
         NEW file \in [Locations -> Value]
  PROVE  LET s == Calling(t, f, file)
             n == Len(frames[t])
         IN  /\ CallStack(s)
             /\ Len(s) = n + 1
             /\ \A m \in 1..n : m # n => s[m] = frames[t][m]
             /\ s[n] = f /\ s[n + 1] = NativeFrame(f.id, file)
             /\ Opens(s) = (OpenBindings(t) \ {n}) \cup (IF IsOpen(f) THEN {n} ELSE {})
<1> DEFINE n == Len(frames[t])
           q == [frames[t] EXCEPT ![n] = f]
           g == NativeFrame(f.id, file)
           s == Append(q, g)
<1>1. CallStack(frames[t]) /\ Current(t) = Top1(frames[t]) /\ OpenBindings(t) = Opens(frames[t])
      /\ n \in Nat \ {0}
  BY ThreadFacts, CallStackFacts
<1>2. /\ CallStack(q) /\ Len(q) = n
      /\ \A m \in 1..n : m # n => q[m] = frames[t][m]
      /\ q[n] = f
      /\ Opens(q) = (OpenBindings(t) \ {n}) \cup (IF IsOpen(f) THEN {n} ELSE {})
  BY <1>1, CallStackChanged
<1>3. g \in Frame /\ ~IsOpen(g)
  <2>1. f.id \in Nat
    BY DEF Frame
  <2> QED
    BY <2>1, NativeFrameType
<1>4. s = Calling(t, f, file)
  BY DEF Calling
<1> HIDE DEF q, g, n
<1>5. /\ CallStack(s) /\ Len(s) = n + 1
      /\ \A m \in 1..n : s[m] = q[m]
      /\ s[n + 1] = g
      /\ Opens(s) = Opens(q)
  BY <1>2, <1>3, CallStackCalled
<1> HIDE DEF s
<1>6. s[n] = f /\ \A m \in 1..n : m # n => s[m] = frames[t][m]
  BY <1>1, <1>2, <1>5
<1> QED
  BY <1>2, <1>4, <1>5, <1>6 DEF n, g

\* A binding thunk that captures, pushes and calls its callback preserves the
\* invariant: the context it pushes mirrors its own frame.
LEMMA BindEnterStep ==
  ASSUME Inv, NEW t \in Threads, BindEnter(t)
  PROVE  Inv'
<1> DEFINE f == Current(t)
           n == Len(frames[t])
           ctx == SaveRegisterContext(cpu[t])
           file == [l \in Locations |-> Shifted(f, ctx, l, AfterCall(cpu[t])[l])]
           g == [f EXCEPT !.pc = "call", !.saved = ctx]
           s == Calling(t, g, file)
<1>1. /\ f \in Frame /\ f.kind = "bind" /\ f.pc = "entry"
      /\ n \in Nat \ {0} /\ OpenBindings(t) \subseteq 1..n /\ n \notin OpenBindings(t)
  <2>1. f \in Frame /\ f.kind = "bind" /\ f.pc = "entry"
    BY ThreadFacts DEF BindEnter, At
  <2>2. n \in Nat \ {0} /\ Opens(frames[t]) \subseteq 1..n
    BY ThreadFacts, CallStackFacts
  <2>3. n \notin Opens(frames[t])
    BY <2>1 DEF Opens, IsOpen, Current
  <2> QED
    BY <2>1, <2>2, <2>3, ThreadFacts
<1>2. ctx \in [Registers -> Value] /\ AfterCall(cpu[t]) \in [Locations -> Value]
  BY ThreadFacts, FileTypes
<1>3. file \in [Locations -> Value]
  <2>1. ASSUME NEW l \in Locations PROVE Shifted(f, ctx, l, AfterCall(cpu[t])[l]) \in Value
    <3>1. AfterCall(cpu[t])[l] \in Value
      BY <1>2
    <3> HIDE DEF f, ctx
    <3> QED
      BY <1>1, <1>2, <3>1, ShiftedType
  <2> HIDE DEF f, ctx
  <2> QED
    BY <2>1
<1>4. /\ Stack!Push(t, n) /\ calls' = calls
      /\ Stack!Full(t) => UNCHANGED <<frames, cpu>>
      /\ ~Stack!Full(t) => /\ frames' = [frames EXCEPT ![t] = s]
                           /\ cpu' = [cpu EXCEPT ![t] = file]
  BY DEF BindEnter
<1> HIDE DEF f, ctx, file
<1>5. g \in Frame /\ g.kind = f.kind /\ IsOpen(g)
  BY <1>1, <1>2 DEF Frame, IsOpen
<1>6. Stack!TypeOK /\ Stack!TypeOK' /\ calls' \in 0..MaxCalls
  BY <1>1, <1>4, PushEffect DEF Inv, TypeOK
<1> HIDE DEF g
<1>7. CASE ~Stack!Full(t)
  <2>1. CallStack(s) /\ Opens(s) = OpenBindings(t) \cup {n}
    BY <1>1, <1>3, <1>5, CallingFacts DEF f
  <2>2. cpu' \in [Threads -> [Locations -> Value]]
    BY <1>3, <1>4, <1>7 DEF Inv, TypeOK
  <2>3. /\ index' = [index EXCEPT ![t] = @ + 1]
        /\ array' = [array EXCEPT ![t] = [@ EXCEPT ![index[t] + 1] = n]]
    BY <1>1, <1>4, <1>6, <1>7, PushEffect
  <2>4. /\ index'[t] = index[t] + 1 /\ array'[t] = [array[t] EXCEPT ![index[t] + 1] = n]
        /\ \A u \in Threads : u # t => array'[u] = array[u] /\ index'[u] = index[u]
    BY <1>6, <2>3 DEF Stack!TypeOK
  <2>5. Mirror([array[t] EXCEPT ![index[t] + 1] = n], index[t] + 1, OpenBindings(t) \cup {n})
    <3>1. \A m \in OpenBindings(t) : m < n
      BY <1>1
    <3>2. index[t] # Capacity - 1
      BY <1>7 DEF Stack!Full
    <3> QED
      BY <1>1, <3>1, <3>2, ThreadFacts, MirrorPush
  <2>6. Mirror(array'[t], index'[t], Opens(s))
    BY <2>1, <2>4, <2>5
  <2>7. frames' = [frames EXCEPT ![t] = s]
    BY <1>4, <1>7
  <2> HIDE DEF s
  <2> QED
    BY <1>6, <2>1, <2>2, <2>4, <2>6, <2>7, ThreadStep
<1>8. CASE Stack!Full(t)
  <2>1. UNCHANGED <<frames, cpu, array, index>>
    BY <1>1, <1>4, <1>6, <1>8, PushEffect
  <2> QED
    BY <1>6, <2>1, QuietStep
<1> QED
  BY <1>7, <1>8

\* The thunk that pops is the innermost open one, so it removes its own context.
LEMMA BindLeaveFacts ==
  ASSUME Inv, NEW t \in Threads, At(t, "bind", "call")
  PROVE  /\ Len(frames[t]) > 1
         /\ Len(frames[t]) \in OpenBindings(t)
         /\ index[t] # -1 /\ array[t][index[t]] = Len(frames[t])
         /\ Mirror(array[t], index[t] - 1, OpenBindings(t) \ {Len(frames[t])})
<1> DEFINE n == Len(frames[t])
<1>1. /\ n \in Nat /\ n > 1 /\ n \in 1..n /\ DOMAIN frames[t] = 1..n
      /\ OpenBindings(t) \subseteq 1..n
  BY ThreadFacts, CallStackFacts DEF At
<1>2. n \in OpenBindings(t)
  BY <1>1 DEF At, OpenBindings, IsOpen, Current
<1>3. /\ index[t] # -1 /\ array[t][index[t]] \in OpenBindings(t)
      /\ \A m \in OpenBindings(t) : m <= array[t][index[t]]
      /\ Mirror(array[t], index[t] - 1, OpenBindings(t) \ {array[t][index[t]]})
  BY <1>2, ThreadFacts, MirrorTop
<1>4. array[t][index[t]] = n
  BY <1>1, <1>2, <1>3
<1> QED
  BY <1>1, <1>2, <1>3, <1>4

\* The epilog of a binding thunk, its Pop included, preserves the invariant.
LEMMA BindLeaveStep ==
  ASSUME Inv, NEW t \in Threads, BindLeave(t)
  PROVE  Inv'
<1> DEFINE n == Len(frames[t])
           s == SubSeq(frames[t], 1, n - 1)
           ret == ReturnRegisters(Current(t).ret)
           ctx == [r \in Registers |-> IF r \in ret THEN cpu[t][r] ELSE Current(t).saved[r]]
           file == [l \in Locations |-> IF l \in ret THEN ctx[l] ELSE AfterCall(cpu[t])[l]]
<1>1. /\ Len(frames[t]) > 1 /\ index[t] # -1
      /\ Mirror(array[t], index[t] - 1, OpenBindings(t) \ {n})
  BY BindLeaveFacts DEF BindLeave
<1>2. /\ Stack!Pop(t) /\ calls' = calls
      /\ frames' = [frames EXCEPT ![t] = s] /\ cpu' = [cpu EXCEPT ![t] = file]
  BY <1>1 DEF BindLeave, Stack!Empty, Returning
<1>3. Stack!TypeOK /\ Stack!TypeOK' /\ calls' \in 0..MaxCalls
  BY <1>2, PopEffect DEF Inv, TypeOK
<1>4. index' = [index EXCEPT ![t] = @ - 1] /\ array' = array
  BY <1>1, <1>2, <1>3, PopEffect DEF Stack!Empty
<1>5. file \in [Locations -> Value]
  <2>1. ret \subseteq Registers
    <3>1. Current(t).ret \in ReturnType
      BY ThreadFacts DEF Frame
    <3> QED
      BY <3>1, ConventionAssumption DEF ReturnRegisters, ReturnType, Registers
  <2>2. Current(t).saved \in [Registers -> Value]
    BY ThreadFacts DEF Frame
  <2>3. AfterCall(cpu[t]) \in [Locations -> Value] /\ cpu[t] \in [Locations -> Value]
    BY ThreadFacts, FileTypes
  <2> HIDE DEF ret
  <2>4. ctx \in [Registers -> Value]
    BY <2>2, <2>3, ValueFacts
  <2> HIDE DEF ctx
  <2> QED
    BY <2>1, <2>3, <2>4
<1> HIDE DEF file
<1>6. cpu' \in [Threads -> [Locations -> Value]]
  BY <1>2, <1>5 DEF Inv, TypeOK
<1>7. CallStack(s) /\ Opens(s) = OpenBindings(t) \ {n}
  BY <1>1, ThreadFacts, CallStackReturns
<1>8. /\ index'[t] = index[t] - 1 /\ array'[t] = array[t]
      /\ \A u \in Threads : u # t => array'[u] = array[u] /\ index'[u] = index[u]
  BY <1>3, <1>4 DEF Stack!TypeOK
<1>9. Mirror(array'[t], index'[t], Opens(s))
  BY <1>1, <1>7, <1>8
<1> HIDE DEF s
<1> QED
  BY <1>2, <1>3, <1>6, <1>7, <1>8, <1>9, ThreadStep

\* A restore thunk that calls the callee preserves the invariant.
LEMMA RestoreEnterStep ==
  ASSUME Inv, NEW t \in Threads, RestoreEnter(t)
  PROVE  Inv'
<1> DEFINE f == Current(t)
           n == Len(frames[t])
           spill == Spilled(f, cpu[t])
           ctx == ContextAt(t, Stack!TopEntry(t))
           file == Rebuilt(f, ctx, spill, cpu[t])
           g == [f EXCEPT !.pc = "call", !.saved = spill]
           s == Calling(t, g, file)
<1>1. /\ f \in Frame /\ f.kind = "restore"
      /\ n \notin OpenBindings(t)
  <2>1. f \in Frame /\ f.kind = "restore"
    BY ThreadFacts DEF RestoreEnter, At
  <2>2. n \notin Opens(frames[t])
    BY <2>1 DEF Opens, IsOpen, Current
  <2> QED
    BY <2>1, <2>2, ThreadFacts
<1>2. spill \in [Registers -> Value]
  BY ThreadFacts, FileTypes
<1>3. ctx \in [Registers -> Value]
  <2>1. \A m \in OpenBindings(t) : frames[t][m] \in Frame
    BY ThreadFacts, CallStackFacts
  <2>2. \A m \in OpenBindings(t) : frames[t][m].saved \in [Registers -> Value]
    BY <2>1 DEF Frame
  <2> QED
    BY <2>2, ThreadFacts, FileTypes DEF ContextAt
<1>4. file \in [Locations -> Value]
  <2> HIDE DEF f, ctx, spill
  <2> QED
    BY <1>1, <1>2, <1>3, ThreadFacts, RebuiltType
<1>5. /\ Stack!Top(t) /\ calls' = calls
      /\ Stack!Empty(t) => UNCHANGED <<frames, cpu>>
      /\ ~Stack!Empty(t) => /\ frames' = [frames EXCEPT ![t] = s]
                            /\ cpu' = [cpu EXCEPT ![t] = file]
  BY DEF RestoreEnter
<1> HIDE DEF f, spill, ctx, file
<1>6. g \in Frame /\ g.kind = f.kind /\ ~IsOpen(g)
  BY <1>1, <1>2 DEF Frame, IsOpen
<1>7. Stack!TypeOK' /\ calls' \in 0..MaxCalls /\ UNCHANGED <<array, index>>
  BY <1>5, TopEffect DEF Inv, TypeOK
<1> HIDE DEF g
<1>8. CASE ~Stack!Empty(t)
  <2>1. CallStack(s) /\ Opens(s) = OpenBindings(t)
    <3>1. CallStack(s) /\ Opens(s) = (OpenBindings(t) \ {n}) \cup (IF IsOpen(g) THEN {n} ELSE {})
      BY <1>4, <1>6, CallingFacts DEF f
    <3> QED
      BY <1>1, <1>6, <3>1
  <2>2. cpu' \in [Threads -> [Locations -> Value]]
    BY <1>4, <1>5, <1>8 DEF Inv, TypeOK
  <2>3. Mirror(array'[t], index'[t], Opens(s))
    BY <1>7, <2>1, ThreadFacts
  <2>4. frames' = [frames EXCEPT ![t] = s]
    BY <1>5, <1>8
  <2> HIDE DEF s
  <2> QED
    BY <1>7, <2>1, <2>2, <2>3, <2>4, ThreadStep
<1>9. CASE Stack!Empty(t)
  BY <1>5, <1>7, <1>9, QuietStep
<1> QED
  BY <1>8, <1>9

\* The invariant holds before any thread has called a thunk.
LEMMA InitInv == Init => Inv
<1> SUFFICES ASSUME Init PROVE Inv
  OBVIOUS
<1> DEFINE file == [l \in Locations |-> Junk]
           g == NativeFrame(0, file)
<1>1. file \in [Locations -> Value]
  BY ValueFacts
<1>2. g \in Frame /\ ~IsOpen(g) /\ g.kind = "native"
  <2> HIDE DEF file
  <2> QED
    BY <1>1, NativeFrameType
<1>3. cpu = [t \in Threads |-> file] /\ frames = [t \in Threads |-> <<g>>] /\ calls = 0
  BY DEF Init
<1> HIDE DEF g, file
<1>4. Stack!TypeOK
  BY CapacityBound DEF Init, Stack!Init, Stack!TypeOK, Stack!Slots
<1>5. TypeOK
  BY <1>1, <1>2, <1>3, <1>4, BoundAssumption DEF TypeOK
<1>6. \A t \in Threads : OpenBindings(t) = {}
  BY <1>2, <1>3 DEF OpenBindings
<1>7. \A t \in Threads : index[t] = -1
  BY DEF Init, Stack!Init
<1>8. StackMirrorsCalls
  BY <1>6, <1>7 DEF StackMirrorsCalls
<1> QED
  BY <1>5, <1>8 DEF Inv

\* Every step of the program preserves the invariant.
LEMMA NextInv == Inv /\ [Next]_vars => Inv'
<1> SUFFICES ASSUME Inv, [Next]_vars PROVE Inv'
  OBVIOUS
<1>1. CASE UNCHANGED vars
  <2>1. UNCHANGED <<frames, cpu, calls, array, index, result, message, alive>>
    BY <1>1 DEF vars, stackVars
  <2>2. Stack!TypeOK' /\ calls' \in 0..MaxCalls
    BY <2>1 DEF Inv, TypeOK, Stack!TypeOK, Stack!Slots
  <2> QED
    BY <2>1, <2>2, QuietStep
<1>2. ASSUME NEW t \in Threads, Thunk(t) PROVE Inv'
  BY <1>2, BindEnterStep, BindLeaveStep, RestoreEnterStep, RestoreLeaveStep DEF Thunk
<1>3. ASSUME NEW t \in Threads, Native(t) PROVE Inv'
  BY <1>3, NativeReturnStep, NativeCallStep DEF Native
<1> QED
  BY <1>1, <1>2, <1>3 DEF Next

\* The inductive invariant holds throughout every behaviour.
LEMMA Invariance == Spec => []Inv
  BY InitInv, NextInv, PTL DEF Spec

-----------------------------------------------------------------------------
(* The theorems *)

\* Frames, registers and context stacks stay within their types; in particular no
\* thread ever writes its RegisterContextArray out of bounds.
THEOREM ThunkTypes == Spec => []TypeOK
<1>1. Inv => TypeOK
  BY DEF Inv
<1> QED
  BY <1>1, Invariance, PTL

\* The context stack of a thread holds exactly its unreturned binding thunks.
THEOREM StackMirrors == Spec => []StackMirrorsCalls
<1>1. Inv => StackMirrorsCalls
  BY DEF Inv
<1> QED
  BY <1>1, Invariance, PTL

\* A restore thunk is given the context of the innermost binding of its thread.
THEOREM TopOfStackIsInnermost == Spec => []TopIsInnermost
<1>1. Inv => TopIsInnermost
  <2> SUFFICES ASSUME Inv, NEW t \in Threads, OpenBindings(t) # {}
               PROVE  ~Stack!Empty(t) /\ Stack!TopEntry(t) = Max(OpenBindings(t))
    BY DEF TopIsInnermost
  <2> DEFINE top == array[t][index[t]]
  <2>1. index[t] # -1 /\ top \in OpenBindings(t) /\ \A n \in OpenBindings(t) : n <= top
    BY ThreadFacts, MirrorTop
  <2>2. OpenBindings(t) \subseteq Nat
    BY ThreadFacts, CallStackFacts
  <2>3. \A x \in OpenBindings(t) : (\A y \in OpenBindings(t) : x >= y) <=> x = top
    BY <2>1, <2>2
  <2>4. Max(OpenBindings(t)) = top
    BY <2>1, <2>3 DEF Max
  <2> QED
    BY <2>1, <2>4 DEF Stack!Empty, Stack!TopEntry
<1> QED
  BY <1>1, Invariance, PTL

\* Only a binding nested Capacity deep or a restore thunk outside every binding
\* ends the process: the Pop of a binding thunk always finds its own context.
THEOREM TerminationIsMisuse == Spec => OnlyMisuseTerminates
<1> DEFINE Misuse(t) ==
      \/ At(t, "bind", "entry") /\ Cardinality(OpenBindings(t)) = Capacity
      \/ At(t, "restore", "entry") /\ OpenBindings(t) = {}
<1>1. Inv /\ [Next]_vars => [alive /\ ~alive' => \E t \in Threads : Misuse(t)]_vars
  <2> SUFFICES ASSUME Inv, Next, alive, ~alive' PROVE \E t \in Threads : Misuse(t)
    OBVIOUS
  <2>0. Stack!TypeOK
    BY DEF Inv, TypeOK
  <2>1. ASSUME NEW t \in Threads, BindEnter(t) PROVE Misuse(t)
    <3>1. Stack!Push(t, Len(frames[t])) /\ At(t, "bind", "entry")
      BY <2>1 DEF BindEnter
    <3>2. Len(frames[t]) \in Nat
      BY ThreadFacts, CallStackFacts
    <3>3. Stack!Full(t)
      BY <2>0, <3>1, <3>2, PushEffect
    <3>4. Cardinality(OpenBindings(t)) = index[t] + 1
      BY ThreadFacts, MirrorCounts
    <3> QED
      BY <3>1, <3>3, <3>4, CapacityBound DEF Stack!Full
  <2>2. ASSUME NEW t \in Threads, BindLeave(t) PROVE FALSE
    BY <2>0, <2>2, BindLeaveFacts, PopEffect DEF BindLeave, Stack!Empty
  <2>3. ASSUME NEW t \in Threads, RestoreEnter(t) PROVE Misuse(t)
    <3>1. Stack!Top(t) /\ At(t, "restore", "entry")
      BY <2>3 DEF RestoreEnter
    <3>2. index[t] = -1
      BY <2>0, <3>1, TopEffect DEF Stack!Empty
    <3>3. OpenBindings(t) = {}
      BY <3>2, ThreadFacts, MirrorTop
    <3> QED
      BY <3>1, <3>3
  <2>4. ASSUME NEW t \in Threads, RestoreLeave(t) \/ Native(t) PROVE FALSE
    BY <2>4 DEF RestoreLeave, Native, NativeReturn, NativeCall, stackVars
  <2> QED
    BY <2>1, <2>2, <2>3, <2>4 DEF Next, Thunk
<1> QED
  BY <1>1, Invariance, PTL DEF Spec, OnlyMisuseTerminates

-----------------------------------------------------------------------------
(* Values.  Each thread's call stack and register file satisfy Data, which says of   *)
(* every thunk in mid-call what it keeps in its frame and what the function above it *)
(* was entered with.                                                                 *)

Keeps(a, b) == \A r \in Preserved : a[r] = b[r]

\* What the function a thunk calls finds, by the kind of thunk.
Passed(f, callee) ==
  /\ callee[Argument(ShiftSignature(f.sig), 1)] = BindParam
  /\ \A i \in DOMAIN f.sig :
       callee[Argument(ShiftSignature(f.sig), i + 1)] = f.entry[Argument(f.sig, i)]
Restored(f, callee, source) ==
  /\ \A i \in DOMAIN f.sig : callee[Argument(f.sig, i)] = f.entry[Argument(f.sig, i)]
  /\ \A r \in Captured \ (ArgumentRegisters(f.sig) \cup {"rflags"}) : callee[r] = source[r]

Innermost(opens, n, m) == m \in opens /\ m < n /\ \A k \in opens : k < n => k <= m

\* Frame n of call stack s has called frame n + 1.
Called(s, n) ==
  /\ s[n].kind # "native" => s[n].pc = "call" /\ s[n + 1].kind = "native"
  /\ s[n].kind = "bind" => Passed(s[n], s[n + 1].entry) /\ Keeps(s[n + 1].entry, s[n].entry)
  /\ s[n].kind = "restore" =>
       \E m \in Opens(s) : /\ Innermost(Opens(s), n, m)
                           /\ Restored(s[n], s[n + 1].entry, s[m].entry)

\* A thunk's signature, and what it keeps in its frame once it has called on.
Kept(f) ==
  /\ f.kind # "native" => f.sig \in Signatures
  /\ f.kind = "bind" /\ f.pc = "call" => f.saved = SaveRegisterContext(f.entry)
  /\ f.kind = "restore" /\ f.pc = "call" => Keeps(f.saved, f.entry)

\* What the registers hold when frame f runs.
Running(f, file) ==
  /\ f.kind # "native" /\ f.pc = "entry" => file = f.entry
  /\ f.kind = "bind" /\ f.pc = "call" => Keeps(file, f.entry)

Data(s, file) ==
  /\ \A n \in 1..Len(s) : Kept(s[n])
  /\ \A n \in 1..(Len(s) - 1) : Called(s, n)
  /\ Running(Top1(s), file)

-----------------------------------------------------------------------------
(* Registers *)

\* Places of arguments are argument registers or slots, never a nonvolatile register,
\* the flags or rbp.
LEMMA PlaceFacts ==
  ASSUME NEW sig \in Signature, StackArguments(sig) <= Len(StackSlots), NEW i \in DOMAIN sig
  PROVE  /\ IsReg(sig, i) => /\ Argument(sig, i) \in ArgRegisters
                             /\ Argument(sig, i) \in Captured \ {"rflags"}
         /\ IsStack(sig, i) => Argument(sig, i) \in Slots
         /\ Argument(sig, i) \in ArgRegisters \/ Argument(sig, i) \in Slots
         /\ Argument(sig, i) \notin Preserved
<1>1. IsReg(sig, i) => Argument(sig, i) \in ArgRegisters
  <2>1. Range(RegisterBank(sig[i])) \subseteq ArgRegisters
    BY DEF RegisterBank, ArgRegisters
  <2> QED
    BY <2>1, ArgumentHasAPlace
<1>2. IsStack(sig, i) => Argument(sig, i) \in Slots
  BY ArgumentHasAPlace
<1>3. IsReg(sig, i) \/ IsStack(sig, i)
  BY DEF IsStack
<1>4. \A r \in ArgRegisters : r \in Captured \ {"rflags"} /\ r \notin Preserved
  BY ConventionAssumption DEF Captured, Registers
<1>5. \A l \in Slots : l \notin Preserved
  BY ConventionAssumption DEF Registers
<1> QED
  BY <1>1, <1>2, <1>3, <1>4, <1>5

\* A frame's signature and its shifted form are both representable.
LEMMA RepresentableShift ==
  ASSUME NEW sig \in Signatures
  PROVE  /\ sig \in Signature /\ StackArguments(sig) <= Len(StackSlots)
         /\ ShiftSignature(sig) \in Signature
         /\ StackArguments(ShiftSignature(sig)) <= Len(StackSlots)
         /\ DOMAIN ShiftSignature(sig) = 1..(Len(sig) + 1)
         /\ DOMAIN sig = 1..Len(sig) /\ Len(sig) \in Nat
<1>1. sig \in Seq(ArgumentType) /\ Representable(sig)
  BY SignatureAssumption
<1>2. <<"Integral">> \in Seq(ArgumentType) /\ Len(<<"Integral">>) = 1
  BY DEF ArgumentType
<1>3. ShiftSignature(sig) \in Seq(ArgumentType) /\ Len(ShiftSignature(sig)) = Len(sig) + 1
  BY <1>1, <1>2, ConcatProperties, LenProperties DEF ShiftSignature
<1> QED
  BY <1>1, <1>3, LenProperties DEF Representable, Signature

\* The backward walk of a binding thunk entered with file puts every argument in
\* its new place and touches no nonvolatile register.
LEMMA ShiftPasses ==
  ASSUME NEW f \in Frame, f.sig \in Signatures, NEW file \in [Locations -> Value],
         f.entry = file, NEW callee,
         callee = [l \in Locations |->
                     Shifted(f, SaveRegisterContext(file), l, AfterCall(file)[l])]
  PROVE  Passed(f, callee) /\ Keeps(callee, f.entry)
<1> DEFINE dest == ShiftSignature(f.sig)
           ctx == SaveRegisterContext(file)
           movedTo(l) == {i \in DOMAIN f.sig : /\ Argument(dest, i + 1) = l
                                               /\ IsReg(f.sig, i) \/ IsStack(dest, i + 1)}
           source(l) == Argument(f.sig, CHOOSE i \in movedTo(l) : TRUE)
<1>1. /\ f.sig \in Signature /\ StackArguments(f.sig) <= Len(StackSlots)
      /\ dest \in Signature /\ StackArguments(dest) <= Len(StackSlots)
      /\ DOMAIN dest = 1..(Len(f.sig) + 1) /\ DOMAIN f.sig = 1..Len(f.sig) /\ Len(f.sig) \in Nat
  BY RepresentableShift
<1>2. \A l : Shifted(f, ctx, l, AfterCall(file)[l]) =
               IF l = Argument(dest, 1) THEN BindParam
               ELSE IF movedTo(l) = {} THEN AfterCall(file)[l]
               ELSE IF source(l) \in Registers THEN ctx[source(l)] ELSE f.entry[source(l)]
  BY DEF Shifted
<1>3. \A l \in Locations : callee[l] = Shifted(f, ctx, l, AfterCall(file)[l])
  OBVIOUS
<1>4. \A i \in DOMAIN f.sig : IsStack(f.sig, i) => IsStack(dest, i + 1)
  BY <1>1, StackStaysOnStack
<1>5. \A i \in DOMAIN f.sig : IsReg(f.sig, i) \/ IsStack(dest, i + 1)
  BY <1>4 DEF IsStack
<1>6. \A i \in DOMAIN f.sig : i \in Nat /\ i + 1 \in DOMAIN dest /\ i + 1 # 1
  BY <1>1
<1>7. 1 \in DOMAIN dest
  BY <1>1
<1>8. \A i, j \in DOMAIN dest : i # j => Argument(dest, i) # Argument(dest, j)
  BY <1>1, ArgumentPlacesAreDistinct
<1>9. \A i \in DOMAIN dest : Argument(dest, i) \in Locations /\ Argument(dest, i) \notin Preserved
  BY <1>1, ArgumentHasAPlace, PlaceFacts
<1>10. \A i \in DOMAIN f.sig :
         LET p == Argument(f.sig, i)
         IN  IF p \in Registers THEN ctx[p] = f.entry[p] ELSE TRUE
  <2> SUFFICES ASSUME NEW i \in DOMAIN f.sig, Argument(f.sig, i) \in Registers
               PROVE  ctx[Argument(f.sig, i)] = f.entry[Argument(f.sig, i)]
    OBVIOUS
  <2>1. Argument(f.sig, i) \notin Slots
    BY ConventionAssumption
  <2>2. Argument(f.sig, i) \in Captured \ {"rflags"}
    BY <1>1, <2>1, PlaceFacts DEF IsStack
  <2> QED
    BY <2>2 DEF SaveRegisterContext
<1> HIDE DEF dest, ctx
<1>11. ASSUME NEW i \in DOMAIN f.sig
       PROVE  callee[Argument(dest, i + 1)] = f.entry[Argument(f.sig, i)]
  <2> DEFINE l == Argument(dest, i + 1)
  <2>1. l \in Locations /\ l # Argument(dest, 1)
    BY <1>6, <1>7, <1>8, <1>9
  <2>2. movedTo(l) = {i}
    <3>1. \A j \in DOMAIN f.sig : Argument(dest, j + 1) = l => j = i
      BY <1>6, <1>8
    <3> QED
      BY <1>5, <3>1
  <2>3. source(l) = Argument(f.sig, i)
    BY <2>2
  <2> HIDE DEF l, movedTo, source
  <2>4. callee[l] = IF source(l) \in Registers THEN ctx[source(l)] ELSE f.entry[source(l)]
    BY <1>2, <1>3, <2>1, <2>2
  <2> QED
    BY <1>10, <2>3, <2>4 DEF l
<1>12. callee[Argument(dest, 1)] = BindParam
  BY <1>2, <1>3, <1>7, <1>9
<1>13. Keeps(callee, f.entry)
  <2> SUFFICES ASSUME NEW r \in Preserved PROVE callee[r] = f.entry[r]
    BY DEF Keeps
  <2>1. r \in Locations
    BY ValueFacts
  <2>2. r # Argument(dest, 1)
    BY <1>7, <1>9
  <2>3. movedTo(r) = {}
    BY <1>6, <1>9
  <2>4. AfterCall(file)[r] = file[r]
    BY <2>1 DEF AfterCall
  <2> HIDE DEF movedTo, source
  <2> QED
    BY <1>2, <1>3, <2>1, <2>2, <2>3, <2>4
<1> QED
  BY <1>11, <1>12, <1>13 DEF Passed, dest

\* A restore thunk entered with file rebuilds its arguments, gives back the rest of
\* what was captured, and has saved the nonvolatile registers.
LEMMA RebuildRestores ==
  ASSUME NEW f \in Frame, f.sig \in Signatures, NEW file \in [Locations -> Value],
         f.entry = file, NEW source \in [Locations -> Value]
  PROVE  LET spill == Spilled(f, file)
         IN  /\ Restored(f, Rebuilt(f, SaveRegisterContext(source), spill, file), source)
             /\ Keeps(spill, f.entry)
<1> DEFINE spill == Spilled(f, file)
           ctx == SaveRegisterContext(source)
           callee == Rebuilt(f, ctx, spill, file)
<1>1. f.sig \in Signature /\ StackArguments(f.sig) <= Len(StackSlots)
  BY RepresentableShift
<1>2. /\ ArgRegisters \subseteq Registers /\ Registers \subseteq Locations
      /\ Preserved \subseteq Registers /\ Slots \subseteq Locations
      /\ Registers \cap Slots = {}
  BY ConventionAssumption DEF Registers, Locations
<1>3. \A r \in Registers : r \in Preserved \cup ArgumentRegisters(f.sig) => spill[r] = file[r]
  BY DEF Spilled
<1>4. \A l \in Locations : callee[l] =
        IF l \in Arguments(f.sig) \cap Slots THEN f.entry[l]
        ELSE IF l \in ArgumentRegisters(f.sig) THEN spill[l]
        ELSE IF l \in Captured THEN ctx[l] ELSE AfterCall(file)[l]
  BY DEF Rebuilt
<1> HIDE DEF spill, ctx, callee
<1>5. ASSUME NEW i \in DOMAIN f.sig
      PROVE  callee[Argument(f.sig, i)] = f.entry[Argument(f.sig, i)]
  <2> DEFINE l == Argument(f.sig, i)
  <2>1. l \in Arguments(f.sig) /\ (l \in ArgRegisters \/ l \in Slots)
    BY <1>1, PlaceFacts DEF Arguments
  <2>2. l \in ArgRegisters => l \in ArgumentRegisters(f.sig) /\ l \notin Slots
    BY <1>2, <2>1 DEF ArgumentRegisters
  <2> HIDE DEF l
  <2> QED
    BY <1>2, <1>3, <1>4, <2>1, <2>2 DEF l
<1>6. ASSUME NEW r \in Captured \ (ArgumentRegisters(f.sig) \cup {"rflags"})
      PROVE  callee[r] = source[r]
  <2>1. r \in Registers /\ r \in Locations /\ r \notin Slots
    BY <1>2 DEF Captured
  <2>2. ctx[r] = source[r]
    BY <2>1 DEF ctx, SaveRegisterContext
  <2> QED
    BY <1>4, <2>1, <2>2
<1>7. Keeps(spill, f.entry)
  BY <1>2, <1>3 DEF Keeps
<1> QED
  BY <1>5, <1>6, <1>7 DEF Restored, spill, ctx, callee

-----------------------------------------------------------------------------
(* Call stacks and their registers *)

\* What frame n has done to frame n + 1 depends on nothing above them.
LEMMA CalledSame ==
  ASSUME NEW s, CallStack(s), NEW q, CallStack(q), NEW n \in Nat \ {0},
         n < Len(s), n < Len(q), \A m \in 1..n : q[m] = s[m],
         q[n + 1].kind = s[n + 1].kind, q[n + 1].entry = s[n + 1].entry, Called(s, n)
  PROVE  Called(q, n)
<1>1. /\ Len(s) \in Nat /\ Len(q) \in Nat /\ n \in 1..n
      /\ DOMAIN s = 1..Len(s) /\ DOMAIN q = 1..Len(q)
  BY CallStackFacts
<1>2. \A m \in Int : m < n => (m \in Opens(s) <=> m \in Opens(q))
  <2> SUFFICES ASSUME NEW m \in Int, m < n PROVE m \in Opens(s) <=> m \in Opens(q)
    OBVIOUS
  <2>1. CASE m \in 1..n
    BY <1>1, <2>1 DEF Opens
  <2>2. CASE m \notin 1..n
    BY <1>1, <2>2 DEF Opens
  <2> QED
    BY <2>1, <2>2
<1>3. Opens(s) \subseteq Int /\ Opens(q) \subseteq Int
  BY <1>1 DEF Opens
<1>4. \A m : Innermost(Opens(s), n, m) => Innermost(Opens(q), n, m) /\ q[m] = s[m]
  <2> SUFFICES ASSUME NEW m, Innermost(Opens(s), n, m)
               PROVE  Innermost(Opens(q), n, m) /\ q[m] = s[m]
    OBVIOUS
  <2>1. m \in 1..Len(s) /\ m < n
    BY <1>1 DEF Innermost, Opens
  <2>2. m \in 1..n
    BY <1>1, <2>1
  <2> QED
    BY <1>2, <1>3, <2>1, <2>2 DEF Innermost
<1>5. q[n] = s[n]
  BY <1>1
<1>6. Called(s, n) => Called(q, n)
  <2>1. q[n].kind = "restore" =>
          \E m \in Opens(q) : /\ Innermost(Opens(q), n, m)
                              /\ Restored(q[n], q[n + 1].entry, q[m].entry)
    <3> SUFFICES ASSUME q[n].kind = "restore"
                 PROVE  \E m \in Opens(q) : /\ Innermost(Opens(q), n, m)
                                            /\ Restored(q[n], q[n + 1].entry, q[m].entry)
      OBVIOUS
    <3>1. PICK m \in Opens(s) : /\ Innermost(Opens(s), n, m)
                                /\ Restored(s[n], s[n + 1].entry, s[m].entry)
      BY <1>5 DEF Called
    <3>2. Innermost(Opens(q), n, m) /\ q[m] = s[m] /\ m \in Opens(q)
      BY <1>4, <3>1 DEF Innermost
    <3> QED
      BY <1>5, <3>1, <3>2
  <2> QED
    BY <1>5, <2>1 DEF Called
<1> QED
  BY <1>6

\* Native code calls a thunk.
LEMMA DataNativeCall ==
  ASSUME NEW s, CallStack(s), NEW old, Data(s, old), Top1(s).kind = "native",
         NEW g \in Frame, g.kind # "native", g.pc = "entry", g.sig \in Signatures
  PROVE  Data(Append(s, g), g.entry)
<1> DEFINE r == Append(s, g)
           k == Len(s)
<1>1. ~IsOpen(g)
  BY DEF IsOpen
<1>2. /\ CallStack(r) /\ Len(r) = k + 1 /\ r[k + 1] = g /\ k \in Nat \ {0}
      /\ \A n \in 1..k : r[n] = s[n]
  BY <1>1, CallStackCalled, CallStackFacts
<1> HIDE DEF r
<1>3. \A n \in 1..Len(r) : Kept(r[n])
  <2>1. \A n \in 1..(k + 1) : n = k + 1 \/ n \in 1..k
    BY <1>2
  <2>2. Kept(g)
    BY DEF Kept
  <2> QED
    BY <1>2, <2>1, <2>2 DEF Data
<1>4. ASSUME NEW n \in 1..k PROVE Called(r, n)
  <2>1. CASE n = k
    BY <1>2, <2>1 DEF Called, Top1
  <2>2. CASE n # k
    <3>1. /\ n \in Nat \ {0} /\ n < k /\ n < Len(r) /\ n \in 1..(k - 1)
          /\ \A m \in 1..n : r[m] = s[m]
          /\ r[n + 1] = s[n + 1]
      BY <1>2, <2>2
    <3>2. Called(s, n)
      BY <3>1 DEF Data
    <3> HIDE DEF k
    <3> QED
      BY <1>2, <3>1, <3>2, CalledSame DEF k
  <2> QED
    BY <2>1, <2>2
<1>5. Running(Top1(r), g.entry)
  BY <1>2 DEF Running, Top1
<1> QED
  BY <1>2, <1>3, <1>4, <1>5 DEF Data, r

\* The innermost frame returns, native or thunk, leaving the registers as file.
LEMMA DataReturn ==
  ASSUME NEW s, CallStack(s), Len(s) > 1, NEW old, Data(s, old), NEW file,
         Top1(s).kind = "native" => Keeps(file, Top1(s).entry)
  PROVE  Data(SubSeq(s, 1, Len(s) - 1), file)
<1> DEFINE r == SubSeq(s, 1, Len(s) - 1)
           k == Len(s)
<1>1. /\ CallStack(r) /\ Len(r) = k - 1 /\ k \in Nat /\ k > 1
      /\ \A n \in 1..(k - 1) : r[n] = s[n]
  BY CallStackReturns, CallStackFacts
<1> HIDE DEF r
<1>2. \A n \in 1..Len(r) : Kept(r[n])
  BY <1>1 DEF Data
<1>3. ASSUME NEW n \in 1..(k - 2) PROVE Called(r, n)
  <2>1. /\ n \in Nat \ {0} /\ n < k /\ n < Len(r) /\ n \in 1..(k - 1)
        /\ \A m \in 1..n : r[m] = s[m]
        /\ r[n + 1] = s[n + 1]
    BY <1>1
  <2>2. Called(s, n)
    BY <2>1 DEF Data
  <2> HIDE DEF k
  <2> QED
    BY <1>1, <2>1, <2>2, CalledSame DEF k
<1>4. Running(Top1(r), file)
  <2>1. Top1(r) = s[k - 1] /\ Called(s, k - 1) /\ (k - 1) + 1 = k
    BY <1>1 DEF Data, Top1
  <2> HIDE DEF k
  <2>2. s[k].entry = Top1(s).entry /\ s[k].kind = Top1(s).kind
    BY DEF Top1, k
  <2>3. s[k - 1].kind # "native" => s[k - 1].pc = "call" /\ Keeps(file, s[k].entry)
    BY <2>1, <2>2 DEF Called
  <2>4. s[k - 1].kind = "bind" => Keeps(s[k].entry, s[k - 1].entry)
    BY <2>1 DEF Called
  <2> QED
    BY <2>1, <2>3, <2>4 DEF Running, Keeps
<1> QED
  BY <1>1, <1>2, <1>3, <1>4 DEF Data, r

\* A thunk calls on: its frame becomes f, native code runs above it.
LEMMA DataCalling ==
  ASSUME NEW s, CallStack(s), NEW file, Data(s, file), Top1(s).kind # "native",
         NEW f \in Frame, f.kind = Top1(s).kind, f.pc = "call",
         f.entry = Top1(s).entry, f.sig = Top1(s).sig, Kept(f),
         NEW g \in Frame, g.kind = "native", g.pc = "call", NEW opens,
         opens = {n \in Opens(s) : n < Len(s)},
         f.kind = "bind" => Passed(f, g.entry) /\ Keeps(g.entry, f.entry),
         f.kind = "restore" =>
           \E m \in opens : (\A n \in opens : n <= m) /\ Restored(f, g.entry, s[m].entry)
  PROVE  Data(Append([s EXCEPT ![Len(s)] = f], g), g.entry)
<1> DEFINE q == [s EXCEPT ![Len(s)] = f]
           r == Append(q, g)
           k == Len(s)
<1>1. /\ CallStack(q) /\ Len(q) = k /\ k \in Nat \ {0} /\ q[k] = f
      /\ \A n \in 1..k : n # k => q[n] = s[n]
      /\ Opens(q) = (Opens(s) \ {k}) \cup (IF IsOpen(f) THEN {k} ELSE {})
  BY CallStackChanged, CallStackFacts
<1> HIDE DEF q
<1>2. /\ CallStack(r) /\ Len(r) = k + 1 /\ r[k + 1] = g
      /\ \A n \in 1..k : r[n] = q[n]
      /\ Opens(r) = Opens(q)
  <2>1. ~IsOpen(g)
    BY DEF IsOpen
  <2> QED
    BY <1>1, <2>1, CallStackCalled
<1> HIDE DEF r
<1>3. r[k] = f /\ \A n \in 1..(k - 1) : r[n] = s[n]
  BY <1>1, <1>2
<1>4. \A n \in 1..Len(r) : Kept(r[n])
  <2>1. \A n \in 1..(k + 1) : n = k + 1 \/ n = k \/ n \in 1..(k - 1)
    BY <1>1
  <2>2. Kept(g)
    BY DEF Kept
  <2>3. \A n \in 1..(k - 1) : Kept(s[n])
    BY <1>1 DEF Data
  <2> QED
    BY <1>2, <1>3, <2>1, <2>2, <2>3
<1>5. ASSUME NEW n \in 1..k PROVE Called(r, n)
  <2>1. CASE n = k
    <3>1. f.kind = "restore" =>
            \E m \in Opens(r) : /\ Innermost(Opens(r), k, m)
                                /\ Restored(f, g.entry, r[m].entry)
      <4> SUFFICES ASSUME f.kind = "restore"
                   PROVE  \E m \in Opens(r) : /\ Innermost(Opens(r), k, m)
                                              /\ Restored(f, g.entry, r[m].entry)
        OBVIOUS
      <4>1. PICK m \in opens : (\A j \in opens : j <= m) /\ Restored(f, g.entry, s[m].entry)
        OBVIOUS
      <4>2. Opens(s) \subseteq 1..k
        BY CallStackFacts
      <4>3. \A j : j \in Opens(r) /\ j < k <=> j \in opens
        <5>1. ~IsOpen(f)
          BY DEF IsOpen
        <5> QED
          BY <1>1, <1>2, <4>2, <5>1
      <4>4. r[m] = s[m]
        BY <1>1, <1>3, <4>1, <4>2
      <4>5. Innermost(Opens(r), k, m) /\ m \in Opens(r)
        BY <4>1, <4>3 DEF Innermost
      <4> QED
        BY <4>1, <4>4, <4>5
    <3> QED
      BY <1>2, <1>3, <2>1, <3>1 DEF Called
  <2>2. CASE n # k
    <3>1. /\ n \in Nat \ {0} /\ n < k /\ n < Len(r) /\ n \in 1..(k - 1)
          /\ \A m \in 1..n : r[m] = s[m]
      BY <1>1, <1>2, <1>3, <2>2
    <3>2. r[n + 1].kind = s[n + 1].kind /\ r[n + 1].entry = s[n + 1].entry
      <4>1. CASE n + 1 = k
        BY <1>3, <4>1 DEF Top1
      <4>2. CASE n + 1 # k
        BY <1>3, <3>1, <4>2
      <4> QED
        BY <4>1, <4>2
    <3>3. Called(s, n)
      BY <3>1 DEF Data
    <3> HIDE DEF k
    <3> QED
      BY <1>2, <3>1, <3>2, <3>3, CalledSame DEF k
  <2> QED
    BY <2>1, <2>2
<1>6. Running(Top1(r), g.entry)
  BY <1>2 DEF Running, Top1
<1>7. \A n \in 1..(Len(r) - 1) : Called(r, n)
  BY <1>1, <1>2, <1>5
<1>8. Data(r, g.entry)
  BY <1>4, <1>6, <1>7 DEF Data
<1> QED
  BY <1>8 DEF r, q

-----------------------------------------------------------------------------
(* The invariant *)

DataInv == \A t \in Threads : Data(frames[t], cpu[t])

\* A step of thread t preserves the invariant if it does for thread t.
LEMMA DataStep ==
  ASSUME Inv, DataInv, NEW t \in Threads, NEW s, NEW file, Data(s, file),
         frames' = [frames EXCEPT ![t] = s], cpu' = [cpu EXCEPT ![t] = file]
  PROVE  DataInv'
<1> SUFFICES ASSUME NEW u \in Threads PROVE Data(frames'[u], cpu'[u])
  BY DEF DataInv
<1>1. t \in DOMAIN frames /\ t \in DOMAIN cpu /\ u \in DOMAIN frames /\ u \in DOMAIN cpu
  BY DEF Inv, TypeOK
<1>2. CASE u = t
  <2>1. frames'[u] = s /\ cpu'[u] = file
    BY <1>1, <1>2
  <2> QED
    BY <2>1
<1>3. CASE u # t
  <2>1. frames'[u] = frames[u] /\ cpu'[u] = cpu[u]
    BY <1>1, <1>3
  <2> QED
    BY <2>1 DEF DataInv
<1> QED
  BY <1>2, <1>3

\* Native code calling a thunk.
LEMMA DataNativeCallStep ==
  ASSUME Inv, DataInv, NEW t \in Threads, NEW kind \in {"bind", "restore"},
         NEW sig \in Signatures, NEW ret \in ReturnType, NativeCall(t, kind, sig, ret)
  PROVE  DataInv'
<1> DEFINE file == [l \in Locations |-> <<"in", calls + 1, l>>]
           g == [kind |-> kind, pc |-> "entry", id |-> calls + 1, sig |-> sig, ret |-> ret,
                 entry |-> file, saved |-> NoMemory]
<1>1. calls + 1 \in Nat
  BY BoundAssumption DEF Inv, TypeOK
<1>2. file \in [Locations -> Value]
  BY <1>1 DEF Value
<1>3. NoMemory \in [Registers -> Value]
  BY <1>2, FileTypes
<1>4. /\ frames' = [frames EXCEPT ![t] = Append(frames[t], g)]
      /\ cpu' = [cpu EXCEPT ![t] = file]
      /\ Current(t).kind = "native"
  BY DEF NativeCall, At
<1> HIDE DEF file
<1>5. g \in Frame /\ g.kind # "native" /\ g.pc = "entry" /\ g.sig \in Signatures /\ g.entry = file
  BY <1>1, <1>2, <1>3 DEF Frame
<1> HIDE DEF g
<1>6. CallStack(frames[t]) /\ Top1(frames[t]).kind = "native" /\ Data(frames[t], cpu[t])
  BY <1>4, ThreadFacts DEF DataInv
<1>7. Data(Append(frames[t], g), g.entry)
  BY <1>5, <1>6, DataNativeCall
<1> QED
  BY <1>4, <1>5, <1>7, DataStep

\* A native function or a thunk returns.
LEMMA DataReturnStep ==
  ASSUME Inv, DataInv, NEW t \in Threads, Len(frames[t]) > 1, NEW file,
         Current(t).kind = "native" => Keeps(file, Current(t).entry),
         frames' = [frames EXCEPT ![t] = Returning(t)], cpu' = [cpu EXCEPT ![t] = file]
  PROVE  DataInv'
<1>1. /\ CallStack(frames[t]) /\ Current(t) = Top1(frames[t]) /\ Data(frames[t], cpu[t])
  BY ThreadFacts DEF DataInv
<1>2. Data(SubSeq(frames[t], 1, Len(frames[t]) - 1), file)
  BY <1>1, DataReturn
<1> QED
  BY <1>2, DataStep DEF Returning

\* Native code returns as the ABI requires.
LEMMA DataNativeReturnStep ==
  ASSUME Inv, DataInv, NEW t \in Threads, NativeReturn(t)
  PROVE  DataInv'
<1> DEFINE file == [l \in Locations |-> IF l \in Preserved THEN Current(t).entry[l]
                                        ELSE <<"out", Current(t).id, l>>]
<1>1. Len(frames[t]) > 1 /\ cpu' = [cpu EXCEPT ![t] = file]
      /\ frames' = [frames EXCEPT ![t] = Returning(t)]
  BY DEF NativeReturn
<1>2. Keeps(file, Current(t).entry)
  BY ValueFacts DEF Keeps
<1> HIDE DEF file
<1> QED
  BY <1>1, <1>2, DataReturnStep

\* A restore thunk returns with the nonvolatile registers it saved.
LEMMA DataRestoreLeaveStep ==
  ASSUME Inv, DataInv, NEW t \in Threads, RestoreLeave(t)
  PROVE  DataInv'
<1>1. Current(t).kind # "native" /\ Len(frames[t]) > 1
  BY ThreadFacts, CallStackFacts DEF RestoreLeave, At
<1>2. PICK file : cpu' = [cpu EXCEPT ![t] = file]
  BY DEF RestoreLeave
<1> QED
  BY <1>1, <1>2, DataReturnStep DEF RestoreLeave

\* A binding thunk returns, or its Pop terminates the process.
LEMMA DataBindLeaveStep ==
  ASSUME Inv, DataInv, NEW t \in Threads, BindLeave(t)
  PROVE  DataInv'
<1>1. Current(t).kind # "native" /\ Len(frames[t]) > 1 /\ ~Stack!Empty(t)
  BY BindLeaveFacts DEF BindLeave, At, Stack!Empty
<1>2. /\ frames' = [frames EXCEPT ![t] = Returning(t)]
      /\ \E file : cpu' = [cpu EXCEPT ![t] = file]
  BY <1>1 DEF BindLeave
<1>3. PICK file : cpu' = [cpu EXCEPT ![t] = file]
  BY <1>2
<1> QED
  BY <1>1, <1>2, <1>3, DataReturnStep

\* What is known of a thunk that has just been entered.
LEMMA EnteredFacts ==
  ASSUME Inv, DataInv, NEW t \in Threads, Current(t).kind # "native", Current(t).pc = "entry"
  PROVE  /\ Current(t).sig \in Signatures /\ Current(t).entry = cpu[t]
         /\ CallStack(frames[t]) /\ Data(frames[t], cpu[t])
         /\ Current(t) = Top1(frames[t]) /\ Current(t) \in Frame
         /\ {n \in Opens(frames[t]) : n < Len(frames[t])} = Opens(frames[t])
<1>1. /\ CallStack(frames[t]) /\ Data(frames[t], cpu[t])
      /\ Current(t) = Top1(frames[t]) /\ Current(t) \in Frame
  BY ThreadFacts DEF DataInv
<1>2. Len(frames[t]) \in Nat \ {0} /\ Opens(frames[t]) \subseteq 1..Len(frames[t])
  BY <1>1, CallStackFacts
<1>3. Kept(Current(t))
  BY <1>1, <1>2 DEF Data, Top1
<1>4. Current(t).sig \in Signatures
  BY <1>3 DEF Kept
<1>5. Current(t).entry = cpu[t]
  BY <1>1 DEF Data, Running
<1>6. Len(frames[t]) \notin Opens(frames[t])
  BY <1>1 DEF Opens, IsOpen, Top1
<1> QED
  BY <1>1, <1>2, <1>4, <1>5, <1>6

\* A binding thunk captures, pushes, shifts and calls.
LEMMA DataBindEnterStep ==
  ASSUME Inv, DataInv, NEW t \in Threads, BindEnter(t)
  PROVE  DataInv'
<1> DEFINE f == Current(t)
           ctx == SaveRegisterContext(cpu[t])
           file == [l \in Locations |-> Shifted(f, ctx, l, AfterCall(cpu[t])[l])]
           h == [f EXCEPT !.pc = "call", !.saved = ctx]
           g == NativeFrame(h.id, file)
           s == Append([frames[t] EXCEPT ![Len(frames[t])] = h], g)
<1>1. CASE Stack!Full(t)
  BY <1>1 DEF BindEnter, DataInv
<1>2. CASE ~Stack!Full(t)
  <2>1. /\ frames' = [frames EXCEPT ![t] = s] /\ cpu' = [cpu EXCEPT ![t] = file]
        /\ f.kind = "bind" /\ f.pc = "entry"
    BY <1>2 DEF BindEnter, At, Calling
  <2>2. /\ f.sig \in Signatures /\ f.entry = cpu[t] /\ CallStack(frames[t])
        /\ Data(frames[t], cpu[t]) /\ f = Top1(frames[t]) /\ f \in Frame
        /\ cpu[t] \in [Locations -> Value]
    BY <2>1, EnteredFacts, ThreadFacts
  <2>3. ctx \in [Registers -> Value] /\ AfterCall(cpu[t]) \in [Locations -> Value]
    BY <2>2, FileTypes
  <2>4. file \in [Locations -> Value]
    <3>1. ASSUME NEW l \in Locations PROVE Shifted(f, ctx, l, AfterCall(cpu[t])[l]) \in Value
      <4>1. AfterCall(cpu[t])[l] \in Value
        BY <2>3
      <4> HIDE DEF f, ctx
      <4> QED
        BY <2>2, <2>3, <4>1, ShiftedType
    <3> HIDE DEF f, ctx
    <3> QED
      BY <3>1
  <2>5. Passed(f, file) /\ Keeps(file, f.entry)
    <3> HIDE DEF f
    <3> QED
      BY <2>2, ShiftPasses
  <2>6. ctx = SaveRegisterContext(f.entry)
    BY <2>2
  <2> HIDE DEF f, ctx, file
  <2>7. /\ h \in Frame /\ h.kind = "bind" /\ h.pc = "call" /\ h.entry = f.entry
        /\ h.sig = f.sig /\ h.saved = ctx /\ h.id \in Nat
    BY <2>1, <2>2, <2>3 DEF Frame
  <2> HIDE DEF h
  <2>8. Kept(h) /\ Passed(h, file) /\ Keeps(file, h.entry)
    BY <2>2, <2>5, <2>6, <2>7 DEF Kept, Passed
  <2>9. g \in Frame /\ g.kind = "native" /\ g.pc = "call" /\ g.entry = file
    BY <2>4, <2>7, NativeFrameType DEF NativeFrame
  <2> HIDE DEF g
  <2>10. Data(s, g.entry)
    BY <2>1, <2>2, <2>7, <2>8, <2>9, DataCalling
  <2> HIDE DEF s
  <2> QED
    BY <2>1, <2>9, <2>10, DataStep
<1> QED
  BY <1>1, <1>2

\* A restore thunk asks for the innermost context, rebuilds and calls.
LEMMA DataRestoreEnterStep ==
  ASSUME Inv, DataInv, NEW t \in Threads, RestoreEnter(t)
  PROVE  DataInv'
<1> DEFINE f == Current(t)
           top == Stack!TopEntry(t)
           opens == Opens(frames[t])
           spill == Spilled(f, cpu[t])
           file == Rebuilt(f, ContextAt(t, top), spill, cpu[t])
           h == [f EXCEPT !.pc = "call", !.saved = spill]
           g == NativeFrame(h.id, file)
           s == Append([frames[t] EXCEPT ![Len(frames[t])] = h], g)
<1>1. CASE Stack!Empty(t)
  BY <1>1 DEF RestoreEnter, DataInv
<1>2. CASE ~Stack!Empty(t)
  <2>1. /\ frames' = [frames EXCEPT ![t] = s] /\ cpu' = [cpu EXCEPT ![t] = file]
        /\ f.kind = "restore" /\ f.pc = "entry"
    BY <1>2 DEF RestoreEnter, At, Calling
  <2>2. /\ f.sig \in Signatures /\ f.entry = cpu[t] /\ CallStack(frames[t])
        /\ Data(frames[t], cpu[t]) /\ f = Top1(frames[t]) /\ f \in Frame
        /\ cpu[t] \in [Locations -> Value]
        /\ opens = {n \in Opens(frames[t]) : n < Len(frames[t])}
    BY <2>1, EnteredFacts, ThreadFacts
  <2>3. top \in opens /\ \A n \in opens : n <= top
    <3>1. opens # {}
      <4>1. index[t] \in ArraySlots /\ Mirror(array[t], index[t], opens)
        BY <1>2, ThreadFacts DEF Stack!Empty
      <4>2. index[t] \in 0..index[t]
        BY <4>1, CapacityBound DEF ArraySlots
      <4> QED
        BY <4>1, <4>2 DEF Mirror
    <3> QED
      BY <3>1, ThreadFacts, MirrorTop DEF Stack!TopEntry
  <2>4. ContextAt(t, top) = frames[t][top].saved
    BY <2>3, ThreadFacts DEF ContextAt
  <2>5. /\ frames[t][top].entry \in [Locations -> Value]
        /\ frames[t][top].saved = SaveRegisterContext(frames[t][top].entry)
    <3>1. top \in 1..Len(frames[t]) /\ frames[t][top] \in Frame
      BY <2>2, <2>3, CallStackFacts
    <3>2. Kept(frames[t][top]) /\ IsOpen(frames[t][top])
      BY <2>2, <2>3, <3>1 DEF Data, Opens
    <3> QED
      BY <3>1, <3>2 DEF Kept, IsOpen, Frame
  <2>6. Restored(f, file, frames[t][top].entry) /\ Keeps(spill, f.entry)
    <3>1. file = Rebuilt(f, SaveRegisterContext(frames[t][top].entry), spill, cpu[t])
      BY <2>4, <2>5
    <3> HIDE DEF f, top, file
    <3> QED
      BY <2>2, <2>5, <3>1, RebuildRestores
  <2>7. spill \in [Registers -> Value] /\ file \in [Locations -> Value]
    <3>1. spill \in [Registers -> Value]
      BY <2>2, FileTypes
    <3>2. ContextAt(t, top) \in [Registers -> Value]
      BY <2>4, <2>5, FileTypes
    <3> HIDE DEF f, top, spill
    <3> QED
      BY <2>2, <3>1, <3>2, RebuiltType
  <2> HIDE DEF f, top, opens, spill, file
  <2>8. /\ h \in Frame /\ h.kind = "restore" /\ h.pc = "call" /\ h.entry = f.entry
        /\ h.sig = f.sig /\ h.saved = spill /\ h.id \in Nat
    BY <2>1, <2>2, <2>7 DEF Frame
  <2> HIDE DEF h
  <2>9. Kept(h) /\ Restored(h, file, frames[t][top].entry)
    BY <2>2, <2>6, <2>8 DEF Kept, Restored
  <2>10. g \in Frame /\ g.kind = "native" /\ g.pc = "call" /\ g.entry = file
    BY <2>7, <2>8, NativeFrameType DEF NativeFrame
  <2> HIDE DEF g
  <2>11. Data(s, g.entry)
    BY <2>1, <2>2, <2>3, <2>8, <2>9, <2>10, DataCalling
  <2> HIDE DEF s
  <2> QED
    BY <2>1, <2>10, <2>11, DataStep
<1> QED
  BY <1>1, <1>2

\* The invariant holds before any thread has called a thunk.
LEMMA InitData == Init => DataInv
<1> SUFFICES ASSUME Init, NEW t \in Threads PROVE Data(frames[t], cpu[t])
  BY DEF DataInv
<1> DEFINE g == NativeFrame(0, [l \in Locations |-> Junk])
<1>1. frames[t] = <<g>>
  BY DEF Init
<1>2. g.kind = "native"
  BY DEF NativeFrame
<1> HIDE DEF g
<1> QED
  BY <1>1, <1>2 DEF Data, Kept, Running, Top1

\* Every step of the program preserves it.
LEMMA NextData == Inv /\ DataInv /\ [Next]_vars => DataInv'
<1> SUFFICES ASSUME Inv, DataInv, [Next]_vars PROVE DataInv'
  OBVIOUS
<1>1. CASE UNCHANGED vars
  BY <1>1 DEF vars, DataInv
<1>2. ASSUME NEW t \in Threads, Thunk(t) PROVE DataInv'
  BY <1>2, DataBindEnterStep, DataBindLeaveStep, DataRestoreEnterStep, DataRestoreLeaveStep
  DEF Thunk
<1>3. ASSUME NEW t \in Threads, Native(t) PROVE DataInv'
  BY <1>3, DataNativeReturnStep, DataNativeCallStep DEF Native
<1> QED
  BY <1>1, <1>2, <1>3 DEF Next

\* The strengthened invariant of the specification.
LEMMA DataInvariance == Spec => [](Inv /\ DataInv)
<1>1. Init => Inv /\ DataInv
  BY InitInv, InitData
<1>2. Inv /\ DataInv /\ [Next]_vars => (Inv /\ DataInv)'
  BY NextInv, NextData
<1> QED
  BY <1>1, <1>2, PTL DEF Spec

-----------------------------------------------------------------------------
(* The theorems *)

\* A bound function receives the bound parameter and every argument of the thunk's
\* caller, each in the place the shifted signature gives it, whatever mix of
\* registers and stack slots the convention uses.
THEOREM ArgumentsArrive == Spec => []CallbackSeesArguments
<1>1. Inv /\ DataInv => CallbackSeesArguments
  <2> SUFFICES ASSUME Inv, DataInv, NEW t \in Threads,
                      NEW n \in OpenBindings(t) \ {Len(frames[t])}
               PROVE  Passed(frames[t][n], frames[t][n + 1].entry)
    BY DEF CallbackSeesArguments, Passed
  <2>1. /\ CallStack(frames[t]) /\ Data(frames[t], cpu[t])
        /\ OpenBindings(t) = Opens(frames[t])
    BY ThreadFacts DEF DataInv
  <2>2. n \in 1..(Len(frames[t]) - 1) /\ frames[t][n].kind = "bind"
    BY <2>1, CallStackFacts DEF Opens, IsOpen
  <2> QED
    BY <2>1, <2>2 DEF Data, Called
<1> QED
  BY <1>1, DataInvariance, PTL

\* The target of a restore thunk receives the thunk's arguments and, in every other
\* captured register, what the innermost binding of its thread was entered with.
THEOREM CapturesComeBack == Spec => []TargetSeesCapture
<1>1. Inv /\ DataInv => TargetSeesCapture
  <2> SUFFICES ASSUME Inv, DataInv, NEW t \in Threads, NEW n \in 1..(Len(frames[t]) - 1),
                      frames[t][n].kind = "restore"
               PROVE  Restored(frames[t][n], frames[t][n + 1].entry,
                        frames[t][Max({m \in OpenBindings(t) : m < n})].entry)
    BY DEF TargetSeesCapture, Restored
  <2> DEFINE below == {m \in OpenBindings(t) : m < n}
  <2>1. /\ CallStack(frames[t]) /\ Data(frames[t], cpu[t])
        /\ OpenBindings(t) = Opens(frames[t])
    BY ThreadFacts DEF DataInv
  <2>2. PICK m \in Opens(frames[t]) :
          /\ Innermost(Opens(frames[t]), n, m)
          /\ Restored(frames[t][n], frames[t][n + 1].entry, frames[t][m].entry)
    BY <2>1 DEF Data, Called
  <2>3. below \subseteq Nat /\ m \in below /\ \A k \in below : k <= m
    BY <2>1, <2>2, CallStackFacts DEF Innermost
  <2> HIDE DEF below
  <2>4. \A x \in below : (\A y \in below : x >= y) <=> x = m
    <3>1. m \in Nat /\ \A y \in below : m >= y
      BY <2>3
    <3>2. ASSUME NEW x \in below, \A y \in below : x >= y PROVE x = m
      <4>1. x \in Nat /\ x >= m /\ x <= m
        BY <2>3, <3>2
      <4> QED
        BY <3>1, <4>1
    <3> QED
      BY <3>1, <3>2
  <2>5. Max(below) = m
    BY <2>3, <2>4 DEF Max
  <2> QED
    BY <2>2, <2>5 DEF below
<1> QED
  BY <1>1, DataInvariance, PTL

\* A call makes the call stack longer, whatever the frames hold.
LEMMA CallingLonger ==
  ASSUME NEW s, CallStack(s), NEW f, NEW g
  PROVE  Len(Append([s EXCEPT ![Len(s)] = f], g)) = Len(s) + 1
<1> DEFINE S == Frame \cup {f, g}
           q == [s EXCEPT ![Len(s)] = f]
<1>1. s \in Seq(S) /\ Len(s) \in 1..Len(s) /\ f \in S /\ g \in S
  BY CallStackFacts, SeqMonotonic DEF CallStack
<1>2. q \in Seq(S) /\ Len(q) = Len(s)
  BY <1>1, ExceptSeq
<1> HIDE DEF q, S
<1> QED
  BY <1>1, <1>2, AppendProperties DEF q

\* A thunk hands the return value on and gives its caller every nonvolatile
\* register back, although a restore thunk overwrites them all and a binding
\* thunk calls Pop with the return value in a volatile register.
THEOREM ReturnsAreFaithful == Spec => ReturnsFaithfully
<1> DEFINE Faithful(t) ==
      /\ \A r \in ReturnRegisters(Current(t).ret) : cpu'[t][r] = cpu[t][r]
      /\ \A r \in Preserved : cpu'[t][r] = Current(t).entry[r]
<1>1. Inv /\ DataInv /\ [Next]_vars =>
        [\A t \in Threads :
           Len(frames'[t]) < Len(frames[t]) /\ Current(t).kind # "native" => Faithful(t)]_vars
  <2> SUFFICES ASSUME Inv, DataInv, Next, NEW t \in Threads,
                      Len(frames'[t]) < Len(frames[t]), Current(t).kind # "native"
               PROVE  Faithful(t)
    OBVIOUS
  <2>1. /\ CallStack(frames[t]) /\ Data(frames[t], cpu[t]) /\ Current(t) = Top1(frames[t])
        /\ Current(t) \in Frame /\ Len(frames[t]) \in Nat \ {0}
        /\ t \in DOMAIN frames /\ t \in DOMAIN cpu
    BY ThreadFacts, CallStackFacts DEF DataInv, Inv, TypeOK
  <2>2. /\ ReturnRegisters(Current(t).ret) \subseteq Registers \ Preserved
        /\ Preserved \subseteq Registers /\ Registers \subseteq Locations
    <3>1. Current(t).ret \in ReturnType
      BY <2>1 DEF Frame
    <3> QED
      BY <3>1, ConventionAssumption, ValueFacts DEF ReturnRegisters, ReturnType, Registers
  <2>3. ASSUME BindLeave(t) PROVE Faithful(t)
    <3>1. ~Stack!Empty(t) /\ Current(t).kind = "bind" /\ Current(t).pc = "call"
      BY <2>3, BindLeaveFacts DEF BindLeave, At, Stack!Empty
    <3>2. cpu'[t] = [l \in Locations |->
            IF l \in ReturnRegisters(Current(t).ret)
            THEN [r \in Registers |-> IF r \in ReturnRegisters(Current(t).ret)
                                      THEN cpu[t][r] ELSE Current(t).saved[r]][l]
            ELSE AfterCall(cpu[t])[l]]
      BY <2>1, <2>3, <3>1 DEF BindLeave
    <3>3. Keeps(cpu[t], Current(t).entry)
      BY <2>1, <3>1 DEF Data, Running
    <3>4. \A r \in ReturnRegisters(Current(t).ret) : cpu'[t][r] = cpu[t][r]
      BY <2>2, <3>2
    <3>5. \A r \in Preserved : cpu'[t][r] = AfterCall(cpu[t])[r]
      BY <2>2, <3>2
    <3>6. \A r \in Preserved : AfterCall(cpu[t])[r] = cpu[t][r]
      BY <2>2 DEF AfterCall
    <3> QED
      BY <3>3, <3>4, <3>5, <3>6 DEF Keeps
  <2>4. ASSUME RestoreLeave(t) PROVE Faithful(t)
    <3>1. Current(t).kind = "restore" /\ Current(t).pc = "call"
      BY <2>4 DEF RestoreLeave, At
    <3>2. Keeps(Current(t).saved, Current(t).entry)
      BY <2>1, <3>1 DEF Data, Kept, Top1
    <3>3. cpu'[t] = [l \in Locations |->
            IF l \in Preserved THEN Current(t).saved[l]
            ELSE IF l \in ReturnRegisters(Current(t).ret) THEN cpu[t][l] ELSE Junk]
      BY <2>1, <2>4 DEF RestoreLeave
    <3> QED
      BY <2>2, <3>2, <3>3 DEF Keeps
  <2>5. ASSUME BindEnter(t) \/ RestoreEnter(t) PROVE FALSE
    <3>1. PICK f, file : frames'[t] = Calling(t, f, file) \/ frames'[t] = frames[t]
      BY <2>1, <2>5 DEF BindEnter, RestoreEnter
    <3>2. Len(Calling(t, f, file)) = Len(frames[t]) + 1
      BY <2>1, CallingLonger DEF Calling
    <3> QED
      BY <2>1, <3>1, <3>2
  <2>6. Native(t) => FALSE
    BY DEF Native, NativeReturn, NativeCall, At
  <2>7. ASSUME NEW u \in Threads, u # t, Thunk(u) \/ Native(u) PROVE frames'[t] = frames[t]
    BY <2>1, <2>7 DEF Thunk, Native, BindEnter, BindLeave, RestoreEnter, RestoreLeave,
       NativeCall, NativeReturn
  <2> QED
    BY <2>1, <2>3, <2>4, <2>5, <2>6, <2>7 DEF Next, Thunk
<1> QED
  BY <1>1, DataInvariance, PTL DEF Spec, ReturnsFaithfully
=============================================================================
