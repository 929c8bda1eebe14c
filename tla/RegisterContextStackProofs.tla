--------------------- MODULE RegisterContextStackProofs ---------------------
(***************************************************************************)
(* The array and index of Context.cpp implement BoundedStack, whatever the *)
(* threads, the contexts and the capacity.                                 *)
(***************************************************************************)
EXTENDS RegisterContextStack, SequenceTheorems, TLAPS

\* A fatal report leaves every stack alone; the process ends or a handler escapes.
LEMMA FatalReport ==
  ASSUME TypeOK, NEW what \in {"overflow", "underflow", "empty"},
         HandleRegisterContextStackFatal(what)
  PROVE  /\ TypeOK'
         /\ message' = what
         /\ alive' \in BOOLEAN
         /\ UNCHANGED <<array, index, result>>
<1>1. alive' \in BOOLEAN
  BY Zenon DEF HandleRegisterContextStackFatal
<1> QED
  BY <1>1 DEF HandleRegisterContextStackFatal, TypeOK

\* The index never leaves -1 .. Capacity-1 and the array is only written within
\* its bounds, on every thread and after any mix of survived fatal reports.
THEOREM TypeCorrect == Spec => []TypeOK
<1>1. Init => TypeOK
  BY CapacityAssumption, NullAssumption DEF Init, TypeOK, Slots
<1>2. TypeOK /\ [Next]_vars => TypeOK'
  <2> SUFFICES ASSUME TypeOK, [Next]_vars PROVE TypeOK'
    OBVIOUS
  <2> USE CapacityAssumption DEF TypeOK, Slots
  <2>1. ASSUME NEW t \in Threads, NEW c \in Contexts, Push(t, c) PROVE TypeOK'
    <3>1. CASE ~Full(t)
      <4>1. /\ index' = [index EXCEPT ![t] = @ + 1]
            /\ array' = [array EXCEPT ![t][index[t] + 1] = c]
            /\ UNCHANGED <<result, handler, message, alive>>
        BY <2>1, <3>1 DEF Push
      <4>2. index[t] + 1 \in Slots
        BY <3>1 DEF Full
      <4> QED
        BY <4>1, <4>2
    <3>2. CASE Full(t)
      BY <2>1, <3>2, FatalReport DEF Push
    <3> QED
      BY <3>1, <3>2
  <2>2. ASSUME NEW t \in Threads, Pop(t) PROVE TypeOK'
    BY <2>2, FatalReport DEF Pop, Empty
  <2>3. ASSUME NEW t \in Threads, Top(t) PROVE TypeOK'
    BY <2>3, FatalReport DEF Top, Empty, TopEntry
  <2>4. CASE SetRegisterContextStackFatalHandler \/ ResetRegisterContextStackFatalHandler
    BY <2>4 DEF SetRegisterContextStackFatalHandler, ResetRegisterContextStackFatalHandler
  <2>5. CASE UNCHANGED vars
    BY <2>5 DEF vars
  <2> QED
    BY <2>1, <2>2, <2>3, <2>4, <2>5 DEF Next
<1> QED
  BY <1>1, <1>2, PTL DEF Spec

-----------------------------------------------------------------------------
\* The reachable part of an array is a sequence as long as its index says.
LEMMA PrefixIsSeq ==
  ASSUME NEW a \in [Slots -> Contexts], NEW i \in {-1} \cup Slots
  PROVE  /\ Prefix(a, i) \in Seq(Contexts)
         /\ Len(Prefix(a, i)) = i + 1
         /\ \A n \in 1..(i + 1) : Prefix(a, i)[n] = a[n - 1]
<1>1. i + 1 \in Nat /\ \A n \in 1..(i + 1) : a[n - 1] \in Contexts
  BY CapacityAssumption DEF Slots
<1> QED
  BY <1>1 DEF Prefix

\* Storing above the index and advancing it appends; this is why Push counts first.
LEMMA PrefixPush ==
  ASSUME NEW a \in [Slots -> Contexts], NEW i \in {-1} \cup Slots,
         i # Capacity - 1, NEW c \in Contexts
  PROVE  Prefix([a EXCEPT ![i + 1] = c], i + 1) = Append(Prefix(a, i), c)
<1> DEFINE b == [a EXCEPT ![i + 1] = c]
<1>1. i + 1 \in Slots /\ b \in [Slots -> Contexts]
  BY CapacityAssumption DEF Slots
<1> HIDE DEF b
<1>2. Prefix(b, i + 1) \in Seq(Contexts) /\ Len(Prefix(b, i + 1)) = i + 2
  <2>1. Len(Prefix(b, i + 1)) = (i + 1) + 1 /\ Prefix(b, i + 1) \in Seq(Contexts)
    BY <1>1, PrefixIsSeq
  <2> QED
    BY <2>1 DEF Slots
<1>3. Append(Prefix(a, i), c) \in Seq(Contexts) /\ Len(Append(Prefix(a, i), c)) = i + 2
  BY PrefixIsSeq, AppendProperties DEF Slots
<1>4. ASSUME NEW n \in 1..(i + 2) PROVE Prefix(b, i + 1)[n] = Append(Prefix(a, i), c)[n]
  <2>1. Prefix(b, i + 1)[n] = b[n - 1]
    BY DEF Slots, Prefix
  <2>2. CASE n = i + 2
    <3>1. Append(Prefix(a, i), c)[n] = c
      BY <2>2, PrefixIsSeq, AppendProperties DEF Slots
    <3>2. b[n - 1] = c
      BY <1>1, <2>2 DEF b, Slots
    <3> QED
      BY <2>1, <3>1, <3>2
  <2>3. CASE n \in 1..(i + 1)
    <3>1. Append(Prefix(a, i), c)[n] = a[n - 1]
      BY <2>3, PrefixIsSeq, AppendProperties
    <3>2. b[n - 1] = a[n - 1]
      BY <1>1, <2>3, CapacityAssumption DEF b, Slots
    <3> QED
      BY <2>1, <3>1, <3>2
  <2> QED
    BY <2>2, <2>3, CapacityAssumption DEF Slots
<1>5. \A n \in 1..Len(Prefix(b, i + 1)) : Prefix(b, i + 1)[n] = Append(Prefix(a, i), c)[n]
  BY <1>2, <1>4
<1>6. Prefix(b, i + 1) = Append(Prefix(a, i), c)
  BY <1>2, <1>3, <1>5, SeqEqual
<1> QED
  BY <1>6 DEF b

\* Lowering the index drops the last entry, without clearing it.
LEMMA PrefixPop ==
  ASSUME NEW a \in [Slots -> Contexts], NEW i \in Slots
  PROVE  Prefix(a, i - 1) = SubSeq(Prefix(a, i), 1, Len(Prefix(a, i)) - 1)
<1> DEFINE p == Prefix(a, i - 1)
           q == SubSeq(Prefix(a, i), 1, i)
<1>1. i - 1 \in {-1} \cup Slots
  BY CapacityAssumption DEF Slots
<1>2. p \in Seq(Contexts) /\ Len(p) = i /\ \A n \in 1..i : p[n] = a[n - 1]
  <2>1. p \in Seq(Contexts) /\ Len(p) = (i - 1) + 1 /\ \A n \in 1..((i - 1) + 1) : p[n] = a[n - 1]
    BY <1>1, PrefixIsSeq
  <2> QED
    BY <2>1 DEF Slots
<1>3. q \in Seq(Contexts) /\ Len(q) = i /\ \A n \in 1..i : q[n] = a[n - 1]
  <2>1. i \in Int /\ i >= 0
    BY CapacityAssumption DEF Slots
  <2>2. \A n \in 1..i : Prefix(a, i)[n] = a[n - 1] /\ a[n - 1] \in Contexts
    BY PrefixIsSeq, CapacityAssumption DEF Slots
  <2>3. q \in Seq(Contexts) /\ Len(q) = (IF 1 <= i THEN i - 1 + 1 ELSE 0)
        /\ \A n \in 1..(i - 1 + 1) : q[n] = Prefix(a, i)[1 + n - 1]
    BY <2>1, <2>2, SubSeqProperties
  <2> QED
    BY <2>1, <2>2, <2>3
<1>4. p = q
  BY <1>2, <1>3, SeqEqual
<1> QED
  BY <1>4, PrefixIsSeq DEF Slots

\* Every step of the array implementation is a step of BoundedStack.
LEMMA StepRefines ==
  ASSUME TypeOK, [Next]_vars
  PROVE  [Abstract!Next]_(Abstract!vars)
<1> DEFINE S == [t \in Threads |-> Prefix(array[t], index[t])]
<1> USE CapacityAssumption
<1>0. ASSUME NEW t \in Threads
      PROVE  /\ array[t] \in [Slots -> Contexts]
             /\ index[t] \in {-1} \cup Slots
             /\ Len(S[t]) = index[t] + 1
             /\ S[t] \in Seq(Contexts)
             /\ index[t] # -1 => S[t] # <<>> /\ S[t][Len(S[t])] = TopEntry(t)
             /\ index[t] = -1 => S[t] = <<>>
  <2>1. array[t] \in [Slots -> Contexts] /\ index[t] \in {-1} \cup Slots
    BY DEF TypeOK
  <2>2. /\ S[t] \in Seq(Contexts)
        /\ Len(S[t]) = index[t] + 1
        /\ \A n \in 1..(index[t] + 1) : S[t][n] = array[t][n - 1]
    BY <2>1, PrefixIsSeq
  <2>3. index[t] # -1 => index[t] + 1 \in 1..(index[t] + 1)
    BY <2>1 DEF Slots
  <2>4. index[t] # -1 => S[t] # <<>> /\ S[t][Len(S[t])] = TopEntry(t)
    BY <2>1, <2>2, <2>3 DEF TopEntry, Slots
  <2> QED
    BY <2>1, <2>2, <2>4
<1>1. ASSUME NEW t \in Threads, NEW c \in Contexts, Push(t, c)
      PROVE  Abstract!Push(t, c)
  <2>1. CASE ~Full(t)
    <3>1. /\ index' = [index EXCEPT ![t] = @ + 1]
          /\ array' = [array EXCEPT ![t][index[t] + 1] = c]
          /\ UNCHANGED <<result, message, alive>>
      BY <1>1, <2>1 DEF Push
    <3>2. Prefix(array'[t], index'[t]) = Append(S[t], c)
      BY <1>0, <2>1, <3>1, PrefixPush DEF TypeOK, Full
    <3>3. S' = [S EXCEPT ![t] = Append(@, c)]
      BY <3>1, <3>2 DEF TypeOK
    <3>4. Len(S[t]) < Capacity
      BY <1>0, <2>1 DEF Full, Slots
    <3> QED
      BY <3>1, <3>3, <3>4 DEF Abstract!Push
  <2>2. CASE Full(t)
    <3>1. Len(S[t]) = Capacity
      BY <1>0, <2>2 DEF Full
    <3>2. HandleRegisterContextStackFatal("overflow")
      BY <1>1, <2>2 DEF Push
    <3>3. S' = S /\ alive' \in BOOLEAN /\ UNCHANGED result /\ message' = "overflow"
      BY <3>2, FatalReport
    <3> QED
      BY <3>1, <3>3 DEF Abstract!Push, Abstract!Refuse
  <2> QED
    BY <2>1, <2>2
<1>2. ASSUME NEW t \in Threads, Pop(t) PROVE Abstract!Pop(t)
  <2>1. CASE ~Empty(t)
    <3>1. index' = [index EXCEPT ![t] = @ - 1] /\ UNCHANGED <<array, result, message, alive>>
      BY <1>2, <2>1 DEF Pop
    <3>2. Prefix(array'[t], index'[t]) = SubSeq(S[t], 1, Len(S[t]) - 1)
      BY <1>0, <2>1, <3>1, PrefixPop DEF TypeOK, Empty
    <3>3. S' = [S EXCEPT ![t] = SubSeq(@, 1, Len(@) - 1)]
      BY <3>1, <3>2 DEF TypeOK
    <3> QED
      BY <1>0, <2>1, <3>1, <3>3 DEF Abstract!Pop, Empty
  <2>2. CASE Empty(t)
    <3>1. HandleRegisterContextStackFatal("underflow")
      BY <1>2, <2>2 DEF Pop
    <3>2. S' = S /\ alive' \in BOOLEAN /\ UNCHANGED result /\ message' = "underflow"
      BY <3>1, FatalReport
    <3> QED
      BY <1>0, <2>2, <3>2 DEF Abstract!Pop, Abstract!Refuse, Empty
  <2> QED
    BY <2>1, <2>2
<1>3. ASSUME NEW t \in Threads, Top(t) PROVE Abstract!Top(t)
  <2>1. CASE ~Empty(t)
    <3>1. /\ result' = [result EXCEPT ![t] = TopEntry(t)]
          /\ UNCHANGED <<array, index, message, alive>>
      BY <1>3, <2>1 DEF Top
    <3> QED
      BY <1>0, <2>1, <3>1 DEF Abstract!Top, Empty
  <2>2. CASE Empty(t)
    <3>1. HandleRegisterContextStackFatal("empty")
      BY <1>3, <2>2 DEF Top
    <3>2. S' = S /\ alive' \in BOOLEAN /\ UNCHANGED result /\ message' = "empty"
      BY <3>1, FatalReport
    <3> QED
      BY <1>0, <2>2, <3>2 DEF Abstract!Top, Abstract!Refuse, Empty
  <2> QED
    BY <2>1, <2>2
<1>4. CASE SetRegisterContextStackFatalHandler \/ ResetRegisterContextStackFatalHandler
  BY <1>4 DEF SetRegisterContextStackFatalHandler, ResetRegisterContextStackFatalHandler,
     Abstract!vars
<1>5. CASE UNCHANGED vars
  BY <1>5 DEF vars, Abstract!vars
<1> QED
  BY <1>1, <1>2, <1>3, <1>4, <1>5 DEF Next, Abstract!Next

\* Push, Pop and Top of Context.cpp behave as one bounded LIFO stack per thread.
THEOREM StackRefinement == Spec => ImplementsBoundedStack
<1>1. Init => Abstract!Init
  BY CapacityAssumption, NullAssumption DEF Init, Abstract!Init, Prefix
<1>2. TypeOK /\ [Next]_vars => [Abstract!Next]_(Abstract!vars)
  BY StepRefines
<1> QED
  BY <1>1, <1>2, TypeCorrect, PTL DEF Spec, Abstract!Spec, ImplementsBoundedStack
=============================================================================
