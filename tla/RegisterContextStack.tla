------------------------ MODULE RegisterContextStack ------------------------
(***************************************************************************)
(* The thread-local stack of src/src/Context.cpp through which a register  *)
(* binding thunk hands the address of its captured RegisterContext to the  *)
(* restore thunks called beneath it.  Pop only moves the index: what lies  *)
(* above it in the array is a stale pointer, never cleared.                *)
(***************************************************************************)
EXTENDS Integers, FiniteSets, Sequences

CONSTANTS
  Threads,
  Contexts,     \* the RegisterContext pointers, the null pointer among them
  NullContext,
  Capacity      \* 256 in the code

ASSUME CapacityAssumption == Capacity \in Nat \ {0}
ASSUME NullAssumption == NullContext \in Contexts

VARIABLES
  array,     \* array[t]: RegisterContextArray of thread t
  index,     \* index[t]: RegisterContextStackIndex of thread t
  result,    \* result[t]: what the last Top returned on thread t
  handler,   \* "default", or "test": a handler that leaves by longjmp
  message,   \* the last fatal message
  alive      \* FALSE after std::terminate

vars == <<array, index, result, handler, message, alive>>

Slots == 0..(Capacity - 1)

TypeOK ==
  /\ array \in [Threads -> [Slots -> Contexts]]
  /\ index \in [Threads -> {-1} \cup Slots]
  /\ result \in [Threads -> Contexts]
  /\ handler \in {"default", "test"}
  /\ message \in {"none", "overflow", "underflow", "empty"}
  /\ alive \in BOOLEAN

\* thread_local storage is zero-initialised; the index starts at -1.
Init ==
  /\ array = [t \in Threads |-> [s \in Slots |-> NullContext]]
  /\ index = [t \in Threads |-> -1]
  /\ result = [t \in Threads |-> NullContext]
  /\ handler = "default"
  /\ message = "none"
  /\ alive = TRUE

Empty(t) == index[t] = -1

FullOneLate(t) == index[t] = Capacity   \* mutant: the bound is the array's size
Full(t) == index[t] = Capacity - 1

TopEntry(t) == array[t][index[t]]

\* A handler that returned would be followed by std::terminate; the tests'
\* handler does not return, and the operation it interrupts did nothing.
HandleRegisterContextStackFatal(what) ==
  /\ message' = what
  /\ alive' = (handler = "test")
  /\ UNCHANGED <<array, index, result, handler>>

PushPostIncrement(t, c) ==   \* mutant: array[index++] = c
  \/ /\ ~Full(t)
     /\ index' = [index EXCEPT ![t] = @ + 1]
     /\ array' = [array EXCEPT ![t][index[t]] = c]
     /\ UNCHANGED <<result, handler, message, alive>>
  \/ /\ Full(t)
     /\ HandleRegisterContextStackFatal("overflow")

Push(t, c) ==
  \/ /\ ~Full(t)
     /\ index' = [index EXCEPT ![t] = @ + 1]
     /\ array' = [array EXCEPT ![t][index[t] + 1] = c]
     /\ UNCHANGED <<result, handler, message, alive>>
  \/ /\ Full(t)
     /\ HandleRegisterContextStackFatal("overflow")

Pop(t) ==
  \/ /\ ~Empty(t)
     /\ index' = [index EXCEPT ![t] = @ - 1]
     /\ UNCHANGED <<array, result, handler, message, alive>>
  \/ /\ Empty(t)
     /\ HandleRegisterContextStackFatal("underflow")

Top(t) ==
  \/ /\ ~Empty(t)
     /\ result' = [result EXCEPT ![t] = TopEntry(t)]
     /\ UNCHANGED <<array, index, handler, message, alive>>
  \/ /\ Empty(t)
     /\ HandleRegisterContextStackFatal("empty")

SetRegisterContextStackFatalHandler ==
  /\ handler' = "test"
  /\ UNCHANGED <<array, index, result, message, alive>>

ResetRegisterContextStackFatalHandler ==
  /\ handler' = "default"
  /\ UNCHANGED <<array, index, result, message, alive>>

Next ==
  /\ alive
  /\ \/ \E t \in Threads : Pop(t) \/ Top(t) \/ \E c \in Contexts : Push(t, c)
     \/ SetRegisterContextStackFatalHandler
     \/ ResetRegisterContextStackFatalHandler

Spec == Init /\ [][Next]_vars

-----------------------------------------------------------------------------
\* The part of an array the index i leaves reachable, bottom first.
Prefix(a, i) == [n \in 1..(i + 1) |-> a[n - 1]]

Abstract == INSTANCE BoundedStack WITH
  stack <- [t \in Threads |-> Prefix(array[t], index[t])],
  answer <- result,
  report <- message,
  running <- alive

\* The array and its index implement one bounded LIFO stack per thread: Top
\* answers with the last context pushed and not popped on the same thread, and
\* an overflow, underflow or empty Top that a handler survives loses nothing.
ImplementsBoundedStack == Abstract!Spec
=============================================================================
