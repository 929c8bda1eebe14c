---------------------------- MODULE BoundedStack ----------------------------
(***************************************************************************)
(* What the register-context stack promises its callers: every thread owns *)
(* a LIFO stack of at most Capacity contexts.  A call the stack cannot     *)
(* serve is reported, changes no stack, and may end the process.           *)
(***************************************************************************)
EXTENDS Integers, Sequences

CONSTANTS Threads, Contexts, Capacity

VARIABLES
  stack,    \* stack[t]: the contexts thread t has pushed and not popped
  answer,   \* answer[t]: the context the last Top of thread t returned
  report,   \* the last misuse that was reported
  running   \* FALSE once the process has been terminated

vars == <<stack, answer, report, running>>

Init ==
  /\ stack = [t \in Threads |-> <<>>]
  /\ answer \in [Threads -> Contexts]
  /\ report = "none"
  /\ running = TRUE

Refuse(what) ==
  /\ report' = what
  /\ running' \in BOOLEAN
  /\ UNCHANGED <<stack, answer>>

Push(t, c) ==
  \/ /\ Len(stack[t]) < Capacity
     /\ stack' = [stack EXCEPT ![t] = Append(@, c)]
     /\ UNCHANGED <<answer, report, running>>
  \/ /\ Len(stack[t]) = Capacity
     /\ Refuse("overflow")

Pop(t) ==
  \/ /\ stack[t] # <<>>
     /\ stack' = [stack EXCEPT ![t] = SubSeq(@, 1, Len(@) - 1)]
     /\ UNCHANGED <<answer, report, running>>
  \/ /\ stack[t] = <<>>
     /\ Refuse("underflow")

Top(t) ==
  \/ /\ stack[t] # <<>>
     /\ answer' = [answer EXCEPT ![t] = stack[t][Len(stack[t])]]
     /\ UNCHANGED <<stack, report, running>>
  \/ /\ stack[t] = <<>>
     /\ Refuse("empty")

Next ==
  /\ running
  /\ \E t \in Threads : Pop(t) \/ Top(t) \/ \E c \in Contexts : Push(t, c)

Spec == Init /\ [][Next]_vars
=============================================================================
