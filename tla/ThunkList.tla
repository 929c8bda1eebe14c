------------------------------- MODULE ThunkList -------------------------------
(***************************************************************************)
(* The registry with the list it really keeps: registrations chained       *)
(* through Next from a head pointer, linked in two assignments, found by   *)
(* a walk that holds the address of the pointer it last followed.  The     *)
(* variable `registered' of ThunkRegistry becomes what is reachable from   *)
(* the head; the steps that do not touch the list are ThunkRegistry's.     *)
(***************************************************************************)
EXTENDS ThunkRegistry, Integers

CONSTANTS
  Null,
  Head       \* the address of GRegisteredThunkWindowsUnwindHead

ASSUME PointersAssumption == Null \notin Nodes \cup {Head} /\ Head \notin Nodes

VARIABLES
  next,      \* next[Head] is the head pointer, next[n] is n->Next
  current    \* Current, the address of a pointer; Null outside the locked code

listVars == <<next, current>>
allVars == <<vars, listVars>>

\* What a walk that holds the address p has before it: the registration the pointer
\* there leads to, and with a registration the one it leads to, and no others.
Ahead(pointers, p) ==
  {n \in Nodes : \A S \in SUBSET Nodes :
     (\A q \in S \cup {p} : pointers[q] \in S \cup {Null}) => n \in S}
Linked(pointers) == Ahead(pointers, Head)

ListInit ==
  /\ Init
  /\ next = [p \in Nodes \cup {Head} |-> Null]
  /\ current = [t \in Threads |-> Null]

-----------------------------------------------------------------------------
ListAllocates(t, n) ==
  /\ RegisterAllocates(t, n)
  /\ next' = [next EXCEPT ![n] = Null]
  /\ UNCHANGED current

\* Registration->Next = GRegisteredThunkWindowsUnwindHead
LinkNext(t) ==
  /\ pc[t] = "insert" /\ current[t] = Null
  /\ next' = [next EXCEPT ![node[t]] = next[Head]]
  /\ current' = [current EXCEPT ![t] = node[t]]
  /\ UNCHANGED vars

\* GRegisteredThunkWindowsUnwindHead = Registration; unlock; the FThunkPtr is returned
LinkHead(t) ==
  /\ current[t] = node[t]
  /\ Goto(t, "insert", "idle")
  /\ next' = [next EXCEPT ![Head] = node[t]]
  /\ current' = [current EXCEPT ![t] = Null]
  /\ registered' = Linked(next')
  /\ lock' = NoThread
  /\ owned' = owned \cup {addr[t]}
  /\ UNCHANGED <<addr, node, jit, unwinds, heap, thunkOf, table>>

-----------------------------------------------------------------------------
(* FThunkDeleter's walk *)

\* Current = &GRegisteredThunkWindowsUnwindHead
WalkStart(t) ==
  /\ pc[t] = "unlink" /\ current[t] = Null
  /\ current' = [current EXCEPT ![t] = Head]
  /\ UNCHANGED <<vars, next>>

AtNode(t) == next[current[t]]
Walking(t) == pc[t] = "unlink" /\ current[t] # Null

\* Current = &(*Current)->Next
WalkOn(t) ==
  /\ Walking(t)
  /\ AtNode(t) # Null /\ thunkOf[AtNode(t)] # addr[t]
  /\ current' = [current EXCEPT ![t] = AtNode(t)]
  /\ UNCHANGED <<vars, next>>

UnlinkAtHead(t) ==   \* mutant: the head is written, not the pointer that was followed
  /\ Walking(t)
  /\ AtNode(t) # Null /\ thunkOf[AtNode(t)] = addr[t]
  /\ Goto(t, "unlink", "deleteTable")
  /\ node' = [node EXCEPT ![t] = AtNode(t)]
  /\ next' = [next EXCEPT ![Head] = next[AtNode(t)]]
  /\ current' = [current EXCEPT ![t] = Null]
  /\ registered' = Linked(next')
  /\ UNCHANGED <<addr, lock, jit, unwinds, heap, thunkOf, table, owned>>

\* *Current = Registration->Next
WalkUnlink(t) ==
  /\ Walking(t)
  /\ AtNode(t) # Null /\ thunkOf[AtNode(t)] = addr[t]
  /\ Goto(t, "unlink", "deleteTable")
  /\ node' = [node EXCEPT ![t] = AtNode(t)]
  /\ next' = [next EXCEPT ![current[t]] = next[AtNode(t)]]
  /\ current' = [current EXCEPT ![t] = Null]
  /\ registered' = Linked(next')
  /\ UNCHANGED <<addr, lock, jit, unwinds, heap, thunkOf, table, owned>>

WalkEndKeepingLock(t) ==   \* mutant: only the found path unlocks
  /\ Walking(t) /\ AtNode(t) = Null
  /\ Goto(t, "unlink", "release")
  /\ current' = [current EXCEPT ![t] = Null]
  /\ UNCHANGED <<next, addr, node, lock, jit, unwinds, heap, thunkOf, registered, table, owned>>

\* The end of the list: the thunk never had unwind data.
WalkEnd(t) ==
  /\ Walking(t) /\ AtNode(t) = Null
  /\ Goto(t, "unlink", "release")
  /\ current' = [current EXCEPT ![t] = Null]
  /\ lock' = NoThread
  /\ UNCHANGED <<next, addr, node, jit, unwinds, heap, thunkOf, registered, table, owned>>

-----------------------------------------------------------------------------
OffList(t) ==
  /\ \/ RegisterFails(t) \/ AddTable(t) \/ AddTableFails(t) \/ Acquire(t)
     \/ Unroll(t) \/ DeleteTable(t) \/ FreeNode(t) \/ Release(t)
  /\ UNCHANGED listVars

ListContinue(t) ==
  \/ OffList(t) \/ \E n \in Nodes : ListAllocates(t, n)
  \/ LinkNext(t) \/ LinkHead(t)
  \/ WalkStart(t) \/ WalkOn(t) \/ WalkUnlink(t) \/ WalkEnd(t)

ListStart(t) == Start(t) /\ UNCHANGED listVars

ListNext == \E t \in Threads : ListStart(t) \/ ListContinue(t)

ListSpec == ListInit /\ [][ListNext]_allVars
ListFairSpec == ListSpec /\ \A t \in Threads : WF_allVars(ListContinue(t))

-----------------------------------------------------------------------------
ListTypeOK ==
  /\ next \in [Nodes \cup {Head} -> Nodes \cup {Null}]
  /\ current \in [Threads -> Nodes \cup {Head, Null}]

\* The rest of the inductive invariant.  No two pointers in the list lead to the same
\* registration.
ChainInv ==
  /\ registered = Linked(next)
  /\ \A p, q \in registered \cup {Head} : next[p] = next[q] /\ next[p] # Null => p = q

\* A thread holds an address only where it owns the mutex: that of the registration it
\* is about to put in front, or one the walk has followed with the registration of its
\* own thunk still ahead, if that is in the list at all.
CurrentInv ==
  \A t \in Threads : current[t] # Null =>
    \/ pc[t] = "insert" /\ current[t] = node[t] /\ next[node[t]] = next[Head]
    \/ /\ pc[t] = "unlink" /\ current[t] \in registered \cup {Head}
       /\ \A n \in registered : thunkOf[n] = addr[t] => n \in Ahead(next, current[t])

\* Every registration a walk can come upon is allocated, and what a walk stands on
\* is the head or a registration still in the list: neither a step of this thread
\* nor one of another frees or unlinks what is about to be dereferenced.
WalkIsSafe ==
  /\ registered = Linked(next)
  /\ \A t \in Threads :
       Walking(t) => current[t] \in registered \cup {Head} /\ AtNode(t) \in heap \cup {Null}

\* The list of pointers implements the set of registrations ThunkRegistry reasons
\* about: linking adds one registration, unlinking removes one and keeps all others,
\* and a walk misses none.
ImplementsRegistry == Spec
=============================================================================
