---------------------------- MODULE ThunkRegistry ----------------------------
(***************************************************************************)
(* The life of a generated thunk on Windows: AddThunkToRuntime puts its    *)
(* code in the JIT runtime and RegisterThunkWindowsUnwind its unwind data  *)
(* in the system's function table; FThunkDeleter takes both back.  Threads *)
(* generate and destroy thunks concurrently; the mutex guards only the     *)
(* list of registrations, not the calls around it.                         *)
(***************************************************************************)
EXTENDS FiniteSets

CONSTANTS
  Threads,
  Addresses,  \* where the JIT runtime can place code
  Nodes,      \* where malloc can place an FRegisteredThunkWindowsUnwind
  NoThread

ASSUME NoThreadAssumption == NoThread \notin Threads
ASSUME PlacesAssumption == Addresses # {} /\ Nodes # {}

VARIABLES
  pc,          \* pc[t]: where thread t is in the library
  addr, node,  \* the thunk and the registration it works on
  lock,        \* GRegisteredThunkWindowsUnwindMutex: its owner
  jit,         \* addresses allocated in the JIT runtime
  unwinds,     \* addresses whose code was generated with unwind data
  heap,        \* allocated registrations
  thunkOf,     \* Registration->Thunk
  registered,  \* the list that starts at GRegisteredThunkWindowsUnwindHead
  table,       \* the function table: pairs <<base address, registration>>
  owned        \* addresses held by an FThunkPtr

vars == <<pc, addr, node, lock, jit, unwinds, heap, thunkOf, registered, table, owned>>

Generating == {"register", "addTable", "awaitInsert", "insert", "unroll"}
Destroying == {"awaitUnlink", "unlink", "deleteTable", "free", "release"}
Locking == {"insert", "unlink", "deleteTable", "free"}

Init ==
  /\ pc = [t \in Threads |-> "idle"]
  /\ addr \in [Threads -> Addresses]
  /\ node \in [Threads -> Nodes]
  /\ thunkOf \in [Nodes -> Addresses]
  /\ \A s, t \in Threads : addr[s] = addr[t] /\ node[s] = node[t]
  /\ \A m, n \in Nodes : thunkOf[m] = thunkOf[n]
  /\ lock = NoThread
  /\ jit = {} /\ unwinds = {} /\ heap = {} /\ registered = {} /\ table = {} /\ owned = {}

Goto(t, from, to) == pc[t] = from /\ pc' = [pc EXCEPT ![t] = to]

-----------------------------------------------------------------------------
(* AddThunkToRuntime *)

\* The runtime's add succeeds at some free address.  A thunk whose generator
\* has no unwind data is returned without further ado.
JitAdd(t, a) ==
  /\ a \notin jit
  /\ jit' = jit \cup {a}
  /\ addr' = [addr EXCEPT ![t] = a]
  /\ \/ /\ Goto(t, "idle", "register")
        /\ unwinds' = unwinds \cup {a}
        /\ UNCHANGED owned
     \/ /\ Goto(t, "idle", "idle")
        /\ unwinds' = unwinds \ {a}
        /\ owned' = owned \cup {a}
  /\ UNCHANGED <<node, lock, heap, thunkOf, registered, table>>

\* Malformed offsets, or malloc returned null.
RegisterFails(t) ==
  /\ Goto(t, "register", "unroll")
  /\ UNCHANGED <<addr, node, lock, jit, unwinds, heap, thunkOf, registered, table, owned>>

RegisterAllocates(t, n) ==
  /\ Goto(t, "register", "addTable")
  /\ n \notin heap
  /\ heap' = heap \cup {n}
  /\ node' = [node EXCEPT ![t] = n]
  /\ thunkOf' = [thunkOf EXCEPT ![n] = addr[t]]
  /\ UNCHANGED <<addr, lock, jit, unwinds, registered, table, owned>>

\* RtlAddFunctionTable, before the mutex is taken.
AddTable(t) ==
  /\ Goto(t, "addTable", "awaitInsert")
  /\ table' = table \cup {<<addr[t], node[t]>>}
  /\ UNCHANGED <<addr, node, lock, jit, unwinds, heap, thunkOf, registered, owned>>

AddTableFailsLeaking(t) ==   \* mutant: the registration is not freed
  /\ Goto(t, "addTable", "unroll")
  /\ UNCHANGED <<addr, node, lock, jit, unwinds, heap, thunkOf, registered, table, owned>>

AddTableFails(t) ==
  /\ Goto(t, "addTable", "unroll")
  /\ heap' = heap \ {node[t]}
  /\ UNCHANGED <<addr, node, lock, jit, unwinds, thunkOf, registered, table, owned>>

AcquireUnchecked(t) ==   \* mutant: the scoped_lock is missing
  /\ \/ Goto(t, "awaitInsert", "insert")
     \/ Goto(t, "awaitUnlink", "unlink")
  /\ lock' = t
  /\ UNCHANGED <<addr, node, jit, unwinds, heap, thunkOf, registered, table, owned>>

\* The constructor of either scoped_lock.
Acquire(t) ==
  /\ \/ Goto(t, "awaitInsert", "insert")
     \/ Goto(t, "awaitUnlink", "unlink")
  /\ lock = NoThread
  /\ lock' = t
  /\ UNCHANGED <<addr, node, jit, unwinds, heap, thunkOf, registered, table, owned>>

\* Link at the head, unlock, return the FThunkPtr.
Insert(t) ==
  /\ Goto(t, "insert", "idle")
  /\ registered' = registered \cup {node[t]}
  /\ lock' = NoThread
  /\ owned' = owned \cup {addr[t]}
  /\ UNCHANGED <<addr, node, jit, unwinds, heap, thunkOf, table>>

\* Registration failed: AddThunkToRuntime releases the code and reports the error.
Unroll(t) ==
  /\ Goto(t, "unroll", "idle")
  /\ jit' = jit \ {addr[t]}
  /\ UNCHANGED <<addr, node, lock, unwinds, heap, thunkOf, registered, table, owned>>

-----------------------------------------------------------------------------
(* FThunkDeleter: on whichever thread the FThunkPtr ends up *)

DestroyReleasingFirst(t, a) ==   \* mutant: the code is released before the walk
  /\ Goto(t, "idle", "awaitUnlink")
  /\ a \in owned
  /\ owned' = owned \ {a}
  /\ jit' = jit \ {a}
  /\ addr' = [addr EXCEPT ![t] = a]
  /\ UNCHANGED <<node, lock, unwinds, heap, thunkOf, registered, table>>

Destroy(t, a) ==
  /\ Goto(t, "idle", "awaitUnlink")
  /\ a \in owned
  /\ owned' = owned \ {a}
  /\ addr' = [addr EXCEPT ![t] = a]
  /\ UNCHANGED <<node, lock, jit, unwinds, heap, thunkOf, registered, table>>

\* The walk finds the registration of this thunk and unlinks it.
Unlink(t) ==
  /\ Goto(t, "unlink", "deleteTable")
  /\ \E n \in registered :
       /\ thunkOf[n] = addr[t]
       /\ registered' = registered \ {n}
       /\ node' = [node EXCEPT ![t] = n]
  /\ UNCHANGED <<addr, lock, jit, unwinds, heap, thunkOf, table, owned>>

\* The walk reaches the end of the list: the thunk never had unwind data.
NotFound(t) ==
  /\ Goto(t, "unlink", "release")
  /\ \A n \in registered : thunkOf[n] # addr[t]
  /\ lock' = NoThread
  /\ UNCHANGED <<addr, node, jit, unwinds, heap, thunkOf, registered, table, owned>>

DeleteTableFreeing(t) ==   \* mutant: free runs before RtlDeleteFunctionTable
  /\ Goto(t, "deleteTable", "free")
  /\ heap' = heap \ {node[t]}
  /\ UNCHANGED <<addr, node, lock, jit, unwinds, thunkOf, registered, table, owned>>

\* RtlDeleteFunctionTable
DeleteTable(t) ==
  /\ Goto(t, "deleteTable", "free")
  /\ table' = table \ {<<addr[t], node[t]>>}
  /\ UNCHANGED <<addr, node, lock, jit, unwinds, heap, thunkOf, registered, owned>>

\* std::free, then the end of the locked block
FreeNode(t) ==
  /\ Goto(t, "free", "release")
  /\ heap' = heap \ {node[t]}
  /\ lock' = NoThread
  /\ UNCHANGED <<addr, node, jit, unwinds, thunkOf, registered, table, owned>>

Release(t) ==
  /\ Goto(t, "release", "idle")
  /\ jit' = jit \ {addr[t]}
  /\ UNCHANGED <<addr, node, lock, unwinds, heap, thunkOf, registered, table, owned>>

-----------------------------------------------------------------------------
\* What a thread does once inside the library.
Continue(t) ==
  \/ RegisterFails(t) \/ \E n \in Nodes : RegisterAllocates(t, n)
  \/ AddTable(t) \/ AddTableFails(t) \/ Acquire(t) \/ Insert(t) \/ Unroll(t)
  \/ Unlink(t) \/ NotFound(t) \/ DeleteTable(t) \/ FreeNode(t) \/ Release(t)

Start(t) == \E a \in Addresses : JitAdd(t, a) \/ Destroy(t, a)

Next == \E t \in Threads : Start(t) \/ Continue(t)

\* The scheduler runs every thread that can run; nobody has to start anything.
Spec == Init /\ [][Next]_vars
FairSpec == Spec /\ \A t \in Threads : WF_vars(Continue(t))

-----------------------------------------------------------------------------
TypeOK ==
  /\ pc \in [Threads -> {"idle"} \cup Generating \cup Destroying]
  /\ addr \in [Threads -> Addresses]
  /\ node \in [Threads -> Nodes]
  /\ lock \in Threads \cup {NoThread}
  /\ jit \subseteq Addresses /\ unwinds \subseteq Addresses /\ owned \subseteq Addresses
  /\ heap \subseteq Nodes /\ registered \subseteq Nodes
  /\ thunkOf \in [Nodes -> Addresses]
  /\ table \subseteq Addresses \X Nodes

\* The parts of the inductive invariant.  A holder has a registration that is not
\* in the list, and between RtlAddFunctionTable and RtlDeleteFunctionTable the
\* function table has an entry for it.
Holding == {"addTable", "awaitInsert", "insert", "deleteTable", "free"}
Tabled == {"awaitInsert", "insert", "deleteTable"}
Removing == {"awaitUnlink", "unlink"}

LockInv == \A t \in Threads : lock = t <=> pc[t] \in Locking

\* Code nobody owns is worked on by exactly one thread.
CodeInv ==
  /\ owned \subseteq jit
  /\ \A t \in Threads : pc[t] # "idle" => addr[t] \in jit \ owned
  /\ \A s, t \in Threads :
       s # t /\ pc[s] # "idle" /\ pc[t] # "idle" => addr[s] # addr[t]
  /\ \A a \in jit \ owned : \E t \in Threads : pc[t] # "idle" /\ addr[t] = a
  /\ \A t \in Threads : pc[t] \in Generating \ {"unroll"} => addr[t] \in unwinds

\* A registration is in the list or in the hands of one thread.
HeapInv ==
  /\ registered \subseteq heap
  /\ \A t \in Threads : pc[t] \in Holding =>
       node[t] \in heap \ registered /\ thunkOf[node[t]] = addr[t]
  /\ \A n \in heap \ registered : \E t \in Threads : pc[t] \in Holding /\ node[t] = n

\* The list holds one registration for each owned thunk with unwind data, and
\* those of the thunks whose deleter has not reached them.
ListInv ==
  /\ \A m, n \in registered : thunkOf[m] = thunkOf[n] => m = n
  /\ \A n \in registered :
       /\ thunkOf[n] \in unwinds
       /\ \/ thunkOf[n] \in owned
          \/ \E t \in Threads : pc[t] \in Removing /\ addr[t] = thunkOf[n]
  /\ \A a \in owned \cap unwinds : \E n \in registered : thunkOf[n] = a

TableInv ==
  \A a \in Addresses, n \in Nodes :
    <<a, n>> \in table <=>
      /\ thunkOf[n] = a
      /\ n \in registered \/ \E t \in Threads : pc[t] \in Tabled /\ node[t] = n

\* Who may touch what: the mutex, every piece of code, every registration and
\* every function-table entry has exactly the owner its phase of life gives it.
RegistryInv == TypeOK /\ LockInv /\ CodeInv /\ HeapInv /\ ListInv /\ TableInv

\* Whatever an exception finds in the function table can be read: the entry lies
\* in an allocated registration and covers the code of that very registration.
TableSound ==
  \A a \in Addresses, n \in Nodes :
    <<a, n>> \in table => n \in heap /\ a \in jit /\ thunkOf[n] = a

\* A thunk that someone owns and that has unwind data can be unwound, by exactly
\* one entry, whatever other threads register or remove meanwhile.
OwnedUnwinds ==
  \A a \in owned \cap unwinds : \E n \in Nodes :
    {m \in Nodes : <<a, m>> \in table} = {n}

\* With no thread in the library nothing is left behind: code, registrations and
\* table entries are those of the thunks somebody owns.
NoLeak ==
  (\A t \in Threads : pc[t] = "idle") =>
    /\ jit = owned
    /\ heap = registered
    /\ table = {<<thunkOf[n], n>> : n \in registered}
    /\ {thunkOf[n] : n \in registered} = owned \cap unwinds

\* The mutex is held by no one forever.
LockIsReleased == \A t \in Threads : (lock = t) ~> (lock # t)

\* The phase of life of the code at an address, and the addresses covered.
Phase(a) ==
  IF a \notin jit THEN "free"
  ELSE IF a \in owned THEN "owned"
  ELSE IF \E t \in Threads : addr[t] = a /\ pc[t] \in Generating THEN "building"
  ELSE "doomed"
CoveredSet == {a \in Addresses : \E n \in Nodes : <<a, n>> \in table}

Lifetime == INSTANCE ThunkLifetime WITH
  phase <- [a \in Addresses |-> Phase(a)],
  covered <- CoveredSet

\* The registry implements the lifetime an FThunkPtr promises: unwind data covers
\* code all the time somebody owns it, and no address is reused while covered.
ImplementsLifetime == Lifetime!Spec
=============================================================================
