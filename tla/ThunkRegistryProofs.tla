------------------------- MODULE ThunkRegistryProofs -------------------------
(***************************************************************************)
(* The registry is correct for any threads, addresses and registrations.   *)
(* RegistryInv is inductive: the mutex is only needed to say who walks the *)
(* list, and everything else follows from each piece of code having one    *)
(* worker at a time.                                                       *)
(*                                                                         *)
(* The list of pointers is then shown to be such a set: what lies ahead of *)
(* a pointer is the least set closed under Next, and no two pointers of    *)
(* the list lead to the same registration.                                 *)
(***************************************************************************)
EXTENDS ThunkList, TLAPS

USE DEF Generating, Destroying, Locking, Holding, Tabled, Removing

\* The sets and functions of the registry stay within their types.
LEMMA TypeStep == TypeOK /\ [Next]_vars => TypeOK'
<1> SUFFICES ASSUME TypeOK, [Next]_vars PROVE TypeOK'
  OBVIOUS
<1> USE DEF TypeOK, Goto
<1>1. ASSUME NEW t \in Threads, NEW a \in Addresses, JitAdd(t, a) PROVE TypeOK'
  BY <1>1 DEF JitAdd
<1>2. ASSUME NEW t \in Threads, NEW a \in Addresses, Destroy(t, a) PROVE TypeOK'
  BY <1>2 DEF Destroy
<1>3. ASSUME NEW t \in Threads, NEW n \in Nodes, RegisterAllocates(t, n) PROVE TypeOK'
  BY <1>3 DEF RegisterAllocates
<1>4. ASSUME NEW t \in Threads, RegisterFails(t) PROVE TypeOK'
  BY <1>4 DEF RegisterFails
<1>5. ASSUME NEW t \in Threads, AddTable(t) PROVE TypeOK'
  BY <1>5 DEF AddTable
<1>6. ASSUME NEW t \in Threads, AddTableFails(t) PROVE TypeOK'
  BY <1>6 DEF AddTableFails
<1>7. ASSUME NEW t \in Threads, Acquire(t) PROVE TypeOK'
  BY <1>7 DEF Acquire
<1>8. ASSUME NEW t \in Threads, Insert(t) PROVE TypeOK'
  BY <1>8 DEF Insert
<1>9. ASSUME NEW t \in Threads, Unroll(t) PROVE TypeOK'
  BY <1>9 DEF Unroll
<1>10. ASSUME NEW t \in Threads, Unlink(t) PROVE TypeOK'
  BY <1>10 DEF Unlink
<1>11. ASSUME NEW t \in Threads, NotFound(t) PROVE TypeOK'
  BY <1>11 DEF NotFound
<1>12. ASSUME NEW t \in Threads, DeleteTable(t) PROVE TypeOK'
  BY <1>12 DEF DeleteTable
<1>13. ASSUME NEW t \in Threads, FreeNode(t) PROVE TypeOK'
  BY <1>13 DEF FreeNode
<1>14. ASSUME NEW t \in Threads, Release(t) PROVE TypeOK'
  BY <1>14 DEF Release
<1>15. CASE UNCHANGED vars
  BY <1>15 DEF vars
<1> QED
  BY <1>1, <1>2, <1>3, <1>4, <1>5, <1>6, <1>7, <1>8, <1>9, <1>10, <1>11, <1>12, <1>13,
     <1>14, <1>15 DEF Next, Start, Continue

\* Whoever is inside a locked block is the owner of the mutex.
LEMMA LockStep == TypeOK /\ LockInv /\ [Next]_vars => LockInv'
<1> SUFFICES ASSUME TypeOK, LockInv, [Next]_vars PROVE LockInv'
  OBVIOUS
<1> USE NoThreadAssumption DEF TypeOK, LockInv, Goto
<1>1. ASSUME NEW t \in Threads, NEW a \in Addresses, JitAdd(t, a) \/ Destroy(t, a)
      PROVE LockInv'
  BY <1>1 DEF JitAdd, Destroy
<1>2. ASSUME NEW t \in Threads, Acquire(t) PROVE LockInv'
  BY <1>2 DEF Acquire
<1>3. ASSUME NEW t \in Threads, Insert(t) \/ NotFound(t) \/ FreeNode(t) PROVE LockInv'
  BY <1>3 DEF Insert, NotFound, FreeNode
<1>4. ASSUME NEW t \in Threads, Unlink(t) \/ DeleteTable(t) PROVE LockInv'
  BY <1>4 DEF Unlink, DeleteTable
<1>5. ASSUME NEW t \in Threads,
             \/ RegisterFails(t) \/ \E n \in Nodes : RegisterAllocates(t, n)
             \/ AddTable(t) \/ AddTableFails(t) \/ Unroll(t) \/ Release(t)
      PROVE LockInv'
  BY <1>5 DEF RegisterFails, RegisterAllocates, AddTable, AddTableFails, Unroll, Release
<1>6. CASE UNCHANGED vars
  BY <1>6 DEF vars
<1> QED
  BY <1>1, <1>2, <1>3, <1>4, <1>5, <1>6 DEF Next, Start, Continue

\* A piece of code changes hands as a whole: allocated to the thread that
\* generates it, published, taken by one deleter, and freed by it.
LEMMA CodeStep == TypeOK /\ CodeInv /\ [Next]_vars => CodeInv'
<1> SUFFICES ASSUME TypeOK, CodeInv, [Next]_vars PROVE CodeInv'
  OBVIOUS
<1> USE DEF TypeOK, CodeInv, Goto
<1>1. ASSUME NEW t \in Threads, NEW a \in Addresses, JitAdd(t, a) PROVE CodeInv'
  BY <1>1 DEF JitAdd
<1>2. ASSUME NEW t \in Threads, NEW a \in Addresses, Destroy(t, a) PROVE CodeInv'
  BY <1>2 DEF Destroy
<1>3. ASSUME NEW t \in Threads, Insert(t) PROVE CodeInv'
  BY <1>3 DEF Insert
<1>4. ASSUME NEW t \in Threads, Unroll(t) \/ Release(t) PROVE CodeInv'
  BY <1>4 DEF Unroll, Release
<1>5. ASSUME NEW t \in Threads,
             \/ RegisterFails(t) \/ \E n \in Nodes : RegisterAllocates(t, n)
             \/ AddTable(t) \/ AddTableFails(t) \/ Acquire(t)
      PROVE CodeInv'
  BY <1>5 DEF RegisterFails, RegisterAllocates, AddTable, AddTableFails, Acquire
<1>6. ASSUME NEW t \in Threads,
             Unlink(t) \/ NotFound(t) \/ DeleteTable(t) \/ FreeNode(t)
      PROVE CodeInv'
  BY <1>6 DEF Unlink, NotFound, DeleteTable, FreeNode
<1>7. CASE UNCHANGED vars
  BY <1>7 DEF vars
<1> QED
  BY <1>1, <1>2, <1>3, <1>4, <1>5, <1>6, <1>7 DEF Next, Start, Continue

\* Two threads never hold one registration, because they work on different code.
LEMMA HolderIsUnique ==
  ASSUME CodeInv, HeapInv, NEW s \in Threads, NEW t \in Threads,
         pc[s] \in Holding, pc[t] \in Holding, node[s] = node[t]
  PROVE  s = t
BY DEF CodeInv, HeapInv

\* A registration is allocated by one thread, handed to the list, taken out of it
\* by one thread and freed by that thread.
LEMMA HeapStep ==
  TypeOK /\ CodeInv /\ HeapInv /\ [Next]_vars => HeapInv'
<1> SUFFICES ASSUME TypeOK, CodeInv, HeapInv, [Next]_vars PROVE HeapInv'
  OBVIOUS
<1> USE DEF TypeOK, HeapInv, Goto
<1>1. ASSUME NEW t \in Threads, NEW a \in Addresses, JitAdd(t, a) PROVE HeapInv'
  BY <1>1 DEF JitAdd
<1>2. ASSUME NEW t \in Threads, NEW a \in Addresses, Destroy(t, a) PROVE HeapInv'
  BY <1>2 DEF Destroy
<1>3. ASSUME NEW t \in Threads, NEW n \in Nodes, RegisterAllocates(t, n) PROVE HeapInv'
  BY <1>3 DEF RegisterAllocates
<1>4. ASSUME NEW t \in Threads, AddTableFails(t) PROVE HeapInv'
  BY <1>4, HolderIsUnique DEF AddTableFails
<1>5. ASSUME NEW t \in Threads, Insert(t) PROVE HeapInv'
  BY <1>5, HolderIsUnique DEF Insert
<1>6. ASSUME NEW t \in Threads, Unlink(t) PROVE HeapInv'
  BY <1>6 DEF Unlink
<1>7. ASSUME NEW t \in Threads, FreeNode(t) PROVE HeapInv'
  BY <1>7, HolderIsUnique DEF FreeNode
<1>8. ASSUME NEW t \in Threads,
             \/ RegisterFails(t) \/ AddTable(t) \/ Acquire(t) \/ Unroll(t)
             \/ NotFound(t) \/ DeleteTable(t) \/ Release(t)
      PROVE HeapInv'
  BY <1>8 DEF RegisterFails, AddTable, Acquire, Unroll, NotFound, DeleteTable, Release
<1>9. CASE UNCHANGED vars
  BY <1>9 DEF vars
<1> QED
  BY <1>1, <1>2, <1>3, <1>4, <1>5, <1>6, <1>7, <1>8, <1>9 DEF Next, Start, Continue

\* The list loses a registration only to the deleter of its own thunk, and an
\* address is never generated again while a registration still names it.
LEMMA ListStep ==
  TypeOK /\ CodeInv /\ HeapInv /\ ListInv /\ [Next]_vars => ListInv'
<1> SUFFICES ASSUME TypeOK, CodeInv, HeapInv, ListInv, [Next]_vars PROVE ListInv'
  OBVIOUS
<1> USE DEF TypeOK, ListInv, Goto
<1>1. ASSUME NEW t \in Threads, NEW a \in Addresses, JitAdd(t, a) PROVE ListInv'
  <2>1. \A n \in registered : thunkOf[n] \in jit
    BY DEF CodeInv
  <2> QED
    BY <1>1, <2>1 DEF JitAdd, CodeInv
<1>2. ASSUME NEW t \in Threads, NEW a \in Addresses, Destroy(t, a) PROVE ListInv'
  BY <1>2 DEF Destroy
<1>3. ASSUME NEW t \in Threads, NEW n \in Nodes, RegisterAllocates(t, n) PROVE ListInv'
  BY <1>3 DEF RegisterAllocates, HeapInv
<1>4. ASSUME NEW t \in Threads, Insert(t) PROVE ListInv'
  <2>1. pc[t] = "insert" /\ addr[t] \in unwinds /\ addr[t] \notin owned
    BY <1>4 DEF Insert, CodeInv
  <2>2. thunkOf[node[t]] = addr[t]
    BY <2>1 DEF HeapInv
  <2>3. \A n \in registered : thunkOf[n] # addr[t]
    BY <2>1 DEF CodeInv
  <2> QED
    BY <1>4, <2>1, <2>2, <2>3 DEF Insert
<1>5. ASSUME NEW t \in Threads, Unlink(t) PROVE ListInv'
  <2>1. addr[t] \notin owned /\ pc[t] = "unlink"
    BY <1>5 DEF Unlink, CodeInv
  <2> QED
    BY <1>5, <2>1 DEF Unlink
<1>6. ASSUME NEW t \in Threads, NotFound(t) PROVE ListInv'
  BY <1>6 DEF NotFound
<1>7. ASSUME NEW t \in Threads, Acquire(t) PROVE ListInv'
  BY <1>7 DEF Acquire
<1>8. ASSUME NEW t \in Threads,
             \/ RegisterFails(t) \/ AddTable(t) \/ AddTableFails(t) \/ Unroll(t)
             \/ DeleteTable(t) \/ FreeNode(t) \/ Release(t)
      PROVE ListInv'
  BY <1>8 DEF RegisterFails, AddTable, AddTableFails, Unroll, DeleteTable, FreeNode, Release
<1>9. CASE UNCHANGED vars
  BY <1>9 DEF vars
<1> QED
  BY <1>1, <1>2, <1>3, <1>4, <1>5, <1>6, <1>7, <1>8, <1>9 DEF Next, Start, Continue

\* The function table has an entry for a registration from RtlAddFunctionTable on,
\* over all the time it is in the list, until RtlDeleteFunctionTable.
LEMMA TableStep ==
  TypeOK /\ CodeInv /\ HeapInv /\ TableInv /\ [Next]_vars => TableInv'
<1> DEFINE Covered(n) == n \in registered \/ \E t \in Threads : pc[t] \in Tabled /\ node[t] = n
           Entry(a, n) == <<a, n>> \in table <=> thunkOf[n] = a /\ Covered(n)
<1> SUFFICES ASSUME TypeOK, CodeInv, HeapInv, TableInv, [Next]_vars,
                    NEW a \in Addresses, NEW n \in Nodes
             PROVE Entry(a, n)'
  BY DEF TableInv
<1>0. Entry(a, n)
  BY DEF TableInv
<1> USE DEF TypeOK, Goto
<1>1. ASSUME NEW t \in Threads, NEW b \in Addresses, JitAdd(t, b) PROVE Entry(a, n)'
  <2>1. Covered(n)' <=> Covered(n)
    BY <1>1 DEF JitAdd
  <2> QED
    BY <1>0, <1>1, <2>1 DEF JitAdd
<1>2. ASSUME NEW t \in Threads, NEW b \in Addresses, Destroy(t, b) PROVE Entry(a, n)'
  <2>1. Covered(n)' <=> Covered(n)
    BY <1>2 DEF Destroy
  <2> QED
    BY <1>0, <1>2, <2>1 DEF Destroy
<1>3. ASSUME NEW t \in Threads, NEW m \in Nodes, RegisterAllocates(t, m) PROVE Entry(a, n)'
  <2>1. Covered(n)' <=> Covered(n)
    BY <1>3 DEF RegisterAllocates
  <2>2. ~Covered(m)
    BY <1>3 DEF RegisterAllocates, HeapInv
  <2>3. n # m => thunkOf'[n] = thunkOf[n]
    BY <1>3 DEF RegisterAllocates
  <2>4. table' = table
    BY <1>3 DEF RegisterAllocates
  <2> QED
    BY <1>0, <2>1, <2>2, <2>3, <2>4
<1>4. ASSUME NEW t \in Threads, AddTable(t) PROVE Entry(a, n)'
  <2>1. Covered(n)' <=> Covered(n) \/ n = node[t]
    BY <1>4 DEF AddTable
  <2>2. <<a, n>> \in table' <=> <<a, n>> \in table \/ (a = addr[t] /\ n = node[t])
    BY <1>4 DEF AddTable
  <2>3. thunkOf' = thunkOf /\ thunkOf[node[t]] = addr[t]
    BY <1>4 DEF AddTable, HeapInv
  <2> QED
    BY <1>0, <2>1, <2>2, <2>3
<1>5. ASSUME NEW t \in Threads, Insert(t) PROVE Entry(a, n)'
  <2>1. Covered(n)' <=> Covered(n)
    BY <1>5 DEF Insert
  <2> QED
    BY <1>0, <1>5, <2>1 DEF Insert
<1>6. ASSUME NEW t \in Threads, Unlink(t) PROVE Entry(a, n)'
  <2>1. Covered(n)' <=> Covered(n)
    BY <1>6 DEF Unlink
  <2> QED
    BY <1>0, <1>6, <2>1 DEF Unlink
<1>7. ASSUME NEW t \in Threads, DeleteTable(t) PROVE Entry(a, n)'
  <2>1. node[t] \notin registered /\ thunkOf[node[t]] = addr[t] /\ pc[t] \in Tabled
    BY <1>7 DEF DeleteTable, HeapInv
  <2>2. \A s \in Threads : pc[s] \in Tabled /\ node[s] = node[t] => s = t
    BY <2>1, HolderIsUnique
  <2>3. Covered(n)' <=> Covered(n) /\ n # node[t]
    BY <1>7, <2>1, <2>2 DEF DeleteTable
  <2>4. <<a, n>> \in table' <=> <<a, n>> \in table /\ ~(a = addr[t] /\ n = node[t])
    BY <1>7 DEF DeleteTable
  <2>5. thunkOf' = thunkOf
    BY <1>7 DEF DeleteTable
  <2> QED
    BY <1>0, <2>1, <2>3, <2>4, <2>5
<1>8. ASSUME NEW t \in Threads, Acquire(t) PROVE Entry(a, n)'
  <2>1. Covered(n)' <=> Covered(n)
    BY <1>8 DEF Acquire
  <2> QED
    BY <1>0, <1>8, <2>1 DEF Acquire
<1>9. ASSUME NEW t \in Threads,
             \/ RegisterFails(t) \/ AddTableFails(t) \/ Unroll(t)
             \/ NotFound(t) \/ FreeNode(t) \/ Release(t)
      PROVE Entry(a, n)'
  <2>1. UNCHANGED <<registered, table, thunkOf, node>>
    BY <1>9 DEF RegisterFails, AddTableFails, Unroll, NotFound, FreeNode, Release
  <2>2. pc[t] \notin Tabled /\ \E to : to \notin Tabled /\ pc' = [pc EXCEPT ![t] = to]
    BY <1>9 DEF RegisterFails, AddTableFails, Unroll, NotFound, FreeNode, Release
  <2>3. Covered(n)' <=> Covered(n)
    BY <2>1, <2>2
  <2> QED
    BY <1>0, <2>1, <2>3
<1>10. CASE UNCHANGED vars
  BY <1>0, <1>10 DEF vars
<1> QED
  BY <1>1, <1>2, <1>3, <1>4, <1>5, <1>6, <1>7, <1>8, <1>9, <1>10 DEF Next, Start, Continue

\* Every step keeps it.
LEMMA RegistryStep == RegistryInv /\ [Next]_vars => RegistryInv'
BY TypeStep, LockStep, CodeStep, HeapStep, ListStep, TableStep DEF RegistryInv

\* The ownership discipline of the registry holds in every reachable state.
THEOREM Registry == Spec => []RegistryInv
<1>1. Init => RegistryInv
  BY NoThreadAssumption
     DEF Init, RegistryInv, TypeOK, LockInv, CodeInv, HeapInv, ListInv, TableInv
<1> QED
  BY <1>1, RegistryStep, PTL DEF Spec

\* The function table never covers freed code nor reads freed unwind data.
THEOREM TableIsSound == Spec => []TableSound
<1>1. RegistryInv => TableSound
  BY DEF RegistryInv, TypeOK, CodeInv, HeapInv, ListInv, TableInv, TableSound
<1> QED
  BY <1>1, Registry, PTL

\* Every thunk that somebody owns and that has unwind data is covered, once.
THEOREM OwnedThunksUnwind == Spec => []OwnedUnwinds
<1>1. RegistryInv => OwnedUnwinds
  <2> SUFFICES ASSUME RegistryInv, NEW a \in owned \cap unwinds
               PROVE \E n \in Nodes : {m \in Nodes : <<a, m>> \in table} = {n}
    BY DEF OwnedUnwinds
  <2> USE DEF RegistryInv, TypeOK
  <2>1. PICK n \in registered : thunkOf[n] = a
    BY DEF ListInv
  <2>2. <<a, n>> \in table
    BY <2>1 DEF TableInv
  <2>3. ASSUME NEW m \in Nodes, <<a, m>> \in table PROVE m = n
    <3>1. thunkOf[m] = a
      BY <2>3 DEF TableInv
    <3>2. ~\E t \in Threads : pc[t] \in Tabled /\ node[t] = m
      BY <3>1 DEF CodeInv, HeapInv
    <3>3. m \in registered
      BY <2>3, <3>2 DEF TableInv
    <3> QED
      BY <2>1, <3>1, <3>3 DEF ListInv
  <2> QED
    BY <2>1, <2>2, <2>3
<1> QED
  BY <1>1, Registry, PTL

\* Between library calls the runtime, the heap, the list and the function table
\* hold what the owned thunks need and nothing else.
THEOREM NothingLeaks == Spec => []NoLeak
<1>1. RegistryInv => NoLeak
  <2> SUFFICES ASSUME RegistryInv, \A t \in Threads : pc[t] = "idle"
               PROVE /\ jit = owned
                     /\ heap = registered
                     /\ table = {<<thunkOf[n], n>> : n \in registered}
                     /\ {thunkOf[n] : n \in registered} = owned \cap unwinds
    BY DEF NoLeak
  <2> USE DEF RegistryInv, TypeOK
  <2>1. jit = owned
    BY DEF CodeInv
  <2>2. heap = registered
    BY DEF HeapInv
  <2>3. table = {<<thunkOf[n], n>> : n \in registered}
    <3>1. \A a \in Addresses, n \in Nodes :
            <<a, n>> \in table <=> n \in registered /\ a = thunkOf[n]
      BY DEF TableInv
    <3> QED
      BY <3>1
  <2>4. {thunkOf[n] : n \in registered} = owned \cap unwinds
    BY DEF ListInv
  <2> QED
    BY <2>1, <2>2, <2>3, <2>4
<1> QED
  BY <1>1, Registry, PTL

-----------------------------------------------------------------------------
(* Refinement of ThunkLifetime *)

\* What the invariant says of the mapping.
LEMMA PhaseOf ==
  ASSUME RegistryInv
  PROVE  /\ \A t \in Threads : pc[t] \in Generating => Phase(addr[t]) = "building"
         /\ \A t \in Threads : pc[t] \in Destroying => Phase(addr[t]) = "doomed"
         /\ \A a \in owned : Phase(a) = "owned"
         /\ \A a \in Addresses : Phase(a) = "free" <=> a \notin jit
BY DEF RegistryInv, CodeInv, Phase

\* Code without an entry of its own, because it has no registration yet or no
\* longer, has no entry at all.
LEMMA SoleEntry ==
  ASSUME RegistryInv, NEW t \in Threads, NEW n \in Nodes, <<addr[t], n>> \in table,
         pc[t] \notin {"idle", "awaitUnlink", "unlink"}
  PROVE  pc[t] \in Tabled /\ n = node[t]
<1> USE DEF RegistryInv, TypeOK
<1>1. thunkOf[n] = addr[t]
  BY DEF TableInv
<1>2. n \notin registered
  BY <1>1 DEF ListInv, CodeInv
<1>3. PICK s \in Threads : pc[s] \in Tabled /\ node[s] = n
  BY <1>2 DEF TableInv
<1>4. addr[s] = addr[t]
  BY <1>1, <1>3 DEF HeapInv
<1>5. s = t
  BY <1>3, <1>4 DEF CodeInv
<1> QED
  BY <1>3, <1>5

\* Every step of the registry moves one address through its life, or none.
LEMMA LifetimeStep ==
  ASSUME RegistryInv, RegistryInv', [Next]_vars
  PROVE  [Lifetime!Next]_(Lifetime!vars)
<1> DEFINE P == [a \in Addresses |-> Phase(a)]
<1> USE DEF Goto
<1>0. TypeOK /\ TypeOK'
  BY DEF RegistryInv
<1>1. ASSUME NEW t \in Threads, NEW a \in Addresses, JitAdd(t, a)
      PROVE  Lifetime!Allocate(a)
  <2>1. CoveredSet' = CoveredSet
    BY <1>1 DEF JitAdd, CoveredSet
  <2>2. \A b \in Addresses : b # a => Phase(b)' = Phase(b)
    BY <1>0, <1>1 DEF JitAdd, Phase, TypeOK
  <2>3. Phase(a) = "free"
    BY <1>1 DEF JitAdd, Phase
  <2>4. CASE pc'[t] = "register"
    <3>1. Phase(a)' = "building"
      BY <1>0, <1>1, <2>4, PhaseOf DEF JitAdd, Phase, TypeOK, RegistryInv, CodeInv
    <3>2. P' = [P EXCEPT ![a] = "building"]
      BY <2>2, <3>1
    <3>3. unwinds' = unwinds \cup {a}
      BY <1>0, <1>1, <2>4 DEF JitAdd, TypeOK
    <3> QED
      BY <2>1, <2>3, <3>2, <3>3 DEF Lifetime!Allocate, Lifetime!Move, Phase, CoveredSet
  <2>5. CASE pc'[t] # "register"
    <3>1. Phase(a)' = "owned"
      BY <1>0, <1>1, <2>5 DEF JitAdd, Phase, TypeOK
    <3>2. P' = [P EXCEPT ![a] = "owned"]
      BY <2>2, <3>1
    <3>3. unwinds' = unwinds \ {a}
      BY <1>0, <1>1, <2>5 DEF JitAdd, TypeOK
    <3> QED
      BY <2>1, <2>3, <3>2, <3>3 DEF Lifetime!Allocate, Lifetime!Move, Phase, CoveredSet
  <2> QED
    BY <2>4, <2>5
<1>2. ASSUME NEW t \in Threads, NEW a \in Addresses, a = addr[t], AddTable(t)
      PROVE  Lifetime!Cover(a)
  <2>1. P' = P /\ unwinds' = unwinds
    BY <1>0, <1>2 DEF AddTable, Phase, TypeOK
  <2>2. CoveredSet' = CoveredSet \cup {a}
    BY <1>0, <1>2 DEF AddTable, CoveredSet, TypeOK
  <2>3. Phase(a) = "building"
    BY <1>2, PhaseOf DEF AddTable
  <2> QED
    BY <1>0, <2>1, <2>2, <2>3 DEF Lifetime!Cover, Phase, CoveredSet, TypeOK
<1>3. ASSUME NEW t \in Threads, NEW a \in Addresses, a = addr[t], Insert(t)
      PROVE  Lifetime!Publish(a)
  <2>1. Phase(a) = "building"
    BY <1>3, PhaseOf DEF Insert
  <2>2. Phase(a)' = "owned"
    BY <1>0, <1>3 DEF Insert, Phase, TypeOK, RegistryInv, CodeInv
  <2>3. \A b \in Addresses : b # a => Phase(b)' = Phase(b)
    BY <1>0, <1>3 DEF Insert, Phase, TypeOK
  <2>4. a \in CoveredSet
    BY <1>0, <1>3 DEF Insert, CoveredSet, TypeOK, RegistryInv, TableInv, HeapInv
  <2>5. UNCHANGED <<unwinds, CoveredSet>>
    BY <1>3 DEF Insert, CoveredSet
  <2>6. P' = [P EXCEPT ![a] = "owned"] /\ P[a] = "building"
    BY <2>1, <2>2, <2>3
  <2> QED
    BY <2>4, <2>5, <2>6 DEF Lifetime!Publish, Lifetime!Move, Phase, CoveredSet
<1>4. ASSUME NEW t \in Threads, NEW a \in Addresses, a = addr[t], Unroll(t) \/ Release(t)
      PROVE  Lifetime!Free(a)
  <2>1. Phase(a) \in {"building", "doomed"}
    BY <1>4, PhaseOf DEF Unroll, Release
  <2>2. Phase(a)' = "free"
    BY <1>4 DEF Unroll, Release, Phase
  <2>3. \A b \in Addresses : b # a => Phase(b)' = Phase(b)
    BY <1>0, <1>4 DEF Unroll, Release, Phase, TypeOK
  <2>4. a \notin CoveredSet
    <3>1. pc[t] \in {"unroll", "release"}
      BY <1>4 DEF Unroll, Release
    <3> QED
      BY <1>4, <3>1, SoleEntry DEF CoveredSet
  <2>5. UNCHANGED <<unwinds, CoveredSet>>
    BY <1>4 DEF Unroll, Release, CoveredSet
  <2>6. P' = [P EXCEPT ![a] = "free"] /\ P[a] \in {"building", "doomed"}
    BY <2>1, <2>2, <2>3
  <2> QED
    BY <2>4, <2>5, <2>6 DEF Lifetime!Free, Lifetime!Move, Phase, CoveredSet
<1>5. ASSUME NEW t \in Threads, NEW a \in Addresses, Destroy(t, a) PROVE Lifetime!Doom(a)
  <2>1. Phase(a) = "owned"
    BY <1>5, PhaseOf DEF Destroy
  <2>2. addr'[t] = a /\ pc'[t] = "awaitUnlink"
    BY <1>0, <1>5 DEF Destroy, TypeOK
  <2>3. Phase(a)' = "doomed"
    <3>1. a \in jit' /\ a \notin owned'
      BY <2>2 DEF RegistryInv, CodeInv
    <3>2. ~\E s \in Threads : addr'[s] = a /\ pc'[s] \in Generating
      BY <2>2 DEF RegistryInv, CodeInv
    <3> QED
      BY <3>1, <3>2 DEF Phase
  <2>4. \A b \in Addresses : b # a => Phase(b)' = Phase(b)
    BY <1>0, <1>5 DEF Destroy, Phase, TypeOK
  <2>5. UNCHANGED <<unwinds, CoveredSet>>
    BY <1>5 DEF Destroy, CoveredSet
  <2>6. P' = [P EXCEPT ![a] = "doomed"] /\ P[a] = "owned"
    BY <2>1, <2>3, <2>4
  <2> QED
    BY <2>5, <2>6 DEF Lifetime!Doom, Lifetime!Move, Phase, CoveredSet
<1>6. ASSUME NEW t \in Threads, NEW a \in Addresses, a = addr[t], DeleteTable(t)
      PROVE  Lifetime!Uncover(a)
  <2>1. P' = P /\ unwinds' = unwinds
    BY <1>0, <1>6 DEF DeleteTable, Phase, TypeOK
  <2>2. \A n \in Nodes : <<a, n>> \in table => n = node[t]
    <3>1. pc[t] = "deleteTable"
      BY <1>6 DEF DeleteTable
    <3> QED
      BY <1>6, <3>1, SoleEntry
  <2>3. CoveredSet' = CoveredSet \ {a}
    BY <1>0, <1>6, <2>2 DEF DeleteTable, CoveredSet, TypeOK
  <2>4. Phase(a) = "doomed"
    BY <1>6, PhaseOf DEF DeleteTable
  <2> QED
    BY <1>0, <2>1, <2>3, <2>4 DEF Lifetime!Uncover, Phase, CoveredSet, TypeOK
<1>7. ASSUME NEW t \in Threads,
             \/ RegisterFails(t) \/ \E n \in Nodes : RegisterAllocates(t, n)
             \/ AddTableFails(t) \/ Acquire(t) \/ Unlink(t) \/ NotFound(t) \/ FreeNode(t)
      PROVE  UNCHANGED Lifetime!vars
  <2>1. UNCHANGED <<addr, jit, owned, unwinds, table>>
    BY <1>7 DEF RegisterFails, RegisterAllocates, AddTableFails, Acquire, Unlink, NotFound,
       FreeNode
  <2>2. \A s \in Threads : pc'[s] \in Generating <=> pc[s] \in Generating
    BY <1>0, <1>7 DEF RegisterFails, RegisterAllocates, AddTableFails, Acquire, Unlink,
       NotFound, FreeNode, TypeOK
  <2> QED
    BY <2>1, <2>2 DEF Lifetime!vars, Phase, CoveredSet
<1>8. CASE UNCHANGED vars
  BY <1>8 DEF vars, Lifetime!vars, Phase, CoveredSet
<1>9. ASSUME NEW t \in Threads, Start(t) PROVE Lifetime!Next
  BY <1>1, <1>5, <1>9 DEF Start, Lifetime!Next
<1>10. ASSUME NEW t \in Threads, Continue(t) PROVE Lifetime!Next \/ UNCHANGED Lifetime!vars
  <2>1. PICK a \in Addresses : a = addr[t]
    BY <1>0 DEF TypeOK
  <2>2. CASE AddTable(t) \/ Insert(t) \/ Unroll(t) \/ Release(t) \/ DeleteTable(t)
    BY <1>2, <1>3, <1>4, <1>6, <2>1, <2>2 DEF Lifetime!Next
  <2> QED
    BY <1>7, <1>10, <2>2 DEF Continue
<1> QED
  BY <1>8, <1>9, <1>10 DEF Next

\* The code at an address is covered by unwind data as long as anybody owns it and
\* its address is not reused while an entry for it is left.
THEOREM LifetimeRefinement == Spec => ImplementsLifetime
<1>1. Init => Lifetime!Init
  BY DEF Init, Lifetime!Init, Phase, CoveredSet
<1>2. RegistryInv /\ RegistryInv' /\ [Next]_vars => [Lifetime!Next]_(Lifetime!vars)
  BY LifetimeStep
<1> QED
  BY <1>1, <1>2, Registry, PTL DEF Spec, Lifetime!Spec, ImplementsLifetime

-----------------------------------------------------------------------------
(* The list of pointers *)

Pointers == [Nodes \cup {Head} -> Nodes \cup {Null}]
Closed(pointers, p, S) == \A q \in S \cup {p} : pointers[q] \in S \cup {Null}

\* What lies ahead of a pointer is closed under following pointers.
LEMMA AheadIsClosed ==
  ASSUME NEW pointers \in Pointers, NEW p \in Nodes \cup {Head}
  PROVE  Ahead(pointers, p) \subseteq Nodes /\ Closed(pointers, p, Ahead(pointers, p))
<1> DEFINE A == Ahead(pointers, p)
<1>1. \A n \in Nodes : n \in A <=> \A S \in SUBSET Nodes : Closed(pointers, p, S) => n \in S
  BY DEF Ahead, Closed
<1>2. A \subseteq Nodes
  BY DEF Ahead
<1> HIDE DEF A
<1>3. ASSUME NEW q \in A \cup {p}, pointers[q] # Null PROVE pointers[q] \in A
  <2>1. pointers[q] \in Nodes
    BY <1>2, <1>3 DEF Pointers
  <2>2. ASSUME NEW S \in SUBSET Nodes, Closed(pointers, p, S) PROVE pointers[q] \in S
    <3>1. q \in S \cup {p}
      BY <1>1, <1>2, <2>2
    <3> QED
      BY <3>1, <2>2, <1>3 DEF Closed
  <2> QED
    BY <1>1, <2>1, <2>2
<1>4. Closed(pointers, p, A)
  BY <1>3 DEF Closed
<1> QED
  BY <1>2, <1>4 DEF A

\* And it is the least such set.
LEMMA AheadIsLeast ==
  ASSUME NEW pointers, NEW p, NEW S \in SUBSET Nodes, Closed(pointers, p, S)
  PROVE  Ahead(pointers, p) \subseteq S
BY DEF Ahead, Closed

\* It depends on no pointer outside a closed set.
LEMMA AheadIsLocal ==
  ASSUME NEW pointers \in Pointers, NEW others \in Pointers, NEW p \in Nodes \cup {Head},
         NEW S \in SUBSET Nodes, Closed(pointers, p, S),
         \A q \in S \cup {p} : others[q] = pointers[q]
  PROVE  Ahead(others, p) = Ahead(pointers, p)
<1>1. Closed(others, p, S)
  BY DEF Closed
<1>2. Ahead(pointers, p) \subseteq S /\ Ahead(others, p) \subseteq S
  BY <1>1, AheadIsLeast
<1>3. Closed(pointers, p, Ahead(pointers, p)) /\ Closed(others, p, Ahead(others, p))
      /\ Ahead(pointers, p) \subseteq Nodes /\ Ahead(others, p) \subseteq Nodes
  BY AheadIsClosed
<1>4. Closed(others, p, Ahead(pointers, p)) /\ Closed(pointers, p, Ahead(others, p))
  BY <1>2, <1>3 DEF Closed
<1> QED
  BY <1>3, <1>4, AheadIsLeast

\* Following a pointer leaves ahead all but the registration it led to.
LEMMA AheadOfNext ==
  ASSUME NEW pointers \in Pointers, NEW p \in Nodes \cup {Head}
  PROVE  /\ pointers[p] = Null => Ahead(pointers, p) = {}
         /\ pointers[p] # Null =>
              /\ pointers[p] \in Ahead(pointers, p)
              /\ Ahead(pointers, p) \subseteq {pointers[p]} \cup Ahead(pointers, pointers[p])
<1>1. ASSUME pointers[p] = Null PROVE Ahead(pointers, p) = {}
  <2>1. Closed(pointers, p, {})
    BY <1>1 DEF Closed
  <2> QED
    BY <2>1, AheadIsLeast
<1>2. ASSUME pointers[p] # Null
      PROVE  /\ pointers[p] \in Ahead(pointers, p)
             /\ Ahead(pointers, p) \subseteq {pointers[p]} \cup Ahead(pointers, pointers[p])
  <2> DEFINE n == pointers[p]
             S == {n} \cup Ahead(pointers, n)
  <2>1. n \in Nodes
    BY <1>2 DEF Pointers
  <2>2. Ahead(pointers, n) \subseteq Nodes /\ Closed(pointers, n, Ahead(pointers, n))
    BY <2>1, AheadIsClosed
  <2>3. S \in SUBSET Nodes /\ Closed(pointers, p, S)
    BY <2>1, <2>2 DEF Closed
  <2>4. Closed(pointers, p, Ahead(pointers, p))
    BY AheadIsClosed
  <2>5. n \in Ahead(pointers, p)
    BY <2>4, <1>2 DEF Closed
  <2> QED
    BY <2>3, <2>5, AheadIsLeast
<1> QED
  BY <1>1, <1>2

Chain(pointers) ==
  \A p, q \in Linked(pointers) \cup {Head} :
    pointers[p] = pointers[q] /\ pointers[p] # Null => p = q

\* A registration that leads to the first is put in front of the others.
LEMMA LinkInFront ==
  ASSUME NEW pointers \in Pointers, Chain(pointers),
         NEW n \in Nodes, n \notin Linked(pointers), pointers[n] = pointers[Head]
  PROVE  LET after == [pointers EXCEPT ![Head] = n]
         IN  /\ after \in Pointers
             /\ Linked(after) = Linked(pointers) \cup {n}
             /\ Chain(after)
<1> DEFINE after == [pointers EXCEPT ![Head] = n]
           L == Linked(pointers)
<1>1. after \in Pointers /\ after[Head] = n /\ \A q \in Nodes : after[q] = pointers[q]
  BY PointersAssumption DEF Pointers
<1>2. L \subseteq Nodes /\ Closed(pointers, Head, L)
  BY AheadIsClosed DEF Linked
<1>3. Linked(after) \subseteq Nodes /\ Closed(after, Head, Linked(after))
  BY <1>1, AheadIsClosed DEF Linked
<1>4. \A S : S \in SUBSET Nodes /\ Closed(pointers, Head, S) => L \subseteq S
  BY AheadIsLeast DEF Linked
<1>5. \A S : S \in SUBSET Nodes /\ Closed(after, Head, S) => Linked(after) \subseteq S
  BY AheadIsLeast DEF Linked
<1>n. Null \notin Nodes /\ Head \notin Nodes
  BY PointersAssumption
<1> HIDE DEF after, L
<1>6. Closed(after, Head, L \cup {n})
  BY <1>1, <1>2 DEF Closed
<1>7. n \in Linked(after)
  BY <1>1, <1>3, <1>n DEF Closed
<1>8. Closed(pointers, Head, Linked(after))
  BY <1>1, <1>3, <1>7 DEF Closed
<1>9. Linked(after) = L \cup {n}
  BY <1>2, <1>3, <1>4, <1>5, <1>6, <1>7, <1>8
<1>10. \A p, q \in L \cup {Head} : pointers[p] = pointers[q] /\ pointers[p] # Null => p = q
  BY DEF Chain, L
<1>11. \A q \in L : after[q] # n
  BY <1>1, <1>2, <1>n DEF Closed, L
<1>12. \A q \in L : after[q] = after[n] => after[q] = Null
  BY <1>1, <1>2, <1>10, <1>n
<1>13. after[n] # n
  BY <1>1, <1>2, <1>n DEF Closed, L
<1>14. \A p, q \in L \cup {n, Head} : after[p] = after[q] /\ after[p] # Null => p = q
  BY <1>1, <1>2, <1>10, <1>11, <1>12, <1>13
<1>15. Chain(after)
  BY <1>9, <1>14 DEF Chain
<1> QED
  BY <1>1, <1>9, <1>15 DEF after, L

\* Redirecting the pointer that leads to a registration takes out that one only.
LEMMA UnlinkOne ==
  ASSUME NEW pointers \in Pointers, Chain(pointers),
         NEW p \in Linked(pointers) \cup {Head}, NEW n, n = pointers[p], n # Null
  PROVE  LET after == [pointers EXCEPT ![p] = pointers[n]]
         IN  /\ after \in Pointers
             /\ n \in Linked(pointers)
             /\ Linked(after) = Linked(pointers) \ {n}
             /\ Chain(after)
<1> DEFINE after == [pointers EXCEPT ![p] = pointers[n]]
           L == Linked(pointers)
<1>2. L \subseteq Nodes /\ Closed(pointers, Head, L)
  BY AheadIsClosed DEF Linked
<1>n. Null \notin Nodes /\ Head \notin Nodes
  BY PointersAssumption
<1>20. p \in L \cup {Head} /\ n \in L
  BY <1>2 DEF Closed
<1>1. after \in Pointers /\ after[p] = pointers[n]
      /\ \A q \in Nodes \cup {Head} : q # p => after[q] = pointers[q]
  BY <1>2, <1>20 DEF Pointers
<1>3. Linked(after) \subseteq Nodes /\ Closed(after, Head, Linked(after))
  BY <1>1, AheadIsClosed DEF Linked
<1>4. \A S : S \in SUBSET Nodes /\ Closed(pointers, Head, S) => L \subseteq S
  BY AheadIsLeast DEF Linked
<1>5. \A S : S \in SUBSET Nodes /\ Closed(after, Head, S) => Linked(after) \subseteq S
  BY AheadIsLeast DEF Linked
<1>10. \A q, r \in L \cup {Head} : pointers[q] = pointers[r] /\ pointers[q] # Null => q = r
  BY DEF Chain, L
<1> HIDE DEF after, L
<1>6. pointers[n] # n
  <2> SUFFICES ASSUME pointers[n] = n PROVE FALSE
    OBVIOUS
  <2>1. p = n
    BY <1>10, <1>20
  <2>2. \A q \in L \cup {Head} : q # n => pointers[q] # n
    BY <2>1, <1>10, <1>20
  <2>3. Closed(pointers, Head, L \ {n})
    BY <1>2, <2>2, <1>n, <1>20 DEF Closed
  <2> QED
    BY <2>3, <1>4, <1>2, <1>20
<1>7. \A q \in (L \ {n}) \cup {Head} : after[q] \in (L \ {n}) \cup {Null}
  <2> SUFFICES ASSUME NEW q \in (L \ {n}) \cup {Head} PROVE after[q] \in (L \ {n}) \cup {Null}
    OBVIOUS
  <2>1. CASE q = p
    BY <2>1, <1>1, <1>2, <1>6, <1>20 DEF Closed
  <2>2. CASE q # p
    <3>1. after[q] = pointers[q] /\ pointers[q] \in L \cup {Null}
      BY <2>2, <1>1, <1>2 DEF Closed
    <3>2. pointers[q] # n
      BY <2>2, <1>10, <1>20
    <3> QED
      BY <3>1, <3>2
  <2> QED
    BY <2>1, <2>2
<1>8. Linked(after) \subseteq L \ {n}
  BY <1>7, <1>5, <1>2 DEF Closed
<1>9. L \ {n} \subseteq Linked(after)
  <2> DEFINE S == Linked(after)
  <2>1. CASE p \in S \cup {Head}
    <3>1. Closed(pointers, Head, S \cup {n})
      BY <1>1, <1>2, <1>3, <1>20, <2>1 DEF Closed
    <3>2. S \cup {n} \in SUBSET Nodes
      BY <1>2, <1>3, <1>20
    <3> QED
      BY <3>1, <3>2, <1>4
  <2>2. CASE p \notin S \cup {Head}
    <3>1. Closed(pointers, Head, S)
      BY <1>1, <1>3, <2>2 DEF Closed
    <3>2. L \subseteq S
      BY <3>1, <1>3, <1>4
    <3> QED
      BY <3>2
  <2> QED
    BY <2>1, <2>2
<1>11. Linked(after) = L \ {n}
  BY <1>8, <1>9
<1>12. \A q, r \in (L \ {n}) \cup {Head} : after[q] = after[r] /\ after[q] # Null => q = r
  <2>1. \A q \in (L \ {n}) \cup {Head} : q # p /\ pointers[q] = pointers[n] => pointers[q] = Null
    BY <1>10, <1>20, <1>2, <1>n
  <2> QED
    BY <2>1, <1>1, <1>2, <1>10, <1>20
<1>13. Chain(after)
  BY <1>11, <1>12 DEF Chain
<1> QED
  BY <1>1, <1>11, <1>13, <1>20 DEF after, L

\* Linking and unlinking change the set of registrations as ThunkRegistry says.
LEMMA LinkHeadStep ==
  ASSUME RegistryInv, ListTypeOK, ChainInv, CurrentInv, NEW t \in Threads, LinkHead(t)
  PROVE  /\ Insert(t)
         /\ next' = [next EXCEPT ![Head] = node[t]] /\ next' \in Pointers
         /\ registered' = registered \cup {node[t]}
         /\ Chain(next')
<1>1. pc[t] = "insert" /\ current[t] = node[t] /\ node[t] \in Nodes /\ node[t] # Null
  BY PointersAssumption DEF LinkHead, Goto, RegistryInv, TypeOK
<1>2. next \in Pointers /\ next[node[t]] = next[Head]
  <2>1. current[t] # Null /\ pc[t] # "unlink"
    BY <1>1
  <2> QED
    BY <2>1 DEF ListTypeOK, CurrentInv, Pointers
<1>3. Chain(next) /\ registered = Linked(next)
  BY DEF ChainInv, Chain
<1>4. node[t] \notin Linked(next)
  BY <1>1, <1>3 DEF RegistryInv, HeapInv
<1>5. next' = [next EXCEPT ![Head] = node[t]] /\ registered' = Linked(next')
  BY DEF LinkHead
<1>6. /\ [next EXCEPT ![Head] = node[t]] \in Pointers
      /\ Linked([next EXCEPT ![Head] = node[t]]) = Linked(next) \cup {node[t]}
      /\ Chain([next EXCEPT ![Head] = node[t]])
  BY <1>1, <1>2, <1>3, <1>4, LinkInFront
<1>7. next' \in Pointers /\ registered' = registered \cup {node[t]} /\ Chain(next')
  BY <1>3, <1>5, <1>6
<1>8. Insert(t)
  BY <1>7 DEF LinkHead, Insert
<1> QED
  BY <1>5, <1>7, <1>8

\* Unlinking takes out one registration and leaves the chain of the others.
LEMMA WalkUnlinkStep ==
  ASSUME RegistryInv, ListTypeOK, ChainInv, CurrentInv, NEW t \in Threads, WalkUnlink(t)
  PROVE  /\ Unlink(t)
         /\ AtNode(t) \in registered
         /\ next' = [next EXCEPT ![current[t]] = next[AtNode(t)]] /\ next' \in Pointers
         /\ registered' = registered \ {AtNode(t)} /\ registered' = Linked(next')
         /\ Chain(next')
<1> DEFINE n == AtNode(t)
           after == [next EXCEPT ![current[t]] = next[n]]
<1>1. pc[t] = "unlink" /\ current[t] # Null /\ n = next[current[t]] /\ n # Null
  BY DEF WalkUnlink, Walking, AtNode
<1>2. next \in Pointers /\ registered = Linked(next) /\ Chain(next)
      /\ current[t] \in Linked(next) \cup {Head}
  BY <1>1 DEF ListTypeOK, ChainInv, CurrentInv, Chain, Pointers
<1>3. after \in Pointers /\ n \in Linked(next) /\ Linked(after) = Linked(next) \ {n} /\ Chain(after)
  <2> HIDE DEF n
  <2> QED
    BY <1>1, <1>2, UnlinkOne
<1>4. next' = after /\ registered' = Linked(next')
  BY DEF WalkUnlink
<1>5. next' \in Pointers /\ n \in registered /\ registered' = registered \ {n} /\ Chain(next')
  <2> HIDE DEF after, n
  <2> QED
    BY <1>2, <1>3, <1>4
<1>6. Unlink(t)
  BY <1>5 DEF WalkUnlink, Unlink
<1> QED
  BY <1>4, <1>5, <1>6

\* A walk that has come to the end has missed no registration of its thunk.
LEMMA WalkEndStep ==
  ASSUME RegistryInv, ListTypeOK, ChainInv, CurrentInv, NEW t \in Threads, WalkEnd(t)
  PROVE  NotFound(t)
<1>1. pc[t] = "unlink" /\ current[t] # Null /\ next[current[t]] = Null
  BY DEF WalkEnd, Walking, AtNode
<1>2. next \in Pointers /\ current[t] \in Nodes \cup {Head}
      /\ \A n \in registered : thunkOf[n] = addr[t] => n \in Ahead(next, current[t])
  BY <1>1, PointersAssumption DEF ListTypeOK, CurrentInv, Pointers
<1>3. Ahead(next, current[t]) = {}
  BY <1>1, <1>2, AheadOfNext
<1> QED
  BY <1>2, <1>3 DEF WalkEnd, NotFound

\* Every step on the list is one of ThunkRegistry, or leaves its variables alone.
LEMMA ListRefines ==
  RegistryInv /\ ListTypeOK /\ ChainInv /\ CurrentInv /\ [ListNext]_allVars => [Next]_vars
<1> SUFFICES ASSUME RegistryInv, ListTypeOK, ChainInv, CurrentInv, [ListNext]_allVars PROVE [Next]_vars
  OBVIOUS
<1>1. ASSUME NEW t \in Threads, ListContinue(t) PROVE Continue(t) \/ UNCHANGED vars
  <2>1. CASE OffList(t)
    BY <2>1 DEF OffList, Continue
  <2>2. CASE \E n \in Nodes : ListAllocates(t, n)
    BY <2>2 DEF ListAllocates, Continue
  <2>3. CASE LinkNext(t) \/ WalkStart(t) \/ WalkOn(t)
    BY <2>3 DEF LinkNext, WalkStart, WalkOn
  <2>4. CASE LinkHead(t)
    BY <2>4, LinkHeadStep DEF Continue
  <2>5. CASE WalkUnlink(t)
    BY <2>5, WalkUnlinkStep DEF Continue
  <2>6. CASE WalkEnd(t)
    BY <2>6, WalkEndStep DEF Continue
  <2> QED
    BY <1>1, <2>1, <2>2, <2>3, <2>4, <2>5, <2>6 DEF ListContinue
<1>2. ASSUME NEW t \in Threads, ListStart(t) PROVE Start(t)
  BY <1>2 DEF ListStart
<1>3. UNCHANGED allVars => UNCHANGED vars
  BY DEF allVars
<1> QED
  BY <1>1, <1>2, <1>3 DEF ListNext, Next

\* Pointers stay pointers.
LEMMA ListTypeStep ==
  RegistryInv /\ ListTypeOK /\ ChainInv /\ CurrentInv /\ [ListNext]_allVars => ListTypeOK'
<1> SUFFICES ASSUME RegistryInv, ListTypeOK, ChainInv, CurrentInv, [ListNext]_allVars PROVE ListTypeOK'
  OBVIOUS
<1> USE DEF ListTypeOK
<1>1. ASSUME NEW t \in Threads, NEW n \in Nodes, ListAllocates(t, n) PROVE ListTypeOK'
  BY <1>1 DEF ListAllocates
<1>2. ASSUME NEW t \in Threads, LinkNext(t) PROVE ListTypeOK'
  BY <1>2 DEF LinkNext, RegistryInv, TypeOK
<1>3. ASSUME NEW t \in Threads, LinkHead(t) PROVE ListTypeOK'
  BY <1>3 DEF LinkHead, RegistryInv, TypeOK
<1>4. ASSUME NEW t \in Threads, WalkStart(t) PROVE ListTypeOK'
  BY <1>4 DEF WalkStart
<1>5. ASSUME NEW t \in Threads, WalkOn(t) PROVE ListTypeOK'
  <2>1. current[t] \in Nodes \cup {Head}
    BY <1>5 DEF WalkOn, Walking
  <2>2. AtNode(t) \in Nodes \cup {Null}
    BY <2>1 DEF AtNode
  <2> QED
    BY <1>5, <2>2 DEF WalkOn
<1>6. ASSUME NEW t \in Threads, WalkUnlink(t) PROVE ListTypeOK'
  BY <1>6, WalkUnlinkStep DEF WalkUnlink, Pointers
<1>7. ASSUME NEW t \in Threads, WalkEnd(t) PROVE ListTypeOK'
  BY <1>7 DEF WalkEnd
<1>8. ASSUME UNCHANGED listVars PROVE ListTypeOK'
  BY <1>8 DEF listVars
<1> QED
  BY <1>1, <1>2, <1>3, <1>4, <1>5, <1>6, <1>7, <1>8
     DEF ListNext, ListStart, ListContinue, OffList, allVars

\* Changing the pointer of a registration that is not in the list changes nothing ahead
\* of the pointers that are.
LEMMA OffTheList ==
  ASSUME ListTypeOK, ChainInv, NEW n \in Nodes, n \notin registered, NEW m \in Nodes \cup {Null}
  PROVE  LET after == [next EXCEPT ![n] = m]
         IN  /\ Linked(after) = registered
             /\ \A p \in registered \cup {Head} : after[p] = next[p] /\ Ahead(after, p) = Ahead(next, p)
<1> DEFINE after == [next EXCEPT ![n] = m]
<1>1. next \in Pointers /\ after \in Pointers /\ registered = Linked(next)
      /\ \A q \in Nodes \cup {Head} : q # n => after[q] = next[q]
  BY DEF ListTypeOK, ChainInv, Pointers
<1>2. registered \in SUBSET Nodes /\ Closed(next, Head, registered)
  BY <1>1, AheadIsClosed DEF Linked
<1>3. \A q \in registered \cup {Head} : after[q] = next[q]
  BY <1>1, <1>2, PointersAssumption
<1> HIDE DEF after
<1>4. ASSUME NEW p \in registered \cup {Head} PROVE Ahead(after, p) = Ahead(next, p)
  <2>1. Closed(next, p, registered)
    BY <1>2 DEF Closed
  <2>2. \A q \in registered \cup {p} : after[q] = next[q]
    BY <1>3
  <2> QED
    BY <1>1, <1>2, <2>1, <2>2, AheadIsLocal
<1>5. Linked(after) = registered
  BY <1>1, <1>4 DEF Linked
<1> QED
  BY <1>3, <1>4, <1>5 DEF after

\* Where a thread holds an address, no other does.
LEMMA AddressHolderIsUnique ==
  ASSUME RegistryInv, CurrentInv, NEW s \in Threads, NEW t \in Threads, s # t,
         pc[t] \in {"insert", "unlink"}
  PROVE  current[s] = Null
<1>1. lock = t /\ lock # s
  BY DEF RegistryInv, LockInv
<1>2. pc[s] \notin {"insert", "unlink"}
  BY <1>1 DEF RegistryInv, LockInv
<1> QED
  BY <1>2 DEF CurrentInv

\* Steps that leave the list and the addresses alone.
LEMMA HandKept ==
  ASSUME RegistryInv, ListTypeOK, ChainInv, CurrentInv, UNCHANGED <<next, current, registered>>,
         \A t \in Threads : current[t] # Null =>
           pc'[t] = pc[t] /\ node'[t] = node[t] /\ addr'[t] = addr[t],
         \A n \in registered : thunkOf'[n] = thunkOf[n]
  PROVE  ChainInv' /\ CurrentInv'
BY DEF ChainInv, CurrentInv

\* The chain of pointers is as ChainInv says after every step.
LEMMA ChainStep ==
  RegistryInv /\ ListTypeOK /\ ChainInv /\ CurrentInv /\ [ListNext]_allVars => ChainInv' /\ CurrentInv'
<1> SUFFICES ASSUME RegistryInv, ListTypeOK, ChainInv, CurrentInv, [ListNext]_allVars PROVE ChainInv' /\ CurrentInv'
  OBVIOUS
<1>0. \A t \in Threads : current[t] # Null => pc[t] \in {"insert", "unlink"}
  BY DEF CurrentInv
<1>1. ASSUME NEW t \in Threads, OffList(t) \/ ListStart(t) PROVE ChainInv' /\ CurrentInv'
  <2>1. UNCHANGED <<next, current, registered, thunkOf>>
    BY <1>1 DEF OffList, ListStart, Start, JitAdd, Destroy, RegisterFails, AddTable, AddTableFails,
       Acquire, Unroll, DeleteTable, FreeNode, Release, listVars
  <2>2. /\ \A s \in Threads : s # t => pc'[s] = pc[s] /\ node'[s] = node[s] /\ addr'[s] = addr[s]
        /\ pc[t] \notin {"insert", "unlink"}
    BY <1>1 DEF OffList, ListStart, Start, JitAdd, Destroy, RegisterFails, AddTable, AddTableFails,
       Acquire, Unroll, DeleteTable, FreeNode, Release, Goto, RegistryInv, TypeOK
  <2> QED
    BY <1>0, <2>1, <2>2, HandKept
<1>2. ASSUME NEW t \in Threads, NEW n \in Nodes, ListAllocates(t, n) PROVE ChainInv' /\ CurrentInv'
  <2>1. n \in Nodes /\ n \notin registered
    BY <1>2 DEF ListAllocates, RegisterAllocates, RegistryInv, HeapInv
  <2>2. next' = [next EXCEPT ![n] = Null] /\ UNCHANGED <<current, registered, addr>>
    BY <1>2 DEF ListAllocates, RegisterAllocates
  <2>3. /\ Linked(next') = registered
        /\ \A p \in registered \cup {Head} : next'[p] = next[p] /\ Ahead(next', p) = Ahead(next, p)
    <3> DEFINE after == [next EXCEPT ![n] = Null]
    <3>1. /\ Linked(after) = registered
          /\ \A p \in registered \cup {Head} : after[p] = next[p] /\ Ahead(after, p) = Ahead(next, p)
      BY <2>1, OffTheList
    <3> QED
      BY <2>2, <3>1
  <2>4. Chain(next')
    BY <2>3 DEF ChainInv, Chain
  <2>5. /\ \A s \in Threads : current[s] # Null => s # t /\ pc'[s] = pc[s] /\ node'[s] = node[s]
        /\ \A m \in registered : thunkOf'[m] = thunkOf[m]
    BY <1>0, <1>2, <2>1 DEF ListAllocates, RegisterAllocates, Goto, RegistryInv, TypeOK
  <2>6. ASSUME NEW s \in Threads, current[s] # Null, pc[s] = "insert"
        PROVE  next'[node[s]] = next[node[s]] /\ next'[Head] = next[Head]
    <3>1. node[s] \in heap /\ node[s] \in Nodes
      BY <2>6 DEF RegistryInv, HeapInv, TypeOK
    <3>2. n \notin heap
      BY <1>2 DEF ListAllocates, RegisterAllocates
    <3> QED
      BY <2>2, <2>3, <3>1, <3>2 DEF ListTypeOK
  <2>7. CurrentInv'
    BY <2>2, <2>3, <2>5, <2>6 DEF CurrentInv
  <2> QED
    BY <2>2, <2>3, <2>4, <2>7, SMT DEF ChainInv, Chain
<1>3. ASSUME NEW t \in Threads, LinkNext(t) PROVE ChainInv' /\ CurrentInv'
  <2>1. pc[t] = "insert" /\ node[t] \in Nodes /\ node[t] \notin registered
    BY <1>3 DEF LinkNext, RegistryInv, HeapInv, TypeOK
  <2>2. next' = [next EXCEPT ![node[t]] = next[Head]] /\ UNCHANGED vars
        /\ current' = [current EXCEPT ![t] = node[t]]
    BY <1>3 DEF LinkNext
  <2>3. next[Head] \in Nodes \cup {Null}
    BY DEF ListTypeOK
  <2>4. /\ Linked(next') = registered
        /\ \A p \in registered \cup {Head} : next'[p] = next[p] /\ Ahead(next', p) = Ahead(next, p)
    <3> DEFINE n == node[t]
               m == next[Head]
    <3>1. n \in Nodes /\ n \notin registered /\ m \in Nodes \cup {Null}
      BY <2>1, <2>3
    <3>2. next' = [next EXCEPT ![n] = m]
      BY <2>2
    <3> HIDE DEF n, m
    <3> DEFINE after == [next EXCEPT ![n] = m]
    <3>3. /\ Linked(after) = registered
          /\ \A p \in registered \cup {Head} : after[p] = next[p] /\ Ahead(after, p) = Ahead(next, p)
      BY <3>1, OffTheList
    <3>4. next' = after
      BY <3>2
    <3> HIDE DEF after
    <3> QED
      BY <3>3, <3>4
  <2>5. Chain(next')
    BY <2>4 DEF ChainInv, Chain
  <2>6. \A s \in Threads : s # t => current'[s] = Null
    BY <2>1, <2>2, AddressHolderIsUnique DEF ListTypeOK
  <2>7. current'[t] = node[t] /\ next'[node[t]] = next'[Head]
    BY <2>1, <2>2, <2>4 DEF ListTypeOK
  <2>8. CurrentInv'
    BY <2>1, <2>2, <2>6, <2>7 DEF CurrentInv, vars
  <2> QED
    BY <2>2, <2>4, <2>5, <2>8 DEF ChainInv, Chain, vars
<1>4. ASSUME NEW t \in Threads, LinkHead(t) PROVE ChainInv' /\ CurrentInv'
  <2>1. pc[t] = "insert" /\ current' = [current EXCEPT ![t] = Null] /\ registered' = Linked(next')
    BY <1>4 DEF LinkHead, Goto
  <2>2. \A s \in Threads : current'[s] = Null
    BY <2>1, AddressHolderIsUnique DEF ListTypeOK
  <2> QED
    BY <1>4, <2>1, <2>2, LinkHeadStep DEF ChainInv, CurrentInv, Chain
<1>5. ASSUME NEW t \in Threads, WalkStart(t) PROVE ChainInv' /\ CurrentInv'
  <2>1. pc[t] = "unlink" /\ current' = [current EXCEPT ![t] = Head] /\ UNCHANGED <<vars, next>>
    BY <1>5 DEF WalkStart
  <2>2. \A s \in Threads : s # t => current'[s] = Null
    BY <2>1, AddressHolderIsUnique DEF ListTypeOK
  <2>3. current'[t] = Head /\ registered = Ahead(next, Head)
    BY <2>1 DEF ChainInv, Linked, ListTypeOK
  <2> QED
    BY <2>1, <2>2, <2>3 DEF ChainInv, CurrentInv, vars
<1>6. ASSUME NEW t \in Threads, WalkOn(t) PROVE ChainInv' /\ CurrentInv'
  <2>1. pc[t] = "unlink" /\ current[t] # Null /\ next[current[t]] # Null
        /\ thunkOf[next[current[t]]] # addr[t]
        /\ current' = [current EXCEPT ![t] = next[current[t]]] /\ UNCHANGED <<vars, next>>
    BY <1>6 DEF WalkOn, Walking, AtNode
  <2>2. \A s \in Threads : s # t => current'[s] = Null
    BY <2>1, AddressHolderIsUnique DEF ListTypeOK
  <2>3. current'[t] = next[current[t]]
    BY <2>1 DEF ListTypeOK
  <2>4. next \in Pointers /\ current[t] \in registered \cup {Head} /\ registered = Linked(next)
        /\ \A n \in registered : thunkOf[n] = addr[t] => n \in Ahead(next, current[t])
    BY <2>1 DEF ListTypeOK, ChainInv, CurrentInv, Pointers
  <2>5. Closed(next, Head, registered) /\ registered \subseteq Nodes
    BY <2>4, AheadIsClosed DEF Linked
  <2>6. next[current[t]] \in registered
    BY <2>1, <2>4, <2>5 DEF Closed
  <2>7. Ahead(next, current[t]) \subseteq {next[current[t]]} \cup Ahead(next, next[current[t]])
    BY <2>1, <2>4, <2>5, AheadOfNext
  <2>8. \A n \in registered : thunkOf[n] = addr[t] => n \in Ahead(next, next[current[t]])
    BY <2>1, <2>4, <2>7
  <2> QED
    BY <2>1, <2>2, <2>3, <2>6, <2>8 DEF ChainInv, CurrentInv, vars
<1>7. ASSUME NEW t \in Threads, WalkUnlink(t) PROVE ChainInv' /\ CurrentInv'
  <2>1. pc[t] = "unlink" /\ current' = [current EXCEPT ![t] = Null]
    BY <1>7 DEF WalkUnlink, Walking
  <2>2. \A s \in Threads : current'[s] = Null
    BY <2>1, AddressHolderIsUnique DEF ListTypeOK
  <2> QED
    BY <1>7, <2>2, WalkUnlinkStep DEF ChainInv, CurrentInv, Chain
<1>8. ASSUME NEW t \in Threads, WalkEnd(t) PROVE ChainInv' /\ CurrentInv'
  <2>1. pc[t] = "unlink" /\ current' = [current EXCEPT ![t] = Null] /\ UNCHANGED <<next, registered>>
    BY <1>8 DEF WalkEnd, Walking
  <2>2. \A s \in Threads : current'[s] = Null
    BY <2>1, AddressHolderIsUnique DEF ListTypeOK
  <2> QED
    BY <2>1, <2>2 DEF ChainInv, CurrentInv
<1>9. CASE UNCHANGED allVars
  BY <1>9, HandKept DEF allVars, vars, listVars
<1> QED
  BY <1>1, <1>2, <1>3, <1>4, <1>5, <1>6, <1>7, <1>8, <1>9 DEF ListNext, ListContinue

\* The chain starts empty, with nobody at it.
LEMMA ListInitially == ListInit => RegistryInv /\ ListTypeOK /\ ChainInv /\ CurrentInv
<1> SUFFICES ASSUME ListInit PROVE RegistryInv /\ ListTypeOK /\ ChainInv /\ CurrentInv
  OBVIOUS
<1>1. RegistryInv
  BY NoThreadAssumption
     DEF ListInit, Init, RegistryInv, TypeOK, LockInv, CodeInv, HeapInv, ListInv, TableInv
<1>2. ListTypeOK /\ CurrentInv
  BY DEF ListInit, ListTypeOK, CurrentInv
<1>3. next \in Pointers /\ \A p \in Nodes \cup {Head} : next[p] = Null
  BY DEF ListInit, Pointers
<1>4. Linked(next) = {}
  BY <1>3, AheadOfNext DEF Linked
<1> QED
  BY <1>1, <1>2, <1>3, <1>4 DEF ListInit, Init, ChainInv

\* The ownership discipline and the shape of the list hold in every state of the
\* detailed registry.
THEOREM ListIsSound == ListSpec => [](RegistryInv /\ ListTypeOK /\ ChainInv /\ CurrentInv)
<1>1. RegistryInv /\ ListTypeOK /\ ChainInv /\ CurrentInv /\ [ListNext]_allVars
        => (RegistryInv /\ ListTypeOK /\ ChainInv /\ CurrentInv)'
  BY RegistryStep, ListRefines, ListTypeStep, ChainStep
<1> QED
  BY <1>1, ListInitially, PTL DEF ListSpec

\* A walk, and the two assignments that link a registration, touch only allocated
\* registrations of the list, for any list and any number of threads.
THEOREM WalksAreSafe == ListSpec => []WalkIsSafe
<1>1. RegistryInv /\ ListTypeOK /\ ChainInv /\ CurrentInv => WalkIsSafe
  <2> SUFFICES ASSUME RegistryInv, ListTypeOK, ChainInv, CurrentInv, NEW t \in Threads, Walking(t)
               PROVE  current[t] \in registered \cup {Head} /\ AtNode(t) \in heap \cup {Null}
    BY DEF WalkIsSafe, ChainInv
  <2>1. current[t] \in registered \cup {Head}
    BY DEF CurrentInv, Walking
  <2>2. Closed(next, Head, registered)
    BY AheadIsClosed DEF ListTypeOK, ChainInv, Linked, Pointers
  <2>3. registered \subseteq heap
    BY DEF RegistryInv, HeapInv
  <2> QED
    BY <2>1, <2>2, <2>3 DEF Closed, AtNode
<1> QED
  BY <1>1, ListIsSound, PTL

\* The chain of pointers implements the set of registrations: every theorem about
\* ThunkRegistry holds of the list.
THEOREM ListRefinement == ListSpec => ImplementsRegistry
<1>1. ListInit => Init
  BY DEF ListInit
<1> QED
  BY <1>1, ListIsSound, ListRefines, PTL DEF ListSpec, ImplementsRegistry, Spec
=============================================================================
