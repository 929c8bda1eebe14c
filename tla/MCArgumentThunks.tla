-------------------------- MODULE MCArgumentThunks --------------------------
(***************************************************************************)
(* The Win64 placement on a machine of two argument registers per class,   *)
(* two threads and three thunk calls.  One signature fills a register of   *)
(* each class and the stack, the context register among them; the other    *)
(* leaves the context register free.                                       *)
(***************************************************************************)
EXTENDS ArgumentCode

MCGpArgs == <<"rcx", "rdx">>
MCVecArgs == <<"xmm0", "xmm1">>
MCStackSlots == <<"stack1", "stack2">>
MCPreserved == {"rbx", "rbp"}
MCVolatile == {"rax", "r10", "rflags", "xmm4"}
MCGpById == <<"rax", "rcx", "rdx", "rbx", "rbp", "r10">>
MCVecById == <<"xmm0", "xmm1", "xmm4">>
MCOrder == SelectSeq(MCGpById \o MCVecById, LAMBDA r : r # "rbp")
MCOrders == {MCOrder, Reverse(MCOrder)}
MCSymmetry == Permutations(Threads)
MCSignatures == {<<"Integral", "Floating", "Integral">>, <<"Floating">>}
=============================================================================
