------------------------ MODULE MCRegisterThunksWin64 ------------------------
(***************************************************************************)
(* The Win64 placement on a machine of two argument registers per class:   *)
(* one thread, every signature of up to four arguments, so that shifting   *)
(* moves register to register, register to stack and stack to stack, in    *)
(* the code the generators emit.  Captured registers are saved and         *)
(* restored by increasing id or by decreasing id, so that of any two each  *)
(* comes first once.                                                       *)
(***************************************************************************)
EXTENDS RegisterCode

MCGpArgs == <<"rcx", "rdx">>
MCVecArgs == <<"xmm0", "xmm1">>
MCStackSlots == <<"stack1", "stack2", "stack3">>
MCPreserved == {"rbx", "rbp", "xmm6"}
MCVolatile == {"rax", "r10", "rflags", "xmm4"}
MCSignatures == UNION {[1..n -> ArgumentType] : n \in 0..4}
MCGpById == <<"rax", "rcx", "rdx", "rbx", "rbp", "r10">>
MCVecById == <<"xmm0", "xmm1", "xmm4", "xmm6">>
MCOrder == SelectSeq(MCGpById \o MCVecById, LAMBDA r : r # "rbp")
MCOrders == {MCOrder, Reverse(MCOrder)}
MCOneSignature == {<<"Integral", "Floating">>}
=============================================================================
