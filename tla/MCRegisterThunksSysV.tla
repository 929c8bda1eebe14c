------------------------ MODULE MCRegisterThunksSysV ------------------------
(***************************************************************************)
(* The System V placement, where the two classes count their registers     *)
(* apart: two threads and four thunk calls between them, so that bindings  *)
(* nest, restore thunks run between and beneath them, and a stack of two   *)
(* contexts overflows.                                                     *)
(***************************************************************************)
EXTENDS RegisterThunks

MCGpArgs == <<"rdi", "rsi">>
MCVecArgs == <<"xmm0">>
MCStackSlots == <<"stack1", "stack2", "stack3">>
MCPreserved == {"rbx", "rbp"}
MCVolatile == {"rax", "r10", "rflags"}
MCSignatures == {<<"Floating", "Integral", "Integral", "Floating">>}
=============================================================================
