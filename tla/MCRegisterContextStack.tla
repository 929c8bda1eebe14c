----------------------- MODULE MCRegisterContextStack -----------------------
(* Two threads, three pointers and a stack of two entries. *)
EXTENDS RegisterContextStack
=============================================================================
