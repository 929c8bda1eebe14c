---------------------------- MODULE MCThunkFrame ----------------------------
(***************************************************************************)
(* All the nonvolatile registers of Windows.                               *)
(* The argument counts lie on both sides of every limit of the encodings:  *)
(* four register arguments, the 127-byte displacement, 128-byte small      *)
(* allocations, odd and even numbers of stack arguments.                   *)
(***************************************************************************)
EXTENDS ThunkFrame

Gp(id) == <<"gp", id>>
Vec(id) == <<"vec", id>>
MCSavedGp == <<Gp(3), Gp(5), Gp(6), Gp(7), Gp(12), Gp(13), Gp(14), Gp(15)>>
MCSavedVec == [i \in 1..10 |-> Vec(i + 5)]
=============================================================================
