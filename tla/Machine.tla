------------------------------- MODULE Machine -------------------------------
(***************************************************************************)
(* The part of the machine both thunk families share: the values registers *)
(* and stack slots hold, what a call leaves of them, and the snapshot that *)
(* SaveRegisterContext takes of the register file.                         *)
(***************************************************************************)
EXTENDS CallingConvention

\* What native code leaves in location l before call n is "in", what it leaves
\* there when it returns from call n is "out", all different; "context" n is the
\* address of the ArgumentContext of call n, "set" what SetReturnValue stores in
\* it, "zero" the number 0; "junk" is a value nobody vouches for.
Value == {"in", "out", "bind", "context", "set", "zero", "junk"} \X Nat \X Locations
Junk == <<"junk", 0, "rax">>
BindParam == <<"bind", 0, "rax">>
NoMemory == [r \in Registers |-> Junk]

\* The registers of RegisterContext; rbp and rsp have no slot in it.
Captured == Registers \ {"rbp"}

\* pushfq comes after the prolog's sub rsp, which has set the flags by then.
SaveRegisterContext(file) ==
  [r \in Registers |-> IF r \in Captured \ {"rflags"} THEN file[r] ELSE Junk]

\* What an ordinary call leaves of the machine.
AfterCall(file) == [l \in Locations |-> IF l \in Preserved THEN file[l] ELSE Junk]
=============================================================================
