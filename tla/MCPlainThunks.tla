---------------------------- MODULE MCPlainThunks ----------------------------
(***************************************************************************)
(* Both ABIs with their real argument registers and zones.  On Win64 every *)
(* signature of up to six slots, filled in every order, and typed function *)
(* types of every form and boundary size; on System V raw signatures       *)
(* around 128 bytes of stack arguments.                                    *)
(***************************************************************************)
EXTENDS TypedThunks, TLC

MCPreserved == {"rbx", "rbp"}

Win64Gp == <<"rcx", "rdx", "r8", "r9">>
Win64Vec == <<"xmm0", "xmm1", "xmm2", "xmm3">>
Win64Slots == [i \in 1..6 |-> "stack" \o ToString(i)]
Win64Signatures == {<<>>, <<"Floating", "Integral", "Integral", "Floating", "Integral">>}
Win64Volatile == {"rax", "r10", "r11", "rflags"}

SysVGp == <<"rdi", "rsi", "rdx", "rcx", "r8", "r9">>
SysVVec == <<"xmm0", "xmm1", "xmm2", "xmm3", "xmm4", "xmm5", "xmm6", "xmm7">>
SysVSlots == [i \in 1..32 |-> "stack" \o ToString(i)]
SysVVolatile == {"rax", "r10", "r11", "rflags"}
Integrals(n) == [i \in 1..n |-> "Integral"]
SysVSignatures == {Integrals(n) : n \in 20..22} \cup {Integrals(21) \o <<"Floating">>}

Type(form, size) == [form |-> form, size |-> size, has |-> {}]
Class(size, has) == [form |-> "class", size |-> size, has |-> has]
Word == Type("scalar", 4)
Double == Type("floating", 8)
Odd == Class(3, {})
Derived == Class(8, {"base class"})
MCTypes == {Word, Double, Odd, Derived, Type("reference", 8), Type("scalar", 1),
            Type("scalar", 16), Type("floating", 4), Class(4, {}), Class(8, {}), Class(16, {}),
            Class(8, {"constructor"}), Class(8, {"copying"}), Class(24, {"copying"})}
MCReturns == MCTypes \cup {Type("void", 0)} \cup {Class(4, {feature}) : feature \in Features}
MCParams == {<<>>} \cup {<<a>> : a \in MCTypes} \cup {<<a, b>> : a, b \in MCTypes}
              \cup {<<Word, Odd, Double, a, b>> : a \in {Word, Double}, b \in MCTypes}
              \cup {[i \in 1..7 |-> Word]}
MCFunctionTypes == [ret : MCReturns, params : MCParams]
=============================================================================
