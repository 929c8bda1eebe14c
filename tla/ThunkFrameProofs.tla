-------------------------- MODULE ThunkFrameProofs --------------------------
(***************************************************************************)
(* Every thunk's frame on Windows: for every signature and every choice of *)
(* nonvolatile registers, calls leave with an aligned stack, the thunk     *)
(* returns to its caller with its registers intact, and the unwind codes   *)
(* describe the frame at every instruction but one.                        *)
(*                                                                         *)
(* The invariant says what the frame holds before each instruction of the  *)
(* code.  It needs the code position by position, as the generator joins   *)
(* it from its pieces, and what each instruction does to the frame.  What  *)
(* the unwinder computes is then an induction of its own, along the rest   *)
(* of an epilog or backwards along the prolog.                             *)
(***************************************************************************)
EXTENDS ThunkFrame, SequenceTheorems, InductionProofs

-----------------------------------------------------------------------------
(* Sums *)

\* A sum of sizes is the sum before it and the last size.
LEMMA TotalSteps ==
  ASSUME NEW n \in Nat, NEW size, \A k \in 1..n : size[k] \in Nat
  PROVE  /\ Total(size, 0) = 0
         /\ \A k \in 1..n : Total(size, k) = Total(size, k - 1) + size[k]
         /\ \A k \in 0..n : Total(size, k) \in Nat
<1> DEFINE Sum(f, m) == f = [k \in 0..m |-> IF k = 0 THEN 0 ELSE f[k - 1] + size[k]]
           step == [p \in Nat \X Nat |-> IF p[1] < n THEN p[2] + size[p[1] + 1] ELSE p[2]]
<1>1. step \in [Nat \X Nat -> Nat]
  <2>1. \A p \in Nat \X Nat : p[1] < n => p[1] + 1 \in 1..n
    OBVIOUS
  <2> QED
    BY <2>1
<1> HIDE DEF step
<1>2. PICK g : IsRun(g, Nat, 0, step, n)
  BY <1>1, RepeatedStep
<1>3. /\ g \in [0..n -> Nat] /\ g[0] = 0
      /\ \A k \in 1..n : g[k] = g[k - 1] + size[k]
  <2>1. \A k \in 1..n : k - 1 \in 0..(n - 1) /\ (k - 1) + 1 = k /\ k - 1 < n /\ k - 1 \in 0..n
    OBVIOUS
  <2>2. ASSUME NEW k \in 1..n PROVE g[k] = g[k - 1] + size[k]
    <3>1. g[k] = step[<<k - 1, g[k - 1]>>] /\ g[k - 1] \in Nat /\ k - 1 \in Nat
      BY <1>2, <2>1 DEF IsRun
    <3> QED
      BY <2>1, <3>1 DEF step
  <2> QED
    BY <1>2, <2>2 DEF IsRun
<1>4. ASSUME NEW m \in 0..n
      PROVE  Total(size, m) = g[m]
  <2> DEFINE h == [k \in 0..m |-> g[k]]
             total == CHOOSE f : Sum(f, m)
  <2>1. Sum(h, m)
    <3>1. ASSUME NEW k \in 0..m, k # 0 PROVE k \in 1..n /\ k - 1 \in 0..m
      BY <3>1
    <3> QED
      BY <1>3, <3>1
  <2>2. Sum(total, m)
    <3> HIDE DEF Sum, h
    <3> QED
      BY <2>1
  <2>3. total[0] = 0 /\ \A k \in 1..m : total[k] = total[k - 1] + size[k]
    <3> HIDE DEF total
    <3> QED
      BY <2>2
  <2> DEFINE S == {k \in Nat : k <= m => total[k] = g[k]}
  <2>4. 0 \in S
    BY <1>3, <2>3
  <2>5. ASSUME NEW k \in Nat, k \in S PROVE k + 1 \in S
    <3> SUFFICES ASSUME k + 1 <= m PROVE total[k + 1] = g[k + 1]
      OBVIOUS
    <3> HIDE DEF total
    <3>1. k + 1 \in 1..m /\ k + 1 \in 1..n /\ (k + 1) - 1 = k /\ total[k] = g[k]
      BY <2>5
    <3> QED
      BY <1>3, <2>3, <3>1
  <2>6. m \in S
    <3> HIDE DEF S
    <3> QED
      BY <2>4, <2>5, InductionOverNat
  <2>7. Total(size, m) = total[m]
    BY DEF Total
  <2> QED
    BY <2>6, <2>7
<1> QED
  <2>1. \A k \in 1..n : k \in 0..n /\ k - 1 \in 0..n
    OBVIOUS
  <2>2. 0 \in 0..n
    OBVIOUS
  <2> QED
    BY <1>3, <1>4, <2>1, <2>2

-----------------------------------------------------------------------------
(* Layouts *)

\* The padding lies below 16 bytes and leaves an entry rsp that is 8 modulo 16 on
\* a 16-byte boundary: AlignThunkStackAllocation for every frame, not only those
\* the library asks for.
THEOREM FramesAreAligned ==
  ASSUME NEW raw \in Nat, NEW push \in Nat
  PROVE  LET allocation == AlignThunkStackAllocation(raw, push)
         IN  /\ allocation \in raw..(raw + 15)
             /\ (push + allocation) % 16 = 8
<1>1. ((push + raw) % 16) \in 0..15
  OBVIOUS
<1>2. (push + raw) = 16 * ((push + raw) \div 16) + ((push + raw) % 16)
  OBVIOUS
<1> QED
  BY <1>1, <1>2, SMTT(60) DEF AlignThunkStackAllocation

\* What every frame the library asks for has in common: room for the callee's shadow
\* space below what it saves, and no size that an unwind code cannot hold.
Registers == Seq(Nonvolatile)
Pushes(p) == Len(p.PushedGpRegs)
Saves(p) == Len(p.SavedVecRegs)
Sizes(p) ==
  /\ Pushes(p) \in 0..16 /\ Saves(p) \in 0..16
  /\ p.RawStackAllocation \in 32..2048
  /\ p.SavedVecOffset \in 0..2048 /\ p.SavedVecOffset % 16 = 0
  /\ Saves(p) # 0 => /\ p.SavedVecOffset >= 32
                     /\ p.RawStackAllocation = p.SavedVecOffset + 16 * Saves(p)
Layout(p) ==
  /\ p \in Plan /\ Sizes(p)
  /\ p.PushedGpRegs \in Registers /\ p.SavedVecRegs \in Registers

\* Rounding up.
LEMMA RoundUp ==
  ASSUME NEW x \in Nat
  PROVE  RoundUp16(x) \in x..(x + 15) /\ RoundUp16(x) % 16 = 0
BY SMTT(60) DEF RoundUp16

\* The shadow space has room for four arguments, and for all.
LEMMA ShadowSpace ==
  ASSUME NEW n \in 0..33
  PROVE  ShadowArgSpace(n) \in 32..264 /\ ShadowArgSpace(n) >= 8 * n
<1>1. Max({4, n}) = IF n > 4 THEN n ELSE 4
  BY DEF Max
<1> QED
  BY <1>1 DEF ShadowArgSpace

\* At most four arguments are passed in registers.
LEMMA FewArguments ==
  ASSUME NEW n \in 0..32
  PROVE  Min({4, n}) \in 0..4 /\ Min({4, n}) <= n
<1>1. Min({4, n}) = IF n > 4 THEN 4 ELSE n
  BY DEF Min
<1> QED
  BY <1>1

\* The nonvolatile registers, all of them or the first few.
LEMMA SavedCounts == Len(SavedGp) \in 0..16 /\ Len(SavedVec) \in 0..16
<1>1. SavedGp \in Seq({"gp"} \X (0..15)) /\ SavedVec \in Seq({"vec"} \X (0..15))
  BY SavedAssumption
<1>2. Len(SavedGp) \in Nat /\ Len(SavedVec) \in Nat
  BY <1>1, LenProperties
<1>3. Len(SavedGp) <= 16 /\ Len(SavedVec) <= 16
  BY SavedAssumption
<1>4. \A n \in Nat : n <= 16 => n \in 0..16
  OBVIOUS
<1> QED
  BY <1>2, <1>3, <1>4

\* They are sequences of registers the caller relies on,
LEMMA SavedRegisters ==
  /\ SavedGp \in Seq({"gp"} \X (0..15)) /\ SavedVec \in Seq({"vec"} \X (0..15))
  /\ SavedGp \in Registers /\ SavedVec \in Registers
<1>1. /\ SavedGp \in Seq({"gp"} \X (0..15)) /\ SavedVec \in Seq({"vec"} \X (0..15))
      /\ Len(SavedGp) <= 16 /\ Len(SavedVec) <= 16
  BY SavedAssumption
<1>2. Len(SavedGp) \in Nat /\ Len(SavedVec) \in Nat
  BY <1>1, LenProperties
<1>3. (\A i \in 1..Len(SavedGp) : SavedGp[i] \in Nonvolatile)
      /\ \A i \in 1..Len(SavedVec) : SavedVec[i] \in Nonvolatile
  BY <1>1, LenProperties DEF Nonvolatile, ToSet
<1>4. ASSUME NEW S, NEW s \in Seq(S), NEW T, \A i \in 1..Len(s) : s[i] \in T PROVE s \in Seq(T)
  <2>1. s \in [1..Len(s) -> T] /\ Len(s) \in Nat
    BY <1>4, LenProperties
  <2> QED
    BY <2>1, SeqDef
<1>5. SavedGp \in Registers /\ SavedVec \in Registers
  BY <1>1, <1>3, <1>4 DEF Registers
<1> QED
  BY <1>1, <1>5, Zenon

\* and so are the first few of any sequence.
LEMMA FirstRegisters ==
  ASSUME NEW S, NEW s \in Seq(S), NEW n \in 0..Len(s)
  PROVE  SubSeq(s, 1, n) \in Seq(S) /\ Len(SubSeq(s, 1, n)) = n
<1>1. Len(s) \in Nat /\ \A i \in 1..n : s[i] \in S
  BY LenProperties, ElementOfSeq
<1>2. /\ SubSeq(s, 1, n) \in Seq(S)
      /\ Len(SubSeq(s, 1, n)) = IF 1 <= n THEN n - 1 + 1 ELSE 0
  BY <1>1, SubSeqProperties
<1> QED
  BY <1>1, <1>2

\* Every frame the library asks for has a layout of that kind.
LEMMA PlansHaveLayouts ==
  ASSUME NEW p \in Plans
  PROVE  Layout(p)
<1>0. PICK n \in ArgCounts : p \in PlansFor(n)
  BY DEF Plans
<1> DEFINE A == {RegisterBindingPlan(m) : m \in {n + 1} \cap 1..MaxFuncArgs}
           B == {ArgumentBindingPlan(n, capture) : capture \in BOOLEAN}
           C == {RegisterRestorePlan(n, vecs) : vecs \in 0..Min({4, n})}
           D == {ArgumentRestorePlan(n, bSafe) : bSafe \in BOOLEAN}
           E == {CompiledPlan(n, gps, vecs) : gps \in 0..Len(SavedGp), vecs \in 0..Len(SavedVec)}
<1>1. PlansFor(n) = A \cup B \cup C \cup D \cup E
  BY DEF PlansFor
<1> HIDE DEF A, B, C, D, E
<1>2. n \in 0..32 /\ n \in 0..33 /\ MaxFuncArgs = 32
  BY ArgCountAssumption DEF MaxFuncArgs
<1>3. ShadowArgSpace(n) \in 32..264
  BY <1>2, ShadowSpace
<1>4. SizeOfXmm = 16 /\ SizeOfRegisterContext = 376
  BY DEF SizeOfXmm, SizeOfRegisterContext
<1>5. <<>> \in Seq({"gp"} \X (0..15)) /\ <<>> \in Seq({"vec"} \X (0..15))
      /\ <<>> \in Registers /\ Len(<<>>) = 0
  BY DEF Registers
<1>6. ASSUME NEW raw \in 32..2048, NEW flags \in BOOLEAN, p = Unsaved(raw, flags)
      PROVE  Layout(p)
  <2>1. p.PushedGpRegs = <<>> /\ p.SavedVecRegs = <<>> /\ p.RawStackAllocation = raw
        /\ p.SavedVecOffset = 0
    BY <1>6 DEF Unsaved
  <2>2. p \in Plan
    BY <1>5, <1>6 DEF Unsaved, Plan
  <2>3. Pushes(p) = 0 /\ Saves(p) = 0
    BY <1>5, <2>1 DEF Pushes, Saves
  <2>4. Sizes(p)
    BY <2>1, <2>3 DEF Sizes
  <2>5. p.PushedGpRegs \in Registers /\ p.SavedVecRegs \in Registers
    BY <1>5, <2>1
  <2> QED
    BY <2>2, <2>4, <2>5 DEF Layout
<1>7. ASSUME NEW offset \in 32..1024, offset % 16 = 0
      PROVE  Layout(SavingAll(offset))
  <2> DEFINE q == SavingAll(offset)
             gps == Len(SavedGp)
             vecs == Len(SavedVec)
  <2>1. q.PushedGpRegs = SavedGp /\ q.SavedVecRegs = SavedVec
        /\ q.RawStackAllocation = offset + 16 * vecs /\ q.SavedVecOffset = offset
    BY DEF SavingAll, SizeOfXmm
  <2>2. gps \in 0..16 /\ vecs \in 0..16
    BY SavedCounts
  <2>3. Pushes(q) = gps /\ Saves(q) = vecs
    BY <2>1 DEF Pushes, Saves
  <2> HIDE DEF gps, vecs
  <2>4. offset + 16 * vecs \in 32..2048 /\ offset + 16 * vecs \in Nat /\ offset \in Nat
    BY <2>2
  <2>5. q \in Plan
    BY <2>4, SavedRegisters DEF SavingAll, SizeOfXmm, Plan, vecs
  <2> HIDE DEF q
  <2>6. Sizes(q)
    BY <1>7, <2>1, <2>2, <2>3, <2>4 DEF Sizes
  <2>7. q.PushedGpRegs \in Registers /\ q.SavedVecRegs \in Registers
    BY <2>1, SavedRegisters
  <2>8. Layout(q)
    BY <2>5, <2>6, <2>7 DEF Layout
  <2> QED
    BY <2>8 DEF q
<1>8. ASSUME NEW raw \in 32..512
      PROVE  RoundUp16(raw) \in 32..1024 /\ RoundUp16(raw) % 16 = 0
  <2>1. raw \in Nat
    OBVIOUS
  <2>2. RoundUp16(raw) \in raw..(raw + 15) /\ RoundUp16(raw) % 16 = 0
    BY <2>1, RoundUp
  <2> QED
    BY <2>2
<1>9. CASE p \in A
  <2>0. \A m \in {n + 1} \cap 1..MaxFuncArgs : m \in 0..33
    BY <1>2
  <2>1. PICK m \in 0..33 : p = RegisterBindingPlan(m)
    BY <1>9, <2>0 DEF A
  <2>2. ShadowArgSpace(m) \in 32..264
    BY ShadowSpace
  <2> DEFINE raw == ShadowArgSpace(m) + SizeOfRegisterContext
  <2>3. raw \in 32..2048
    BY <1>4, <2>2
  <2>4. PICK flags \in BOOLEAN : p = Unsaved(raw, flags)
    BY <2>1, Zenon DEF RegisterBindingPlan
  <2> HIDE DEF raw
  <2> QED
    BY <1>6, <2>3, <2>4
<1>10. CASE p \in B
  <2>1. PICK capture \in BOOLEAN : p = ArgumentBindingPlan(n, capture)
    BY <1>10 DEF B
  <2> DEFINE extra == IF capture THEN SizeOfRegisterContext ELSE 0
             shadow == ShadowArgSpace(2)
             size == ArgumentContextSize(n)
             raw == shadow + size + extra
  <2>2. shadow \in 32..264 /\ size \in 24..280
    BY <1>2, ShadowSpace DEF ArgumentContextSize
  <2>3. extra \in {0, 376}
    BY <1>4
  <2>4. p = Unsaved(raw, capture)
    BY <2>1, Zenon DEF ArgumentBindingPlan
  <2> HIDE DEF shadow, size, extra
  <2>5. raw \in 32..2048
    <3>1. CASE extra = 0
      BY <2>2, <3>1
    <3>2. CASE extra = 376
      BY <2>2, <3>2
    <3> QED
      BY <2>3, <3>1, <3>2
  <2> HIDE DEF raw
  <2> QED
    BY <1>6, <2>4, <2>5
<1>11. CASE p \in C
  <2>1. PICK vecs \in 0..Min({4, n}) : p = RegisterRestorePlan(n, vecs)
    BY <1>11 DEF C
  <2> DEFINE raw == ShadowArgSpace(n) + 8 * (Min({4, n}) - vecs) + 16 * vecs
  <2>2. raw \in 32..512
    <3>1. Min({4, n}) \in 0..4
      BY <1>2, FewArguments
    <3> QED
      BY <1>3, <3>1
  <2>3. p = SavingAll(RoundUp16(raw))
    BY <2>1 DEF RegisterRestorePlan, SizeOfXmm
  <2> HIDE DEF raw
  <2> QED
    BY <1>7, <1>8, <2>2, <2>3
<1>12. CASE p \in D
  <2> DEFINE raw == ShadowArgSpace(n) + 8
  <2>1. raw \in 32..512
    BY <1>3
  <2>2. p = SavingAll(RoundUp16(raw)) \/ \E flags \in BOOLEAN : p = Unsaved(raw, flags)
    <3>1. PICK bSafe \in BOOLEAN : p = ArgumentRestorePlan(n, bSafe)
      BY <1>12 DEF D
    <3>2. CASE bSafe
      BY <3>1, <3>2, Zenon DEF ArgumentRestorePlan
    <3>3. CASE ~bSafe
      BY <3>1, <3>3, Zenon DEF ArgumentRestorePlan
    <3> QED
      BY <3>2, <3>3
  <2> HIDE DEF raw
  <2>3. raw \in 32..2048
    BY <2>1
  <2>4. Layout(SavingAll(RoundUp16(raw)))
    BY <1>7, <1>8, <2>1
  <2> QED
    BY <1>6, <2>2, <2>3, <2>4
<1>13. CASE p \in E
  <2>1. PICK gps \in 0..Len(SavedGp), vecs \in 0..Len(SavedVec) : p = CompiledPlan(n, gps, vecs)
    BY <1>13 DEF E
  <2> DEFINE offset == RoundUp16(ShadowArgSpace(n))
             gp == SubSeq(SavedGp, 1, gps)
             vec == SubSeq(SavedVec, 1, vecs)
  <2>2. offset \in 32..1024 /\ offset % 16 = 0
    <3>1. ShadowArgSpace(n) \in 32..512
      BY <1>3
    <3> QED
      BY <1>8, <3>1
  <2>3. /\ gp \in Seq({"gp"} \X (0..15)) /\ gp \in Registers /\ Len(gp) = gps
        /\ vec \in Seq({"vec"} \X (0..15)) /\ vec \in Registers /\ Len(vec) = vecs
    <3>1. /\ SavedGp \in Seq({"gp"} \X (0..15)) /\ SavedVec \in Seq({"vec"} \X (0..15))
          /\ SavedGp \in Seq(Nonvolatile) /\ SavedVec \in Seq(Nonvolatile)
      BY SavedRegisters DEF Registers
    <3> QED
      BY <3>1, FirstRegisters DEF Registers
  <2>4. gps \in 0..16 /\ vecs \in 0..16
    <3>1. \A k \in 0..16 : 0..k \subseteq 0..16
      OBVIOUS
    <3> QED
      BY <3>1, SavedCounts
  <2>5. p = [PushedGpRegs |-> gp, SavedVecRegs |-> vec, RawStackAllocation |-> offset + 16 * vecs,
             SavedVecOffset |-> offset, compiled |-> TRUE, flags |-> FALSE]
    BY <1>4, <2>1 DEF CompiledPlan
  <2> HIDE DEF offset, gp, vec
  <2>6. offset + 16 * vecs \in 32..2048 /\ offset + 16 * vecs \in Nat /\ offset \in Nat
    BY <2>2, <2>4
  <2>7. p \in Plan
    BY <2>3, <2>5, <2>6 DEF Plan
  <2>8. p.PushedGpRegs = gp /\ p.SavedVecRegs = vec /\ p.RawStackAllocation = offset + 16 * vecs
        /\ p.SavedVecOffset = offset
    BY <2>5
  <2>9. Pushes(p) = gps /\ Saves(p) = vecs
    BY <2>3, <2>8 DEF Pushes, Saves
  <2>10. Sizes(p)
    BY <2>2, <2>4, <2>6, <2>8, <2>9 DEF Sizes
  <2> QED
    BY <2>3, <2>7, <2>8, <2>10, Zenon DEF Layout
<1> QED
  BY <1>0, <1>1, <1>9, <1>10, <1>11, <1>12, <1>13

-----------------------------------------------------------------------------
(* The code *)

\* Where the body, the epilog and the return are.
FlagMoves(p) == IF p.flags THEN 2 ELSE 0
WorkAt(p) == Pushes(p) + Saves(p) + FlagMoves(p) + 2
EpilogAt(p) == WorkAt(p) + Saves(p) + 2
EndAt(p) == EpilogAt(p) + Pushes(p) + 1
Low(p) == EntryRsp - 8 * Pushes(p) - StackAllocation(p)   \* rsp in the body

Names == {"push", "sub", "save", "pushf", "popf", "work", "call", "load", "add", "pop", "ret"}
Operations == [op : Names, reg : {"gp", "vec", "none"} \X (0..15), imm : Nat]

\* Two pieces of code, one after the other.
Joins(r, s, m, t, n) ==
  /\ r \in Seq(Operations) /\ Len(r) = m + n
  /\ \A i \in 1..m : r[i] = s[i]
  /\ \A i \in 1..n : r[m + i] = t[i]

\* Code joined keeps both pieces.
LEMMA Joined ==
  ASSUME NEW s \in Seq(Operations), NEW t \in Seq(Operations)
  PROVE  Joins(s \o t, s, Len(s), t, Len(t))
<1> DEFINE m == Len(s)
           n == Len(t)
           r == s \o t
<1>1. m \in Nat /\ n \in Nat
  BY LenProperties
<1>2. /\ r \in Seq(Operations) /\ Len(r) = m + n
      /\ \A i \in 1..(m + n) : r[i] = IF i <= m THEN s[i] ELSE t[i - m]
  BY ConcatProperties
<1>3. \A i \in 1..n : m + i \in 1..(m + n) /\ ~(m + i <= m) /\ (m + i) - m = i
  BY <1>1
<1>4. \A i \in 1..m : i \in 1..(m + n) /\ i <= m
  BY <1>1
<1> HIDE DEF m, n, r
<1> QED
  BY <1>2, <1>3, <1>4 DEF Joins, m, n, r

\* Short pieces.
LEMMA Short ==
  ASSUME NEW S, NEW x \in S, NEW y \in S
  PROVE  /\ <<>> \in Seq(S) /\ Len(<<>>) = 0
         /\ <<x>> \in Seq(S) /\ Len(<<x>>) = 1 /\ <<x>>[1] = x
         /\ <<x, y>> \in Seq(S) /\ Len(<<x, y>>) = 2 /\ <<x, y>>[1] = x /\ <<x, y>>[2] = y
OBVIOUS

\* What Instruction builds is an instruction.
LEMMA AnOperation ==
  ASSUME NEW op \in Names, NEW imm \in Nat
  PROVE  /\ Instruction(op, NoReg, imm) \in Operations
         /\ \A reg \in {"gp"} \X (0..15) : Instruction(op, reg, imm) \in Operations
         /\ \A reg \in {"vec"} \X (0..15) : Instruction(op, reg, imm) \in Operations
<1>1. NoReg \in {"gp", "vec", "none"} \X (0..15)
  BY DEF NoReg
<1>2. \A reg \in {"gp"} \X (0..15) : reg \in {"gp", "vec", "none"} \X (0..15)
  OBVIOUS
<1>3. \A reg \in {"vec"} \X (0..15) : reg \in {"gp", "vec", "none"} \X (0..15)
  OBVIOUS
<1>4. \A reg \in {"gp", "vec", "none"} \X (0..15) : Instruction(op, reg, imm) \in Operations
  BY DEF Instruction, Operations
<1> QED
  BY <1>1, <1>2, <1>3, <1>4

\* Code backwards.
LEMMA Reversed ==
  ASSUME NEW S, NEW n \in Nat, NEW s \in [1..n -> S]
  PROVE  /\ Reverse(s) \in Seq(S) /\ Len(Reverse(s)) = n
         /\ \A i \in 1..n : Reverse(s)[i] = s[n + 1 - i]
<1>1. s \in Seq(S) /\ Len(s) = n
  BY SeqDef, LenProperties
<1>2. \A i \in 1..n : n - i + 1 \in 1..n /\ n + 1 - i = n - i + 1
  OBVIOUS
<1>3. Reverse(s) = [i \in 1..n |-> s[n - i + 1]]
  BY <1>1 DEF Reverse
<1>4. Reverse(s) \in [1..n -> S]
  BY <1>2, <1>3
<1>5. Reverse(s) \in Seq(S) /\ Len(Reverse(s)) = n
  BY <1>4, SeqDef, LenProperties
<1> QED
  BY <1>2, <1>3, <1>5

\* What a layout is made of.
LEMMA LayoutFacts ==
  ASSUME NEW p, Layout(p)
  PROVE  /\ p.PushedGpRegs \in [1..Pushes(p) -> {"gp"} \X (0..15)]
         /\ p.SavedVecRegs \in [1..Saves(p) -> {"vec"} \X (0..15)]
         /\ \A i \in 1..Pushes(p) : p.PushedGpRegs[i] \in Nonvolatile
         /\ \A i \in 1..Saves(p) : p.SavedVecRegs[i] \in Nonvolatile
         /\ DOMAIN p.PushedGpRegs = 1..Pushes(p) /\ DOMAIN p.SavedVecRegs = 1..Saves(p)
<1>1. /\ p.PushedGpRegs \in Seq({"gp"} \X (0..15)) /\ p.PushedGpRegs \in Seq(Nonvolatile)
      /\ p.SavedVecRegs \in Seq({"vec"} \X (0..15)) /\ p.SavedVecRegs \in Seq(Nonvolatile)
  BY DEF Layout, Plan, Registers
<1> QED
  BY <1>1, LenProperties DEF Pushes, Saves

\* Its numbers.
LEMMA LayoutNumbers ==
  ASSUME NEW p, Layout(p)
  PROVE  /\ Pushes(p) \in 0..16 /\ Saves(p) \in 0..16 /\ FlagMoves(p) \in {0, 2}
         /\ StackAllocation(p) \in p.RawStackAllocation..(p.RawStackAllocation + 15)
         /\ (8 * Pushes(p) + StackAllocation(p)) % 16 = 8
         /\ StackAllocation(p) \in 32..2100
         /\ LocalSpace(p) \in 32..StackAllocation(p)
         /\ Saves(p) # 0 => LocalSpace(p) = p.SavedVecOffset
<1>1. /\ Pushes(p) \in 0..16 /\ Saves(p) \in 0..16 /\ p.RawStackAllocation \in 32..2048
      /\ Saves(p) # 0 => /\ p.SavedVecOffset \in 32..2048
                         /\ p.RawStackAllocation = p.SavedVecOffset + 16 * Saves(p)
  BY DEF Layout, Sizes
<1>2. FlagMoves(p) \in {0, 2}
  BY DEF FlagMoves
<1> DEFINE raw == p.RawStackAllocation
           push == 8 * Pushes(p)
           allocation == StackAllocation(p)
           offset == p.SavedVecOffset
           saves == Saves(p)
<1>3. raw \in Nat /\ push \in Nat
  <2>1. raw \in 32..2048
    BY <1>1
  <2>2. push \in Nat
    BY <1>1
  <2> HIDE DEF raw, push
  <2> QED
    BY <2>1, <2>2
<1>4. PushBytes(p) = push
  BY DEF PushBytes, Pushes
<1>5. StackAllocation(p) \in raw..(raw + 15) /\ (push + StackAllocation(p)) % 16 = 8
  <2> HIDE DEF raw, push
  <2>1. StackAllocation(p) = AlignThunkStackAllocation(raw, push)
    BY <1>4 DEF StackAllocation, raw
  <2> QED
    BY <1>3, <2>1, FramesAreAligned
<1>6. allocation \in 32..2100
  <2> HIDE DEF raw, allocation
  <2>1. raw \in 32..2048 /\ allocation \in raw..(raw + 15)
    BY <1>1, <1>5 DEF raw, allocation
  <2> QED
    BY <2>1
<1>7. LocalSpace(p) = IF Saves(p) = 0 THEN raw ELSE p.SavedVecOffset
  <2>1. p.SavedVecRegs \in Seq(Nonvolatile)
    BY DEF Layout, Registers
  <2>2. p.SavedVecRegs = <<>> <=> Saves(p) = 0
    BY <2>1, EmptySeq DEF Saves
  <2> QED
    BY <2>2 DEF LocalSpace
<1>8. (IF saves = 0 THEN raw ELSE offset) \in 32..allocation
  <2>1. /\ raw \in 32..2048 /\ allocation \in raw..(raw + 15) /\ saves \in 0..16
        /\ saves # 0 => offset \in 32..2048 /\ raw = offset + 16 * saves
    BY <1>1, <1>5
  <2> HIDE DEF raw, offset, saves, allocation
  <2>2. CASE saves = 0
    BY <2>1, <2>2
  <2>3. CASE saves # 0
    <3>1. offset \in Int /\ offset >= 32 /\ allocation \in Int
          /\ allocation >= offset + 16 * saves /\ saves \in Nat
      BY <2>1, <2>3
    <3>2. offset <= allocation
      BY <3>1
    <3> QED
      BY <2>3, <3>1, <3>2
  <2> QED
    BY <2>2, <2>3
<1> QED
  BY <1>1, <1>2, <1>5, <1>6, <1>7, <1>8

\* Where a vector register is saved.
LEMMA OffsetType ==
  ASSUME NEW p, Layout(p)
  PROVE  \A i \in 1..Saves(p) :
           /\ VecOffset(p, i) = p.SavedVecOffset + 16 * (i - 1)
           /\ VecOffset(p, i) \in Nat /\ VecOffset(p, i) % 16 = 0
           /\ VecOffset(p, i) >= LocalSpace(p) /\ VecOffset(p, i) >= 32
           /\ VecOffset(p, i) + 16 <= StackAllocation(p)
<1>1. /\ Saves(p) \in 0..16 /\ p.SavedVecOffset \in 0..2048 /\ p.SavedVecOffset % 16 = 0
      /\ Saves(p) # 0 => /\ p.SavedVecOffset >= 32
                         /\ p.RawStackAllocation = p.SavedVecOffset + 16 * Saves(p)
                         /\ LocalSpace(p) = p.SavedVecOffset
      /\ p.RawStackAllocation \in 32..2048
      /\ StackAllocation(p) \in p.RawStackAllocation..(p.RawStackAllocation + 15)
  BY LayoutNumbers DEF Layout, Sizes
<1> SUFFICES ASSUME NEW i \in 1..Saves(p)
             PROVE  /\ VecOffset(p, i) = p.SavedVecOffset + 16 * (i - 1)
                    /\ VecOffset(p, i) \in Nat /\ VecOffset(p, i) % 16 = 0
                    /\ VecOffset(p, i) >= LocalSpace(p) /\ VecOffset(p, i) >= 32
                    /\ VecOffset(p, i) + 16 <= StackAllocation(p)
  OBVIOUS
<1>2. VecOffset(p, i) = p.SavedVecOffset + 16 * (i - 1)
  BY DEF VecOffset, SizeOfXmm
<1> DEFINE offset == p.SavedVecOffset
           v == Saves(p)
           allocation == StackAllocation(p)
           local == LocalSpace(p)
           raw == p.RawStackAllocation
           at == VecOffset(p, i)
<1>3. /\ v \in 0..16 /\ offset \in 0..2048 /\ offset % 16 = 0 /\ i \in 1..v /\ at = offset + 16 * (i - 1)
      /\ offset >= 32 /\ raw = offset + 16 * v /\ local = offset
      /\ raw \in 32..2048 /\ allocation \in raw..(raw + 15)
  <2>1. v # 0
    <3>1. v \in 0..16 /\ i \in 1..v
      BY <1>1
    <3> HIDE DEF v
    <3> QED
      BY <3>1
  <2> QED
    BY <1>1, <1>2, <2>1
<1>4. /\ at = offset + 16 * (i - 1) /\ at \in Nat /\ at % 16 = 0 /\ at >= local /\ at >= 32
      /\ at + 16 <= allocation
  <2> HIDE DEF offset, v, allocation, local, raw, at
  <2>1. i \in 1..16 /\ i <= v
    BY <1>3
  <2>2. at \in Nat /\ at >= local /\ at >= 32
    BY <1>3, <2>1
  <2>3. at % 16 = 0
    BY <1>3, <2>1
  <2>4. at + 16 <= raw
    BY <1>3, <2>1
  <2>5. raw <= allocation /\ raw \in Int /\ allocation \in Int
    BY <1>3
  <2> QED
    BY <1>3, <2>2, <2>3, <2>4, <2>5
<1> QED
  BY <1>4

\* The pieces of the code.
Pushing(p, i) == Instruction("push", p.PushedGpRegs[i], 0)
Popping(p, i) == Instruction("pop", p.PushedGpRegs[i], 0)
Saving(p, i) == Instruction("save", p.SavedVecRegs[i], VecOffset(p, i))
Loading(p, i) == Instruction("load", p.SavedVecRegs[i], VecOffset(p, i))
Plain(op, imm) == Instruction(op, NoReg, imm)
PushCode(p) == [i \in 1..Pushes(p) |-> Pushing(p, i)]
PopCode(p) == [i \in 1..Pushes(p) |-> Popping(p, i)]
SaveCode(p) == [i \in 1..Saves(p) |-> Saving(p, i)]
LoadCode(p) == [i \in 1..Saves(p) |-> Loading(p, i)]
FlagCode(p) == IF p.flags THEN <<Plain("pushf", 0), Plain("popf", 0)>> ELSE <<>>
CallCode(p) == <<Plain("work", LocalSpace(p)), Plain("call", 0)>>

\* Every frame allocates something, so no piece is left out.
LEMMA Pieces ==
  ASSUME NEW p, Layout(p)
  PROVE  /\ Prolog(p) = (PushCode(p) \o <<Plain("sub", StackAllocation(p))>>) \o SaveCode(p)
         /\ Body(p) = (FlagCode(p) \o CallCode(p)) \o Reverse(LoadCode(p))
         /\ Epilog(p) = (<<Plain("add", StackAllocation(p))>> \o Reverse(PopCode(p)))
                          \o <<Plain("ret", 0)>>
<1>1. StackAllocation(p) # 0
  <2>1. StackAllocation(p) \in 32..2100
    BY LayoutNumbers
  <2> QED
    BY <2>1
<1>2. DOMAIN p.PushedGpRegs = 1..Pushes(p) /\ DOMAIN p.SavedVecRegs = 1..Saves(p)
  BY LayoutFacts
<1>3. /\ PushCode(p) = [i \in DOMAIN p.PushedGpRegs |-> Instruction("push", p.PushedGpRegs[i], 0)]
      /\ PopCode(p) = [i \in DOMAIN p.PushedGpRegs |-> Instruction("pop", p.PushedGpRegs[i], 0)]
      /\ SaveCode(p) = [i \in DOMAIN p.SavedVecRegs |->
                          Instruction("save", p.SavedVecRegs[i], VecOffset(p, i))]
      /\ LoadCode(p) = [i \in DOMAIN p.SavedVecRegs |->
                          Instruction("load", p.SavedVecRegs[i], VecOffset(p, i))]
  BY <1>2, Zenon DEF PushCode, PopCode, SaveCode, LoadCode, Pushing, Popping, Saving, Loading
<1> QED
  <2>1. Prolog(p) = (PushCode(p) \o <<Plain("sub", StackAllocation(p))>>) \o SaveCode(p)
    BY <1>1, <1>3, Zenon DEF Prolog, Plain
  <2>2. Body(p) = (FlagCode(p) \o CallCode(p)) \o Reverse(LoadCode(p))
    BY <1>3, Zenon DEF Body, FlagCode, CallCode, Plain
  <2>3. Epilog(p) = (<<Plain("add", StackAllocation(p))>> \o Reverse(PopCode(p)))
                          \o <<Plain("ret", 0)>>
    BY <1>1, <1>3, Zenon DEF Epilog, Plain
  <2> QED
    BY <2>1, <2>2, <2>3

\* All of them are code.
LEMMA PieceTypes ==
  ASSUME NEW p, Layout(p)
  PROVE  /\ PushCode(p) \in [1..Pushes(p) -> Operations] /\ PopCode(p) \in [1..Pushes(p) -> Operations]
         /\ SaveCode(p) \in [1..Saves(p) -> Operations] /\ LoadCode(p) \in [1..Saves(p) -> Operations]
         /\ \A op \in Names : Plain(op, 0) \in Operations
         /\ \A op \in Names : Plain(op, StackAllocation(p)) \in Operations
         /\ \A op \in Names : Plain(op, LocalSpace(p)) \in Operations
<1>1. StackAllocation(p) \in Nat /\ LocalSpace(p) \in Nat
  <2>1. StackAllocation(p) \in 32..2100 /\ LocalSpace(p) \in 32..StackAllocation(p)
    BY LayoutNumbers
  <2> QED
    BY <2>1
<1>2. \A i \in 1..Pushes(p) : p.PushedGpRegs[i] \in {"gp"} \X (0..15)
  BY LayoutFacts
<1>3. \A i \in 1..Saves(p) : p.SavedVecRegs[i] \in {"vec"} \X (0..15)
  BY LayoutFacts
<1>4. \A i \in 1..Saves(p) : VecOffset(p, i) \in Nat
  BY OffsetType
<1>5. \A i \in 1..Pushes(p) : Pushing(p, i) \in Operations /\ Popping(p, i) \in Operations
  <2>1. \A reg \in {"gp"} \X (0..15) :
          Instruction("push", reg, 0) \in Operations /\ Instruction("pop", reg, 0) \in Operations
    BY AnOperation DEF Names
  <2> QED
    BY <1>2, <2>1 DEF Pushing, Popping
<1>6. \A i \in 1..Saves(p) : Saving(p, i) \in Operations /\ Loading(p, i) \in Operations
  <2>1. \A reg \in {"vec"} \X (0..15), imm \in Nat :
          Instruction("save", reg, imm) \in Operations /\ Instruction("load", reg, imm) \in Operations
    BY AnOperation DEF Names
  <2> QED
    BY <1>3, <1>4, <2>1 DEF Saving, Loading
<1>7. /\ \A op \in Names : Plain(op, 0) \in Operations
      /\ \A op \in Names : Plain(op, StackAllocation(p)) \in Operations
      /\ \A op \in Names : Plain(op, LocalSpace(p)) \in Operations
  BY <1>1, AnOperation DEF Plain
<1>8. PushCode(p) \in [1..Pushes(p) -> Operations] /\ PopCode(p) \in [1..Pushes(p) -> Operations]
  BY <1>5 DEF PushCode, PopCode
<1>9. SaveCode(p) \in [1..Saves(p) -> Operations] /\ LoadCode(p) \in [1..Saves(p) -> Operations]
  BY <1>6 DEF SaveCode, LoadCode
<1> QED
  BY <1>7, <1>8, <1>9

\* The instructions by position: the prolog,
LEMMA PrologCode ==
  ASSUME NEW p, Layout(p)
  PROVE  /\ Prolog(p) \in Seq(Operations) /\ Len(Prolog(p)) = (Pushes(p) + 1) + Saves(p)
         /\ \A i \in 1..Pushes(p) : Prolog(p)[i] = Pushing(p, i)
         /\ Prolog(p)[Pushes(p) + 1] = Plain("sub", StackAllocation(p))
         /\ \A i \in 1..Saves(p) : Prolog(p)[(Pushes(p) + 1) + i] = Saving(p, i)
<1> DEFINE n == Pushes(p)
           v == Saves(p)
           pushed == PushCode(p)
           sub == Plain("sub", StackAllocation(p))
           saved == SaveCode(p)
           prolog == Prolog(p)
           alloc == <<sub>>
           first == pushed \o alloc
<1>1. n \in Nat /\ v \in Nat
  <2>1. n \in 0..16 /\ v \in 0..16
    BY LayoutNumbers
  <2> HIDE DEF n, v
  <2> QED
    BY <2>1
<1>2. prolog = first \o saved
  BY Pieces
<1>3. pushed \in [1..n -> Operations] /\ saved \in [1..v -> Operations] /\ sub \in Operations
  BY PieceTypes DEF Names
<1>4. (\A i \in 1..n : pushed[i] = Pushing(p, i)) /\ \A i \in 1..v : saved[i] = Saving(p, i)
  BY DEF PushCode, SaveCode
<1>5. /\ pushed \in Seq(Operations) /\ Len(pushed) = n
      /\ saved \in Seq(Operations) /\ Len(saved) = v
      /\ alloc \in Seq(Operations) /\ Len(alloc) = 1 /\ alloc[1] = sub
  <2> HIDE DEF pushed, saved, sub, n, v
  <2> QED
    BY <1>1, <1>3, SeqDef, LenProperties, Short
<1>6. /\ prolog \in Seq(Operations) /\ Len(prolog) = (n + 1) + v
      /\ \A i \in 1..n : prolog[i] = pushed[i]
      /\ prolog[n + 1] = sub
      /\ \A i \in 1..v : prolog[(n + 1) + i] = saved[i]
  <2> HIDE DEF pushed, saved, alloc, prolog, sub, n, v
  <2>1. Joins(first, pushed, n, alloc, 1)
    BY <1>5, Joined
  <2>2. Joins(prolog, first, n + 1, saved, v)
    <3>1. first \in Seq(Operations) /\ Len(first) = n + 1
      BY <2>1 DEF Joins
    <3> HIDE DEF first
    <3> QED
      BY <1>2, <1>5, <3>1, Joined DEF first
  <2>3. n + 1 \in 1..(n + 1) /\ 1 \in 1..1 /\ \A i \in 1..n : i \in 1..(n + 1)
    BY <1>1
  <2> QED
    BY <1>5, <2>1, <2>2, <2>3 DEF Joins
<1> QED
  BY <1>4, <1>6

\* the body,
LEMMA BodyCode ==
  ASSUME NEW p, Layout(p)
  PROVE  /\ Body(p) \in Seq(Operations) /\ Len(Body(p)) = (FlagMoves(p) + 2) + Saves(p)
         /\ FlagMoves(p) = 2 => Body(p)[1] = Plain("pushf", 0) /\ Body(p)[2] = Plain("popf", 0)
         /\ Body(p)[FlagMoves(p) + 1] = Plain("work", LocalSpace(p))
         /\ Body(p)[FlagMoves(p) + 2] = Plain("call", 0)
         /\ \A i \in 1..Saves(p) :
              Body(p)[(FlagMoves(p) + 2) + i] = Loading(p, Saves(p) + 1 - i)
<1> DEFINE v == Saves(p)
           f == FlagMoves(p)
           flags == FlagCode(p)
           middle == CallCode(p)
           work == Plain("work", LocalSpace(p))
           call == Plain("call", 0)
           loads == LoadCode(p)
           back == Reverse(loads)
           body == Body(p)
           first == flags \o middle
<1>1. v \in Nat /\ f \in {0, 2}
  <2>1. v \in 0..16 /\ f \in {0, 2}
    BY LayoutNumbers
  <2> HIDE DEF v
  <2> QED
    BY <2>1
<1>2. body = first \o back
  BY Pieces
<1>3. loads \in [1..v -> Operations] /\ work \in Operations /\ call \in Operations
      /\ Plain("pushf", 0) \in Operations /\ Plain("popf", 0) \in Operations
  BY PieceTypes DEF Names
<1>4. /\ flags \in Seq(Operations) /\ Len(flags) = f
      /\ f = 2 => flags[1] = Plain("pushf", 0) /\ flags[2] = Plain("popf", 0)
  <2> DEFINE x == Plain("pushf", 0)
             y == Plain("popf", 0)
  <2>1. x \in Operations /\ y \in Operations /\ flags = (IF p.flags THEN <<x, y>> ELSE <<>>)
        /\ f = IF p.flags THEN 2 ELSE 0
    BY <1>3 DEF FlagCode, FlagMoves
  <2> HIDE DEF x, y, f, flags
  <2>2. ASSUME p.flags
        PROVE  flags \in Seq(Operations) /\ Len(flags) = f
               /\ (f = 2 => flags[1] = x /\ flags[2] = y)
    <3>1. flags = <<x, y>> /\ f = 2
      BY <2>1, <2>2
    <3> QED
      BY <2>1, <3>1, Short
  <2>3. ASSUME ~p.flags
        PROVE  flags \in Seq(Operations) /\ Len(flags) = f
               /\ (f = 2 => flags[1] = x /\ flags[2] = y)
    <3>1. flags = <<>> /\ f = 0
      BY <2>1, <2>3
    <3> QED
      BY <2>1, <3>1, Short
  <2>4. /\ flags \in Seq(Operations) /\ Len(flags) = f
        /\ f = 2 => flags[1] = x /\ flags[2] = y
    BY <2>2, <2>3
  <2> QED
    BY <2>4 DEF x, y
<1>5. middle \in Seq(Operations) /\ Len(middle) = 2 /\ middle[1] = work /\ middle[2] = call
  <2>1. middle = <<work, call>>
    BY DEF CallCode
  <2> HIDE DEF middle, work, call
  <2> QED
    BY <1>3, <2>1, Short
<1>6. /\ back \in Seq(Operations) /\ Len(back) = v
      /\ \A i \in 1..v : back[i] = loads[v + 1 - i]
  <2> HIDE DEF loads, v
  <2> QED
    BY <1>1, <1>3, Reversed
<1>7. \A i \in 1..v : v + 1 - i \in 1..v
  <2> HIDE DEF v
  <2> QED
    BY <1>1
<1>8. \A i \in 1..v : loads[i] = Loading(p, i)
  BY DEF LoadCode
<1>9. \A i \in 1..v : back[i] = Loading(p, v + 1 - i)
  <2> HIDE DEF loads, v, back
  <2> QED
    BY <1>6, <1>7, <1>8
<1>10. /\ body \in Seq(Operations) /\ Len(body) = (f + 2) + v
       /\ f = 2 => body[1] = flags[1] /\ body[2] = flags[2]
       /\ body[f + 1] = work /\ body[f + 2] = call
       /\ \A i \in 1..v : body[(f + 2) + i] = back[i]
  <2> HIDE DEF flags, middle, work, call, back, body, v, f
  <2>1. Joins(first, flags, f, middle, 2)
    BY <1>4, <1>5, Joined
  <2>2. Joins(body, first, f + 2, back, v)
    <3>1. first \in Seq(Operations) /\ Len(first) = f + 2
      BY <2>1 DEF Joins
    <3> HIDE DEF first
    <3> QED
      BY <1>2, <1>6, <3>1, Joined DEF first
  <2>3. f + 1 \in 1..(f + 2) /\ f + 2 \in 1..(f + 2) /\ 1 \in 1..2 /\ 2 \in 1..2
        /\ (f = 2 => 1 \in 1..(f + 2) /\ 2 \in 1..(f + 2) /\ 1 \in 1..f /\ 2 \in 1..f)
    BY <1>1
  <2>4. first[f + 1] = work /\ first[f + 2] = call /\ \A i \in 1..f : first[i] = flags[i]
    BY <1>5, <2>1, <2>3 DEF Joins
  <2> HIDE DEF first
  <2> QED
    BY <2>2, <2>3, <2>4 DEF Joins
<1> QED
  BY <1>4, <1>9, <1>10

\* the epilog,
LEMMA EpilogCode ==
  ASSUME NEW p, Layout(p)
  PROVE  /\ Epilog(p) \in Seq(Operations) /\ Len(Epilog(p)) = (1 + Pushes(p)) + 1
         /\ Epilog(p)[1] = Plain("add", StackAllocation(p))
         /\ \A i \in 1..Pushes(p) : Epilog(p)[1 + i] = Popping(p, Pushes(p) + 1 - i)
         /\ Epilog(p)[(1 + Pushes(p)) + 1] = Plain("ret", 0)
<1> DEFINE n == Pushes(p)
           x == Plain("add", StackAllocation(p))
           y == Plain("ret", 0)
           add == <<x>>
           ret == <<y>>
           pops == PopCode(p)
           back == Reverse(pops)
           epilog == Epilog(p)
           first == add \o back
<1>1. n \in Nat
  <2>1. n \in 0..16
    BY LayoutNumbers
  <2> HIDE DEF n
  <2> QED
    BY <2>1
<1>2. epilog = first \o ret
  BY Pieces
<1>3. pops \in [1..n -> Operations] /\ x \in Operations /\ y \in Operations
  BY PieceTypes DEF Names
<1>4. /\ add \in Seq(Operations) /\ Len(add) = 1 /\ add[1] = x
      /\ ret \in Seq(Operations) /\ Len(ret) = 1 /\ ret[1] = y
  <2> HIDE DEF x, y
  <2> QED
    BY <1>3, Short
<1>5. /\ back \in Seq(Operations) /\ Len(back) = n
      /\ \A i \in 1..n : back[i] = pops[n + 1 - i]
  <2> HIDE DEF pops, n
  <2> QED
    BY <1>1, <1>3, Reversed
<1>6. \A i \in 1..n : n + 1 - i \in 1..n
  <2> HIDE DEF n
  <2> QED
    BY <1>1
<1>7. \A i \in 1..n : pops[i] = Popping(p, i)
  BY DEF PopCode
<1>8. \A i \in 1..n : back[i] = Popping(p, n + 1 - i)
  <2> HIDE DEF pops, n, back
  <2> QED
    BY <1>5, <1>6, <1>7
<1>9. /\ epilog \in Seq(Operations) /\ Len(epilog) = (1 + n) + 1
      /\ epilog[1] = x /\ epilog[(1 + n) + 1] = y
      /\ \A i \in 1..n : epilog[1 + i] = back[i]
  <2> HIDE DEF add, ret, back, epilog, x, y, n
  <2>1. Joins(first, add, 1, back, n)
    BY <1>4, <1>5, Joined
  <2>2. Joins(epilog, first, 1 + n, ret, 1)
    <3>1. first \in Seq(Operations) /\ Len(first) = 1 + n
      BY <2>1 DEF Joins
    <3> HIDE DEF first
    <3> QED
      BY <1>2, <1>4, <3>1, Joined DEF first
  <2>3. 1 \in 1..1 /\ 1 \in 1..(1 + n) /\ \A i \in 1..n : 1 + i \in 1..(1 + n)
    BY <1>1
  <2>4. first[1] = x /\ \A i \in 1..n : first[1 + i] = back[i]
    BY <1>4, <2>1, <2>3 DEF Joins
  <2> HIDE DEF first
  <2> QED
    BY <1>4, <2>2, <2>3, <2>4 DEF Joins
<1> QED
  BY <1>8, <1>9

\* and the whole.  Every instruction is one of these.
CodeIs(p, code) ==
  /\ \A k \in 0..(Pushes(p) - 1) : code[k + 1] = Pushing(p, k + 1)
  /\ code[Pushes(p) + 1] = Plain("sub", StackAllocation(p))
  /\ \A s \in 0..(Saves(p) - 1) : code[Pushes(p) + 2 + s] = Saving(p, s + 1)
  /\ FlagMoves(p) = 2 => /\ code[WorkAt(p) - 2] = Plain("pushf", 0)
                         /\ code[WorkAt(p) - 1] = Plain("popf", 0)
  /\ code[WorkAt(p)] = Plain("work", LocalSpace(p))
  /\ code[WorkAt(p) + 1] = Plain("call", 0)
  /\ \A s \in 1..Saves(p) : code[EpilogAt(p) - s] = Loading(p, s)
  /\ code[EpilogAt(p)] = Plain("add", StackAllocation(p))
  /\ \A k \in 1..Pushes(p) : code[EndAt(p) - k] = Popping(p, k)
  /\ code[EndAt(p)] = Plain("ret", 0)

\* The code of a thunk, position by position.
LEMMA CodeByPosition ==
  ASSUME NEW p, Layout(p)
  PROVE  /\ Code(p) \in Seq(Operations)
         /\ Len(Prolog(p)) = Pushes(p) + 1 + Saves(p)
         /\ \A i \in 1..(Pushes(p) + 1 + Saves(p)) : Code(p)[i] = Prolog(p)[i]
         /\ Len(Code(p)) = EndAt(p) /\ EpilogStart(p) = EpilogAt(p)
         /\ CodeIs(p, Code(p))
<1> DEFINE n == Pushes(p)
           v == Saves(p)
           f == FlagMoves(p)
           work == WorkAt(p)
           epilogAt == EpilogAt(p)
           end == EndAt(p)
           prolog == Prolog(p)
           body == Body(p)
           epilog == Epilog(p)
           code == Code(p)
           first == prolog \o body
<1>1. n \in Nat /\ v \in Nat /\ f \in {0, 2}
      /\ work = n + v + f + 2 /\ epilogAt = work + v + 2 /\ end = epilogAt + n + 1
  <2>1. n \in 0..16 /\ v \in 0..16 /\ f \in {0, 2}
    BY LayoutNumbers
  <2>2. work = n + v + f + 2 /\ epilogAt = work + v + 2 /\ end = epilogAt + n + 1
    BY DEF WorkAt, EpilogAt, EndAt
  <2> HIDE DEF n, v, f, work, epilogAt, end
  <2> QED
    BY <2>1, <2>2
<1>2. code = first \o epilog /\ EpilogStart(p) = Len(prolog) + Len(body) + 1
  BY DEF Code, EpilogStart
<1>3. /\ prolog \in Seq(Operations) /\ Len(prolog) = (n + 1) + v
      /\ \A i \in 1..n : prolog[i] = Pushing(p, i)
      /\ prolog[n + 1] = Plain("sub", StackAllocation(p))
      /\ \A i \in 1..v : prolog[(n + 1) + i] = Saving(p, i)
  BY PrologCode
<1>4. /\ body \in Seq(Operations) /\ Len(body) = (f + 2) + v
      /\ f = 2 => body[1] = Plain("pushf", 0) /\ body[2] = Plain("popf", 0)
      /\ body[f + 1] = Plain("work", LocalSpace(p))
      /\ body[f + 2] = Plain("call", 0)
      /\ \A i \in 1..v : body[(f + 2) + i] = Loading(p, v + 1 - i)
  BY BodyCode
<1>5. /\ epilog \in Seq(Operations) /\ Len(epilog) = (1 + n) + 1
      /\ epilog[1] = Plain("add", StackAllocation(p))
      /\ \A i \in 1..n : epilog[1 + i] = Popping(p, n + 1 - i)
      /\ epilog[(1 + n) + 1] = Plain("ret", 0)
  BY EpilogCode
<1> HIDE DEF n, v, f, work, epilogAt, end, prolog, body, epilog, code
<1>6. Joins(first, prolog, (n + 1) + v, body, (f + 2) + v)
  BY <1>3, <1>4, Joined
<1>7. Joins(code, first, (n + 1 + v) + (f + 2 + v), epilog, (1 + n) + 1)
  <2>1. first \in Seq(Operations) /\ Len(first) = (n + 1 + v) + (f + 2 + v)
    BY <1>6 DEF Joins
  <2> HIDE DEF first
  <2> QED
    BY <1>2, <1>5, <2>1, Joined DEF first
<1> DEFINE B == n + 1 + v
           E == B + (f + 2 + v)
<1>8. /\ code \in Seq(Operations) /\ Len(code) = E + (n + 2)
      /\ \A i \in 1..B : code[i] = prolog[i]
      /\ \A i \in 1..(f + 2 + v) : code[B + i] = body[i]
      /\ \A i \in 1..(n + 2) : code[E + i] = epilog[i]
  <2>1. /\ \A i \in 1..B : first[i] = prolog[i]
        /\ \A i \in 1..(f + 2 + v) : first[B + i] = body[i]
    BY <1>6 DEF Joins
  <2> HIDE DEF first
  <2>2. /\ code \in Seq(Operations) /\ Len(code) = E + ((1 + n) + 1)
        /\ \A i \in 1..E : code[i] = first[i]
        /\ \A i \in 1..((1 + n) + 1) : code[E + i] = epilog[i]
    BY <1>7 DEF Joins
  <2>3. (1 + n) + 1 = n + 2 /\ (\A i \in 1..B : i \in 1..E)
        /\ \A i \in 1..(f + 2 + v) : B + i \in 1..E
    BY <1>1
  <2> QED
    BY <2>1, <2>2, <2>3
<1>9. Len(code) = end /\ EpilogStart(p) = epilogAt /\ E + 1 = epilogAt
  BY <1>1, <1>2, <1>3, <1>4, <1>8
<1>10. \A k \in 0..(n - 1) : code[k + 1] = Pushing(p, k + 1)
  <2>1. \A k \in 0..(n - 1) : k + 1 \in 1..n /\ k + 1 \in 1..B
    BY <1>1
  <2> HIDE DEF B, E
  <2> QED
    BY <1>3, <1>8, <2>1
<1>11. code[n + 1] = Plain("sub", StackAllocation(p))
  <2>1. n + 1 \in 1..B
    BY <1>1
  <2> HIDE DEF B, E
  <2> QED
    BY <1>3, <1>8, <2>1
<1>12. \A s \in 0..(v - 1) : code[n + 2 + s] = Saving(p, s + 1)
  <2>1. \A s \in 0..(v - 1) : s + 1 \in 1..v /\ n + 2 + s = (n + 1) + (s + 1) /\ n + 2 + s \in 1..B
    BY <1>1
  <2> HIDE DEF B, E
  <2> QED
    BY <1>3, <1>8, <2>1
<1>13. /\ f = 2 => code[work - 2] = Plain("pushf", 0) /\ code[work - 1] = Plain("popf", 0)
       /\ code[work] = Plain("work", LocalSpace(p)) /\ code[work + 1] = Plain("call", 0)
  <2>1. /\ f = 2 => work - 2 = B + 1 /\ work - 1 = B + 2
        /\ work = B + (f + 1) /\ work + 1 = B + (f + 2)
        /\ 1 \in 1..(f + 2 + v) /\ 2 \in 1..(f + 2 + v)
        /\ f + 1 \in 1..(f + 2 + v) /\ f + 2 \in 1..(f + 2 + v)
    BY <1>1
  <2> HIDE DEF B, E
  <2> QED
    BY <1>4, <1>8, <2>1
<1>14. \A s \in 1..v : code[epilogAt - s] = Loading(p, s)
  <2>1. \A s \in 1..v : /\ epilogAt - s = B + ((f + 2) + (v + 1 - s))
                        /\ (f + 2) + (v + 1 - s) \in 1..(f + 2 + v)
                        /\ v + 1 - s \in 1..v /\ v + 1 - (v + 1 - s) = s
    BY <1>1
  <2> HIDE DEF B, E
  <2> QED
    BY <1>4, <1>8, <2>1
<1>15. code[epilogAt] = Plain("add", StackAllocation(p)) /\ code[end] = Plain("ret", 0)
  <2>1. epilogAt = E + 1 /\ end = E + ((1 + n) + 1) /\ 1 \in 1..(n + 2) /\ (1 + n) + 1 \in 1..(n + 2)
    BY <1>1
  <2> HIDE DEF B, E
  <2> QED
    BY <1>5, <1>8, <2>1
<1>16. \A k \in 1..n : code[end - k] = Popping(p, k)
  <2>1. \A k \in 1..n : /\ end - k = E + (1 + (n + 1 - k)) /\ 1 + (n + 1 - k) \in 1..(n + 2)
                        /\ n + 1 - k \in 1..n /\ n + 1 - (n + 1 - k) = k
    BY <1>1
  <2> HIDE DEF B, E
  <2> QED
    BY <1>5, <1>8, <2>1
<1>17. CodeIs(p, code)
  BY <1>10, <1>11, <1>12, <1>13, <1>14, <1>15, <1>16
     DEF CodeIs, n, v, f, work, epilogAt, end
<1> QED
  BY <1>3, <1>8, <1>9, <1>17 DEF n, v, prolog, code, end, epilogAt

-----------------------------------------------------------------------------
(* The processor *)

Cpu(rsp, reg, mem) == [rsp |-> rsp, reg |-> reg, mem |-> mem]
IsCpu(c, rsp) == c = Cpu(rsp, c.reg, c.mem)
ValueOf(c, r) == c.reg[r]
Loaded(c, rsp, r, value) == Cpu(rsp, [c.reg EXCEPT ![r] = value], c.mem)

\* What a thunk has done to the frame: where rsp is, the k registers it has pushed, the s
\* it has saved, and the registers that are not the caller's any more.
Dirty(p, k, s) == {p.PushedGpRegs[i] : i \in 1..k} \cup {p.SavedVecRegs[i] : i \in 1..s}
VecCell(p, i) == Low(p) + VecOffset(p, i)
CellsHold(p, c, k, s) ==
  /\ Read(c, EntryRsp) = ReturnAddress
  /\ \A i \in 1..k : Read(c, EntryRsp - 8 * i) = Caller(p.PushedGpRegs[i])
  /\ \A i \in 1..s : /\ Read(c, VecCell(p, i)) = Caller(p.SavedVecRegs[i])
                     /\ Read(c, VecCell(p, i) + 8) = Caller(p.SavedVecRegs[i])
Frame(p, c, rsp, k, s, dk, ds) ==
  /\ IsCpu(c, rsp)
  /\ c.reg = [r \in Nonvolatile |-> c.reg[r]]
  /\ \A r \in Nonvolatile : r \notin Dirty(p, dk, ds) => c.reg[r] = Caller(r)
  /\ CellsHold(p, c, k, s)

\* What a write leaves in memory.
LEMMA WriteRead ==
  ASSUME NEW c, NEW cells, NEW value, NEW rsp, NEW reg
  PROVE  \A a : Read(Cpu(rsp, reg, Write(c, cells, value)), a)
                  = IF a \in cells THEN value ELSE Read(c, a)
BY DEF Read, Write, Cpu

\* A processor in parts.
LEMMA Parts ==
  ASSUME NEW c, NEW rsp, IsCpu(c, rsp)
  PROVE  /\ c.rsp = rsp /\ c = [rsp |-> rsp, reg |-> c.reg, mem |-> c.mem]
         /\ \A value : Push(c, value) = Cpu(rsp - 8, c.reg, Write(c, {rsp - 8}, value))
<1>1. c.rsp = rsp /\ c = [rsp |-> rsp, reg |-> c.reg, mem |-> c.mem]
  BY DEF Cpu, IsCpu
<1>2. ASSUME NEW value PROVE Push(c, value) = Cpu(rsp - 8, c.reg, Write(c, {rsp - 8}, value))
  <2> DEFINE written == Write(c, {rsp - 8}, value)
  <2>1. Push(c, value) = [c EXCEPT !.rsp = @ - 8, !.mem = written]
    BY <1>1 DEF Push
  <2> HIDE DEF written
  <2>2. Push(c, value) = Cpu(rsp - 8, c.reg, written)
    BY <1>1, <2>1 DEF Cpu
  <2> QED
    BY <2>2 DEF written
<1> QED
  BY <1>1, <1>2

\* An instruction in parts.
LEMMA Fields ==
  ASSUME NEW op, NEW r, NEW imm
  PROVE  /\ Instruction(op, r, imm).op = op /\ Instruction(op, r, imm).reg = r
         /\ Instruction(op, r, imm).imm = imm
BY DEF Instruction

\* What each instruction does: push writes a register below rsp,
LEMMA DoesPush ==
  ASSUME NEW p, NEW c, NEW rsp, IsCpu(c, rsp), NEW imm, NEW r
  PROVE  Execute(p, Instruction("push", r, imm), c)
           = Cpu(rsp - 8, c.reg, Write(c, {rsp - 8}, ValueOf(c, r)))
<1>1. Execute(p, Instruction("push", r, imm), c) = Push(c, ValueOf(c, r))
  BY Fields DEF Execute, ValueOf
<1> QED
  BY <1>1, Parts

\* pushf pushes what is not the caller's,
LEMMA DoesPushf ==
  ASSUME NEW p, NEW c, NEW rsp, IsCpu(c, rsp), NEW imm, NEW r
  PROVE  Execute(p, Instruction("pushf", r, imm), c)
           = Cpu(rsp - 8, c.reg, Write(c, {rsp - 8}, Junk))
<1>1. Execute(p, Instruction("pushf", r, imm), c) = Push(c, Junk)
  BY Fields DEF Execute
<1> QED
  BY <1>1, Parts

\* sub moves rsp down,
LEMMA DoesSub ==
  ASSUME NEW p, NEW c, NEW rsp, IsCpu(c, rsp), NEW imm, NEW r
  PROVE  Execute(p, Instruction("sub", r, imm), c)
           = Cpu(rsp - imm, c.reg, c.mem)
<1> DEFINE i == Instruction("sub", r, imm)
<1>1. i.op = "sub" /\ i.imm = imm
  BY Fields
<1>2. c.rsp = rsp /\ c = [rsp |-> rsp, reg |-> c.reg, mem |-> c.mem]
  BY Parts
<1> HIDE DEF i
<1>3. Execute(p, i, c) = Cpu(rsp - imm, c.reg, c.mem)
  BY <1>1, <1>2 DEF Execute, Cpu
<1> QED
  BY <1>3 DEF i

\* add moves it up,
LEMMA DoesAdd ==
  ASSUME NEW p, NEW c, NEW rsp, IsCpu(c, rsp), NEW imm, NEW r
  PROVE  Execute(p, Instruction("add", r, imm), c)
           = Cpu(rsp + imm, c.reg, c.mem)
<1> DEFINE i == Instruction("add", r, imm)
<1>1. i.op = "add" /\ i.imm = imm
  BY Fields
<1>2. c.rsp = rsp /\ c = [rsp |-> rsp, reg |-> c.reg, mem |-> c.mem]
  BY Parts
<1> HIDE DEF i
<1>3. Execute(p, i, c) = Cpu(rsp + imm, c.reg, c.mem)
  BY <1>1, <1>2 DEF Execute, Cpu
<1> QED
  BY <1>3 DEF i

\* popf drops a cell,
LEMMA DoesPopf ==
  ASSUME NEW p, NEW c, NEW rsp, IsCpu(c, rsp), NEW imm, NEW r
  PROVE  Execute(p, Instruction("popf", r, imm), c)
           = Cpu(rsp + 8, c.reg, c.mem)
<1> DEFINE i == Instruction("popf", r, imm)
<1>1. i.op = "popf" /\ i.imm = imm
  BY Fields
<1>2. c.rsp = rsp /\ c = [rsp |-> rsp, reg |-> c.reg, mem |-> c.mem]
  BY Parts
<1> HIDE DEF i
<1>3. Execute(p, i, c) = Cpu(rsp + 8, c.reg, c.mem)
  BY <1>1, <1>2 DEF Execute, Cpu
<1> QED
  BY <1>3 DEF i

\* and so does ret.
LEMMA DoesRet ==
  ASSUME NEW p, NEW c, NEW rsp, IsCpu(c, rsp), NEW imm, NEW r
  PROVE  Execute(p, Instruction("ret", r, imm), c)
           = Cpu(rsp + 8, c.reg, c.mem)
<1> DEFINE i == Instruction("ret", r, imm)
<1>1. i.op = "ret" /\ i.imm = imm
  BY Fields
<1>2. c.rsp = rsp /\ c = [rsp |-> rsp, reg |-> c.reg, mem |-> c.mem]
  BY Parts
<1> HIDE DEF i
<1>3. Execute(p, i, c) = Cpu(rsp + 8, c.reg, c.mem)
  BY <1>1, <1>2 DEF Execute, Cpu
<1> QED
  BY <1>3 DEF i

\* pop loads a register and drops its cell,
LEMMA DoesPop ==
  ASSUME NEW p, NEW c, NEW rsp, IsCpu(c, rsp), NEW imm, NEW r
  PROVE  Execute(p, Instruction("pop", r, imm), c)
           = Loaded(c, rsp + 8, r, Read(c, rsp))
<1> DEFINE i == Instruction("pop", r, imm)
           value == Read(c, rsp)
<1>1. i.op = "pop" /\ i.reg = r /\ i.imm = imm
  BY Fields
<1>2. c.rsp = rsp /\ c = [rsp |-> rsp, reg |-> c.reg, mem |-> c.mem]
  BY Parts
<1> HIDE DEF i, value
<1>3. Execute(p, i, c) = [c EXCEPT !.rsp = @ + 8, !.reg[r] = value]
  <2>1. Execute(p, i, c) = [c EXCEPT !.rsp = @ + 8, !.reg[i.reg] = Read(c, c.rsp)]
    BY <1>1 DEF Execute
  <2> QED
    BY <1>1, <1>2, <2>1 DEF value
<1>4. Execute(p, i, c) = Loaded(c, rsp + 8, r, value)
  BY <1>2, <1>3 DEF Cpu, Loaded
<1> QED
  BY <1>4 DEF i, value

\* a load reads two cells,
LEMMA DoesLoad ==
  ASSUME NEW p, NEW c, NEW rsp, IsCpu(c, rsp), NEW imm, NEW r
  PROVE  Execute(p, Instruction("load", r, imm), c)
           = Loaded(c, rsp, r, ReadXmm(c, rsp + imm))
<1> DEFINE i == Instruction("load", r, imm)
           value == ReadXmm(c, rsp + imm)
<1>1. i.op = "load" /\ i.reg = r /\ i.imm = imm
  BY Fields
<1>2. c.rsp = rsp /\ c = [rsp |-> rsp, reg |-> c.reg, mem |-> c.mem]
  BY Parts
<1> HIDE DEF i, value
<1>3. Execute(p, i, c) = [c EXCEPT !.reg[r] = value]
  <2>1. Execute(p, i, c) = [c EXCEPT !.reg[i.reg] = ReadXmm(c, c.rsp + i.imm)]
    BY <1>1 DEF Execute
  <2> QED
    BY <1>1, <1>2, <2>1 DEF value
<1>4. Execute(p, i, c) = Loaded(c, rsp, r, value)
  BY <1>2, <1>3 DEF Cpu, Loaded
<1> QED
  BY <1>4 DEF i, value

\* a save writes two,
LEMMA DoesSave ==
  ASSUME NEW p, NEW c, NEW rsp, IsCpu(c, rsp), NEW imm, NEW r
  PROVE  Execute(p, Instruction("save", r, imm), c)
           = Cpu(rsp, c.reg, Write(c, {rsp + imm, rsp + imm + 8}, ValueOf(c, r)))
<1> DEFINE i == Instruction("save", r, imm)
           written == Write(c, {rsp + imm, rsp + imm + 8}, ValueOf(c, r))
<1>1. i.op = "save" /\ i.reg = r /\ i.imm = imm
  BY Fields
<1>2. c.rsp = rsp /\ c = [rsp |-> rsp, reg |-> c.reg, mem |-> c.mem]
  BY Parts
<1> HIDE DEF i, written
<1>3. Execute(p, i, c) = [c EXCEPT !.mem = written]
  <2>1. Execute(p, i, c) = [c EXCEPT !.mem = Write(c, {c.rsp + i.imm, c.rsp + i.imm + 8}, c.reg[i.reg])]
    BY <1>1 DEF Execute
  <2> QED
    BY <1>1, <1>2, <2>1 DEF written, ValueOf
<1>4. Execute(p, i, c) = Cpu(rsp, c.reg, written)
  BY <1>2, <1>3 DEF Cpu
<1> QED
  BY <1>4 DEF i, written

\* and a callee writes its shadow space and below rsp.
LEMMA DoesCall ==
  ASSUME NEW p, NEW c, NEW rsp, IsCpu(c, rsp), NEW imm, NEW r
  PROVE  Execute(p, Instruction("call", r, imm), c)
           = Cpu(rsp, c.reg, Write(c, {rsp - 8} \cup {rsp + 8 * k : k \in 0..3}, Junk))
<1> DEFINE i == Instruction("call", r, imm)
           written == Write(c, {rsp - 8} \cup {rsp + 8 * k : k \in 0..3}, Junk)
<1>1. i.op = "call" /\ i.reg = r /\ i.imm = imm
  BY Fields
<1>2. c.rsp = rsp /\ c = [rsp |-> rsp, reg |-> c.reg, mem |-> c.mem]
  BY Parts
<1> HIDE DEF i, written
<1>3. Execute(p, i, c) = [c EXCEPT !.mem = written]
  <2>1. Execute(p, i, c) = [c EXCEPT !.mem = Write(c, {c.rsp - 8} \cup {c.rsp + 8 * k : k \in 0..3}, Junk)]
    BY <1>1 DEF Execute
  <2> QED
    BY <1>1, <1>2, <2>1 DEF written
<1>4. Execute(p, i, c) = Cpu(rsp, c.reg, written)
  BY <1>2, <1>3 DEF Cpu
<1> QED
  BY <1>4 DEF i, written

\* The body's work.
LEMMA Worked ==
  ASSUME NEW p, NEW c, NEW rsp, IsCpu(c, rsp), NEW imm, NEW r
  PROVE  Execute(p, Instruction("work", r, imm), c)
           = Cpu(rsp, [q \in Nonvolatile |-> IF q \in ToSet(p.PushedGpRegs \o p.SavedVecRegs)
                                             THEN Junk ELSE c.reg[q]],
                 Write(c, {rsp + 8 * k : k \in 0..((imm - 1) \div 8)}, Junk))
<1>1. c.rsp = rsp /\ c = [rsp |-> rsp, reg |-> c.reg, mem |-> c.mem]
  BY DEF Cpu, IsCpu
<1>2. /\ Instruction("work", r, imm).op = "work" /\ Instruction("work", r, imm).reg = r
      /\ Instruction("work", r, imm).imm = imm
  BY DEF Instruction
<1> DEFINE cells == {rsp + 8 * k : k \in 0..((imm - 1) \div 8)}
           used == ToSet(p.PushedGpRegs \o p.SavedVecRegs)
           i == Instruction("work", r, imm)
<1>3. Execute(p, i, c) = [c EXCEPT !.mem = Write(c, cells, Junk),
                                   !.reg = [q \in Nonvolatile |-> IF q \in used THEN Junk ELSE @[q]]]
  BY <1>1, <1>2 DEF Execute
<1> HIDE DEF cells, used, i
<1>4. Execute(p, i, c) = Cpu(rsp, [q \in Nonvolatile |-> IF q \in used THEN Junk ELSE c.reg[q]],
                             Write(c, cells, Junk))
  BY <1>1, <1>3 DEF Cpu
<1> QED
  BY <1>4 DEF cells, used, i

\* The addresses of a frame.
LEMMA Addresses ==
  ASSUME NEW p, Layout(p)
  PROVE  /\ EntryRsp \in Int /\ EntryRsp % 16 = 8
         /\ Low(p) \in Int /\ Low(p) % 16 = 0 /\ Low(p) = EntryRsp - 8 * Pushes(p) - StackAllocation(p)
         /\ Pushes(p) \in 0..16 /\ StackAllocation(p) \in 32..2100
         /\ LocalSpace(p) \in 32..StackAllocation(p)
         /\ \A i \in 1..Saves(p) : /\ VecCell(p, i) \in Int
                                   /\ VecCell(p, i) >= Low(p) + LocalSpace(p)
                                   /\ VecCell(p, i) + 16 <= EntryRsp - 8 * Pushes(p)
         /\ \A i, j \in 1..Saves(p) : VecCell(p, i) - VecCell(p, j) = 16 * (i - j)
<1> DEFINE n == Pushes(p)
           allocation == StackAllocation(p)
           local == LocalSpace(p)
           low == Low(p)
<1>1. EntryRsp \in Int /\ EntryRsp % 16 = 8
  BY DEF EntryRsp
<1>2. n \in 0..16 /\ allocation \in 32..2100 /\ (8 * n + allocation) % 16 = 8 /\ local \in 32..allocation
  BY LayoutNumbers
<1>3. low = EntryRsp - 8 * n - allocation
  BY DEF Low
<1> HIDE DEF n, allocation, low, local
<1>4. low \in Int /\ low % 16 = 0
  <2> DEFINE x == 8 * n + allocation
  <2>1. x \in Int /\ x % 16 = 8 /\ low = EntryRsp - x
    BY <1>1, <1>2, <1>3
  <2> HIDE DEF x
  <2>2. \A a, b \in Int : a % 16 = 8 /\ b % 16 = 8 => (a - b) % 16 = 0
    OBVIOUS
  <2> QED
    BY <1>1, <2>1, <2>2
<1>5. \A i \in 1..Saves(p) : VecCell(p, i) \in Int /\ VecCell(p, i) >= low + local
                             /\ VecCell(p, i) + 16 <= EntryRsp - 8 * n
  <2> SUFFICES ASSUME NEW i \in 1..Saves(p)
               PROVE  VecCell(p, i) \in Int /\ VecCell(p, i) >= low + local
                      /\ VecCell(p, i) + 16 <= EntryRsp - 8 * n
    OBVIOUS
  <2> DEFINE at == VecOffset(p, i)
             cell == VecCell(p, i)
  <2>1. at \in Nat /\ at >= local /\ at + 16 <= allocation
    BY OffsetType DEF local, allocation
  <2>2. cell = low + at
    BY DEF VecCell, low
  <2> HIDE DEF at, cell
  <2>3. cell \in Int /\ cell >= low + local /\ cell + 16 <= EntryRsp - 8 * n
    BY <1>1, <1>2, <1>3, <1>4, <2>1, <2>2
  <2> QED
    BY <2>3 DEF cell
<1>6. ASSUME NEW i \in 1..Saves(p), NEW j \in 1..Saves(p)
      PROVE  VecCell(p, i) - VecCell(p, j) = 16 * (i - j)
  <2> DEFINE x == VecOffset(p, i)
             y == VecOffset(p, j)
             offset == p.SavedVecOffset
  <2>1. x = offset + 16 * (i - 1) /\ y = offset + 16 * (j - 1)
    BY OffsetType
  <2>2. offset \in 0..2048
    BY DEF Layout, Sizes
  <2>3. VecCell(p, i) = low + x /\ VecCell(p, j) = low + y
    BY DEF VecCell, low
  <2>4. i \in Int /\ j \in Int
    OBVIOUS
  <2> HIDE DEF x, y, offset
  <2> QED
    BY <1>4, <2>1, <2>2, <2>3, <2>4
<1> QED
  BY <1>1, <1>2, <1>3, <1>4, <1>5, <1>6 DEF n, allocation, low, local

\* A write beside what the frame holds.
LEMMA WriteBeside ==
  ASSUME NEW p, NEW c, NEW rsp, NEW k, NEW s, NEW dk, NEW ds, Frame(p, c, rsp, k, s, dk, ds),
         NEW cells, NEW value, EntryRsp \notin cells,
         \A i \in 1..k : EntryRsp - 8 * i \notin cells,
         \A i \in 1..s : VecCell(p, i) \notin cells /\ VecCell(p, i) + 8 \notin cells,
         NEW to
  PROVE  Frame(p, Cpu(to, c.reg, Write(c, cells, value)), to, k, s, dk, ds)
<1> DEFINE d == Cpu(to, c.reg, Write(c, cells, value))
<1>1. \A a : Read(d, a) = IF a \in cells THEN value ELSE Read(c, a)
  BY WriteRead
<1>2. d.reg = c.reg /\ IsCpu(d, to)
  BY DEF Cpu, IsCpu
<1> HIDE DEF d
<1>3. CellsHold(p, d, k, s)
  BY <1>1 DEF Frame, CellsHold
<1>4. Frame(p, d, to, k, s, dk, ds)
  BY <1>2, <1>3 DEF Frame
<1> QED
  BY <1>4 DEF d

\* A frame that promises less.
LEMMA WeakerFrame ==
  ASSUME NEW p, NEW c, NEW rsp, NEW k \in Nat, NEW s \in Nat, NEW dk \in Nat, NEW ds \in Nat,
         Frame(p, c, rsp, k, s, dk, ds),
         NEW k2 \in 0..k, NEW s2 \in 0..s, NEW dk2 \in Nat, NEW ds2 \in Nat, dk <= dk2, ds <= ds2
  PROVE  Frame(p, c, rsp, k2, s2, dk2, ds2)
<1>1. (\A i \in 1..k2 : i \in 1..k) /\ (\A i \in 1..s2 : i \in 1..s)
      /\ (\A i \in 1..dk : i \in 1..dk2) /\ (\A i \in 1..ds : i \in 1..ds2)
  OBVIOUS
<1>2. CellsHold(p, c, k2, s2)
  BY <1>1 DEF Frame, CellsHold
<1>3. \A r : r \in Dirty(p, dk, ds) => r \in Dirty(p, dk2, ds2)
  BY <1>1 DEF Dirty
<1> QED
  BY <1>2, <1>3 DEF Frame

\* rsp alone moves.
LEMMA MovedFrame ==
  ASSUME NEW p, NEW c, NEW rsp, NEW k, NEW s, NEW dk, NEW ds, Frame(p, c, rsp, k, s, dk, ds), NEW to
  PROVE  Frame(p, Cpu(to, c.reg, c.mem), to, k, s, dk, ds)
<1> DEFINE d == Cpu(to, c.reg, c.mem)
<1>1. d.reg = c.reg /\ d.mem = c.mem /\ IsCpu(d, to)
  BY DEF Cpu, IsCpu
<1>2. \A a : Read(d, a) = Read(c, a)
  BY <1>1 DEF Read
<1> HIDE DEF d
<1>3. CellsHold(p, d, k, s)
  BY <1>2 DEF Frame, CellsHold
<1>4. Frame(p, d, to, k, s, dk, ds)
  BY <1>1, <1>3 DEF Frame
<1> QED
  BY <1>4 DEF d

\* A register gets its caller's value back.
LEMMA RestoredRegister ==
  ASSUME NEW p, NEW c, NEW rsp, NEW k, NEW s, NEW dk, NEW ds, Frame(p, c, rsp, k, s, dk, ds),
         NEW r \in Nonvolatile, NEW dk2, NEW ds2,
         \A q : q \in Dirty(p, dk, ds) => q = r \/ q \in Dirty(p, dk2, ds2), NEW to
  PROVE  Frame(p, Loaded(c, to, r, Caller(r)), to, k, s, dk2, ds2)
<1> DEFINE d == Loaded(c, to, r, Caller(r))
<1>1. d.reg = [c.reg EXCEPT ![r] = Caller(r)] /\ d.mem = c.mem /\ IsCpu(d, to)
  BY DEF Cpu, IsCpu, Loaded
<1>2. \A a : Read(d, a) = Read(c, a)
  BY <1>1 DEF Read
<1> HIDE DEF d
<1>3. CellsHold(p, d, k, s)
  BY <1>2 DEF Frame, CellsHold
<1>4. c.reg = [q \in Nonvolatile |-> c.reg[q]]
  BY DEF Frame
<1>5. d.reg = [q \in Nonvolatile |-> d.reg[q]]
      /\ \A q \in Nonvolatile : d.reg[q] = IF q = r THEN Caller(r) ELSE c.reg[q]
  BY <1>1, <1>4
<1>6. \A q \in Nonvolatile : q \notin Dirty(p, dk2, ds2) => d.reg[q] = Caller(q)
  BY <1>5 DEF Frame
<1>7. Frame(p, d, to, k, s, dk2, ds2)
  BY <1>1, <1>3, <1>5, <1>6 DEF Frame
<1> QED
  BY <1>7 DEF d

\* The steps of a frame: a register is pushed,
LEMMA Pushed ==
  ASSUME NEW p, Layout(p), NEW k \in 0..(Pushes(p) - 1), NEW c,
         Frame(p, c, EntryRsp - 8 * k, k, 0, 0, 0)
  PROVE  Frame(p, Execute(p, Pushing(p, k + 1), c), EntryRsp - 8 * (k + 1), k + 1, 0, 0, 0)
<1> DEFINE r == p.PushedGpRegs[k + 1]
           rsp == EntryRsp - 8 * k
           low == EntryRsp - 8 * (k + 1)
           d == Cpu(low, c.reg, Write(c, {low}, Caller(r)))
<1>1. k \in Nat /\ k + 1 \in 1..Pushes(p) /\ EntryRsp \in Int
  <2>1. Pushes(p) \in 0..16 /\ EntryRsp \in Int
    BY Addresses
  <2> QED
    BY <2>1
<1>2. r \in Nonvolatile
  BY <1>1, LayoutFacts
<1>3. c.reg[r] = Caller(r)
  <2>1. r \notin Dirty(p, 0, 0)
    BY DEF Dirty
  <2> QED
    BY <1>2, <2>1 DEF Frame
<1>4. Execute(p, Pushing(p, k + 1), c) = d
  <2>1. IsCpu(c, rsp)
    BY DEF Frame
  <2>2. rsp - 8 = low
    BY <1>1
  <2> HIDE DEF rsp, low, r
  <2>3. Execute(p, Instruction("push", r, 0), c)
          = Cpu(rsp - 8, c.reg, Write(c, {rsp - 8}, ValueOf(c, r)))
    BY <2>1, DoesPush
  <2> QED
    BY <1>3, <2>2, <2>3 DEF Pushing, r, ValueOf
<1>5. Frame(p, d, low, k, 0, 0, 0)
  <2>1. EntryRsp \notin {low} /\ \A i \in 1..k : EntryRsp - 8 * i \notin {low}
    BY <1>1
  <2>2. \A i \in 1..0 : VecCell(p, i) \notin {low} /\ VecCell(p, i) + 8 \notin {low}
    OBVIOUS
  <2> HIDE DEF rsp, low, r
  <2> QED
    BY <2>1, <2>2, WriteBeside DEF rsp
<1>6. Read(d, low) = Caller(r)
  <2> HIDE DEF low, r
  <2> QED
    BY WriteRead
<1>7. Frame(p, d, low, k + 1, 0, 0, 0)
  <2>1. \A i \in 1..(k + 1) : i \in 1..k \/ i = k + 1
    BY <1>1
  <2>2. CellsHold(p, d, k + 1, 0)
    <3> HIDE DEF d
    <3> QED
      BY <1>5, <1>6, <2>1 DEF Frame, CellsHold
  <2> HIDE DEF d, low
  <2> QED
    BY <1>5, <2>2 DEF Frame
<1> QED
  BY <1>4, <1>7

\* the frame is allocated,
LEMMA Allocated ==
  ASSUME NEW p, Layout(p), NEW c, Frame(p, c, EntryRsp - 8 * Pushes(p), Pushes(p), 0, 0, 0)
  PROVE  Frame(p, Execute(p, Plain("sub", StackAllocation(p)), c), Low(p), Pushes(p), 0, 0, 0)
<1> DEFINE rsp == EntryRsp - 8 * Pushes(p)
           allocation == StackAllocation(p)
<1>1. rsp - allocation = Low(p)
  BY Addresses
<1>2. IsCpu(c, rsp)
  BY DEF Frame
<1> HIDE DEF rsp, allocation
<1>3. Execute(p, Plain("sub", allocation), c) = Cpu(Low(p), c.reg, c.mem)
  BY <1>1, <1>2, DoesSub DEF Plain
<1> QED
  BY <1>3, MovedFrame DEF allocation

\* a vector register is saved,
LEMMA Saved ==
  ASSUME NEW p, Layout(p), NEW s \in 0..(Saves(p) - 1), NEW c,
         Frame(p, c, Low(p), Pushes(p), s, 0, 0)
  PROVE  Frame(p, Execute(p, Saving(p, s + 1), c), Low(p), Pushes(p), s + 1, 0, 0)
<1> DEFINE r == p.SavedVecRegs[s + 1]
           cell == VecCell(p, s + 1)
           cells == {cell, cell + 8}
           offset == VecOffset(p, s + 1)
           n == Pushes(p)
           d == Cpu(Low(p), c.reg, Write(c, cells, Caller(r)))
<1>1. s \in Nat /\ s + 1 \in 1..Saves(p) /\ \A i \in 1..s : i \in 1..Saves(p)
  <2>1. Saves(p) \in 0..16
    BY LayoutNumbers
  <2> QED
    BY <2>1
<1>2. r \in Nonvolatile
  BY <1>1, LayoutFacts
<1>3. c.reg[r] = Caller(r)
  <2>1. r \notin Dirty(p, 0, 0)
    BY DEF Dirty
  <2> QED
    BY <1>2, <2>1 DEF Frame
<1>4. Execute(p, Saving(p, s + 1), c) = d
  <2>1. IsCpu(c, Low(p))
    BY DEF Frame
  <2>2. Low(p) + offset = cell
    BY DEF VecCell
  <2> HIDE DEF r, offset, cell
  <2>3. Execute(p, Instruction("save", r, offset), c)
          = Cpu(Low(p), c.reg, Write(c, {Low(p) + offset, Low(p) + offset + 8}, ValueOf(c, r)))
    BY <2>1, DoesSave
  <2> QED
    BY <1>3, <2>2, <2>3 DEF Saving, r, offset, ValueOf
<1>5. Frame(p, d, Low(p), n, s, 0, 0)
  <2>1. /\ EntryRsp \in Int /\ n \in 0..16 /\ cell \in Int /\ cell + 16 <= EntryRsp - 8 * n
        /\ \A i \in 1..Saves(p) : VecCell(p, i) \in Int /\ VecCell(p, i) - cell = 16 * (i - (s + 1))
    BY <1>1, Addresses
  <2> HIDE DEF cell, n
  <2>2. EntryRsp \notin cells /\ \A i \in 1..n : EntryRsp - 8 * i \notin cells
    BY <2>1
  <2>3. ASSUME NEW i \in 1..s PROVE VecCell(p, i) \notin cells /\ VecCell(p, i) + 8 \notin cells
    <3> DEFINE x == VecCell(p, i)
    <3>1. x \in Int /\ x - cell = 16 * (i - (s + 1)) /\ i \in 1..s /\ s \in Nat
      BY <1>1, <2>1
    <3> HIDE DEF x
    <3>2. i - (s + 1) <= 0 - 1 /\ i \in Int
      BY <3>1
    <3>3. x + 16 <= cell
      BY <2>1, <3>1, <3>2
    <3>4. x # cell /\ x # cell + 8 /\ x + 8 # cell /\ x + 8 # cell + 8
      BY <2>1, <3>1, <3>3
    <3> QED
      BY <3>4 DEF x
  <2> HIDE DEF cells, r
  <2> QED
    BY <2>2, <2>3, WriteBeside DEF n
<1>6. Read(d, cell) = Caller(r) /\ Read(d, cell + 8) = Caller(r)
  <2> HIDE DEF r, cell
  <2> QED
    BY WriteRead
<1>7. CellsHold(p, d, n, s + 1)
  <2>1. \A i \in 1..(s + 1) : i \in 1..s \/ i = s + 1
    BY <1>1
  <2> HIDE DEF d
  <2> QED
    BY <1>5, <1>6, <2>1 DEF Frame, CellsHold
<1>8. Frame(p, d, Low(p), n, s + 1, 0, 0)
  <2> HIDE DEF d, n
  <2> QED
    BY <1>5, <1>7 DEF Frame
<1> QED
  BY <1>4, <1>8

\* the flags are moved,
LEMMA FlagsMoved ==
  ASSUME NEW p, Layout(p), NEW c
  PROVE  /\ Frame(p, c, Low(p), Pushes(p), Saves(p), 0, 0) =>
              Frame(p, Execute(p, Plain("pushf", 0), c), Low(p) - 8, Pushes(p), Saves(p), 0, 0)
         /\ Frame(p, c, Low(p) - 8, Pushes(p), Saves(p), 0, 0) =>
              Frame(p, Execute(p, Plain("popf", 0), c), Low(p), Pushes(p), Saves(p), 0, 0)
<1> DEFINE n == Pushes(p)
           v == Saves(p)
           low == Low(p)
           local == LocalSpace(p)
           allocation == StackAllocation(p)
<1>1. /\ EntryRsp \in Int /\ n \in 0..16 /\ low \in Int /\ low = EntryRsp - 8 * n - allocation
      /\ allocation \in 32..2100 /\ local \in 32..allocation
  BY Addresses
<1>2. \A i \in 1..v : VecCell(p, i) \in Int /\ VecCell(p, i) >= low + local
  BY Addresses
<1> HIDE DEF n, v, low, local, allocation
<1>3. ASSUME Frame(p, c, low, n, v, 0, 0)
      PROVE  Frame(p, Execute(p, Plain("pushf", 0), c), low - 8, n, v, 0, 0)
  <2> DEFINE cells == {low - 8}
  <2>1. EntryRsp \notin cells /\ \A i \in 1..n : EntryRsp - 8 * i \notin cells
    BY <1>1
  <2>2. \A i \in 1..v : VecCell(p, i) \notin cells /\ VecCell(p, i) + 8 \notin cells
    BY <1>1, <1>2
  <2>3. IsCpu(c, low)
    BY <1>3 DEF Frame
  <2>4. Execute(p, Plain("pushf", 0), c) = Cpu(low - 8, c.reg, Write(c, cells, Junk))
    BY <2>3, DoesPushf DEF Plain
  <2> HIDE DEF cells
  <2> QED
    BY <1>3, <2>1, <2>2, <2>4, WriteBeside
<1>4. ASSUME Frame(p, c, low - 8, n, v, 0, 0)
      PROVE  Frame(p, Execute(p, Plain("popf", 0), c), low, n, v, 0, 0)
  <2> DEFINE rsp == low - 8
  <2>1. IsCpu(c, rsp)
    BY <1>4 DEF Frame
  <2>2. rsp + 8 = low
    BY <1>1
  <2> HIDE DEF rsp
  <2>3. Execute(p, Plain("popf", 0), c) = Cpu(low, c.reg, c.mem)
    BY <2>1, <2>2, DoesPopf DEF Plain
  <2> QED
    BY <1>4, <2>3, MovedFrame
<1> QED
  BY <1>3, <1>4 DEF n, v, low

\* The registers a body may overwrite.
LEMMA UsedRegisters ==
  ASSUME NEW p, Layout(p)
  PROVE  \A q : q \in ToSet(p.PushedGpRegs \o p.SavedVecRegs) => q \in Dirty(p, Pushes(p), Saves(p))
<1> DEFINE s == p.PushedGpRegs
           t == p.SavedVecRegs
           n == Len(s)
           v == Len(t)
           r == s \o t
<1>1. s \in Seq(Nonvolatile) /\ t \in Seq(Nonvolatile) /\ n = Pushes(p) /\ v = Saves(p)
  BY DEF Layout, Registers, Pushes, Saves
<1> HIDE DEF s, t
<1>2. n \in Nat /\ v \in Nat
  BY <1>1, LenProperties
<1>3. /\ r \in Seq(Nonvolatile) /\ Len(r) = n + v
      /\ \A i \in 1..(n + v) : r[i] = IF i <= n THEN s[i] ELSE t[i - n]
  BY <1>1, ConcatProperties
<1>4. DOMAIN r = 1..(n + v)
  BY <1>3, LenProperties
<1> HIDE DEF r, n, v
<1>5. \A i \in 1..(n + v) : i \in 1..n \/ (~(i <= n) /\ i - n \in 1..v)
  BY <1>2
<1>6. ASSUME NEW q \in ToSet(r) PROVE q \in {s[i] : i \in 1..n} \cup {t[i] : i \in 1..v}
  <2>1. PICK i \in 1..(n + v) : q = r[i]
    BY <1>4 DEF ToSet
  <2>2. CASE i \in 1..n
    <3>1. i <= n
      BY <1>2, <2>2
    <3> QED
      BY <1>3, <2>1, <2>2, <3>1
  <2>3. CASE ~(i <= n) /\ i - n \in 1..v
    BY <1>3, <2>1, <2>3
  <2> QED
    BY <1>5, <2>2, <2>3
<1> QED
  BY <1>1, <1>6 DEF Dirty, s, t, r

\* the body works,
LEMMA Works ==
  ASSUME NEW p, Layout(p), NEW c, Frame(p, c, Low(p), Pushes(p), Saves(p), 0, 0)
  PROVE  Frame(p, Execute(p, Plain("work", LocalSpace(p)), c), Low(p), Pushes(p), Saves(p),
               Pushes(p), Saves(p))
<1> DEFINE n == Pushes(p)
           v == Saves(p)
           low == Low(p)
           local == LocalSpace(p)
           allocation == StackAllocation(p)
           used == ToSet(p.PushedGpRegs \o p.SavedVecRegs)
           cells == {low + 8 * k : k \in 0..((local - 1) \div 8)}
           reg == [q \in Nonvolatile |-> IF q \in used THEN Junk ELSE c.reg[q]]
           d == Cpu(low, c.reg, Write(c, cells, Junk))
           e == Cpu(low, reg, Write(c, cells, Junk))
<1>1. /\ EntryRsp \in Int /\ n \in 0..16 /\ low \in Int /\ low = EntryRsp - 8 * n - allocation
      /\ allocation \in 32..2100 /\ local \in 32..allocation
  BY Addresses
<1>2. \A i \in 1..v : VecCell(p, i) \in Int /\ VecCell(p, i) >= low + local
  BY Addresses
<1>3. \A q : q \in used => q \in Dirty(p, n, v)
  BY UsedRegisters
<1>4. IsCpu(c, low)
  BY DEF Frame
<1>5. Execute(p, Plain("work", local), c) = e
  BY <1>4, Worked DEF Plain
<1> HIDE DEF n, v, low, local, allocation, used
<1>6. \A a \in cells : a \in Int /\ a < low + local
  <2> SUFFICES ASSUME NEW k \in 0..((local - 1) \div 8) PROVE low + 8 * k \in Int /\ low + 8 * k < low + local
    OBVIOUS
  <2>1. local - 1 \in Nat /\ k \in Nat /\ k <= (local - 1) \div 8
    BY <1>1
  <2>2. 8 * k <= local - 1
    BY <1>1, <2>1
  <2> QED
    BY <1>1, <2>1, <2>2
<1> HIDE DEF cells
<1>7. EntryRsp \notin cells /\ \A i \in 1..n : EntryRsp - 8 * i \notin cells
  <2>1. EntryRsp >= low + local /\ \A i \in 1..n : EntryRsp - 8 * i >= low + local /\ i \in Int
    BY <1>1
  <2>2. \A a \in cells : ~(a >= low + local)
    BY <1>1, <1>6
  <2> QED
    BY <2>1, <2>2
<1>8. \A i \in 1..v : VecCell(p, i) \notin cells /\ VecCell(p, i) + 8 \notin cells
  BY <1>1, <1>2, <1>6
<1>9. Frame(p, d, low, n, v, 0, 0)
  BY <1>7, <1>8, WriteBeside DEF n, v, low
<1>10. e.reg = reg /\ e.mem = d.mem /\ IsCpu(e, low)
  BY DEF Cpu, IsCpu
<1>11. \A a : Read(e, a) = Read(d, a)
  BY <1>10 DEF Read
<1>12. e.reg = [q \in Nonvolatile |-> e.reg[q]]
       /\ \A q \in Nonvolatile : e.reg[q] = IF q \in used THEN Junk ELSE c.reg[q]
  BY <1>10
<1> HIDE DEF d, e, reg
<1>13. CellsHold(p, e, n, v)
  BY <1>9, <1>11 DEF Frame, CellsHold
<1>14. \A q \in Nonvolatile : q \notin Dirty(p, n, v) => e.reg[q] = Caller(q)
  <2>1. \A q : q \notin Dirty(p, 0, 0)
    BY DEF Dirty
  <2>2. \A q \in Nonvolatile : c.reg[q] = Caller(q)
    BY <2>1 DEF Frame
  <2> QED
    BY <1>3, <1>12, <2>2
<1>15. Frame(p, e, low, n, v, n, v)
  BY <1>10, <1>12, <1>13, <1>14 DEF Frame
<1> QED
  BY <1>5, <1>15 DEF n, v, low, local

\* and calls,
LEMMA Calls ==
  ASSUME NEW p, Layout(p), NEW c, NEW dk, NEW ds, Frame(p, c, Low(p), Pushes(p), Saves(p), dk, ds)
  PROVE  Frame(p, Execute(p, Plain("call", 0), c), Low(p), Pushes(p), Saves(p), dk, ds)
<1> DEFINE n == Pushes(p)
           v == Saves(p)
           low == Low(p)
           local == LocalSpace(p)
           allocation == StackAllocation(p)
           cells == {low - 8} \cup {low + 8 * k : k \in 0..3}
<1>1. /\ EntryRsp \in Int /\ n \in 0..16 /\ low \in Int /\ low = EntryRsp - 8 * n - allocation
      /\ allocation \in 32..2100 /\ local \in 32..allocation
  BY Addresses
<1>2. \A i \in 1..v : VecCell(p, i) \in Int /\ VecCell(p, i) >= low + local
  BY Addresses
<1>3. IsCpu(c, low)
  BY DEF Frame
<1> HIDE DEF n, v, low, local, allocation
<1>4. Execute(p, Plain("call", 0), c) = Cpu(low, c.reg, Write(c, cells, Junk))
  BY <1>3, DoesCall DEF Plain
<1>5. \A a \in cells : a \in Int /\ a < low + 32
  BY <1>1
<1> HIDE DEF cells
<1>6. EntryRsp \notin cells /\ \A i \in 1..n : EntryRsp - 8 * i \notin cells
  <2>1. EntryRsp >= low + 32 /\ \A i \in 1..n : EntryRsp - 8 * i >= low + 32 /\ i \in Int
    BY <1>1
  <2>2. \A a \in cells : ~(a >= low + 32)
    BY <1>1, <1>5
  <2> QED
    BY <2>1, <2>2
<1>7. \A i \in 1..v : VecCell(p, i) \notin cells /\ VecCell(p, i) + 8 \notin cells
  BY <1>1, <1>2, <1>5
<1> QED
  BY <1>4, <1>6, <1>7, WriteBeside DEF n, v, low

\* a vector register comes back,
LEMMA LoadsBack ==
  ASSUME NEW p, Layout(p), NEW t \in 0..Saves(p), NEW s \in 1..t, NEW c, NEW dk,
         Frame(p, c, Low(p), Pushes(p), t, dk, s)
  PROVE  /\ ReadXmm(c, Low(p) + VecOffset(p, s)) = Caller(p.SavedVecRegs[s])
         /\ Frame(p, Loaded(c, Low(p), p.SavedVecRegs[s], Caller(p.SavedVecRegs[s])), Low(p),
                  Pushes(p), t, dk, s - 1)
         /\ Frame(p, Execute(p, Loading(p, s), c), Low(p), Pushes(p), t, dk, s - 1)
<1> DEFINE r == p.SavedVecRegs[s]
           low == Low(p)
           offset == VecOffset(p, s)
           cell == low + offset
           n == Pushes(p)
<1>0. s \in 1..Saves(p) /\ s \in Nat
  <2>1. Saves(p) \in 0..16
    BY LayoutNumbers
  <2> QED
    BY <2>1
<1>1. r \in Nonvolatile
  BY <1>0, LayoutFacts
<1>2. ReadXmm(c, cell) = Caller(r)
  <2>1. Read(c, VecCell(p, s)) = Caller(r) /\ Read(c, VecCell(p, s) + 8) = Caller(r)
    BY DEF Frame, CellsHold
  <2>2. VecCell(p, s) = cell
    BY DEF VecCell
  <2> HIDE DEF cell, r
  <2> QED
    BY <2>1, <2>2 DEF ReadXmm
<1>3. Frame(p, Loaded(c, low, r, Caller(r)), low, n, t, dk, s - 1)
  <2>1. \A i \in 1..s : i \in 1..(s - 1) \/ i = s
    BY <1>0
  <2>2. \A q : q \in Dirty(p, dk, s) => q = r \/ q \in Dirty(p, dk, s - 1)
    BY <2>1 DEF Dirty
  <2> HIDE DEF r, low, n
  <2> QED
    BY <1>1, <2>2, RestoredRegister DEF low, n
<1>4. Execute(p, Loading(p, s), c) = Loaded(c, low, r, Caller(r))
  <2>1. IsCpu(c, low)
    BY DEF Frame
  <2> HIDE DEF r, low, offset, cell
  <2>2. Execute(p, Instruction("load", r, offset), c) = Loaded(c, low, r, ReadXmm(c, low + offset))
    BY <2>1, DoesLoad
  <2> QED
    BY <1>2, <2>2 DEF Loading, r, offset, cell
<1> QED
  BY <1>2, <1>3, <1>4

\* the frame is released,
LEMMA Released ==
  ASSUME NEW p, Layout(p), NEW c, NEW s \in 0..Saves(p), NEW dk \in Nat, NEW ds \in Nat,
         Frame(p, c, Low(p), Pushes(p), s, dk, ds)
  PROVE  /\ Frame(p, Cpu(EntryRsp - 8 * Pushes(p), c.reg, c.mem), EntryRsp - 8 * Pushes(p),
                  Pushes(p), 0, dk, ds)
         /\ Frame(p, Execute(p, Plain("add", StackAllocation(p)), c), EntryRsp - 8 * Pushes(p),
                  Pushes(p), 0, dk, ds)
         /\ Low(p) + StackAllocation(p) = EntryRsp - 8 * Pushes(p)
<1> DEFINE n == Pushes(p)
           low == Low(p)
           allocation == StackAllocation(p)
           to == EntryRsp - 8 * n
<1>1. /\ EntryRsp \in Int /\ n \in 0..16 /\ low = EntryRsp - 8 * n - allocation /\ allocation \in 32..2100
  BY Addresses
<1>2. Saves(p) \in 0..16 /\ n \in Nat
  <2>1. Saves(p) \in 0..16
    BY LayoutNumbers
  <2> HIDE DEF n
  <2> QED
    BY <1>1, <2>1
<1>3. low + allocation = to
  <2> HIDE DEF n, low, allocation
  <2> QED
    BY <1>1
<1>4. Frame(p, c, low, n, 0, dk, ds)
  <2>1. s \in Nat /\ 0 \in 0..s /\ n \in 0..n
    <3> HIDE DEF n
    <3> QED
      BY <1>2
  <2>2. dk <= dk /\ ds <= ds
    OBVIOUS
  <2> HIDE DEF n, low
  <2> QED
    BY <1>2, <2>1, <2>2, WeakerFrame DEF n, low
<1>5. Frame(p, Cpu(to, c.reg, c.mem), to, n, 0, dk, ds)
  <2> HIDE DEF n, low, to
  <2> QED
    BY <1>4, MovedFrame
<1>6. Execute(p, Plain("add", allocation), c) = Cpu(to, c.reg, c.mem)
  <2>1. IsCpu(c, low)
    BY DEF Frame
  <2> HIDE DEF low, allocation, to
  <2> QED
    BY <1>3, <2>1, DoesAdd DEF Plain
<1> QED
  BY <1>3, <1>5, <1>6

\* a register is popped,
LEMMA Popped ==
  ASSUME NEW p, Layout(p), NEW k \in 1..Pushes(p), NEW c,
         Frame(p, c, EntryRsp - 8 * k, k, 0, k, 0)
  PROVE  /\ Read(c, EntryRsp - 8 * k) = Caller(p.PushedGpRegs[k])
         /\ Frame(p, Loaded(c, EntryRsp - 8 * (k - 1), p.PushedGpRegs[k], Caller(p.PushedGpRegs[k])),
                  EntryRsp - 8 * (k - 1), k - 1, 0, k - 1, 0)
         /\ Frame(p, Execute(p, Popping(p, k), c), EntryRsp - 8 * (k - 1), k - 1, 0, k - 1, 0)
<1> DEFINE r == p.PushedGpRegs[k]
           rsp == EntryRsp - 8 * k
           to == EntryRsp - 8 * (k - 1)
           d == Loaded(c, to, r, Caller(r))
<1>1. k \in Nat /\ k - 1 \in Nat /\ k \in 1..k /\ k - 1 \in 0..k /\ EntryRsp \in Int
  <2>1. Pushes(p) \in 0..16 /\ EntryRsp \in Int
    BY Addresses
  <2> QED
    BY <2>1
<1>2. r \in Nonvolatile
  BY LayoutFacts
<1>3. Read(c, rsp) = Caller(r)
  BY <1>1 DEF Frame, CellsHold
<1>4. rsp + 8 = to
  BY <1>1
<1>5. Frame(p, c, rsp, k, 0, k, 0) /\ IsCpu(c, rsp)
  BY DEF Frame
<1>6. \A q : q \in Dirty(p, k, 0) => q = r \/ q \in Dirty(p, k - 1, 0)
  <2>1. \A i \in 1..k : i \in 1..(k - 1) \/ i = k
    BY <1>1
  <2> QED
    BY <2>1 DEF Dirty
<1> HIDE DEF r, rsp, to
<1>7. Frame(p, d, to, k, 0, k - 1, 0)
  BY <1>2, <1>5, <1>6, RestoredRegister
<1> HIDE DEF d
<1>8. Frame(p, d, to, k - 1, 0, k - 1, 0)
  <2>1. 0 \in 0..0 /\ 0 <= 0 /\ k - 1 <= k - 1 /\ 0 \in Nat
    BY <1>1
  <2> QED
    BY <1>1, <1>7, <2>1, WeakerFrame
<1>9. Execute(p, Popping(p, k), c) = d
  <2>1. Execute(p, Instruction("pop", r, 0), c) = Loaded(c, rsp + 8, r, Read(c, rsp))
    BY <1>5, DoesPop
  <2> QED
    BY <1>3, <1>4, <2>1 DEF Popping, d, r
<1> QED
  BY <1>3, <1>8, <1>9 DEF r, rsp, to, d

\* and the thunk returns.
LEMMA Returns ==
  ASSUME NEW p, NEW c, Frame(p, c, EntryRsp, 0, 0, 0, 0)
  PROVE  Frame(p, Execute(p, Plain("ret", 0), c), EntryRsp + 8, 0, 0, 0, 0)
<1>1. IsCpu(c, EntryRsp)
  BY DEF Frame
<1>2. Execute(p, Plain("ret", 0), c) = Cpu(EntryRsp + 8, c.reg, c.mem)
  BY <1>1, DoesRet DEF Plain
<1> QED
  BY <1>2, MovedFrame

-----------------------------------------------------------------------------
(* Running the code *)

\* The frame before instruction n.
FrameAt(p, n, c) ==
  \/ \E k \in 0..Pushes(p) : n = k + 1 /\ Frame(p, c, EntryRsp - 8 * k, k, 0, 0, 0)
  \/ \E s \in 0..Saves(p) : n = Pushes(p) + 2 + s /\ Frame(p, c, Low(p), Pushes(p), s, 0, 0)
  \/ /\ FlagMoves(p) = 2 /\ n = WorkAt(p) - 1
     /\ Frame(p, c, Low(p) - 8, Pushes(p), Saves(p), 0, 0)
  \/ n = WorkAt(p) /\ Frame(p, c, Low(p), Pushes(p), Saves(p), 0, 0)
  \/ n = WorkAt(p) + 1 /\ Frame(p, c, Low(p), Pushes(p), Saves(p), Pushes(p), Saves(p))
  \/ \E s \in 0..Saves(p) : /\ n = EpilogAt(p) - s
                            /\ Frame(p, c, Low(p), Pushes(p), Saves(p), Pushes(p), s)
  \/ \E k \in 0..Pushes(p) : n = EndAt(p) - k /\ Frame(p, c, EntryRsp - 8 * k, k, 0, k, 0)
  \/ n = EndAt(p) + 1 /\ Frame(p, c, EntryRsp + 8, 0, 0, 0, 0)

\* Where the parts of the code begin.
LEMMA Places ==
  ASSUME NEW p, Layout(p)
  PROVE  /\ Pushes(p) \in Nat /\ Saves(p) \in Nat /\ FlagMoves(p) \in {0, 2}
         /\ WorkAt(p) = Pushes(p) + Saves(p) + FlagMoves(p) + 2
         /\ EpilogAt(p) = Pushes(p) + Saves(p) + FlagMoves(p) + Saves(p) + 4
         /\ EndAt(p) = Pushes(p) + Saves(p) + FlagMoves(p) + Saves(p) + Pushes(p) + 5
         /\ WorkAt(p) \in Nat /\ EpilogAt(p) \in Nat /\ EndAt(p) \in Nat
         /\ EpilogAt(p) >= 1
<1> DEFINE n == Pushes(p)
           v == Saves(p)
           f == FlagMoves(p)
           work == WorkAt(p)
           epilogAt == EpilogAt(p)
           end == EndAt(p)
<1>1. n \in 0..16 /\ v \in 0..16 /\ f \in {0, 2}
  BY LayoutNumbers
<1>2. work = n + v + f + 2 /\ epilogAt = work + v + 2 /\ end = epilogAt + n + 1
  BY DEF WorkAt, EpilogAt, EndAt
<1> HIDE DEF n, v, f, work, epilogAt, end
<1>3. n \in Nat /\ v \in Nat /\ f \in {0, 2} /\ f \in Nat
  BY <1>1
<1>4. /\ work = n + v + f + 2 /\ epilogAt = n + v + f + v + 4 /\ end = n + v + f + v + n + 5
      /\ work \in Nat /\ epilogAt \in Nat /\ end \in Nat /\ epilogAt >= 1
  BY <1>2, <1>3
<1> QED
  BY <1>3, <1>4 DEF n, v, f, work, epilogAt, end

\* Every instruction keeps the frame as it should be at the next.
LEMMA FrameStep ==
  ASSUME NEW p, Layout(p), NEW n \in 1..EndAt(p), NEW c, FrameAt(p, n, c)
  PROVE  FrameAt(p, n + 1, Execute(p, Code(p)[n], c))
<1> DEFINE np == Pushes(p)
           nv == Saves(p)
           f == FlagMoves(p)
           work == WorkAt(p)
           epilogAt == EpilogAt(p)
           end == EndAt(p)
           i == Code(p)[n]
           d == Execute(p, i, c)
<1>1. /\ np \in Nat /\ nv \in Nat /\ f \in {0, 2}
      /\ work = np + nv + f + 2 /\ epilogAt = np + nv + f + nv + 4
      /\ end = np + nv + f + nv + np + 5
  BY Places
<1>2. CodeIs(p, Code(p))
  BY CodeByPosition
<1>3. n \in 1..end
  OBVIOUS
<1> HIDE DEF np, nv, f, work, epilogAt, end, i, d
<1>4. ASSUME NEW k \in 0..np, n = k + 1, Frame(p, c, EntryRsp - 8 * k, k, 0, 0, 0)
      PROVE  FrameAt(p, n + 1, d)
  <2>1. CASE k # np
    <3>1. k \in 0..(np - 1) /\ k + 1 \in 0..np
      BY <1>1, <2>1
    <3>2. i = Pushing(p, k + 1)
      BY <1>2, <1>4, <3>1 DEF CodeIs, np, i
    <3>3. Frame(p, d, EntryRsp - 8 * (k + 1), k + 1, 0, 0, 0)
      BY <1>4, <3>1, <3>2, Pushed DEF np, d
    <3> QED
      BY <1>4, <3>1, <3>3 DEF FrameAt, np
  <2>2. CASE k = np
    <3>1. i = Plain("sub", StackAllocation(p))
      BY <1>2, <1>4, <2>2 DEF CodeIs, np, i
    <3>2. Frame(p, d, Low(p), np, 0, 0, 0)
      BY <1>4, <2>2, <3>1, Allocated DEF np, d
    <3>3. n + 1 = np + 2 + 0 /\ 0 \in 0..nv
      BY <1>1, <1>4, <2>2
    <3> QED
      BY <3>2, <3>3 DEF FrameAt, np, nv
  <2> QED
    BY <2>1, <2>2
<1>5. ASSUME n = work, Frame(p, c, Low(p), np, nv, 0, 0)
      PROVE  FrameAt(p, n + 1, d)
  <2>1. i = Plain("work", LocalSpace(p))
    BY <1>2, <1>5 DEF CodeIs, work, i
  <2>2. Frame(p, d, Low(p), np, nv, np, nv)
    BY <1>5, <2>1, Works DEF np, nv, d
  <2> QED
    BY <1>5, <2>2 DEF FrameAt, np, nv, work
<1>6. ASSUME NEW s \in 0..nv, n = np + 2 + s, Frame(p, c, Low(p), np, s, 0, 0)
      PROVE  FrameAt(p, n + 1, d)
  <2>1. CASE s # nv
    <3>1. s \in 0..(nv - 1) /\ s + 1 \in 0..nv /\ n + 1 = np + 2 + (s + 1)
      BY <1>1, <1>6, <2>1
    <3>2. i = Saving(p, s + 1)
      BY <1>2, <1>6, <3>1 DEF CodeIs, np, nv, i
    <3>3. Frame(p, d, Low(p), np, s + 1, 0, 0)
      BY <1>6, <3>1, <3>2, Saved DEF np, nv, d
    <3> QED
      BY <3>1, <3>3 DEF FrameAt, np, nv
  <2>2. CASE s = nv /\ f = 2
    <3>1. n = work - 2 /\ n + 1 = work - 1
      BY <1>1, <1>6, <2>2
    <3>2. i = Plain("pushf", 0)
      BY <1>2, <2>2, <3>1 DEF CodeIs, f, work, i
    <3>3. Frame(p, d, Low(p) - 8, np, nv, 0, 0)
      BY <1>6, <2>2, <3>2, FlagsMoved DEF np, nv, d
    <3> QED
      BY <2>2, <3>1, <3>3 DEF FrameAt, np, nv, f, work
  <2>3. CASE s = nv /\ f = 0
    <3>1. n = work
      BY <1>1, <1>6, <2>3
    <3> QED
      BY <1>5, <1>6, <2>3, <3>1
  <2> QED
    BY <1>1, <2>1, <2>2, <2>3
<1>7. ASSUME f = 2, n = work - 1, Frame(p, c, Low(p) - 8, np, nv, 0, 0)
      PROVE  FrameAt(p, n + 1, d)
  <2>1. i = Plain("popf", 0)
    BY <1>2, <1>7 DEF CodeIs, f, work, i
  <2>2. Frame(p, d, Low(p), np, nv, 0, 0)
    BY <1>7, <2>1, FlagsMoved DEF np, nv, d
  <2>3. n + 1 = work
    BY <1>1, <1>7
  <2> QED
    BY <2>2, <2>3 DEF FrameAt, np, nv, work
<1>8. ASSUME n = work + 1, Frame(p, c, Low(p), np, nv, np, nv)
      PROVE  FrameAt(p, n + 1, d)
  <2>1. i = Plain("call", 0)
    BY <1>2, <1>8 DEF CodeIs, work, i
  <2>2. Frame(p, d, Low(p), np, nv, np, nv)
    BY <1>8, <2>1, Calls DEF np, nv, d
  <2>3. n + 1 = epilogAt - nv /\ nv \in 0..nv
    BY <1>1, <1>8
  <2> QED
    BY <2>2, <2>3 DEF FrameAt, np, nv, epilogAt
<1>9. ASSUME NEW s \in 0..nv, n = epilogAt - s, Frame(p, c, Low(p), np, nv, np, s)
      PROVE  FrameAt(p, n + 1, d)
  <2>1. CASE s # 0
    <3>1. s \in 1..nv /\ s - 1 \in 0..nv /\ n + 1 = epilogAt - (s - 1)
      BY <1>1, <1>9, <2>1
    <3>2. i = Loading(p, s)
      BY <1>2, <1>9, <3>1 DEF CodeIs, nv, epilogAt, i
    <3>3. Frame(p, d, Low(p), np, nv, np, s - 1)
      <4>1. nv \in 0..nv
        BY <1>1
      <4> QED
        BY <1>9, <3>1, <3>2, <4>1, LoadsBack DEF np, nv, d
    <3> QED
      BY <3>1, <3>3 DEF FrameAt, np, nv, epilogAt
  <2>2. CASE s = 0
    <3>1. n = epilogAt /\ n + 1 = end - np /\ np \in 0..np /\ nv \in 0..nv
      BY <1>1, <1>9, <2>2
    <3>2. i = Plain("add", StackAllocation(p))
      BY <1>2, <3>1 DEF CodeIs, epilogAt, i
    <3>3. Frame(p, d, EntryRsp - 8 * np, np, 0, np, 0)
      <4>1. Frame(p, c, Low(p), np, nv, np, 0) /\ 0 \in Nat
        BY <1>9, <2>2
      <4> QED
        BY <1>1, <3>1, <3>2, <4>1, Released DEF np, nv, d
    <3> QED
      BY <3>1, <3>3 DEF FrameAt, np, end
  <2> QED
    BY <2>1, <2>2
<1>10. ASSUME NEW k \in 0..np, n = end - k, Frame(p, c, EntryRsp - 8 * k, k, 0, k, 0)
       PROVE  FrameAt(p, n + 1, d)
  <2>1. CASE k # 0
    <3>1. k \in 1..np /\ k - 1 \in 0..np /\ n + 1 = end - (k - 1)
      BY <1>1, <1>10, <2>1
    <3>2. i = Popping(p, k)
      BY <1>2, <1>10, <3>1 DEF CodeIs, np, end, i
    <3>3. Frame(p, d, EntryRsp - 8 * (k - 1), k - 1, 0, k - 1, 0)
      BY <1>10, <3>1, <3>2, Popped DEF np, d
    <3> QED
      BY <3>1, <3>3 DEF FrameAt, np, end
  <2>2. CASE k = 0
    <3>1. n = end /\ EntryRsp - 8 * k = EntryRsp
      BY <1>1, <1>10, <2>2 DEF EntryRsp
    <3>2. i = Plain("ret", 0)
      BY <1>2, <3>1 DEF CodeIs, end, i
    <3>3. Frame(p, d, EntryRsp + 8, 0, 0, 0, 0)
      BY <1>10, <2>2, <3>1, <3>2, Returns DEF d
    <3> QED
      BY <3>1, <3>3 DEF FrameAt, end
  <2> QED
    BY <2>1, <2>2
<1>11. n # end + 1
  BY <1>1, <1>3
<1>12. FrameAt(p, n + 1, d)
  BY <1>4, <1>5, <1>6, <1>7, <1>8, <1>9, <1>10, <1>11 DEF FrameAt, np, nv, f, work, epilogAt, end
<1> QED
  BY <1>12 DEF d, i

-----------------------------------------------------------------------------
(* The invariants *)

FrameInv ==
  /\ plan \in Plans
  /\ pc \in 1..(EndAt(plan) + 1)
  /\ FrameAt(plan, pc, cpu)

\* The frame is as it should be before every instruction of every thunk.
THEOREM FrameInvHolds == Spec => []FrameInv
<1>1. Init => FrameInv
  <2> SUFFICES ASSUME Init PROVE FrameInv
    OBVIOUS
  <2>1. plan \in Plans /\ pc = 1
    BY DEF Init
  <2>2. Layout(plan)
    BY <2>1, PlansHaveLayouts
  <2>3. EndAt(plan) \in Nat /\ Pushes(plan) \in Nat
    BY <2>2, Places
  <2>4. cpu = Cpu(EntryRsp, [r \in Nonvolatile |-> Caller(r)], [a \in {EntryRsp} |-> ReturnAddress])
    BY DEF Init, Cpu
  <2>5. /\ IsCpu(cpu, EntryRsp) /\ cpu.reg = [r \in Nonvolatile |-> Caller(r)]
        /\ cpu.mem = [a \in {EntryRsp} |-> ReturnAddress]
    BY <2>4 DEF Cpu, IsCpu
  <2>6. Read(cpu, EntryRsp) = ReturnAddress
    BY <2>5 DEF Read
  <2>7. Frame(plan, cpu, EntryRsp, 0, 0, 0, 0)
    <3>1. CellsHold(plan, cpu, 0, 0)
      BY <2>6 DEF CellsHold
    <3> QED
      BY <2>5, <3>1 DEF Frame
  <2>8. EntryRsp - 8 * 0 = EntryRsp /\ 0 \in 0..Pushes(plan) /\ 1 = 0 + 1
    BY <2>3 DEF EntryRsp
  <2>9. FrameAt(plan, 1, cpu)
    <3>1. Frame(plan, cpu, EntryRsp - 8 * 0, 0, 0, 0, 0)
      BY <2>7, <2>8
    <3> QED
      BY <2>8, <3>1 DEF FrameAt
  <2> QED
    BY <2>1, <2>3, <2>9 DEF FrameInv
<1>2. FrameInv /\ [Next]_vars => FrameInv'
  <2> SUFFICES ASSUME FrameInv, [Next]_vars PROVE FrameInv'
    OBVIOUS
  <2>1. CASE Step
    <3>1. Layout(plan)
      BY PlansHaveLayouts DEF FrameInv
    <3>2. Len(Code(plan)) = EndAt(plan)
      BY <3>1, CodeByPosition
    <3>3. /\ pc <= EndAt(plan) /\ cpu' = Execute(plan, Code(plan)[pc], cpu) /\ pc' = pc + 1
          /\ plan' = plan
      BY <2>1, <3>2 DEF Step
    <3>4. pc \in 1..EndAt(plan) /\ pc + 1 \in 1..(EndAt(plan) + 1)
      <4>1. EndAt(plan) \in Nat /\ pc \in 1..(EndAt(plan) + 1)
        BY <3>1, Places DEF FrameInv
      <4> QED
        BY <3>3, <4>1
    <3>5. FrameAt(plan, pc + 1, Execute(plan, Code(plan)[pc], cpu))
      BY <3>1, <3>4, FrameStep DEF FrameInv
    <3>6. FrameAt(plan', pc', cpu')
      BY <3>3, <3>5
    <3> QED
      BY <3>3, <3>4, <3>6 DEF FrameInv
  <2>2. CASE UNCHANGED vars
    BY <2>2 DEF FrameInv, vars
  <2> QED
    BY <2>1, <2>2 DEF Next
<1> QED
  BY <1>1, <1>2, PTL DEF Spec

\* What every frame tells of the processor.
LEMMA FrameRegisters ==
  ASSUME NEW p, NEW c, NEW rsp, NEW k, NEW s, NEW dk, NEW ds, Frame(p, c, rsp, k, s, dk, ds)
  PROVE  /\ c.rsp = rsp /\ DOMAIN c.reg = Nonvolatile
         /\ Read(c, EntryRsp) = ReturnAddress
<1>1. c.rsp = rsp
  BY Parts DEF Frame
<1>2. c.reg = [r \in Nonvolatile |-> c.reg[r]]
  BY DEF Frame
<1>3. DOMAIN c.reg = Nonvolatile
  <2> DEFINE f == [r \in Nonvolatile |-> c.reg[r]]
  <2>1. DOMAIN f = Nonvolatile /\ c.reg = f
    BY <1>2
  <2> HIDE DEF f
  <2> QED
    BY <2>1
<1> QED
  BY <1>1, <1>3 DEF Frame, CellsHold

\* When no register is dirty, all of them hold what the caller left in them.
LEMMA CleanFrame ==
  ASSUME NEW p, NEW c, NEW rsp, NEW k, NEW s, Frame(p, c, rsp, k, s, 0, 0)
  PROVE  c.reg = [r \in Nonvolatile |-> Caller(r)]
<1>1. \A r : r \notin Dirty(p, 0, 0)
  BY DEF Dirty
<1>2. c.reg = [r \in Nonvolatile |-> c.reg[r]] /\ \A r \in Nonvolatile : c.reg[r] = Caller(r)
  BY <1>1 DEF Frame
<1>3. [r \in Nonvolatile |-> c.reg[r]] = [r \in Nonvolatile |-> Caller(r)]
  BY <1>2
<1> QED
  BY <1>2, <1>3

\* rsp stays in the thunk's frame.
LEMMA RspInFrame ==
  ASSUME NEW p, Layout(p), NEW n, NEW c, FrameAt(p, n, c)
  PROVE  /\ c.rsp \in (Low(p) - 8)..(EntryRsp + 8) /\ c.rsp % 8 = 0
         /\ DOMAIN c.reg = Nonvolatile
<1> DEFINE np == Pushes(p)
           low == Low(p)
           allocation == StackAllocation(p)
<1>1. /\ EntryRsp \in Int /\ EntryRsp % 16 = 8 /\ np \in 0..16 /\ low \in Int /\ low % 16 = 0
      /\ low = EntryRsp - 8 * np - allocation /\ allocation \in 32..2100
  BY Addresses
<1>2. \E k, s, dk, ds : \/ Frame(p, c, low, k, s, dk, ds)
                        \/ Frame(p, c, low - 8, k, s, dk, ds)
                        \/ Frame(p, c, EntryRsp + 8, k, s, dk, ds)
                        \/ \E j \in 0..np : Frame(p, c, EntryRsp - 8 * j, k, s, dk, ds)
  BY DEF FrameAt
<1> HIDE DEF np, low, allocation
<1>3. DOMAIN c.reg = Nonvolatile
  BY <1>2, FrameRegisters
<1>4. c.rsp \in {low, low - 8, EntryRsp + 8} \cup {EntryRsp - 8 * j : j \in 0..np}
  BY <1>2, FrameRegisters
<1>5. \A j \in 0..np : /\ EntryRsp - 8 * j \in (low - 8)..(EntryRsp + 8)
                       /\ (EntryRsp - 8 * j) % 8 = 0
  BY <1>1, EntryRsp % 8 = 0 DEF EntryRsp
<1>6. \A x \in {low, low - 8, EntryRsp + 8} : x \in (low - 8)..(EntryRsp + 8) /\ x % 8 = 0
  <2>1. low <= EntryRsp
    BY <1>1
  <2>2. \A x \in Int : x % 16 = 0 => x % 8 = 0 /\ (x - 8) % 8 = 0
    OBVIOUS
  <2>3. (EntryRsp + 8) % 8 = 0
    BY DEF EntryRsp
  <2>4. low % 8 = 0 /\ (low - 8) % 8 = 0
    BY <1>1, <2>2
  <2>5. /\ low \in (low - 8)..(EntryRsp + 8) /\ low - 8 \in (low - 8)..(EntryRsp + 8)
        /\ EntryRsp + 8 \in (low - 8)..(EntryRsp + 8)
    BY <1>1, <2>1
  <2> QED
    BY <2>3, <2>4, <2>5
<1> QED
  BY <1>3, <1>4, <1>5, <1>6 DEF low

\* The state of the processor is of the right type throughout: rsp never leaves the frame
\* the generator reserved, on a multiple of 8, and no register appears or disappears.
THEOREM FrameTypes == Spec => []TypeOK
<1>1. FrameInv => TypeOK
  <2> SUFFICES ASSUME FrameInv PROVE TypeOK
    OBVIOUS
  <2>1. Layout(plan)
    BY PlansHaveLayouts DEF FrameInv
  <2>2. plan \in Plan
    BY <2>1 DEF Layout
  <2>3. pc \in 1..(Len(Code(plan)) + 1)
    BY <2>1, CodeByPosition DEF FrameInv
  <2>4. /\ cpu.rsp \in (Low(plan) - 8)..(EntryRsp + 8) /\ cpu.rsp % 8 = 0
        /\ DOMAIN cpu.reg = Nonvolatile
    BY <2>1, RspInFrame DEF FrameInv
  <2>5. EntryRsp - EntryRspOffset(plan) = Low(plan) - 8
    <3> DEFINE np == Pushes(plan)
               low == Low(plan)
               allocation == StackAllocation(plan)
    <3>1. EntryRsp \in Int /\ np \in 0..16 /\ low = EntryRsp - 8 * np - allocation /\ allocation \in 32..2100
      BY <2>1, Addresses
    <3>2. EntryRspOffset(plan) = allocation + 8 * np + 8
      BY DEF EntryRspOffset, PushBytes, Pushes
    <3> HIDE DEF np, low, allocation
    <3>3. EntryRsp - (allocation + 8 * np + 8) = low - 8
      BY <3>1
    <3> QED
      BY <3>2, <3>3 DEF low
  <2> QED
    BY <2>2, <2>3, <2>4, <2>5 DEF TypeOK
<1> QED
  BY <1>1, FrameInvHolds, PTL

\* The call comes when the body has done its work.
LEMMA CallPlace ==
  ASSUME NEW p, Layout(p), NEW n \in 1..EndAt(p), NEW c, FrameAt(p, n, c), Code(p)[n].op = "call"
  PROVE  Frame(p, c, Low(p), Pushes(p), Saves(p), Pushes(p), Saves(p))
<1> DEFINE np == Pushes(p)
           nv == Saves(p)
           f == FlagMoves(p)
           work == WorkAt(p)
           epilogAt == EpilogAt(p)
           end == EndAt(p)
           code == Code(p)
<1>1. /\ np \in Nat /\ nv \in Nat /\ f \in {0, 2}
      /\ work = np + nv + f + 2 /\ epilogAt = np + nv + f + nv + 4
      /\ end = np + nv + f + nv + np + 5
  BY Places
<1>2. CodeIs(p, code)
  BY CodeByPosition
<1>3. /\ \A i : Pushing(p, i).op # "call" /\ Popping(p, i).op # "call"
                /\ Saving(p, i).op # "call" /\ Loading(p, i).op # "call"
      /\ \A imm : /\ Plain("sub", imm).op # "call" /\ Plain("add", imm).op # "call"
                  /\ Plain("pushf", imm).op # "call" /\ Plain("popf", imm).op # "call"
                  /\ Plain("work", imm).op # "call" /\ Plain("ret", imm).op # "call"
  BY DEF Pushing, Popping, Saving, Loading, Plain, Instruction
<1>4. n \in 1..end /\ code[n].op = "call"
  OBVIOUS
<1>5. (\A k \in 0..(np - 1) : n # k + 1) /\ n # np + 1 /\ (\A s \in 0..(nv - 1) : n # np + 2 + s)
      /\ (f = 2 => n # work - 2 /\ n # work - 1) /\ n # work
      /\ (\A s \in 1..nv : n # epilogAt - s) /\ n # epilogAt
      /\ (\A k \in 1..np : n # end - k) /\ n # end
  BY <1>2, <1>3, <1>4 DEF CodeIs
<1> HIDE DEF np, nv, f, work, epilogAt, end, code
<1>6. /\ \A k \in 0..np : n # k + 1
      /\ \A s \in 0..nv : n # np + 2 + s
      /\ (f = 2 => n # work - 1) /\ n # work
      /\ \A s \in 0..nv : n # epilogAt - s
      /\ \A k \in 0..np : n # end - k
      /\ n # end + 1
  <2>1. \A k \in 0..np : n # k + 1
    <3>1. \A k \in 0..np : k \in 0..(np - 1) \/ k = np
      BY <1>1
    <3> QED
      BY <1>5, <3>1
  <2>2. \A s \in 0..nv : n # np + 2 + s
    <3>1. \A s \in 0..nv : s \in 0..(nv - 1) \/ s = nv
      BY <1>1
    <3>2. n # np + 2 + nv
      <4>1. CASE f = 2
        BY <1>1, <1>5, <4>1
      <4>2. CASE f = 0
        BY <1>1, <1>5, <4>2
      <4> QED
        BY <1>1, <4>1, <4>2
    <3> QED
      BY <1>5, <3>1, <3>2
  <2>3. \A s \in 0..nv : n # epilogAt - s
    <3>1. \A s \in 0..nv : s \in 1..nv \/ (s = 0 /\ epilogAt - s = epilogAt)
      BY <1>1
    <3> QED
      BY <1>5, <3>1
  <2>4. \A k \in 0..np : n # end - k
    <3>1. \A k \in 0..np : k \in 1..np \/ (k = 0 /\ end - k = end)
      BY <1>1
    <3> QED
      BY <1>5, <3>1
  <2>5. n # end + 1
    BY <1>1, <1>4
  <2> QED
    BY <1>5, <2>1, <2>2, <2>3, <2>4, <2>5
<1> QED
  BY <1>6 DEF FrameAt, np, nv, f, work, epilogAt, end

\* Every call a thunk makes, to its target or callback, leaves with rsp on a 16-byte
\* boundary and EntryRspOffset below the caller's argument area, whatever the signature
\* and whichever nonvolatile registers the platform has.
THEOREM ThunkCallsAreAligned == Spec => []CallsAreAligned
<1>1. FrameInv => CallsAreAligned
  <2> SUFFICES ASSUME FrameInv, About("call")
               PROVE  cpu.rsp % 16 = 0 /\ cpu.rsp + EntryRspOffset(plan) = EntryRsp + 8
    BY DEF CallsAreAligned
  <2> DEFINE np == Pushes(plan)
             low == Low(plan)
             allocation == StackAllocation(plan)
  <2>1. Layout(plan)
    BY PlansHaveLayouts DEF FrameInv
  <2>2. pc \in 1..EndAt(plan) /\ Code(plan)[pc].op = "call"
    <3>1. EndAt(plan) \in Nat /\ pc \in 1..(EndAt(plan) + 1) /\ pc <= EndAt(plan)
      BY <2>1, Places, CodeByPosition DEF FrameInv, About
    <3> QED
      BY <3>1 DEF About
  <2>3. Frame(plan, cpu, low, np, Saves(plan), np, Saves(plan))
    BY <2>1, <2>2, CallPlace DEF FrameInv
  <2>4. cpu.rsp = low
    BY <2>3, FrameRegisters
  <2>5. /\ EntryRsp \in Int /\ np \in 0..16 /\ low \in Int /\ low % 16 = 0
        /\ low = EntryRsp - 8 * np - allocation /\ allocation \in 32..2100
    BY <2>1, Addresses
  <2>6. EntryRspOffset(plan) = allocation + 8 * np + 8
    BY DEF EntryRspOffset, PushBytes, Pushes
  <2> HIDE DEF np, low, allocation
  <2>7. low + (allocation + 8 * np + 8) = EntryRsp + 8
    BY <2>5
  <2> QED
    BY <2>4, <2>5, <2>6, <2>7
<1> QED
  BY <1>1, FrameInvHolds, PTL

\* Every thunk returns through the caller's return address with rsp and every nonvolatile
\* register as it found them: epilogs undo what prologs did.
THEOREM ThunkReturnsToCaller == Spec => []ReturnsToCaller
<1>1. FrameInv => ReturnsToCaller
  <2> SUFFICES ASSUME FrameInv, pc = Len(Code(plan)) + 1
               PROVE  /\ cpu.rsp = EntryRsp + 8
                      /\ cpu.reg = [r \in Nonvolatile |-> Caller(r)]
                      /\ Read(cpu, EntryRsp) = ReturnAddress
    BY DEF ReturnsToCaller
  <2> DEFINE np == Pushes(plan)
             nv == Saves(plan)
             f == FlagMoves(plan)
             work == WorkAt(plan)
             epilogAt == EpilogAt(plan)
             end == EndAt(plan)
  <2>1. Layout(plan)
    BY PlansHaveLayouts DEF FrameInv
  <2>2. pc = end + 1
    BY <2>1, CodeByPosition
  <2>3. /\ np \in Nat /\ nv \in Nat /\ f \in {0, 2}
        /\ work = np + nv + f + 2 /\ epilogAt = np + nv + f + nv + 4
        /\ end = np + nv + f + nv + np + 5
    BY <2>1, Places
  <2>4. Frame(plan, cpu, EntryRsp + 8, 0, 0, 0, 0)
    <3> HIDE DEF np, nv, f, work, epilogAt, end
    <3>1. /\ \A k \in 0..np : pc # k + 1
          /\ \A s \in 0..nv : pc # np + 2 + s
          /\ pc # work - 1 /\ pc # work /\ pc # work + 1
          /\ \A s \in 0..nv : pc # epilogAt - s
          /\ \A k \in 0..np : pc # end - k
      BY <2>2, <2>3
    <3> QED
      BY <3>1 DEF FrameInv, FrameAt, np, nv, f, work, epilogAt, end
  <2> QED
    BY <2>4, FrameRegisters, CleanFrame
<1> QED
  BY <1>1, FrameInvHolds, PTL

-----------------------------------------------------------------------------
(* Unwinding an epilog *)

\* States with the memory of c, in which every register holds what c holds somewhere.
Values(c) == {c.reg[r] : r \in Nonvolatile} \cup {Read(c, a) : a \in Int} \cup {Junk}
SameMemory(c) == {Cpu(rsp, reg, c.mem) : rsp \in Int, reg \in [Nonvolatile -> Values(c)]}

\* Moving rsp and loading registers from memory stays among them.
LEMMA MemoryStays ==
  ASSUME NEW c, NEW rsp \in Int, IsCpu(c, rsp), c.reg = [r \in Nonvolatile |-> c.reg[r]]
  PROVE  /\ c \in SameMemory(c)
         /\ \A x \in SameMemory(c) :
              /\ IsCpu(x, x.rsp) /\ x.rsp \in Int
              /\ \A to \in Int : Cpu(to, x.reg, x.mem) \in SameMemory(c)
              /\ \A to \in Int, a \in Int : \A r :
                   /\ Loaded(x, to, r, Read(x, a)) \in SameMemory(c)
                   /\ Loaded(x, to, r, ReadXmm(x, a)) \in SameMemory(c)
<1> DEFINE X == SameMemory(c)
           V == Values(c)
           Regs == [Nonvolatile -> V]
<1>1. \A to \in Int, reg \in Regs : Cpu(to, reg, c.mem) \in X
  BY DEF SameMemory
<1>2. c \in X
  <2>1. [r \in Nonvolatile |-> c.reg[r]] \in Regs
    BY DEF Values
  <2>2. c.reg \in Regs /\ c = Cpu(rsp, c.reg, c.mem)
    BY <2>1 DEF IsCpu
  <2> HIDE DEF X, Regs
  <2> QED
    BY <1>1, <2>2
<1>3. ASSUME NEW x \in X
      PROVE  /\ IsCpu(x, x.rsp) /\ x.rsp \in Int
             /\ \A to \in Int : Cpu(to, x.reg, x.mem) \in X
             /\ \A to \in Int, a \in Int : \A r :
                  Loaded(x, to, r, Read(x, a)) \in X /\ Loaded(x, to, r, ReadXmm(x, a)) \in X
  <2>1. PICK rsp2 \in Int, reg \in Regs : x = Cpu(rsp2, reg, c.mem)
    BY DEF SameMemory
  <2>2. x.rsp = rsp2 /\ x.reg = reg /\ x.mem = c.mem
    BY <2>1 DEF Cpu
  <2>3. IsCpu(x, x.rsp)
    BY <2>1, <2>2 DEF IsCpu
  <2>4. \A a \in Int : Read(x, a) \in V /\ ReadXmm(x, a) \in V
    <3>1. \A a : Read(x, a) = Read(c, a)
      BY <2>2 DEF Read
    <3>2. (\A a \in Int : Read(c, a) \in V) /\ Junk \in V
      BY DEF Values
    <3> HIDE DEF V
    <3> QED
      BY <3>1, <3>2 DEF ReadXmm
  <2>5. \A r, value : value \in V => [reg EXCEPT ![r] = value] \in Regs
    <3> HIDE DEF V
    <3> QED
      OBVIOUS
  <2>6. \A to \in Int : \A r, value : value \in V => Loaded(x, to, r, value) \in X
    <3>1. ASSUME NEW to \in Int, NEW r, NEW value \in V PROVE Loaded(x, to, r, value) \in X
      <4> DEFINE reg2 == [reg EXCEPT ![r] = value]
      <4>1. reg2 \in Regs
        BY <2>5
      <4>2. Loaded(x, to, r, value) = Cpu(to, reg2, c.mem)
        BY <2>2 DEF Loaded
      <4> HIDE DEF X, reg2, Regs
      <4> QED
        BY <1>1, <4>1, <4>2
    <3> QED
      BY <3>1
  <2>7. \A to \in Int : Cpu(to, x.reg, x.mem) \in X
    <3> HIDE DEF X, Regs
    <3> QED
      BY <1>1, <2>2
  <2> HIDE DEF X, V
  <2> QED
    BY <2>2, <2>3, <2>4, <2>6, <2>7
<1> QED
  BY <1>2, <1>3

\* What the instructions of an epilog do stays there, too.
LEMMA EpilogStays ==
  ASSUME NEW p, Layout(p), NEW c, NEW rsp \in Int, IsCpu(c, rsp),
         c.reg = [r \in Nonvolatile |-> c.reg[r]],
         NEW n \in EpilogAt(p)..(EndAt(p) - 1), NEW x \in SameMemory(c)
  PROVE  Execute(p, Code(p)[n], x) \in SameMemory(c)
<1> DEFINE np == Pushes(p)
           epilogAt == EpilogAt(p)
           end == EndAt(p)
           allocation == StackAllocation(p)
           at == x.rsp
           d == Execute(p, Code(p)[n], x)
           X == SameMemory(c)
<1>1. np \in Nat /\ epilogAt \in Nat /\ end = epilogAt + np + 1
  <2>1. np \in Nat /\ epilogAt \in Nat
    BY Places
  <2>2. end = epilogAt + np + 1
    BY DEF EndAt
  <2> QED
    BY <2>1, <2>2
<1>2. CodeIs(p, Code(p))
  BY CodeByPosition
<1>3. /\ IsCpu(x, at) /\ at \in Int
      /\ \A to \in Int : Cpu(to, x.reg, x.mem) \in X
      /\ \A to \in Int, a \in Int : \A r : Loaded(x, to, r, Read(x, a)) \in X
  BY MemoryStays
<1>4. allocation \in Int
  <2>1. allocation \in 32..2100
    BY LayoutNumbers
  <2> HIDE DEF allocation
  <2> QED
    BY <2>1
<1>5. n = epilogAt \/ \E k \in 1..np : n = end - k
  <2>1. n \in epilogAt..(end - 1)
    OBVIOUS
  <2> HIDE DEF epilogAt, end, np
  <2>2. CASE n # epilogAt
    <3>1. end - n \in 1..np /\ n = end - (end - n)
      BY <1>1, <2>1, <2>2
    <3> QED
      BY <3>1
  <2> QED
    BY <2>2
<1>6. CASE n = epilogAt
  <2>1. Code(p)[n] = Plain("add", allocation)
    BY <1>2, <1>6 DEF CodeIs
  <2>2. at + allocation \in Int
    <3> HIDE DEF at, allocation
    <3> QED
      BY <1>3, <1>4
  <2> HIDE DEF at, allocation, X
  <2>3. d = Cpu(at + allocation, x.reg, x.mem)
    BY <1>3, <2>1, DoesAdd DEF Plain
  <2>4. d \in X
    BY <1>3, <2>2, <2>3
  <2> QED
    BY <2>4 DEF X
<1>7. ASSUME NEW k \in 1..np, n = end - k
      PROVE  d \in X
  <2> DEFINE r == p.PushedGpRegs[k]
  <2>1. Code(p)[n] = Popping(p, k)
    BY <1>2, <1>7 DEF CodeIs
  <2>2. at + 8 \in Int
    <3> HIDE DEF at
    <3> QED
      BY <1>3
  <2> HIDE DEF at, X, d
  <2>3. Code(p)[n] = Instruction("pop", r, 0)
    BY <2>1 DEF Popping
  <2> HIDE DEF r
  <2>4. d = Loaded(x, at + 8, r, Read(x, at))
    <3>1. Execute(p, Instruction("pop", r, 0), x) = Loaded(x, at + 8, r, Read(x, at))
      BY <1>3, DoesPop
    <3> QED
      BY <2>3, <3>1 DEF d
  <2> QED
    BY <1>3, <2>2, <2>4
<1> QED
  BY <1>5, <1>6, <1>7

\* A frame back at its entry is what the caller had.
LEMMA EntryFrame ==
  ASSUME NEW p, NEW c, Frame(p, c, EntryRsp, 0, 0, 0, 0)
  PROVE  UnwindsTo(c)
<1>1. c.rsp = EntryRsp /\ Read(c, EntryRsp) = ReturnAddress
  BY FrameRegisters
<1>2. c.reg = [r \in Nonvolatile |-> Caller(r)]
  BY CleanFrame
<1> QED
  BY <1>1, <1>2 DEF UnwindsTo

\* Run to its return, an epilog leaves the frame of the caller.
LEMMA EpilogUnwinds ==
  ASSUME NEW p, Layout(p), NEW n \in EpilogAt(p)..EndAt(p), NEW c, FrameAt(p, n, c)
  PROVE  UnwindsTo(Unwind(p, n, c))
<1> DEFINE code == Code(p)
           end == EndAt(p)
           left == Len(code) - n
           X == SameMemory(c)
           Ran(f) == f = [k \in 0..left |-> IF k = 0 THEN c ELSE Execute(p, code[n + k - 1], f[k - 1])]
           run == CHOOSE f : Ran(f)
           step == [q \in Nat \X X |-> IF q[1] < left THEN Execute(p, code[n + q[1]], q[2]) ELSE q[2]]
<1>1. Len(code) = end /\ EpilogStart(p) = EpilogAt(p)
  BY CodeByPosition
<1>2. EpilogAt(p) \in Nat /\ end \in Nat /\ n \in EpilogAt(p)..end
  BY Places
<1>3. left \in Nat /\ n \in Nat /\ n + left = end /\ n >= EpilogAt(p) /\ left = end - n
  <2> HIDE DEF end, code
  <2> QED
    BY <1>1, <1>2
<1>4. IsCpu(c, c.rsp) /\ c.rsp \in Int /\ c.reg = [r \in Nonvolatile |-> c.reg[r]]
  <2>1. c.rsp \in (Low(p) - 8)..(EntryRsp + 8) /\ Low(p) \in Int /\ EntryRsp \in Int
    BY RspInFrame, Addresses
  <2>2. c.rsp \in Int
    BY <2>1
  <2>3. PICK rsp, k, s, dk, ds : Frame(p, c, rsp, k, s, dk, ds)
    BY DEF FrameAt
  <2>4. IsCpu(c, rsp) /\ c.reg = [r \in Nonvolatile |-> c.reg[r]]
    BY <2>3 DEF Frame
  <2>5. c.rsp = rsp
    BY <2>4, Parts
  <2> QED
    BY <2>2, <2>4, <2>5
<1>5. c \in X
  BY <1>4, MemoryStays
<1>6. \A k \in Nat, x \in X : k < left => Execute(p, code[n + k], x) \in X
  <2> SUFFICES ASSUME NEW k \in Nat, NEW x \in X, k < left PROVE Execute(p, code[n + k], x) \in X
    OBVIOUS
  <2>1. n + k \in EpilogAt(p)..(end - 1)
    <3> HIDE DEF end, left
    <3> QED
      BY <1>2, <1>3
  <2> QED
    BY <1>4, <2>1, EpilogStays
<1>7. step \in [Nat \X X -> X]
  <2> HIDE DEF X, left, code
  <2> QED
    BY <1>6
<1>8. \E f : Ran(f)
  <2> HIDE DEF step, X, left, code
  <2>1. PICK f \in [0..left -> X] : IsRecursive(f, c, step, left)
    BY <1>3, <1>5, <1>7, RecursiveFunction
  <2>2. ASSUME NEW k \in 0..left, k # 0
        PROVE  step[<<k - 1, f[k - 1]>>] = Execute(p, code[n + k - 1], f[k - 1])
    <3>1. k - 1 \in Nat /\ k - 1 \in 0..left /\ k - 1 < left /\ n + (k - 1) = n + k - 1
      BY <1>3, <2>2
    <3>2. f[k - 1] \in X
      BY <3>1
    <3> QED
      BY <3>1, <3>2 DEF step
  <2>3. Ran(f)
    BY <2>1, <2>2 DEF IsRecursive
  <2> QED
    BY <2>3
<1>9. Ran(run)
  <2> HIDE DEF Ran
  <2> QED
    BY <1>8
<1>10. run[0] = c /\ \A k \in 0..left : k # 0 => run[k] = Execute(p, code[n + k - 1], run[k - 1])
  <2> HIDE DEF run, left, code
  <2> QED
    BY <1>3, <1>9
<1> DEFINE S == {k \in Nat : k <= left => FrameAt(p, n + k, run[k])}
<1> HIDE DEF run, left, code, end
<1>11. 0 \in S
  <2>1. n + 0 = n
    BY <1>3
  <2> QED
    BY <1>10, <2>1
<1>12. ASSUME NEW k \in Nat, k \in S PROVE k + 1 \in S
  <2> SUFFICES ASSUME k + 1 <= left PROVE FrameAt(p, n + (k + 1), run[k + 1])
    OBVIOUS
  <2>1. /\ k <= left /\ k + 1 \in 0..left /\ k + 1 # 0 /\ (k + 1) - 1 = k
        /\ n + k \in 1..end /\ (n + k) + 1 = n + (k + 1) /\ n + (k + 1) - 1 = n + k
    <3>1. n >= 1
      BY <1>2, <1>3, Places
    <3> QED
      BY <1>3, <3>1
  <2>2. FrameAt(p, n + k, run[k])
    BY <1>12, <2>1
  <2>3. FrameAt(p, (n + k) + 1, Execute(p, Code(p)[n + k], run[k]))
    BY <2>1, <2>2, FrameStep DEF end
  <2>4. run[k + 1] = Execute(p, code[n + (k + 1) - 1], run[(k + 1) - 1])
    BY <1>10, <2>1
  <2> QED
    BY <2>1, <2>3, <2>4 DEF code
<1>13. FrameAt(p, end, run[left])
  <2>1. left \in S
    <3> HIDE DEF S
    <3> QED
      BY <1>3, <1>11, <1>12, InductionOverNat
  <2>2. left <= left /\ n + left = end
    BY <1>3
  <2> QED
    BY <2>1, <2>2
<1>14. Frame(p, run[left], EntryRsp, 0, 0, 0, 0)
  <2> DEFINE np == Pushes(p)
             nv == Saves(p)
             f == FlagMoves(p)
             work == WorkAt(p)
             epilogAt == EpilogAt(p)
  <2>1. /\ np \in Nat /\ nv \in Nat /\ f \in {0, 2}
        /\ work = np + nv + f + 2 /\ epilogAt = np + nv + f + nv + 4
        /\ end = np + nv + f + nv + np + 5
    BY Places DEF end
  <2> HIDE DEF np, nv, f, work, epilogAt
  <2>2. /\ \A k \in 0..np : end # k + 1
        /\ \A s \in 0..nv : end # np + 2 + s
        /\ end # work - 1 /\ end # work /\ end # work + 1
        /\ \A s \in 0..nv : end # epilogAt - s
        /\ \A k \in 0..np : end = end - k => k = 0
        /\ end # end + 1
    BY <2>1
  <2>3. PICK k \in 0..np : end = end - k /\ Frame(p, run[left], EntryRsp - 8 * k, k, 0, k, 0)
    BY <1>13, <2>2 DEF FrameAt, np, nv, f, work, epilogAt, end
  <2>4. k = 0
    BY <2>2, <2>3
  <2>5. EntryRsp - 8 * k = EntryRsp
    BY <2>4, Addresses
  <2> QED
    BY <2>3, <2>4, <2>5
<1>15. Unwind(p, n, c) = run[left]
  <2>1. n >= EpilogStart(p)
    BY <1>1, <1>3
  <2> QED
    BY <2>1 DEF Unwind, run, left, code
<1> QED
  BY <1>14, <1>15, EntryFrame

-----------------------------------------------------------------------------
(* Offsets in the code *)

\* Sums of the same sizes are the same.
LEMMA SameTotals ==
  ASSUME NEW n \in Nat, NEW size, NEW size2,
         \A k \in 1..n : size[k] \in Nat, \A k \in 1..n : size2[k] = size[k]
  PROVE  Total(size2, n) = Total(size, n)
<1> DEFINE S == {k \in Nat : k <= n => Total(size2, k) = Total(size, k)}
<1>1. /\ Total(size, 0) = 0 /\ Total(size2, 0) = 0
      /\ \A k \in 1..n : Total(size, k) = Total(size, k - 1) + size[k]
      /\ \A k \in 1..n : Total(size2, k) = Total(size2, k - 1) + size2[k]
  <2>1. \A k \in 1..n : size2[k] \in Nat
    OBVIOUS
  <2> QED
    BY <2>1, TotalSteps
<1>2. 0 \in S
  BY <1>1
<1>3. ASSUME NEW k \in Nat, k \in S PROVE k + 1 \in S
  <2> SUFFICES ASSUME k + 1 <= n PROVE Total(size2, k + 1) = Total(size, k + 1)
    OBVIOUS
  <2>1. k + 1 \in 1..n /\ (k + 1) - 1 = k /\ k <= n
    OBVIOUS
  <2>2. Total(size2, k) = Total(size, k)
    BY <1>3, <2>1
  <2> QED
    BY <1>1, <2>1, <2>2
<1>4. n \in S
  <2> HIDE DEF S
  <2> QED
    BY <1>2, <1>3, InductionOverNat
<1> QED
  BY <1>4

\* The sizes of the instructions.
SizeAt(p, k) == EncodedSize(p, Code(p)[k])

\* No instruction is empty and none is longer than ten bytes.
LEMMA SizesArePositive ==
  ASSUME NEW p, NEW k
  PROVE  SizeAt(p, k) \in 1..10
<1> DEFINE i == Code(p)[k]
           rex == IF i.reg[2] >= 8 THEN 1 ELSE 0
           disp == IF i.imm = 0 THEN 0 ELSE IF i.imm < 128 THEN 1 ELSE 4
           first == IF p.compiled THEN 4 ELSE 5
<1>1. rex \in 0..1 /\ disp \in 0..4 /\ first \in 4..5
  OBVIOUS
<1>2. SizeAt(p, k) = CASE i.op = "push" -> 1 + rex
                       [] i.op = "sub" -> IF i.imm < 128 THEN 4 ELSE 7
                       [] i.op = "save" -> first + rex + disp
                       [] OTHER -> 1
  BY DEF SizeAt, EncodedSize
<1> HIDE DEF rex, disp, first
<1> QED
  BY <1>1, <1>2

\* The offsets behind the instructions grow by their sizes.
LEMMA OffsetSteps ==
  ASSUME NEW p, Layout(p)
  PROVE  /\ CodeOffset(p, 0) = 0
         /\ \A k \in 1..EndAt(p) : CodeOffset(p, k) = CodeOffset(p, k - 1) + SizeAt(p, k)
         /\ \A k \in 0..EndAt(p) : CodeOffset(p, k) \in Nat
<1> DEFINE end == EndAt(p)
           all == [k \in 1..end |-> SizeAt(p, k)]
<1>1. end \in Nat
  BY Places
<1>2. \A k \in 1..end : all[k] = SizeAt(p, k) /\ all[k] \in Nat
  <2>1. \A k : SizeAt(p, k) \in Nat
    <3>1. \A k : SizeAt(p, k) \in 1..10
      BY SizesArePositive
    <3> QED
      BY <3>1
  <2> QED
    BY <2>1
<1>3. ASSUME NEW n \in 0..end PROVE CodeOffset(p, n) = Total(all, n)
  <2> DEFINE some == [k \in 1..n |-> SizeAt(p, k)]
  <2>1. CodeOffset(p, n) = Total(some, n)
    BY Zenon DEF CodeOffset, SizeAt
  <2>2. n \in Nat /\ \A k \in 1..n : k \in 1..end
    <3> HIDE DEF end
    <3> QED
      BY <1>1
  <2>3. \A k \in 1..n : some[k] = all[k]
    BY <2>2
  <2>4. \A k \in 1..n : all[k] \in Nat
    BY <1>2, <2>2
  <2> HIDE DEF some, all
  <2> QED
    BY <2>1, <2>2, <2>3, <2>4, SameTotals
<1> HIDE DEF all, end
<1>4. /\ Total(all, 0) = 0
      /\ \A k \in 1..end : Total(all, k) = Total(all, k - 1) + all[k]
      /\ \A k \in 0..end : Total(all, k) \in Nat
  BY <1>1, <1>2, TotalSteps
<1>5. 0 \in 0..end /\ \A k \in 1..end : k \in 0..end /\ k - 1 \in 0..end
  BY <1>1
<1> QED
  BY <1>2, <1>3, <1>4, <1>5 DEF end

\* So the order of offsets is the order of instructions.
LEMMA OffsetOrder ==
  ASSUME NEW p, Layout(p), NEW m \in 0..EndAt(p), NEW k \in 0..EndAt(p)
  PROVE  CodeOffset(p, m) <= CodeOffset(p, k) <=> m <= k
<1> DEFINE end == EndAt(p)
           off(x) == CodeOffset(p, x)
<1>1. /\ \A x \in 1..end : off(x) = off(x - 1) + SizeAt(p, x) /\ SizeAt(p, x) \in 1..10
      /\ \A x \in 0..end : off(x) \in Nat
  BY OffsetSteps, SizesArePositive
<1>2. end \in Nat /\ m \in 0..end /\ k \in 0..end
  BY Places
<1> HIDE DEF end, off
<1>3. ASSUME NEW a \in 0..end
      PROVE  \A d \in Nat : a + d <= end => off(a) + d <= off(a + d)
  <2> DEFINE S == {d \in Nat : a + d <= end => off(a) + d <= off(a + d)}
  <2>1. 0 \in S
    <3>1. a + 0 = a /\ off(a) \in Nat
      BY <1>1, <1>2
    <3> QED
      BY <3>1
  <2>2. ASSUME NEW d \in Nat, d \in S PROVE d + 1 \in S
    <3> SUFFICES ASSUME a + (d + 1) <= end PROVE off(a) + (d + 1) <= off(a + (d + 1))
      OBVIOUS
    <3> DEFINE x == a + (d + 1)
    <3>1. x \in 1..end /\ x - 1 = a + d /\ a + d <= end /\ x - 1 \in 0..end
      BY <1>2
    <3>2. off(a) + d <= off(a + d)
      BY <2>2, <3>1
    <3>3. off(x) = off(x - 1) + SizeAt(p, x) /\ SizeAt(p, x) \in 1..10 /\ off(x - 1) \in Nat /\ off(a) \in Nat
      BY <1>1, <3>1
    <3>4. off(x) >= off(a + d) + 1
      BY <3>1, <3>3
    <3> HIDE DEF x
    <3>5. off(a) + (d + 1) <= off(x)
      BY <3>1, <3>2, <3>3, <3>4
    <3> QED
      BY <3>5 DEF x
  <2>3. \A d \in Nat : d \in S
    <3> HIDE DEF S
    <3> QED
      BY <2>1, <2>2, InductionOverNat
  <2> QED
    BY <2>3
<1>4. CASE m <= k
  <2>1. k - m \in Nat /\ m + (k - m) = k
    BY <1>2, <1>4
  <2>2. off(m) + (k - m) <= off(k)
    BY <1>2, <1>3, <2>1
  <2>3. off(m) <= off(k)
    BY <1>1, <1>2, <2>1, <2>2
  <2> QED
    BY <1>4, <2>3 DEF off
<1>5. CASE ~(m <= k)
  <2>1. m - k \in Nat /\ k + (m - k) = m /\ m - k >= 1
    BY <1>2, <1>5
  <2>2. off(k) + (m - k) <= off(m)
    BY <1>2, <1>3, <2>1
  <2>3. ~(off(m) <= off(k))
    BY <1>1, <1>2, <2>1, <2>2
  <2> QED
    BY <1>5, <2>3 DEF off
<1> QED
  BY <1>4, <1>5

\* The instructions of the prolog by what they are.
PrologEnd(p) == Pushes(p) + 1 + Saves(p)

\* Where they are, in the prolog and in the code.
LEMMA PrologPlaces ==
  ASSUME NEW p, Layout(p)
  PROVE  /\ PrologEnd(p) \in Nat /\ PrologEnd(p) = Pushes(p) + 1 + Saves(p)
         /\ PrologEnd(p) < EpilogAt(p) /\ EpilogAt(p) <= EndAt(p)
         /\ Len(Prolog(p)) = PrologEnd(p)
         /\ \A m \in 1..PrologEnd(p) :
              /\ m \in 1..EndAt(p) /\ m - 1 \in 0..EndAt(p) /\ Code(p)[m] = Prolog(p)[m]
              /\ \/ m \in 1..Pushes(p) /\ Prolog(p)[m] = Pushing(p, m)
                 \/ m = Pushes(p) + 1 /\ Prolog(p)[m] = Plain("sub", StackAllocation(p))
                 \/ \E s \in 1..Saves(p) : m = Pushes(p) + 1 + s /\ Prolog(p)[m] = Saving(p, s)
<1> DEFINE np == Pushes(p)
           nv == Saves(p)
           f == FlagMoves(p)
           epilogAt == EpilogAt(p)
           end == EndAt(p)
           last == PrologEnd(p)
           prolog == Prolog(p)
           code == Code(p)
<1>1. /\ np \in Nat /\ nv \in Nat /\ f \in {0, 2}
      /\ epilogAt = np + nv + f + nv + 4 /\ end = np + nv + f + nv + np + 5
  BY Places
<1>2. last = np + 1 + nv
  BY DEF PrologEnd
<1>3. /\ Len(prolog) = np + 1 + nv /\ CodeIs(p, code)
      /\ \A m \in 1..(np + 1 + nv) : code[m] = prolog[m]
  BY CodeByPosition
<1>4. /\ \A k \in 0..(np - 1) : code[k + 1] = Pushing(p, k + 1)
      /\ code[np + 1] = Plain("sub", StackAllocation(p))
      /\ \A s \in 0..(nv - 1) : code[np + 2 + s] = Saving(p, s + 1)
  BY <1>3 DEF CodeIs
<1> HIDE DEF np, nv, f, epilogAt, end, last, prolog, code
<1>5. last \in Nat /\ last < epilogAt /\ epilogAt <= end
  BY <1>1, <1>2
<1>6. ASSUME NEW m \in 1..last
      PROVE  /\ m \in 1..end /\ m - 1 \in 0..end /\ code[m] = prolog[m]
             /\ \/ m \in 1..np /\ prolog[m] = Pushing(p, m)
                \/ m = np + 1 /\ prolog[m] = Plain("sub", StackAllocation(p))
                \/ \E s \in 1..nv : m = np + 1 + s /\ prolog[m] = Saving(p, s)
  <2>1. m \in 1..end /\ m - 1 \in 0..end /\ code[m] = prolog[m]
    BY <1>1, <1>2, <1>3
  <2>2. CASE m \in 1..np
    <3>1. m - 1 \in 0..(np - 1) /\ (m - 1) + 1 = m
      BY <1>1, <2>2
    <3> QED
      BY <1>4, <2>1, <2>2, <3>1
  <2>3. CASE m = np + 1
    BY <1>4, <2>1, <2>3
  <2>4. CASE m > np + 1
    <3> DEFINE s == m - (np + 1)
    <3>1. s \in 1..nv /\ m = np + 1 + s /\ s - 1 \in 0..(nv - 1) /\ np + 2 + (s - 1) = m /\ (s - 1) + 1 = s
      BY <1>1, <1>2, <2>4
    <3> HIDE DEF s
    <3>2. prolog[m] = Saving(p, s)
      BY <1>4, <2>1, <3>1
    <3> QED
      BY <2>1, <3>1, <3>2
  <2> QED
    BY <1>1, <1>2, <2>2, <2>3, <2>4
<1> QED
  BY <1>2, <1>3, <1>5, <1>6 DEF np, nv, epilogAt, end, last, prolog, code

\* Offsets in a prolog fit into a byte.
LEMMA OffsetsFit ==
  ASSUME NEW p, Layout(p), NEW m \in 1..PrologEnd(p)
  PROVE  CodeOffset(p, m) \in 0..255
<1> DEFINE np == Pushes(p)
           nv == Saves(p)
           last == PrologEnd(p)
           end == EndAt(p)
           off(x) == CodeOffset(p, x)
           bound(x) == IF x <= np THEN 2 * x ELSE 2 * np + 7 + 10 * (x - np - 1)
           S == {x \in Nat : x <= last => off(x) <= bound(x)}
<1>1. /\ \A x \in 1..end : off(x) = off(x - 1) + SizeAt(p, x) /\ SizeAt(p, x) \in 1..10
      /\ \A x \in 0..end : off(x) \in Nat
      /\ off(0) = 0
  BY OffsetSteps, SizesArePositive
<1>2. np \in 0..16 /\ nv \in 0..16
  BY LayoutNumbers
<1>3. /\ last \in Nat /\ last = np + 1 + nv
      /\ \A x \in 1..last : /\ x \in 1..end /\ x - 1 \in 0..end
                            /\ \/ x \in 1..np /\ Code(p)[x] = Pushing(p, x)
                               \/ x = np + 1 /\ Code(p)[x] = Plain("sub", StackAllocation(p))
                               \/ \E s \in 1..nv : x = np + 1 + s /\ Code(p)[x] = Saving(p, s)
  BY PrologPlaces
<1>4. m \in 1..last
  OBVIOUS
<1> HIDE DEF np, nv, last, end
<1>5. \A x \in 1..last : (x <= np => SizeAt(p, x) <= 2) /\ (x = np + 1 => SizeAt(p, x) <= 7)
  <2> SUFFICES ASSUME NEW x \in 1..last
               PROVE  (x <= np => SizeAt(p, x) <= 2) /\ (x = np + 1 => SizeAt(p, x) <= 7)
    OBVIOUS
  <2> DEFINE i == Code(p)[x]
             rex == IF i.reg[2] >= 8 THEN 1 ELSE 0
  <2>1. rex \in 0..1
    OBVIOUS
  <2>2. i.op = "push" => SizeAt(p, x) = 1 + rex
    BY DEF SizeAt, EncodedSize
  <2>3. i.op = "sub" => SizeAt(p, x) = IF i.imm < 128 THEN 4 ELSE 7
    BY DEF SizeAt, EncodedSize
  <2>4. (x <= np => i.op = "push") /\ (x = np + 1 => i.op = "sub")
    <3>1. \A s : Pushing(p, s).op = "push" /\ \A imm : Plain("sub", imm).op = "sub"
      BY DEF Pushing, Plain, Instruction
    <3>2. (x <= np => i = Pushing(p, x)) /\ (x = np + 1 => i = Plain("sub", StackAllocation(p)))
      BY <1>2, <1>3
    <3> QED
      BY <3>1, <3>2
  <2> HIDE DEF i, rex
  <2> QED
    BY <2>1, <2>2, <2>3, <2>4
<1> HIDE DEF off
<1>6. 0 \in S
  BY <1>1, <1>2
<1>7. ASSUME NEW x \in Nat, x \in S PROVE x + 1 \in S
  <2> SUFFICES ASSUME x + 1 <= last PROVE off(x + 1) <= bound(x + 1)
    OBVIOUS
  <2> DEFINE y == x + 1
             size == SizeAt(p, y)
             old == off(x)
  <2>1. y \in 1..last /\ y - 1 = x /\ x <= last
    BY <1>3
  <2>2. old <= bound(x)
    BY <1>7, <2>1
  <2>3. /\ off(y) = old + size /\ size \in 1..10 /\ old \in Nat
        /\ (y <= np => size <= 2) /\ (y = np + 1 => size <= 7)
    BY <1>1, <1>3, <1>5, <2>1
  <2> HIDE DEF size, old
  <2>4. old + size <= bound(y)
    <3>1. CASE y <= np
      BY <1>2, <2>1, <2>2, <2>3, <3>1
    <3>2. CASE y = np + 1
      BY <1>2, <2>1, <2>2, <2>3, <3>2
    <3>3. CASE y > np + 1
      BY <1>2, <2>1, <2>2, <2>3, <3>3
    <3> QED
      BY <1>2, <2>1, <3>1, <3>2, <3>3
  <2> QED
    BY <2>3, <2>4
<1>8. off(m) <= bound(m)
  <2>1. m \in S
    <3> HIDE DEF S
    <3> QED
      BY <1>3, <1>4, <1>6, <1>7, InductionOverNat
  <2>2. m <= last
    BY <1>3, <1>4
  <2> QED
    BY <2>1, <2>2
<1>9. off(m) \in Nat
  BY <1>1, <1>3, <1>4
<1>10. bound(m) <= 199
  BY <1>2, <1>3, <1>4
<1>11. off(m) \in 0..255
  <2> DEFINE b == bound(m)
  <2>1. b \in Int /\ b <= 199 /\ off(m) <= b
    BY <1>2, <1>3, <1>4, <1>8, <1>10
  <2> HIDE DEF b
  <2> QED
    BY <1>9, <2>1
<1> QED
  BY <1>11 DEF off

\* A compiled prolog is as long as the library takes it to be.
LEMMA SizesArePredicted ==
  ASSUME NEW p, Layout(p), p.compiled, NEW m \in 1..PrologEnd(p)
  PROVE  PredictedSize(Prolog(p)[m]) = SizeAt(p, m)
<1> DEFINE i == Prolog(p)[m]
           rex == IF i.reg[2] >= 8 THEN 1 ELSE 0
           disp == IF i.imm = 0 THEN 0 ELSE IF i.imm < 128 THEN 1 ELSE 4
<1>1. /\ Code(p)[m] = i
      /\ \/ m \in 1..Pushes(p) /\ i = Pushing(p, m)
         \/ i = Plain("sub", StackAllocation(p))
         \/ \E s \in 1..Saves(p) : i = Saving(p, s)
  BY PrologPlaces
<1>2. SizeAt(p, m) = CASE i.op = "push" -> 1 + rex
                       [] i.op = "sub" -> IF i.imm < 128 THEN 4 ELSE 7
                       [] i.op = "save" -> 4 + rex + disp
                       [] OTHER -> 1
  BY <1>1 DEF SizeAt, EncodedSize
<1>3. ASSUME NEW k \in 1..Pushes(p), i = Pushing(p, k)
      PROVE  PredictedSize(i) = SizeAt(p, m)
  <2> DEFINE id == p.PushedGpRegs[k][2]
  <2>1. p.PushedGpRegs[k] \in {"gp"} \X (0..15)
    BY LayoutFacts
  <2>2. i.op = "push" /\ i.reg[2] = id /\ id \in 0..15
    BY <1>3, <2>1 DEF Pushing, Instruction
  <2>3. SizeAt(p, m) = 1 + rex
    BY <1>2, <2>2
  <2>4. PredictedSize(i) = IF id < 8 THEN 1 ELSE 2
    BY <2>2 DEF PredictedSize, GpPushInstructionSize
  <2> HIDE DEF i
  <2> QED
    BY <2>2, <2>3, <2>4
<1>4. ASSUME i = Plain("sub", StackAllocation(p))
      PROVE  PredictedSize(i) = SizeAt(p, m)
  <2>1. i.op = "sub" /\ i.imm = StackAllocation(p)
    BY <1>4 DEF Plain, Instruction
  <2>2. StackAllocation(p) \in 32..2100
    BY LayoutNumbers
  <2>3. SizeAt(p, m) = IF i.imm < 128 THEN 4 ELSE 7
    BY <1>2, <2>1
  <2>4. PredictedSize(i) = IF i.imm <= 127 THEN 4 ELSE 7
    BY <2>1 DEF PredictedSize, SubRspInstructionSize
  <2> HIDE DEF i
  <2> QED
    BY <2>1, <2>2, <2>3, <2>4
<1>5. ASSUME NEW s \in 1..Saves(p), i = Saving(p, s)
      PROVE  PredictedSize(i) = SizeAt(p, m)
  <2> DEFINE id == p.SavedVecRegs[s][2]
             offset == VecOffset(p, s)
  <2>1. p.SavedVecRegs[s] \in {"vec"} \X (0..15)
    BY LayoutFacts
  <2>2. offset \in Nat
    BY OffsetType
  <2>3. i.op = "save" /\ i.reg[2] = id /\ id \in 0..15 /\ i.imm = offset
    BY <1>5, <2>1 DEF Saving, Instruction
  <2>4. SizeAt(p, m) = 4 + rex + disp
    BY <1>2, <2>3
  <2>5. PredictedSize(i) = (IF id >= 8 THEN 1 ELSE 0) + 2
                             + (IF offset = 0 THEN 2 ELSE IF offset <= 127 THEN 3 ELSE 6)
    BY <2>3 DEF PredictedSize, VecStoreInstructionSize
  <2> HIDE DEF i, id, offset
  <2> QED
    BY <2>2, <2>3, <2>4, <2>5
<1> QED
  BY <1>1, <1>3, <1>4, <1>5

\* So the codes of either kind of prolog carry the offsets behind their instructions.
LEMMA PrologOffsets ==
  ASSUME NEW p, Layout(p), NEW m \in 1..PrologEnd(p)
  PROVE  PrologOffset(p, m) = CodeOffset(p, m)
<1>1. CASE p.compiled
  <2> DEFINE last == PrologEnd(p)
             predicted == [k \in 1..m |-> PredictedSize(Prolog(p)[k])]
             encoded == [k \in 1..m |-> SizeAt(p, k)]
  <2>1. PrologOffset(p, m) = Total(predicted, m)
    BY <1>1, Zenon DEF PrologOffset
  <2>2. CodeOffset(p, m) = Total(encoded, m)
    BY Zenon DEF CodeOffset, SizeAt
  <2>3. m \in Nat /\ \A k \in 1..m : k \in 1..last
    <3>1. last \in Nat /\ m \in 1..last
      BY PrologPlaces
    <3> HIDE DEF last
    <3> QED
      BY <3>1
  <2>4. \A k \in 1..m : predicted[k] = SizeAt(p, k) /\ encoded[k] = SizeAt(p, k)
    BY <1>1, <2>3, SizesArePredicted
  <2>5. \A k \in 1..m : encoded[k] \in Nat
    <3>1. \A k : SizeAt(p, k) \in 1..10
      BY SizesArePositive
    <3> QED
      BY <2>4, <3>1
  <2> HIDE DEF predicted, encoded
  <2>6. Total(predicted, m) = Total(encoded, m)
    BY <2>3, <2>4, <2>5, SameTotals
  <2> QED
    BY <2>1, <2>2, <2>6
<1>2. CASE ~p.compiled
  BY <1>2 DEF PrologOffset
<1> QED
  BY <1>1, <1>2

-----------------------------------------------------------------------------
(* The unwind codes *)

\* The operations differ.
LEMMA UnwindOperations ==
  /\ UWOP_PUSH_NONVOL # UWOP_ALLOC_SMALL /\ UWOP_PUSH_NONVOL # UWOP_ALLOC_LARGE
  /\ UWOP_PUSH_NONVOL # UWOP_SAVE_XMM128 /\ UWOP_ALLOC_SMALL # UWOP_ALLOC_LARGE
  /\ UWOP_ALLOC_SMALL # UWOP_SAVE_XMM128 /\ UWOP_ALLOC_LARGE # UWOP_SAVE_XMM128
BY DEF UWOP_PUSH_NONVOL, UWOP_ALLOC_SMALL, UWOP_ALLOC_LARGE, UWOP_SAVE_XMM128

\* What a slot holds.
SlotHolds(u, offset, op, info, extra) ==
  u.offset = offset /\ u.op = op /\ u.info = info /\ u.extra = extra

\* The operands that occur.
Allocations == {x \in 32..2100 : x % 8 = 0}
SavePlaces == {x \in 0..2100 : x % 16 = 0}

\* What the unwinder makes of the code of a push,
LEMMA UndoesPush ==
  ASSUME NEW c, NEW rsp \in Int, IsCpu(c, rsp), NEW offset \in 0..255, NEW r \in {"gp"} \X (0..15)
  PROVE  /\ UnwindCode(Instruction("push", r, 0), offset).offset = offset
         /\ Undo(c, UnwindCode(Instruction("push", r, 0), offset)) = Loaded(c, rsp + 8, r, Read(c, rsp))
<1> DEFINE i == Instruction("push", r, 0)
           code == UnwindCode(i, offset)
           id == r[2]
           value == Read(c, rsp)
<1>1. id \in 0..15 /\ r = <<"gp", id>>
  OBVIOUS
<1>2. code = Slot(offset, UWOP_PUSH_NONVOL, id, 0)
  BY Fields DEF UnwindCode
<1> HIDE DEF id, i, code
<1>3. SlotHolds(code, offset, UWOP_PUSH_NONVOL, id, 0)
  <2>1. offset % 256 = offset /\ id % 16 = id /\ 0 % 65536 = 0
    BY <1>1
  <2> QED
    BY <1>2, <2>1 DEF Slot, SlotHolds
<1>4. code.offset = offset /\ code.op = UWOP_PUSH_NONVOL /\ code.info = id
  BY <1>3 DEF SlotHolds
<1>5. c.rsp = rsp /\ c = [rsp |-> rsp, reg |-> c.reg, mem |-> c.mem]
  BY Parts
<1>6. Undo(c, code) = [c EXCEPT !.rsp = @ + 8, !.reg[r] = value]
  <2>1. Undo(c, code) = [c EXCEPT !.rsp = @ + 8, !.reg[<<"gp", code.info>>] = Read(c, c.rsp)]
    BY <1>4, UnwindOperations, Zenon DEF Undo
  <2> QED
    BY <1>1, <1>4, <1>5, <2>1
<1> HIDE DEF value
<1>7. Undo(c, code) = Loaded(c, rsp + 8, r, value)
  BY <1>5, <1>6 DEF Cpu, Loaded
<1> QED
  BY <1>4, <1>7 DEF code, i, value

\* of an allocation,
LEMMA UndoesSub ==
  ASSUME NEW c, NEW rsp \in Int, IsCpu(c, rsp), NEW offset \in 0..255, NEW imm \in Allocations
  PROVE  /\ UnwindCode(Plain("sub", imm), offset).offset = offset
         /\ Undo(c, UnwindCode(Plain("sub", imm), offset)) = Cpu(rsp + imm, c.reg, c.mem)
<1> DEFINE i == Plain("sub", imm)
           code == UnwindCode(i, offset)
<1>1. c.rsp = rsp /\ c = [rsp |-> rsp, reg |-> c.reg, mem |-> c.mem]
  BY Parts
<1>6. imm \in 32..2100 /\ imm % 8 = 0
  BY DEF Allocations
<1>2. code = IF imm <= 128 THEN Slot(offset, UWOP_ALLOC_SMALL, (imm - 8) \div 8, 0)
             ELSE Slot(offset, UWOP_ALLOC_LARGE, 0, imm \div 8)
  BY Fields DEF UnwindCode, Plain
<1> HIDE DEF code
<1>4. CASE imm <= 128
  <2> DEFINE info == (imm - 8) \div 8
  <2>1. info \in 0..15 /\ info * 8 + 8 = imm
    BY <1>4, <1>6
  <2>2. code = Slot(offset, UWOP_ALLOC_SMALL, info, 0)
    BY <1>2, <1>4
  <2> HIDE DEF info
  <2>3. SlotHolds(code, offset, UWOP_ALLOC_SMALL, info, 0)
    <3>1. offset % 256 = offset /\ info % 16 = info /\ 0 % 65536 = 0
      BY <2>1
    <3> QED
      BY <2>2, <3>1 DEF Slot, SlotHolds
  <2>4. code.offset = offset /\ code.op = UWOP_ALLOC_SMALL /\ code.info = info
    BY <2>3 DEF SlotHolds
  <2>5. Undo(c, code) = [c EXCEPT !.rsp = @ + code.info * 8 + 8]
    BY <2>4, UnwindOperations, Zenon DEF Undo
  <2>6. c.rsp + code.info * 8 + 8 = rsp + imm
    BY <1>1, <2>1, <2>4
  <2>7. Undo(c, code) = Cpu(rsp + imm, c.reg, c.mem)
    BY <1>1, <2>5, <2>6 DEF Cpu
  <2> QED
    BY <2>4, <2>7 DEF code
<1>5. CASE ~(imm <= 128)
  <2> DEFINE extra == imm \div 8
  <2>0. extra \in 0..300 /\ extra * 8 = imm
    BY <1>5, <1>6
  <2>1. extra \in 0..300 /\ extra * 8 = imm /\ extra % 65536 = extra
    <3> HIDE DEF extra
    <3> QED
      BY <2>0
  <2>2. code = Slot(offset, UWOP_ALLOC_LARGE, 0, extra)
    BY <1>2, <1>5
  <2> HIDE DEF extra
  <2>3. SlotHolds(code, offset, UWOP_ALLOC_LARGE, 0, extra)
    <3>1. offset % 256 = offset /\ 0 % 16 = 0
      OBVIOUS
    <3> QED
      BY <2>1, <2>2, <3>1 DEF Slot, SlotHolds
  <2>4. code.offset = offset /\ code.op = UWOP_ALLOC_LARGE /\ code.extra = extra
    BY <2>3 DEF SlotHolds
  <2>5. Undo(c, code) = [c EXCEPT !.rsp = @ + code.extra * 8]
    BY <2>4, UnwindOperations, Zenon DEF Undo
  <2>6. c.rsp + code.extra * 8 = rsp + imm
    BY <1>1, <2>1, <2>4
  <2>7. Undo(c, code) = Cpu(rsp + imm, c.reg, c.mem)
    BY <1>1, <2>5, <2>6 DEF Cpu
  <2> QED
    BY <2>4, <2>7 DEF code
<1> QED
  BY <1>4, <1>5

\* and of a saved vector register.
LEMMA UndoesSave ==
  ASSUME NEW c, NEW rsp \in Int, IsCpu(c, rsp), NEW offset \in 0..255, NEW r \in {"vec"} \X (0..15),
         NEW imm \in SavePlaces
  PROVE  /\ UnwindCode(Instruction("save", r, imm), offset).offset = offset
         /\ Undo(c, UnwindCode(Instruction("save", r, imm), offset))
              = Loaded(c, rsp, r, ReadXmm(c, rsp + imm))
<1> DEFINE i == Instruction("save", r, imm)
           code == UnwindCode(i, offset)
           id == r[2]
           extra == imm \div 16
           value == ReadXmm(c, rsp + imm)
<1>6. c.rsp = rsp /\ c = [rsp |-> rsp, reg |-> c.reg, mem |-> c.mem]
  BY DEF Cpu, IsCpu
<1>1. id \in 0..15 /\ r = <<"vec", id>>
  OBVIOUS
<1>2. extra \in 0..300 /\ extra * 16 = imm
  BY DEF SavePlaces
<1>3. code = Slot(offset, UWOP_SAVE_XMM128, id, extra)
  BY Fields DEF UnwindCode
<1> HIDE DEF id, i, code, extra
<1>4. SlotHolds(code, offset, UWOP_SAVE_XMM128, id, extra)
  <2>1. offset % 256 = offset /\ id % 16 = id
    BY <1>1
  <2>2. extra % 65536 = extra
    BY <1>2
  <2> QED
    BY <1>3, <2>1, <2>2 DEF Slot, SlotHolds
<1>5. code.offset = offset /\ code.op = UWOP_SAVE_XMM128 /\ code.info = id /\ code.extra = extra
  BY <1>4 DEF SlotHolds
<1>7. Undo(c, code) = [c EXCEPT !.reg[<<"vec", code.info>>] = ReadXmm(c, c.rsp + code.extra * 16)]
  BY <1>5, UnwindOperations DEF Undo
<1>8. Undo(c, code) = [c EXCEPT !.reg[r] = value]
  BY <1>1, <1>2, <1>5, <1>6, <1>7
<1> HIDE DEF value
<1>9. Undo(c, code) = Loaded(c, rsp, r, value)
  BY <1>6, <1>8 DEF Cpu, Loaded
<1> QED
  BY <1>5, <1>9 DEF code, i, value

\* Vector registers are saved at multiples of 16.
LEMMA OperandsOccur ==
  ASSUME NEW p, Layout(p)
  PROVE  /\ StackAllocation(p) \in Allocations
         /\ \A s \in 1..Saves(p) : VecOffset(p, s) \in SavePlaces
<1> DEFINE np == Pushes(p)
           allocation == StackAllocation(p)
<1>1. np \in 0..16 /\ allocation \in 32..2100 /\ (8 * np + allocation) % 16 = 8
  BY LayoutNumbers
<1> HIDE DEF np, allocation
<1>2. allocation \in Allocations
  <2> DEFINE q == (8 * np + allocation) \div 16
             k == 2 * q + 1 - np
  <2>1. q \in Int /\ 8 * np + allocation = 16 * q + 8
    BY <1>1
  <2> HIDE DEF q
  <2>2. k \in Int /\ allocation = 8 * k
    BY <1>1, <2>1
  <2> HIDE DEF k
  <2>3. allocation % 8 = 0
    BY <2>2
  <2> QED
    BY <1>1, <2>3 DEF Allocations
<1>3. ASSUME NEW s \in 1..Saves(p) PROVE VecOffset(p, s) \in SavePlaces
  <2> DEFINE offset == VecOffset(p, s)
  <2>1. offset \in Nat /\ offset % 16 = 0 /\ offset + 16 <= allocation
    BY OffsetType DEF allocation
  <2> HIDE DEF offset
  <2>2. offset \in SavePlaces
    BY <1>1, <2>1 DEF SavePlaces
  <2> QED
    BY <2>2 DEF offset
<1> QED
  BY <1>2, <1>3 DEF allocation

CodeAt(p, m) == UnwindCode(Prolog(p)[m], PrologOffset(p, m))
Undone(p, m, c) == Undo(c, CodeAt(p, m))

\* What the unwinder makes of the code of each instruction of a prolog.
LEMMA UndoesCode ==
  ASSUME NEW p, Layout(p), NEW m \in 1..PrologEnd(p), NEW c, NEW rsp \in Int, IsCpu(c, rsp)
  PROVE  /\ CodeAt(p, m).offset = CodeOffset(p, m)
         /\ m \in 1..Pushes(p) => Undone(p, m, c) = Loaded(c, rsp + 8, p.PushedGpRegs[m], Read(c, rsp))
         /\ m = Pushes(p) + 1 => Undone(p, m, c) = Cpu(rsp + StackAllocation(p), c.reg, c.mem)
         /\ \A s \in 1..Saves(p) :
              m = Pushes(p) + 1 + s =>
                Undone(p, m, c) = Loaded(c, rsp, p.SavedVecRegs[s], ReadXmm(c, rsp + VecOffset(p, s)))
<1> DEFINE np == Pushes(p)
           nv == Saves(p)
           offset == CodeOffset(p, m)
           code == CodeAt(p, m)
<1>1. offset \in 0..255 /\ PrologOffset(p, m) = offset
  BY OffsetsFit, PrologOffsets
<1>2. code = UnwindCode(Prolog(p)[m], offset)
  BY <1>1 DEF CodeAt
<1>3. np \in 0..16 /\ nv \in 0..16
  BY LayoutNumbers
<1>4. \/ m \in 1..np /\ Prolog(p)[m] = Pushing(p, m)
      \/ m = np + 1 /\ Prolog(p)[m] = Plain("sub", StackAllocation(p))
      \/ \E s \in 1..nv : m = np + 1 + s /\ Prolog(p)[m] = Saving(p, s)
  BY PrologPlaces
<1> DEFINE Meaning ==
             /\ code.offset = offset
             /\ m \in 1..np => Undo(c, code) = Loaded(c, rsp + 8, p.PushedGpRegs[m], Read(c, rsp))
             /\ m = np + 1 => Undo(c, code) = Cpu(rsp + StackAllocation(p), c.reg, c.mem)
             /\ \A s \in 1..nv :
                  m = np + 1 + s =>
                    Undo(c, code) = Loaded(c, rsp, p.SavedVecRegs[s], ReadXmm(c, rsp + VecOffset(p, s)))
<1> HIDE DEF np, nv, offset, code
<1>5. ASSUME m \in 1..np, Prolog(p)[m] = Pushing(p, m) PROVE Meaning
  <2> DEFINE r == p.PushedGpRegs[m]
  <2>1. r \in {"gp"} \X (0..15)
    BY <1>5, LayoutFacts DEF np
  <2>2. code = UnwindCode(Instruction("push", r, 0), offset)
    BY <1>2, <1>5 DEF Pushing
  <2>3. m # np + 1 /\ \A s \in 1..nv : m # np + 1 + s
    BY <1>3, <1>5
  <2> HIDE DEF r
  <2>4. code.offset = offset /\ Undo(c, code) = Loaded(c, rsp + 8, r, Read(c, rsp))
    BY <1>1, <2>1, <2>2, UndoesPush
  <2> QED
    BY <2>3, <2>4 DEF r
<1>6. ASSUME m = np + 1, Prolog(p)[m] = Plain("sub", StackAllocation(p)) PROVE Meaning
  <2> DEFINE allocation == StackAllocation(p)
  <2>1. m \notin 1..np /\ \A s \in 1..nv : m # np + 1 + s
    BY <1>3, <1>6
  <2>3. allocation \in Allocations
    BY OperandsOccur
  <2> HIDE DEF allocation
  <2>2. code.offset = offset /\ Undo(c, code) = Cpu(rsp + allocation, c.reg, c.mem)
    BY <1>1, <1>2, <1>6, <2>3, UndoesSub DEF allocation
  <2> QED
    BY <2>1, <2>2 DEF allocation
<1>7. ASSUME NEW s \in 1..nv, m = np + 1 + s, Prolog(p)[m] = Saving(p, s) PROVE Meaning
  <2> DEFINE r == p.SavedVecRegs[s]
             imm == VecOffset(p, s)
  <2>1. r \in {"vec"} \X (0..15)
    BY <1>7, LayoutFacts DEF nv
  <2>2. imm \in SavePlaces
    BY <1>7, OperandsOccur DEF nv
  <2>3. code = UnwindCode(Instruction("save", r, imm), offset)
    BY <1>2, <1>7 DEF Saving
  <2>4. m \notin 1..np /\ m # np + 1 /\ \A t \in 1..nv : m = np + 1 + t => t = s
    BY <1>3, <1>7
  <2> HIDE DEF r, imm
  <2>5. code.offset = offset /\ Undo(c, code) = Loaded(c, rsp, r, ReadXmm(c, rsp + imm))
    BY <1>1, <2>1, <2>2, <2>3, UndoesSave
  <2> QED
    BY <2>4, <2>5 DEF r, imm
<1>8. Meaning
  <2> HIDE DEF Meaning
  <2> QED
    BY <1>4, <1>5, <1>6, <1>7
<1> QED
  BY <1>8 DEF np, nv, offset, code, Undone

\* The frame when the first j instructions of the prolog are left to undo.
UndoFrame(p, j, c) ==
  \/ \E k \in 0..Pushes(p) : j = k /\ Frame(p, c, EntryRsp - 8 * k, k, 0, k, 0)
  \/ \E s \in 0..Saves(p) : /\ j = Pushes(p) + 1 + s
                            /\ Frame(p, c, Low(p), Pushes(p), s, Pushes(p), s)

\* Undoing one of them leaves the frame of one less.
LEMMA UndoStep ==
  ASSUME NEW p, Layout(p), NEW m \in 1..PrologEnd(p), NEW c, UndoFrame(p, m, c)
  PROVE  UndoFrame(p, m - 1, Undone(p, m, c))
<1> DEFINE np == Pushes(p)
           nv == Saves(p)
           low == Low(p)
           allocation == StackAllocation(p)
           d == Undone(p, m, c)
<1>1. np \in 0..16 /\ nv \in 0..16 /\ low \in Int /\ EntryRsp \in Int
  <2>1. nv \in 0..16
    BY LayoutNumbers
  <2> QED
    BY <2>1, Addresses
<1>2. m \in Nat
  BY PrologPlaces
<1> HIDE DEF np, nv, low, allocation, d
<1>3. ASSUME NEW k \in 0..np, m = k, Frame(p, c, EntryRsp - 8 * k, k, 0, k, 0)
      PROVE  UndoFrame(p, m - 1, d)
  <2> DEFINE rsp == EntryRsp - 8 * k
             to == EntryRsp - 8 * (k - 1)
             r == p.PushedGpRegs[k]
  <2>1. k \in 1..np /\ rsp \in Int /\ rsp + 8 = to /\ k - 1 \in 0..np /\ m - 1 = k - 1 /\ m \in 1..np
    BY <1>1, <1>2, <1>3
  <2>2. IsCpu(c, rsp)
    BY <1>3 DEF Frame
  <2>3. Read(c, rsp) = Caller(r) /\ Frame(p, Loaded(c, to, r, Caller(r)), to, k - 1, 0, k - 1, 0)
    BY <1>3, <2>1, Popped DEF np
  <2>4. p.PushedGpRegs[m] = r
    BY <1>3
  <2> HIDE DEF rsp, r
  <2>5. d = Loaded(c, rsp + 8, r, Read(c, rsp))
    BY <2>1, <2>2, <2>4, UndoesCode DEF d, np
  <2>6. Frame(p, d, to, k - 1, 0, k - 1, 0)
    BY <2>1, <2>3, <2>5
  <2> QED
    BY <2>1, <2>6 DEF UndoFrame, np
<1>4. ASSUME NEW s \in 0..nv, m = np + 1 + s, Frame(p, c, low, np, s, np, s)
      PROVE  UndoFrame(p, m - 1, d)
  <2>1. IsCpu(c, low)
    BY <1>4 DEF Frame
  <2>2. CASE s = 0
    <3> DEFINE to == EntryRsp - 8 * np
    <3>1. Frame(p, Cpu(to, c.reg, c.mem), to, np, 0, np, 0) /\ low + allocation = to
      <4>1. np \in Nat /\ 0 \in Nat /\ s \in Nat
        BY <1>1
      <4> QED
        BY <1>4, <2>2, <4>1, Released DEF np, nv, low, allocation
    <3>2. m = np + 1 /\ m - 1 = np /\ np \in 0..np
      BY <1>1, <1>4, <2>2
    <3>3. d = Cpu(low + allocation, c.reg, c.mem)
      BY <1>1, <2>1, <3>2, UndoesCode DEF d, np, allocation
    <3> HIDE DEF to
    <3>4. Frame(p, d, to, np, 0, np, 0)
      BY <3>1, <3>3
    <3> QED
      BY <3>2, <3>4 DEF UndoFrame, np, to
  <2>3. CASE s # 0
    <3> DEFINE r == p.SavedVecRegs[s]
               place == low + VecOffset(p, s)
    <3>1. s \in 1..nv /\ s \in 1..s /\ s - 1 \in 0..s /\ s - 1 \in 0..nv /\ s \in Nat /\ s - 1 \in Nat
          /\ m - 1 = np + 1 + (s - 1)
      BY <1>1, <1>4, <2>3
    <3>2. ReadXmm(c, place) = Caller(r) /\ Frame(p, Loaded(c, low, r, Caller(r)), low, np, s, np, s - 1)
      BY <1>4, <3>1, LoadsBack DEF np, nv, low
    <3> HIDE DEF r
    <3>3. d = Loaded(c, low, r, ReadXmm(c, place))
      BY <1>1, <1>4, <2>1, <3>1, UndoesCode DEF d, np, nv, r
    <3> HIDE DEF place
    <3>4. Frame(p, d, low, np, s, np, s - 1)
      BY <3>2, <3>3
    <3>5. Frame(p, d, low, np, s - 1, np, s - 1)
      <4>1. np \in Nat /\ np \in 0..np /\ np <= np /\ s - 1 <= s - 1
        BY <1>1, <3>1
      <4> QED
        BY <3>1, <3>4, <4>1, WeakerFrame
    <3> QED
      BY <3>1, <3>5 DEF UndoFrame, np, nv, low
  <2> QED
    BY <2>2, <2>3
<1>5. UndoFrame(p, m - 1, d)
  BY <1>3, <1>4 DEF UndoFrame, np, nv, low
<1> QED
  BY <1>5 DEF d

\* Undoing stays among the processors with the same memory.
LEMMA UndoStays ==
  ASSUME NEW p, Layout(p), NEW m \in 1..PrologEnd(p), NEW c, NEW rsp \in Int, IsCpu(c, rsp),
         c.reg = [r \in Nonvolatile |-> c.reg[r]], NEW x \in SameMemory(c)
  PROVE  Undone(p, m, x) \in SameMemory(c)
<1> DEFINE X == SameMemory(c)
           at == x.rsp
           allocation == StackAllocation(p)
           d == Undone(p, m, x)
<1>1. /\ IsCpu(x, at) /\ at \in Int
      /\ \A to \in Int : Cpu(to, x.reg, x.mem) \in X
      /\ \A to \in Int, a \in Int : \A r :
           /\ Loaded(x, to, r, Read(x, a)) \in X /\ Loaded(x, to, r, ReadXmm(x, a)) \in X
  BY MemoryStays
<1>2. allocation \in Int /\ \A s \in 1..Saves(p) : VecOffset(p, s) \in Int
  <2>1. allocation \in 32..2100 /\ \A s \in 1..Saves(p) : VecOffset(p, s) \in Nat
    BY LayoutNumbers, OffsetType
  <2> HIDE DEF allocation
  <2> QED
    BY <2>1
<1>3. \/ m \in 1..Pushes(p) \/ m = Pushes(p) + 1
      \/ \E s \in 1..Saves(p) : m = Pushes(p) + 1 + s
  BY PrologPlaces
<1> HIDE DEF X, at, allocation, d
<1>4. ASSUME m \in 1..Pushes(p) PROVE d \in X
  <2>1. d = Loaded(x, at + 8, p.PushedGpRegs[m], Read(x, at))
    BY <1>1, <1>4, UndoesCode DEF d
  <2>2. at + 8 \in Int
    BY <1>1
  <2> QED
    BY <1>1, <2>1, <2>2
<1>5. ASSUME m = Pushes(p) + 1 PROVE d \in X
  <2>1. d = Cpu(at + allocation, x.reg, x.mem)
    BY <1>1, <1>5, UndoesCode DEF d, allocation
  <2>2. at + allocation \in Int
    BY <1>1, <1>2
  <2> QED
    BY <1>1, <2>1, <2>2
<1>6. ASSUME NEW s \in 1..Saves(p), m = Pushes(p) + 1 + s PROVE d \in X
  <2> DEFINE offset == VecOffset(p, s)
  <2>1. d = Loaded(x, at, p.SavedVecRegs[s], ReadXmm(x, at + offset))
    BY <1>1, <1>6, UndoesCode DEF d
  <2>2. offset \in Int
    BY <1>2
  <2> HIDE DEF offset
  <2>3. at + offset \in Int
    BY <1>1, <2>2
  <2> QED
    BY <1>1, <2>1, <2>3
<1> QED
  BY <1>3, <1>4, <1>5, <1>6 DEF d, X

\* Before an epilog, and but for the instruction between the flags' push and pop, what is
\* left to undo is what lies behind.
LEMMA UndoBegins ==
  ASSUME NEW p, Layout(p), NEW n \in 1..(EpilogAt(p) - 1), NEW c, FrameAt(p, n, c),
         ~(FlagMoves(p) = 2 /\ n = WorkAt(p) - 1)
  PROVE  UndoFrame(p, IF PrologEnd(p) <= n - 1 THEN PrologEnd(p) ELSE n - 1, c)
<1> DEFINE np == Pushes(p)
           nv == Saves(p)
           f == FlagMoves(p)
           work == WorkAt(p)
           epilogAt == EpilogAt(p)
           end == EndAt(p)
           low == Low(p)
           last == PrologEnd(p)
           j == IF last <= n - 1 THEN last ELSE n - 1
<1>1. /\ np \in Nat /\ nv \in Nat /\ f \in {0, 2}
      /\ work = np + nv + f + 2 /\ epilogAt = np + nv + f + nv + 4
      /\ end = np + nv + f + nv + np + 5
  BY Places
<1>2. last = np + 1 + nv
  BY DEF PrologEnd
<1>3. n \in 1..(epilogAt - 1) /\ FrameAt(p, n, c) /\ ~(f = 2 /\ n = work - 1)
  OBVIOUS
<1> HIDE DEF np, nv, f, work, epilogAt, end, low, last
<1>4. 0 \in Nat /\ 0 <= np /\ 0 <= nv /\ np \in 0..np /\ nv \in 0..nv /\ np <= np /\ nv <= nv
  BY <1>1
<1>5. ASSUME NEW k \in 0..np, n = k + 1, Frame(p, c, EntryRsp - 8 * k, k, 0, 0, 0)
      PROVE  UndoFrame(p, j, c)
  <2>1. k \in Nat /\ k \in 0..k /\ 0 \in 0..0 /\ 0 <= k /\ 0 <= 0 /\ j = k
    BY <1>1, <1>2, <1>5
  <2> DEFINE rsp == EntryRsp - 8 * k
  <2>2. Frame(p, c, rsp, k, 0, k, 0)
    <3> HIDE DEF rsp
    <3>1. Frame(p, c, rsp, k, 0, 0, 0)
      BY <1>5 DEF rsp
    <3> QED
      BY <1>4, <2>1, <3>1, WeakerFrame
  <2> HIDE DEF j
  <2> QED
    BY <2>1, <2>2 DEF UndoFrame, np
<1>6. ASSUME NEW s \in 0..nv, j = np + 1 + s, NEW dk \in Nat, NEW ds \in Nat, dk <= np, ds <= s,
             NEW t \in Nat, s <= t, Frame(p, c, low, np, t, dk, ds)
      PROVE  UndoFrame(p, j, c)
  <2>1. s \in Nat /\ s \in 0..t
    BY <1>1, <1>6
  <2>2. Frame(p, c, low, np, s, np, s)
    BY <1>1, <1>4, <1>6, <2>1, WeakerFrame
  <2> HIDE DEF j
  <2> QED
    BY <1>6, <2>2 DEF UndoFrame, np, nv, low
<1>7. ASSUME NEW s \in 0..nv, n = np + 2 + s, Frame(p, c, low, np, s, 0, 0)
      PROVE  UndoFrame(p, j, c)
  <2>1. j = np + 1 + s /\ s \in Nat /\ 0 <= np /\ 0 <= s /\ s <= s
    BY <1>1, <1>2, <1>7
  <2> HIDE DEF j
  <2> QED
    BY <1>4, <1>6, <1>7, <2>1
<1>8. ASSUME n = work, Frame(p, c, low, np, nv, 0, 0)
      PROVE  UndoFrame(p, j, c)
  <2>1. j = np + 1 + nv
    BY <1>1, <1>2, <1>8
  <2> HIDE DEF j
  <2> QED
    BY <1>1, <1>4, <1>6, <1>8, <2>1
<1>9. ASSUME n = work + 1, Frame(p, c, low, np, nv, np, nv)
      PROVE  UndoFrame(p, j, c)
  <2>1. j = np + 1 + nv
    BY <1>1, <1>2, <1>9
  <2> HIDE DEF j
  <2> QED
    BY <1>1, <1>4, <1>6, <1>9, <2>1
<1>10. ASSUME NEW s \in 0..nv, n = epilogAt - s, Frame(p, c, low, np, nv, np, s)
       PROVE  UndoFrame(p, j, c)
  <2>1. j = np + 1 + nv /\ s \in Nat /\ s <= nv
    BY <1>1, <1>2, <1>10
  <2> HIDE DEF j
  <2> QED
    BY <1>1, <1>4, <1>6, <1>10, <2>1
<1>11. (\A k \in 0..np : n # end - k) /\ n # end + 1
  BY <1>1, <1>3
<1>12. UndoFrame(p, j, c)
  <2> HIDE DEF j
  <2> QED
    BY <1>3, <1>5, <1>7, <1>8, <1>9, <1>10, <1>11 DEF FrameAt, np, nv, f, work, epilogAt, end, low
<1> QED
  BY <1>12 DEF last

\* The codes of a thunk, those of its last instruction first.
LEMMA UnwindInfo ==
  ASSUME NEW p, Layout(p)
  PROVE  /\ Len(WindowsUnwindInfo(p)) = PrologEnd(p)
         /\ \A k \in 1..PrologEnd(p) : WindowsUnwindInfo(p)[k] = CodeAt(p, PrologEnd(p) + 1 - k)
<1> DEFINE last == PrologEnd(p)
           S == {CodeAt(p, m) : m \in 1..last}
           codes == [m \in 1..last |-> CodeAt(p, m)]
<1>1. last \in Nat /\ Len(Prolog(p)) = last /\ Prolog(p) \in Seq(Operations)
  BY PrologPlaces, PrologCode
<1>2. DOMAIN Prolog(p) = 1..last
  BY <1>1, LenProperties
<1>3. codes \in [1..last -> S]
  OBVIOUS
<1>4. WindowsUnwindInfo(p) = Reverse(codes)
  BY <1>2, Zenon DEF WindowsUnwindInfo, CodeAt
<1>5. \A m \in 1..last : codes[m] = CodeAt(p, m)
  OBVIOUS
<1> HIDE DEF last, S, codes
<1>6. Len(Reverse(codes)) = last /\ \A k \in 1..last : Reverse(codes)[k] = codes[last + 1 - k]
  BY <1>1, <1>3, Reversed
<1>7. \A k \in 1..last : last + 1 - k \in 1..last
  BY <1>1
<1> QED
  BY <1>4, <1>5, <1>6, <1>7 DEF last

\* Anywhere else the codes behind lead back to the frame of the caller.
LEMMA BodyUnwinds ==
  ASSUME NEW p, Layout(p), NEW n \in 1..(EpilogAt(p) - 1), NEW c, FrameAt(p, n, c),
         ~(FlagMoves(p) = 2 /\ n = WorkAt(p) - 1)
  PROVE  UnwindsTo(Unwind(p, n, c))
<1> DEFINE info == WindowsUnwindInfo(p)
           last == PrologEnd(p)
           behind == CodeOffset(p, n - 1)
           X == SameMemory(c)
           Ran(f) == f = [k \in 0..Len(info) |->
                            IF k = 0 THEN c
                            ELSE IF info[k].offset <= behind THEN Undo(f[k - 1], info[k])
                            ELSE f[k - 1]]
           undone == CHOOSE f : Ran(f)
           step == [q \in Nat \X X |->
                      IF q[1] < last /\ last - q[1] <= n - 1 THEN Undone(p, last - q[1], q[2]) ELSE q[2]]
           J(k) == IF last - k <= n - 1 THEN last - k ELSE n - 1
<1>1. /\ last \in Nat /\ n \in Nat /\ n >= 1 /\ n < EpilogAt(p) /\ EpilogAt(p) <= EndAt(p)
      /\ n - 1 \in 0..EndAt(p) /\ \A m \in 1..last : m \in 0..EndAt(p)
  <2> DEFINE epilogAt == EpilogAt(p)
             end == EndAt(p)
  <2>1. last \in Nat /\ last < epilogAt /\ epilogAt <= end /\ n \in 1..(epilogAt - 1)
    BY PrologPlaces
  <2>2. epilogAt \in Nat /\ end \in Nat
    BY Places
  <2> HIDE DEF last, epilogAt, end
  <2>3. /\ last \in Nat /\ n \in Nat /\ n >= 1 /\ n < epilogAt /\ epilogAt <= end
        /\ n - 1 \in 0..end /\ \A m \in 1..last : m \in 0..end
    BY <2>1, <2>2
  <2> QED
    BY <2>3 DEF last, epilogAt, end
<1>2. IsCpu(c, c.rsp) /\ c.rsp \in Int /\ c.reg = [r \in Nonvolatile |-> c.reg[r]]
  <2>1. c.rsp \in (Low(p) - 8)..(EntryRsp + 8) /\ Low(p) \in Int /\ EntryRsp \in Int
    BY RspInFrame, Addresses
  <2>2. c.rsp \in Int
    BY <2>1
  <2>3. PICK rsp, k, s, dk, ds : Frame(p, c, rsp, k, s, dk, ds)
    BY DEF FrameAt
  <2>4. IsCpu(c, rsp) /\ c.reg = [r \in Nonvolatile |-> c.reg[r]]
    BY <2>3 DEF Frame
  <2>5. c.rsp = rsp
    BY <2>4, Parts
  <2> QED
    BY <2>2, <2>4, <2>5
<1>3. c \in X
  BY <1>2, MemoryStays
<1>4. \A m \in 1..last, x \in X : Undone(p, m, x) \in X
  BY <1>2, UndoStays
<1>5. /\ Len(info) = last
      /\ \A k \in 1..last : /\ last + 1 - k \in 1..last
                            /\ info[k] = CodeAt(p, last + 1 - k)
                            /\ info[k].offset <= behind <=> last + 1 - k <= n - 1
  <2>1. Len(info) = last /\ \A k \in 1..last : info[k] = CodeAt(p, last + 1 - k)
    BY UnwindInfo
  <2>2. \A k \in 1..last : last + 1 - k \in 1..last
    BY <1>1
  <2>3. \A m \in 1..last : CodeAt(p, m).offset = CodeOffset(p, m)
    BY <1>2, UndoesCode
  <2>4. \A m \in 1..last : CodeOffset(p, m) <= behind <=> m <= n - 1
    BY <1>1, OffsetOrder
  <2> HIDE DEF info, last, behind
  <2> QED
    BY <2>1, <2>2, <2>3, <2>4
<1> HIDE DEF last, X
<1>6. step \in [Nat \X X -> X]
  <2> SUFFICES ASSUME NEW k \in Nat, NEW x \in X, k < last, last - k <= n - 1
               PROVE  Undone(p, last - k, x) \in X
    OBVIOUS
  <2>1. last - k \in 1..last
    BY <1>1
  <2> QED
    BY <1>4, <2>1
<1>7. \E f : Ran(f)
  <2> HIDE DEF step, info, behind
  <2>1. PICK f \in [0..last -> X] : IsRecursive(f, c, step, last)
    BY <1>1, <1>3, <1>6, RecursiveFunction
  <2>2. ASSUME NEW k \in 0..last, k # 0
        PROVE  step[<<k - 1, f[k - 1]>>]
                 = IF info[k].offset <= behind THEN Undo(f[k - 1], info[k]) ELSE f[k - 1]
    <3>1. /\ k \in 1..last /\ k - 1 \in Nat /\ k - 1 \in 0..last /\ k - 1 < last
          /\ last - (k - 1) = last + 1 - k
      BY <1>1, <2>2
    <3>2. f[k - 1] \in X
      BY <3>1
    <3>3. step[<<k - 1, f[k - 1]>>]
            = IF last + 1 - k <= n - 1 THEN Undone(p, last + 1 - k, f[k - 1]) ELSE f[k - 1]
      BY <3>1, <3>2 DEF step
    <3> QED
      BY <1>5, <3>1, <3>3 DEF Undone
  <2>3. Ran(f)
    BY <1>5, <2>1, <2>2 DEF IsRecursive
  <2> QED
    BY <2>3
<1>8. Ran(undone)
  <2> HIDE DEF Ran
  <2> QED
    BY <1>7
<1>9. /\ undone[0] = c
      /\ \A k \in 1..last :
           undone[k] = IF last + 1 - k <= n - 1 THEN Undone(p, last + 1 - k, undone[k - 1])
                       ELSE undone[k - 1]
  <2> HIDE DEF undone, info, behind
  <2>1. undone = [k \in 0..last |->
                    IF k = 0 THEN c
                    ELSE IF info[k].offset <= behind THEN Undo(undone[k - 1], info[k])
                    ELSE undone[k - 1]]
    BY <1>5, <1>8
  <2>2. 0 \in 0..last /\ \A k \in 1..last : k \in 0..last /\ k # 0
    BY <1>1
  <2>3. undone[0] = c
    BY <2>1, <2>2
  <2>4. \A k \in 1..last : undone[k] = IF info[k].offset <= behind THEN Undo(undone[k - 1], info[k])
                                       ELSE undone[k - 1]
    BY <2>1, <2>2
  <2> QED
    BY <1>5, <2>3, <2>4 DEF Undone
<1> DEFINE S == {k \in Nat : k <= last => UndoFrame(p, J(k), undone[k])}
<1> HIDE DEF undone, info, behind, step
<1>10. 0 \in S
  <2>1. UndoFrame(p, IF last <= n - 1 THEN last ELSE n - 1, c)
    BY UndoBegins DEF last
  <2>2. J(0) = IF last <= n - 1 THEN last ELSE n - 1
    BY <1>1
  <2> HIDE DEF J
  <2> QED
    BY <1>9, <2>1, <2>2
<1>11. ASSUME NEW k \in Nat, k \in S PROVE k + 1 \in S
  <2> SUFFICES ASSUME k + 1 <= last PROVE UndoFrame(p, J(k + 1), undone[k + 1])
    OBVIOUS
  <2> DEFINE m == last - k
  <2>1. /\ k <= last /\ k + 1 \in 1..last /\ (k + 1) - 1 = k /\ last + 1 - (k + 1) = m /\ m \in 1..last
    BY <1>1
  <2>2. UndoFrame(p, J(k), undone[k])
    BY <1>11, <2>1
  <2>3. undone[k + 1] = IF m <= n - 1 THEN Undone(p, m, undone[k]) ELSE undone[k]
    BY <1>9, <2>1
  <2>4. CASE m <= n - 1
    <3>1. J(k) = m /\ J(k + 1) = m - 1
      BY <1>1, <2>1, <2>4
    <3> HIDE DEF J, m
    <3>2. UndoFrame(p, m - 1, Undone(p, m, undone[k]))
      BY <2>1, <2>2, <3>1, UndoStep DEF last
    <3> QED
      BY <2>3, <2>4, <3>1, <3>2
  <2>5. CASE ~(m <= n - 1)
    <3>1. J(k) = n - 1 /\ J(k + 1) = n - 1
      BY <1>1, <2>1, <2>5
    <3> HIDE DEF J, m
    <3> QED
      BY <2>2, <2>3, <2>5, <3>1
  <2> QED
    BY <2>4, <2>5
<1>12. UndoFrame(p, 0, undone[last])
  <2>1. last \in S
    <3> HIDE DEF S
    <3> QED
      BY <1>1, <1>10, <1>11, InductionOverNat
  <2>2. last <= last /\ J(last) = 0
    BY <1>1
  <2> HIDE DEF J
  <2> QED
    BY <2>1, <2>2
<1>13. Frame(p, undone[last], EntryRsp, 0, 0, 0, 0)
  <2> DEFINE np == Pushes(p)
             nv == Saves(p)
  <2>1. np \in Nat /\ nv \in Nat /\ EntryRsp \in Int
    BY Places, Addresses
  <2> HIDE DEF np, nv
  <2>2. \A s \in 0..nv : 0 # np + 1 + s
    BY <2>1
  <2>3. PICK k \in 0..np : 0 = k /\ Frame(p, undone[last], EntryRsp - 8 * k, k, 0, k, 0)
    BY <1>12, <2>2 DEF UndoFrame, np, nv
  <2>4. EntryRsp - 8 * k = EntryRsp
    BY <2>1, <2>3
  <2> QED
    BY <2>3, <2>4
<1>14. Unwind(p, n, c) = undone[last]
  <2>1. ~(n >= EpilogStart(p))
    <3> DEFINE epilogAt == EpilogAt(p)
    <3>1. epilogAt \in Nat /\ EpilogStart(p) = epilogAt /\ n < epilogAt
      BY <1>1, Places, CodeByPosition
    <3> HIDE DEF epilogAt
    <3> QED
      BY <1>1, <3>1
  <2>2. Unwind(p, n, c) = undone[Len(info)]
    BY <2>1, Zenon DEF Unwind, undone, info, behind
  <2> QED
    BY <1>5, <2>2
<1> QED
  BY <1>13, <1>14, EntryFrame

\* Wherever an exception finds a thunk, but between the push and the pop of its flags, the
\* system's unwinder finds the caller's frame, registers and return address.
THEOREM ThunksUnwind == Spec => []Unwinds
<1>1. FrameInv => Unwinds
  <2> SUFFICES ASSUME FrameInv, pc <= Len(Code(plan)), ~About("popf")
               PROVE  UnwindsTo(Unwind(plan, pc, cpu))
    BY DEF Unwinds
  <2> DEFINE epilogAt == EpilogAt(plan)
             end == EndAt(plan)
  <2>1. Layout(plan) /\ FrameAt(plan, pc, cpu)
    BY PlansHaveLayouts DEF FrameInv
  <2>2. epilogAt \in Nat /\ end \in Nat /\ pc \in Nat /\ pc >= 1 /\ pc <= end
    <3>1. epilogAt \in Nat /\ end \in Nat /\ pc \in 1..(end + 1) /\ pc <= end
      BY <2>1, Places, CodeByPosition DEF FrameInv
    <3> HIDE DEF epilogAt, end
    <3> QED
      BY <3>1
  <2>3. ~(FlagMoves(plan) = 2 /\ pc = WorkAt(plan) - 1)
    <3> SUFFICES ASSUME FlagMoves(plan) = 2, pc = WorkAt(plan) - 1 PROVE FALSE
      OBVIOUS
    <3>1. Code(plan)[pc] = Plain("popf", 0)
      BY <2>1, CodeByPosition DEF CodeIs
    <3>2. Code(plan)[pc].op = "popf"
      BY <3>1, Fields DEF Plain
    <3> QED
      BY <3>2 DEF About
  <2>4. CASE pc >= epilogAt
    <3>1. pc \in epilogAt..end
      <4> HIDE DEF epilogAt, end
      <4> QED
        BY <2>2, <2>4
    <3> QED
      BY <2>1, <3>1, EpilogUnwinds
  <2>5. CASE ~(pc >= epilogAt)
    <3>1. pc \in 1..(epilogAt - 1)
      <4> HIDE DEF epilogAt, end
      <4> QED
        BY <2>2, <2>5
    <3> QED
      BY <2>1, <2>3, <3>1, BodyUnwinds
  <2> QED
    BY <2>4, <2>5
<1> QED
  BY <1>1, FrameInvHolds, PTL
=============================================================================
