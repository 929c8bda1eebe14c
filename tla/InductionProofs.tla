--------------------------- MODULE InductionProofs ---------------------------
(***************************************************************************)
(* Induction over the naturals, and the existence of functions defined by  *)
(* recursion on an interval.  The library's induction theorems take a      *)
(* predicate; these take the set of numbers that satisfy it.               *)
(***************************************************************************)
EXTENDS Integers, WellFoundedInduction, TLAPS

LessThan == {pair \in Nat \X Nat : pair[1] < pair[2]}

\* A set of numbers has a least one.
LEMMA LeastElement ==
  ASSUME NEW S, S \subseteq Nat, S # {}
  PROVE  \E m \in S : \A n \in S : m <= n
<1>1. IsWellFoundedOn(LessThan, Nat)
  BY NatLessThanWellFounded DEF OpToRel, LessThan
<1>2. PICK m \in S : \A n \in S : ~(<<n, m>> \in LessThan)
  BY <1>1, WFMin
<1>3. ASSUME NEW n \in S PROVE m <= n
  <2>1. <<n, m>> \in Nat \X Nat
    OBVIOUS
  <2>2. ~(n < m)
    BY <1>2, <2>1 DEF LessThan
  <2> QED
    BY <2>2
<1> QED
  BY <1>3

\* A set that holds 0 and with a number the next holds every number.
LEMMA InductionOverNat ==
  ASSUME NEW S, 0 \in S, \A n \in Nat : n \in S => n + 1 \in S
  PROVE  \A n \in Nat : n \in S
<1> SUFFICES ASSUME NEW x \in Nat, x \notin S PROVE FALSE
  OBVIOUS
<1> DEFINE T == {n \in Nat : n \notin S}
<1>1. PICK m \in T : \A n \in T : m <= n
  <2>1. T \subseteq Nat /\ T # {}
    OBVIOUS
  <2> HIDE DEF T
  <2> QED
    BY <2>1, LeastElement
<1>2. m \in Nat /\ m # 0 /\ m \notin S
  OBVIOUS
<1>3. m - 1 \in Nat /\ (m - 1) + 1 = m /\ ~(m <= m - 1)
  BY <1>2
<1>4. m - 1 \in S
  BY <1>1, <1>3
<1> QED
  BY <1>2, <1>3, <1>4

\* Starting from some x0, a step can be repeated any number of times.
IsRun(f, X, x0, step, n) ==
  /\ f \in [0..n -> X]
  /\ f[0] = x0 /\ \A k \in 0..(n - 1) : f[k + 1] = step[<<k, f[k]>>]

\* There is a run of any length.
LEMMA RepeatedStep ==
  ASSUME NEW X, NEW x0, x0 \in X, NEW step, step \in [Nat \X X -> X]
  PROVE  \A n \in Nat : \E f : IsRun(f, X, x0, step, n)
<1> DEFINE Run(f, n) == f[0] = x0 /\ \A k \in 0..(n - 1) : f[k + 1] = step[<<k, f[k]>>]
           S == {n \in Nat : \E f \in [0..n -> X] : Run(f, n)}
<1>1. 0 \in S
  <2> DEFINE f == [k \in 0..0 |-> x0]
  <2>1. f \in [0..0 -> X] /\ Run(f, 0)
    OBVIOUS
  <2> QED
    BY <2>1
<1>2. ASSUME NEW n \in Nat, n \in S PROVE n + 1 \in S
  <2>1. PICK f \in [0..n -> X] : Run(f, n)
    BY <1>2
  <2> DEFINE g == [k \in 0..(n + 1) |-> IF k = n + 1 THEN step[<<n, f[n]>>] ELSE f[k]]
  <2>2. <<n, f[n]>> \in Nat \X X
    OBVIOUS
  <2>3. g \in [0..(n + 1) -> X]
    BY <2>2
  <2>4. g[0] = x0
    BY <2>1
  <2>5. ASSUME NEW k \in 0..n PROVE g[k + 1] = step[<<k, g[k]>>]
    <3>1. CASE k = n
      <4>1. n \in 0..(n + 1) /\ n + 1 \in 0..(n + 1) /\ n # n + 1
        OBVIOUS
      <4>2. g[n + 1] = step[<<n, f[n]>>] /\ g[n] = f[n]
        BY <4>1
      <4> QED
        BY <3>1, <4>2
    <3>2. CASE k # n
      <4>1. k \in 0..(n - 1) /\ k + 1 \in 0..n /\ k \in 0..n /\ k + 1 # n + 1
        BY <3>2
      <4>2. g[k + 1] = f[k + 1] /\ g[k] = f[k]
        BY <4>1
      <4> QED
        BY <2>1, <4>1, <4>2
    <3> QED
      BY <3>1, <3>2
  <2> HIDE DEF g
  <2>6. Run(g, n + 1)
    <3>1. (n + 1) - 1 = n
      OBVIOUS
    <3> QED
      BY <2>4, <2>5, <3>1
  <2> QED
    BY <2>3, <2>6
<1> HIDE DEF S
<1>3. \A n \in Nat : n \in S
  BY <1>1, <1>2, InductionOverNat
<1> QED
  BY <1>3 DEF S, IsRun

\* A function defined by recursion on an interval exists.
IsRecursive(f, x0, step, n) ==
  f = [k \in 0..n |-> IF k = 0 THEN x0 ELSE step[<<k - 1, f[k - 1]>>]]

\* It exists.
LEMMA RecursiveFunction ==
  ASSUME NEW X, NEW x0 \in X, NEW step \in [Nat \X X -> X], NEW n \in Nat
  PROVE  \E f \in [0..n -> X] : IsRecursive(f, x0, step, n)
<1>1. PICK f : IsRun(f, X, x0, step, n)
  BY RepeatedStep
<1>2. f \in [0..n -> X] /\ f[0] = x0
  BY <1>1 DEF IsRun
<1>3. \A k \in 0..n : k # 0 => f[k] = step[<<k - 1, f[k - 1]>>]
  <2>1. \A k \in 0..n : k # 0 => k - 1 \in 0..(n - 1) /\ (k - 1) + 1 = k
    OBVIOUS
  <2> QED
    BY <1>1, <2>1 DEF IsRun
<1>4. f = [k \in 0..n |-> IF k = 0 THEN x0 ELSE step[<<k - 1, f[k - 1]>>]]
  BY <1>2, <1>3
<1> QED
  BY <1>2, <1>4 DEF IsRecursive
=============================================================================
