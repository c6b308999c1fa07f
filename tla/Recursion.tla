------------------------------- MODULE Recursion -------------------------------
(***************************************************************************)
(* Induction over the naturals and definition by recursion on an initial   *)
(* segment of them, stated with sets and functions: T is the set of numbers *)
(* that have the property, step the function that makes the next value.     *)
(* The models' loops over bytes are such recursions.                        *)
(***************************************************************************)
EXTENDS Integers, WellFoundedInduction, TLAPS

LessNat == {p \in Nat \X Nat : p[1] < p[2]}

LEMMA LessNatWellFounded == IsWellFoundedOn(LessNat, Nat)
<1>1. LessNat = OpToRel(<, Nat)
  BY DEF LessNat, OpToRel
<1> QED  BY <1>1, NatLessThanWellFounded

\* A set of naturals that is not empty has a least element.
LEMMA NatLeast ==
  ASSUME NEW T, T \subseteq Nat, T # {}
  PROVE  \E n \in T : \A m \in T : n <= m
<1>1. PICK n \in T : \A m \in T : ~(<<m, n>> \in LessNat)
  BY LessNatWellFounded, WFMin
<1>2. \A m \in T : ~(m < n)
  BY <1>1 DEF LessNat
<1> QED  BY <1>2

\* A set that holds 0, and n + 1 with n, holds every natural.
LEMMA InductionOnSet ==
  ASSUME NEW T, 0 \in T, \A n \in Nat : n \in T => n + 1 \in T
  PROVE  Nat \subseteq T
<1> SUFFICES ASSUME Nat \ T # {} PROVE FALSE
  OBVIOUS
<1>1. PICK n \in Nat \ T : \A m \in Nat \ T : n <= m
  BY NatLeast
<1>2. n # 0 /\ n - 1 \in Nat
  BY <1>1
<1>3. n - 1 \in T
  BY <1>1, <1>2
<1> QED  BY <1>2, <1>3

\* The same up to a bound.
LEMMA InductionUpTo ==
  ASSUME NEW n \in Nat, NEW T, 0 \in T, \A k \in 0 .. n - 1 : k \in T => k + 1 \in T
  PROVE  0 .. n \subseteq T
<1> DEFINE U == {k \in Nat : k <= n => k \in T}
<1>1. 0 \in U
  OBVIOUS
<1>2. ASSUME NEW k \in Nat, k \in U PROVE k + 1 \in U
  BY <1>2
<1> HIDE DEF U
<1>3. Nat \subseteq U
  BY <1>1, <1>2, InductionOnSet
<1> QED  BY <1>3 DEF U

\* A recursion that stays in S has a value at each number up to n.
Recursive(f, S, base, n, step) ==
  /\ f \in [0 .. n -> S]
  /\ f = [k \in 0 .. n |-> IF k = 0 THEN base ELSE step[<<f[k - 1], k>>]]

LEMMA RecursionExists ==
  ASSUME NEW S, NEW base \in S, NEW n \in Nat, NEW step, step \in [S \X (1 .. n) -> S]
  PROVE  \E f : Recursive(f, S, base, n, step)
<1> DEFINE Upto(m, f) == /\ f \in [0 .. m -> S] /\ f[0] = base
                         /\ \A k \in 1 .. m : f[k] = step[<<f[k - 1], k>>]
           T == {m \in Nat : \E f : Upto(m, f)}
<1>1. 0 \in T
  <2>1. Upto(0, [k \in 0 .. 0 |-> base])
    OBVIOUS
  <2> QED  BY <2>1
<1>2. ASSUME NEW m \in 0 .. n - 1, m \in T PROVE m + 1 \in T
  <2>1. PICK f : Upto(m, f)
    BY <1>2
  <2>2. m \in Nat /\ m + 1 \in 1 .. n /\ f[m] \in S
    BY <1>2, <2>1
  <2>3. step[<<f[m], m + 1>>] \in S
    BY <2>2
  <2> DEFINE g == [k \in 0 .. m + 1 |-> IF k = m + 1 THEN step[<<f[m], m + 1>>] ELSE f[k]]
  <2>4. \A k \in 0 .. m : g[k] = f[k] /\ f[k] \in S
    BY <2>1, <2>2
  <2>5. g[m + 1] = step[<<f[m], m + 1>>]
    BY <2>2
  <2>6. g \in [0 .. m + 1 -> S]
    <3>1. ASSUME NEW k \in 0 .. m + 1, k # m + 1 PROVE f[k] \in S
      <4>1. k \in 0 .. m
        BY <2>2, <3>1
      <4> QED  BY <2>4, <4>1
    <3> QED  BY <2>3, <3>1
  <2> HIDE DEF g
  <2>7. ASSUME NEW k \in 1 .. m + 1 PROVE g[k] = step[<<g[k - 1], k>>]
    <3>1. CASE k = m + 1
      <4>1. k - 1 = m /\ m \in 0 .. m
        BY <2>2, <3>1
      <4> QED  BY <2>4, <2>5, <3>1, <4>1
    <3>2. CASE k # m + 1
      <4>1. k \in 1 .. m /\ k \in 0 .. m /\ k - 1 \in 0 .. m
        BY <2>2, <3>2
      <4> QED  BY <2>1, <2>4, <4>1
    <3> QED  BY <3>1, <3>2
  <2>8. Upto(m + 1, g)
    BY <2>1, <2>2, <2>4, <2>6, <2>7
  <2> QED  BY <2>2, <2>8
<1> HIDE DEF T
<1>3. n \in T
  BY <1>1, <1>2, InductionUpTo
<1>4. PICK f : Upto(n, f)
  BY <1>3 DEF T
<1>5. \A k \in 0 .. n : f[k] = IF k = 0 THEN base ELSE step[<<f[k - 1], k>>]
  BY <1>4
<1> QED  BY <1>4, <1>5 DEF Recursive
=============================================================================
