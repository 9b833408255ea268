------------------------------- MODULE Induction -------------------------------
(***************************************************************************)
(* Induction over the natural numbers, stated for sets, and what it gives  *)
(* for functions that are defined by recursion over a list.                *)
(***************************************************************************)
EXTENDS Integers, Sequences, WellFoundedInduction, TLAPS

(* A list has x; it has nothing twice.                                     *)
Holds(l, x) == \E i \in 1 .. Len(l) : l[i] = x
Distinct(l) == \A i, j \in 1 .. Len(l) : l[i] = l[j] => i = j

Less == {ss \in Nat \X Nat : ss[1] < ss[2]}

LEMMA LessIsWellFounded == IsWellFoundedOn(Less, Nat)
BY NatLessThanWellFounded, Zenon DEF OpToRel, Less

(* A set of numbers with 0 and each successor has all of them.             *)
LEMMA SetInduction ==
  ASSUME NEW S, 0 \in S, \A n \in Nat : n \in S => n + 1 \in S
  PROVE  \A n \in Nat : n \in S
<1> DEFINE T == Nat \ S
<1> SUFFICES ASSUME T # {} PROVE FALSE
  OBVIOUS
<1>1. PICK m \in T : \A y \in T : ~(<<y, m>> \in Less)
  <2> HIDE DEF T
  <2> QED
    BY LessIsWellFounded, WFMin, Zenon DEF T
<1>2. m # 0 /\ m - 1 \in Nat
  OBVIOUS
<1>3. <<m - 1, m>> \in Less
  BY <1>2 DEF Less
<1>4. m - 1 \notin T
  BY <1>1, <1>3
<1> QED
  BY <1>2, <1>4

(* Up to a bound.                                                          *)
LEMMA BoundedInduction ==
  ASSUME NEW n \in Nat, NEW S, 0 \in S, \A i \in 1 .. n : i - 1 \in S => i \in S
  PROVE  \A i \in 0 .. n : i \in S
<1> DEFINE T == {i \in Nat : i <= n => i \in S}
<1>1. 0 \in T
  OBVIOUS
<1>2. \A i \in Nat : i \in T => i + 1 \in T
  <2> SUFFICES ASSUME NEW i \in Nat, i \in T, i + 1 <= n PROVE i + 1 \in S
    OBVIOUS
  <2>1. i + 1 \in 1 .. n /\ (i + 1) - 1 \in S
    OBVIOUS
  <2> QED
    BY <2>1
<1>3. \A i \in Nat : i \in T
  <2> HIDE DEF T
  <2> QED
    BY <1>1, <1>2, SetInduction
<1> QED
  BY <1>3

(* A function of 0 .. n may be defined by its first value and a step.      *)
Steps(f, n, x0, h) == f[0] = x0 /\ \A i \in 1 .. n : f[i] = h[<<i, f[i - 1]>>]

LEMMA Recursion ==
  ASSUME NEW X, NEW x0 \in X, NEW n \in Nat, NEW h \in [(1 .. n) \X X -> X]
  PROVE  \E f \in [0 .. n -> X] : Steps(f, n, x0, h)
<1> USE DEF Steps
<1> DEFINE Defines(f, k) == Steps(f, k, x0, h)
           S == {k \in 0 .. n : \E f \in [0 .. k -> X] : Defines(f, k)}
<1>1. 0 \in S
  <2> DEFINE one == [i \in 0 .. 0 |-> x0]
  <2>1. one \in [0 .. 0 -> X] /\ one[0] = x0
    OBVIOUS
  <2> HIDE DEF one
  <2>2. Defines(one, 0)
    BY <2>1
  <2> QED
    BY <2>1, <2>2
<1>2. ASSUME NEW k \in 1 .. n, k - 1 \in S PROVE k \in S
  <2>1. PICK f \in [0 .. k - 1 -> X] : Defines(f, k - 1)
    BY <1>2
  <2> DEFINE g == [i \in 0 .. k |-> IF i < k THEN f[i] ELSE h[<<k, f[k - 1]>>]]
  <2>2. f[k - 1] \in X /\ h[<<k, f[k - 1]>>] \in X
    OBVIOUS
  <2>3. g \in [0 .. k -> X]
    BY <2>2
  <2>4. \A i \in 0 .. k - 1 : g[i] = f[i]
    OBVIOUS
  <2>5. g[k] = h[<<k, f[k - 1]>>] /\ g[0] = f[0]
    OBVIOUS
  <2>6. ASSUME NEW i \in 1 .. k PROVE g[i] = h[<<i, g[i - 1]>>]
    <3> HIDE DEF g
    <3>1. CASE i = k
      <4>1. g[k - 1] = f[k - 1]
        BY <2>4
      <4> QED
        BY <4>1, <2>5, <3>1
    <3>2. CASE i < k
      <4>1. i \in 1 .. k - 1 /\ i \in 0 .. k - 1 /\ i - 1 \in 0 .. k - 1
        BY <3>2
      <4> QED
        BY <4>1, <2>1, <2>4
    <3> QED
      BY <3>1, <3>2
  <2> HIDE DEF g
  <2> QED
    BY <2>1, <2>3, <2>5, <2>6
<1>3. \A k \in 0 .. n : k \in S
  <2> HIDE DEF S
  <2> QED
    BY <1>1, <1>2, BoundedInduction
<1> QED
  BY <1>3
================================================================================
