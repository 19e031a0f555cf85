------------------------------- MODULE Loops -------------------------------
(***************************************************************************)
(* Loops over the indexes 1..n of a list: the value after i turns is       *)
(* Start(p) for i = 0, and Turn(p, x, i) of the value x before.  p stands  *)
(* for what the loop only reads.                                           *)
(*                                                                         *)
(* The induction theorems of the library have a predicate as a parameter;  *)
(* Induction is about a set instead.  A module that has a loop instantiates*)
(* this one with it, and with what is true of its value after i turns.     *)
(***************************************************************************)
EXTENDS Integers, FiniteSetTheorems, TLAPS

CONSTANTS
    Start(_),       \* the value before the loop
    Turn(_, _, _),  \* the value after turn i, from the one before it
    Good(_, _, _)   \* what is true of the value after i turns

\* A set of natural numbers that is not empty has a least element.
LEMMA LeastNatural ==
    ASSUME NEW S \in SUBSET Nat, S # {}
    PROVE  \E m \in S : \A k \in S : m <= k
<1> DEFINE T == {0..n : n \in S}
           R == StrictSubsetOrdering(Nat)
<1>1. IsWellFoundedOn(R, FiniteSubsetsOf(Nat))
  BY FS_StrictSubsetOrderingWellFounded
<1>2. T \subseteq FiniteSubsetsOf(Nat)
  <2> SUFFICES ASSUME NEW n \in S PROVE 0..n \in FiniteSubsetsOf(Nat)
    OBVIOUS
  <2>1. IsFiniteSet(0..n) BY FS_Interval
  <2> QED BY <2>1 DEF FiniteSubsetsOf
<1>3. T # {} OBVIOUS
<1>4. PICK x \in T : \A y \in T : <<y, x>> \notin R
  <2> HIDE DEF T, R
  <2> QED BY <1>1, <1>2, <1>3, WFMin
<1>5. PICK m \in S : x = 0..m OBVIOUS
<1>6. ASSUME NEW k \in S PROVE m <= k
  <2>1. <<0..k, 0..m>> \notin R BY <1>4, <1>5
  <2>2. ~ (0..k \subseteq 0..m /\ 0..k # 0..m) BY <2>1 DEF StrictSubsetOrdering
  <2> QED BY <2>2
<1> QED BY <1>6

\* The numbers up to n are in a set that has 0 and, with each number below n, the next.
LEMMA Induction ==
    ASSUME NEW S, NEW n \in Nat, 0 \in S, \A i \in 0..(n - 1) : i \in S => i + 1 \in S
    PROVE  0..n \subseteq S
<1> SUFFICES ASSUME (0..n) \ S # {} PROVE FALSE
  OBVIOUS
<1>1. PICK m \in (0..n) \ S : \A k \in (0..n) \ S : m <= k
  <2>1. (0..n) \ S \in SUBSET Nat OBVIOUS
  <2> QED BY <2>1, LeastNatural
<1>2. m # 0 /\ m - 1 \in 0..(n - 1) /\ m - 1 \in S BY <1>1
<1>3. (m - 1) + 1 \in S BY <1>2
<1> QED BY <1>1, <1>2, <1>3

\* The equation of a loop of n turns
Unrolls(p, f, n) == f = [i \in 0..n |-> IF i = 0 THEN Start(p) ELSE Turn(p, f[i - 1], i)]

\* There is a function that satisfies the equation.
LEMMA LoopExists ==
    ASSUME NEW p, NEW n \in Nat
    PROVE  \E f : Unrolls(p, f, n)
<1> DEFINE S == {m \in 0..n : \E f : Unrolls(p, f, m)}
<1>1. 0 \in S
  <2>1. Unrolls(p, [i \in 0..0 |-> Start(p)], 0) BY DEF Unrolls
  <2> QED BY <2>1
<1>2. ASSUME NEW m \in 0..(n - 1), m \in S PROVE m + 1 \in S
  <2>1. m \in Nat /\ m + 1 \in 0..n OBVIOUS
  <2>2. PICK f : Unrolls(p, f, m) BY <1>2
  <2> DEFINE g == [i \in 0..(m + 1) |-> IF i = m + 1 THEN Turn(p, f[m], m + 1) ELSE f[i]]
  <2>3. \A i \in 0..m : g[i] = f[i] BY <2>1
  <2>4. g[m + 1] = Turn(p, g[m], m + 1) BY <2>1, <2>3
  <2>5. \A i \in 0..m : f[i] = IF i = 0 THEN Start(p) ELSE Turn(p, f[i - 1], i)
    BY <2>2 DEF Unrolls
  <2>6. ASSUME NEW i \in 0..m
        PROVE  g[i] = IF i = 0 THEN Start(p) ELSE Turn(p, g[i - 1], i)
    <3>1. CASE i = 0 BY <2>3, <2>5, <3>1
    <3>2. CASE i # 0
      <4>1. i - 1 \in 0..m BY <2>1, <3>2
      <4> QED BY <2>3, <2>5, <3>2, <4>1
    <3> QED BY <3>1, <3>2
  <2>7. \A i \in 0..(m + 1) : g[i] = IF i = 0 THEN Start(p) ELSE Turn(p, g[i - 1], i)
    <3> HIDE DEF g
    <3>1. \A i \in 0..(m + 1) : i \in 0..m \/ i = m + 1 BY <2>1
    <3> QED BY <2>1, <2>4, <2>6, <3>1
  <2>8. g = [i \in 0..(m + 1) |-> g[i]] OBVIOUS
  <2>9. Unrolls(p, g, m + 1)
    <3> HIDE DEF g
    <3> QED BY <2>7, <2>8 DEF Unrolls
  <2> QED
    <3> HIDE DEF g
    <3> QED BY <2>1, <2>9
<1>3. n \in S
  <2> HIDE DEF S
  <2> QED BY <1>1, <1>2, Induction
<1> QED BY <1>3

\* The recursive function of a loop is defined, and what every turn preserves is true of
\* each of its values.
THEOREM LoopInvariant ==
    ASSUME NEW p, NEW n \in Nat,
           Good(p, Start(p), 0),
           \A i \in 1..n : \A x : Good(p, x, i - 1) => Good(p, Turn(p, x, i), i)
    PROVE  /\ \E f : Unrolls(p, f, n)
           /\ \A f : Unrolls(p, f, n) => \A i \in 0..n : Good(p, f[i], i)
<1>1. ASSUME NEW f, Unrolls(p, f, n)
      PROVE  \A i \in 0..n : Good(p, f[i], i)
  <2> DEFINE S == {i \in 0..n : Good(p, f[i], i)}
  <2>1. \A i \in 0..n : f[i] = IF i = 0 THEN Start(p) ELSE Turn(p, f[i - 1], i)
    BY <1>1 DEF Unrolls
  <2>2. 0 \in S BY <2>1
  <2>3. ASSUME NEW i \in 0..(n - 1), i \in S PROVE i + 1 \in S
    <3>1. i + 1 \in 1..n /\ i + 1 \in 0..n /\ i + 1 # 0 /\ (i + 1) - 1 = i OBVIOUS
    <3>2. f[i + 1] = Turn(p, f[i], i + 1) BY <2>1, <3>1
    <3>3. Good(p, f[i], (i + 1) - 1) BY <2>3, <3>1
    <3>4. Good(p, Turn(p, f[i], i + 1), i + 1) BY <3>1, <3>3
    <3> QED BY <3>1, <3>2, <3>4
  <2> QED
    <3>1. 0..n \subseteq S
      <4> HIDE DEF S
      <4> QED BY <2>2, <2>3, Induction
    <3> QED BY <3>1
<1> QED BY <1>1, LoopExists
=============================================================================
