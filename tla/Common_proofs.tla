---------------------------- MODULE Common_proofs ----------------------------
(***************************************************************************)
(* What the proofs about every component rest on: least elements and       *)
(* induction over natural numbers, both for sets, and functions that are   *)
(* given by a first value and a step.                                      *)
(***************************************************************************)
EXTENDS Naturals, WellFoundedInduction, TLAPS

Less == {p \in Nat \X Nat : p[1] < p[2]}

(* A non-empty set of naturals has a least member. *)
LEMMA LeastNat ==
  ASSUME NEW S \in SUBSET Nat, S # {}
  PROVE  \E x \in S : \A y \in S : x <= y
<1>1. Less = OpToRel(<, Nat)
  BY Zenon DEF OpToRel, Less
<1>2. IsWellFoundedOn(Less, Nat)
  BY <1>1, NatLessThanWellFounded, Zenon
<1>3. PICK x \in S : \A y \in S : ~(<<y, x>> \in Less)
  BY <1>2, WFMin, Zenon
<1>4. ASSUME NEW y \in S PROVE x <= y
  <2>1. x \in Nat /\ y \in Nat
    OBVIOUS
  <2>2. ~(y < x)
    BY <1>3, <2>1 DEF Less
  <2> QED BY <2>1, <2>2
<1> QED BY <1>4

LEMMA PositionInduction ==
  ASSUME NEW n \in Nat, NEW S, 0 \in S, \A i \in 0..n : i < n /\ i \in S => i + 1 \in S
  PROVE  \A i \in 0..n : i \in S
<1> SUFFICES ASSUME NEW j \in 0..n, j \notin S PROVE FALSE
  OBVIOUS
<1> DEFINE T == {i \in 0..n : i \notin S}
<1>1. PICK m \in T : \A i \in T : m <= i
  <2>1. T \in SUBSET Nat /\ T # {}
    OBVIOUS
  <2> QED BY <2>1, LeastNat, Zenon
<1>2. m \in 0..n /\ m # 0
  BY <1>1
<1>3. m - 1 \in 0..n /\ m - 1 < n /\ (m - 1) + 1 = m /\ ~(m <= m - 1)
  BY <1>2
<1>4. m - 1 \notin T
  BY <1>1, <1>3
<1> QED BY <1>1, <1>3, <1>4

LEMMA NextPosition ==
  ASSUME NEW n \in Nat, NEW i \in 0..n, i < n
  PROVE  i + 1 \in 1..n /\ (i + 1) - 1 = i /\ i + 1 \in 0..n
OBVIOUS

LEMMA StaysIn ==
  ASSUME NEW n \in Nat, NEW A, NEW h, h[0] \in A, \A i \in 1..n : h[i - 1] \in A => h[i] \in A
  PROVE  \A i \in 0..n : h[i] \in A
<1> DEFINE S == {i \in 0..n : h[i] \in A}
<1>1. 0 \in S
  OBVIOUS
<1>2. ASSUME NEW i \in 0..n, i < n, i \in S PROVE i + 1 \in S
  <2>1. i + 1 \in 1..n /\ (i + 1) - 1 = i
    BY <1>2
  <2> QED BY <2>1, <1>2
<1> HIDE DEF S
<1>3. \A i \in 0..n : i < n /\ i \in S => i + 1 \in S
  BY <1>2
<1>4. \A i \in 0..n : i \in S
  BY <1>1, <1>3, PositionInduction, Zenon
<1> QED BY <1>4 DEF S

(* A function given by its first value and by a step exists. *)
TakesSteps(h, n, b, step) == h[0] = b /\ \A i \in 1..n : h[i] = step[i][h[i - 1]]

LEMMA StepsExist ==
  ASSUME NEW n \in Nat, NEW A, NEW b \in A, NEW step \in [1..n -> [A -> A]]
  PROVE  \E h \in [0..n -> A] : TakesSteps(h, n, b, step)
<1> DEFINE S == {m \in 0..n : \E h \in [0..m -> A] : h[0] = b /\ \A i \in 1..m : h[i] = step[i][h[i - 1]]}
<1>1. 0 \in S
  <2> DEFINE h == [i \in 0..0 |-> b]
  <2>1. h \in [0..0 -> A] /\ h[0] = b /\ \A i \in 1..0 : h[i] = step[i][h[i - 1]]
    OBVIOUS
  <2> HIDE DEF h
  <2> QED BY <2>1
<1>2. ASSUME NEW m \in 0..n, m < n, m \in S PROVE m + 1 \in S
  <2>1. PICK g \in [0..m -> A] : g[0] = b /\ \A i \in 1..m : g[i] = step[i][g[i - 1]]
    BY <1>2
  <2> DEFINE h == [i \in 0..(m + 1) |-> IF i <= m THEN g[i] ELSE step[m + 1][g[m]]]
  <2>2. step[m + 1][g[m]] \in A
    <3>1. m + 1 \in 1..n /\ g[m] \in A
      BY <1>2
    <3> QED BY <3>1
  <2>3. h \in [0..(m + 1) -> A]
    BY <2>2
  <2>4. h[0] = b
    BY <2>1
  <2>5. ASSUME NEW i \in 1..(m + 1) PROVE h[i] = step[i][h[i - 1]]
    <3>1. CASE i <= m
      <4>1. i \in 1..m /\ i - 1 <= m /\ i \in 0..(m + 1) /\ i - 1 \in 0..(m + 1)
        BY <3>1
      <4> QED BY <4>1, <2>1, <3>1
    <3>2. CASE ~(i <= m)
      <4>1. i = m + 1 /\ i - 1 = m /\ m \in 0..(m + 1) /\ m <= m
        BY <3>2
      <4> QED BY <4>1, <3>2
    <3> QED BY <3>1, <3>2
  <2> HIDE DEF h
  <2>6. m + 1 \in 0..n
    BY <1>2
  <2> QED BY <2>3, <2>4, <2>5, <2>6
<1> HIDE DEF S
<1>3. \A m \in 0..n : m < n /\ m \in S => m + 1 \in S
  BY <1>2
<1>4. n \in S
  <2>1. \A m \in 0..n : m \in S
    BY <1>1, <1>3, PositionInduction, Zenon
  <2> QED BY <2>1
<1> QED BY <1>4 DEF S, TakesSteps

LEMMA NaturalInduction ==
  ASSUME NEW S, 0 \in S, \A i \in Nat : i \in S => i + 1 \in S
  PROVE  \A i \in Nat : i \in S
<1> SUFFICES ASSUME NEW n \in Nat PROVE n \in S
  OBVIOUS
<1>1. \A i \in 0..n : i < n /\ i \in S => i + 1 \in S
  OBVIOUS
<1>2. \A i \in 0..n : i \in S
  BY <1>1, PositionInduction, Zenon
<1> QED BY <1>2

(* The same step over and over. *)
Iterates(h, b, step) == h[0] = b /\ \A i \in Nat : h[i + 1] = step[h[i]]

LEMMA IteratesExist ==
  ASSUME NEW A, NEW b \in A, NEW step \in [A -> A]
  PROVE  \E h \in [Nat -> A] : Iterates(h, b, step)
<1> DEFINE Upto(h, n) == h \in [0..n -> A] /\ h[0] = b /\ \A i \in 1..n : h[i] = step[h[i - 1]]
           first(n) == CHOOSE h : Upto(h, n)
           f == [n \in Nat |-> first(n)[n]]
<1>1. ASSUME NEW n \in Nat PROVE Upto(first(n), n)
  <2> DEFINE steps == [i \in 1..n |-> step]
  <2>1. steps \in [1..n -> [A -> A]]
    OBVIOUS
  <2>2. PICK h \in [0..n -> A] : TakesSteps(h, n, b, steps)
    <3> HIDE DEF steps
    <3> QED BY <2>1, StepsExist, Zenon
  <2>3. Upto(h, n)
    BY <2>2 DEF TakesSteps
  <2> HIDE DEF Upto
  <2> QED BY <2>3, Zenon
<1> HIDE DEF first
<1>2. ASSUME NEW n \in Nat PROVE first(n + 1)[n] = first(n)[n]
  <2> DEFINE S == {i \in 0..n : first(n + 1)[i] = first(n)[i]}
  <2>1. Upto(first(n), n) /\ Upto(first(n + 1), n + 1)
    BY <1>1
  <2>2. 0 \in S
    BY <2>1
  <2>3. ASSUME NEW i \in 0..n, i < n, i \in S PROVE i + 1 \in S
    <3>1. i + 1 \in 1..n /\ i + 1 \in 1..(n + 1) /\ (i + 1) - 1 = i
      BY <2>3
    <3>2. first(n + 1)[i + 1] = step[first(n + 1)[i]] /\ first(n)[i + 1] = step[first(n)[i]]
      BY <2>1, <3>1
    <3> QED BY <2>3, <3>1, <3>2
  <2> HIDE DEF S
  <2>4. \A i \in 0..n : i \in S
    BY <2>2, <2>3, PositionInduction
  <2>5. n \in S
    BY <2>4
  <2> QED BY <2>5 DEF S
<1>3. f \in [Nat -> A] /\ f[0] = b
  <2>1. ASSUME NEW n \in Nat PROVE first(n)[n] \in A
    BY <1>1
  <2> QED BY <1>1, <2>1
<1>4. ASSUME NEW n \in Nat PROVE f[n + 1] = step[f[n]]
  <2>1. n + 1 \in Nat /\ n + 1 \in 1..(n + 1) /\ (n + 1) - 1 = n
    OBVIOUS
  <2>2. first(n + 1)[n + 1] = step[first(n + 1)[n]]
    BY <1>1, <2>1
  <2>3. f[n + 1] = first(n + 1)[n + 1] /\ f[n] = first(n)[n]
    BY <2>1
  <2> QED BY <1>2, <2>2, <2>3
<1> HIDE DEF f
<1> QED BY <1>3, <1>4 DEF Iterates
==============================================================================
